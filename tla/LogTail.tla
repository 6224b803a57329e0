--------------------------------- MODULE LogTail ---------------------------------
(***************************************************************************)
(* What src/src/log_stream.h promises to those who read the log: a reader  *)
(* starts somewhere in the recent past, gets every byte once and in order, *)
(* and misses bytes only when it has fallen more than a window behind.     *)
(* Bytes are known by their position in the log, counted from the boot.    *)
(***************************************************************************)
EXTENDS Integers

CONSTANTS
  Readers,   \* reader slots
  Window     \* bytes of recent log that are kept

ASSUME WindowAssumption == Window \in Nat \ {0}

VARIABLES
  total,     \* bytes logged so far
  next       \* of each reader: the position it reads next, or NoPos

NoPos == -1

Oldest == IF total > Window THEN total - Window ELSE 0

TailInit ==
  /\ total = 0
  /\ next = [r \in Readers |-> NoPos]

Append ==
  /\ total' \in Nat /\ total' > total
  /\ UNCHANGED next

Subscribe(r) ==
  /\ next[r] = NoPos
  /\ \E p \in Oldest .. total : next' = [next EXCEPT ![r] = p]
  /\ UNCHANGED total

Unsubscribe(r) ==
  /\ next' = [next EXCEPT ![r] = NoPos]
  /\ UNCHANGED total

\* What r had not read in time is gone.
Skip(r) ==
  /\ next[r] # NoPos /\ next[r] < Oldest
  /\ next' = [next EXCEPT ![r] = Oldest]
  /\ UNCHANGED total

Deliver(r, n) ==
  /\ next[r] # NoPos /\ next[r] >= Oldest
  /\ next[r] + n <= total
  /\ next' = [next EXCEPT ![r] = next[r] + n]
  /\ UNCHANGED total

TailNext ==
  \/ Append
  \/ \E r \in Readers :
       \/ Subscribe(r) \/ Unsubscribe(r) \/ Skip(r)
       \/ \E n \in 1 .. Window : Deliver(r, n)

TailSpec == TailInit /\ [][TailNext]_<<total, next>>
===============================================================================
