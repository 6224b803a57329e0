------------------------------- MODULE LogStream -------------------------------
(***************************************************************************)
(* src/src/log_stream.c: the circular buffer that keeps the most recent    *)
(* log output, the hook that every log call runs, and the readers.         *)
(*                                                                         *)
(* Positions are 32-bit counters that wrap around; WordSize stands for     *)
(* 2^32.  A byte is known by its position in the log, so that a stale byte *)
(* cannot pass for a fresh one.  A reader holds s_mutex from the step that *)
(* looks at the positions to the step that copies; the hook only tries the *)
(* mutex and drops its line when it is taken.                              *)
(***************************************************************************)
EXTENDS Integers

CONSTANTS
  LOG_STREAM_BUF_BYTES,
  LOG_STREAM_MAX_READERS,
  WordSize,       \* 2^32
  MaxLine,        \* sizeof(line) - 1: longer lines are truncated
  MaxRead,        \* max_len of the calls of log_stream_read
  MaxTotal        \* BOUND: bytes logged in a behaviour

\* 8192 divides 2^32, and a line is far shorter than the buffer.
ASSUME BufAssumption == LOG_STREAM_BUF_BYTES \in Nat \ {0}
ASSUME WordAssumption ==
  /\ WordSize \in Nat /\ WordSize % LOG_STREAM_BUF_BYTES = 0
  /\ WordSize >= 2 * LOG_STREAM_BUF_BYTES
ASSUME LineAssumption ==
  /\ MaxLine \in Nat \ {0} /\ MaxLine <= LOG_STREAM_BUF_BYTES
  /\ MaxRead \in Nat \ {0}
ASSUME ReadersAssumption == LOG_STREAM_MAX_READERS \in Nat
ASSUME TotalAssumption == MaxTotal \in Nat

Word == 0 .. WordSize - 1
Cells == 0 .. LOG_STREAM_BUF_BYTES - 1
Readers == 0 .. LOG_STREAM_MAX_READERS - 1

\* Who holds s_mutex, when it is not a reader.
None == -1
Dumper == -2

VARIABLES
  s_buf, s_write_pos,
  active, read_pos,   \* the fields of s_readers
  s_mutex,            \* None, or the call that holds it
  n,                  \* local to that call: bytes it is about to copy
  out,                \* what the last call gave its caller
  total               \* auxiliary: bytes logged since the boot

vars == <<s_buf, s_write_pos, active, read_pos, s_mutex, n, out, total>>

Nothing == -1   \* what malloc left in the buffer

TypeOK ==
  /\ s_buf \in [Cells -> Nat \cup {Nothing}] /\ s_write_pos \in Word
  /\ active \in [Readers -> BOOLEAN] /\ read_pos \in [Readers -> Word]
  /\ s_mutex \in {None, Dumper} \cup Readers
  /\ n \in 0 .. LOG_STREAM_BUF_BYTES
  /\ DOMAIN out \subseteq 1 .. LOG_STREAM_BUF_BYTES
  /\ total \in Nat

-------------------------------------------------------------------------------
(* Unsigned arithmetic.                                                      *)

Plus(a, b) == IF a + b < WordSize THEN a + b ELSE a + b - WordSize
Minus(a, b) == IF a >= b THEN a - b ELSE a - b + WordSize

\* The cell of byte number i from position p on.
Cell(p, i) == Plus(p, i) % LOG_STREAM_BUF_BYTES

Smaller(a, b) == IF a < b THEN a ELSE b

-------------------------------------------------------------------------------
(* The hook.                                                                 *)

CopiedOfLine(len) == 0 .. len - 1

\* MUTANT: the hook does not look at the mutex.
HookMayWriteAlways == TRUE

HookMayWrite == s_mutex = None

\* How far reader r is behind.
Avail(r) == Minus(s_write_pos, read_pos[r])

\* No reader that is to read again sleeps while the counter goes once around,
\* which takes 4 GB of log.
NobodyAWordBehind(len) == \A r \in Readers : active[r] => Avail(r) + len < WordSize

LogLine(len) ==
  /\ HookMayWrite
  /\ total + len <= MaxTotal /\ NobodyAWordBehind(len)
  /\ s_buf' = [c \in Cells |->
                 LET hit == {i \in CopiedOfLine(len) : Cell(s_write_pos, i) = c}
                 IN  IF hit = {} THEN s_buf[c]
                     ELSE total + (CHOOSE i \in hit : \A j \in hit : j <= i)]
  /\ s_write_pos' = Plus(s_write_pos, len)
  /\ total' = total + len
  /\ UNCHANGED <<active, read_pos, s_mutex, n, out>>

\* Under contention the line is not captured.
LogLineDropped ==
  /\ s_mutex # None
  /\ UNCHANGED vars

-------------------------------------------------------------------------------
(* The readers.                                                              *)

\* log_stream_subscribe: the first free slot, from the oldest byte held, or
\* from position 0 while the counter is still (or again) that small.
Subscribe(r) ==
  /\ s_mutex = None
  /\ ~active[r] /\ \A q \in Readers : q < r => active[q]
  /\ active' = [active EXCEPT ![r] = TRUE]
  /\ read_pos' = [read_pos EXCEPT ![r] =
                    IF s_write_pos > LOG_STREAM_BUF_BYTES
                    THEN s_write_pos - LOG_STREAM_BUF_BYTES ELSE 0]
  /\ UNCHANGED <<s_buf, s_write_pos, s_mutex, n, out, total>>

\* By the task that reads, so not during its own log_stream_read.
Unsubscribe(r) ==
  /\ s_mutex = None
  /\ active[r] /\ active' = [active EXCEPT ![r] = FALSE]
  /\ UNCHANGED <<s_buf, s_write_pos, read_pos, s_mutex, n, out, total>>

\* MUTANT: a reader that was overtaken reads on where it was.
CaughtUpNot(r) == read_pos[r]

\* A reader that was overtaken goes on with the oldest byte held.
CaughtUp(r) ==
  IF Avail(r) > LOG_STREAM_BUF_BYTES
  THEN Minus(s_write_pos, LOG_STREAM_BUF_BYTES) ELSE read_pos[r]

\* One pass through the loop of log_stream_read, up to the copying.
ReadLooks(r) ==
  /\ s_mutex = None /\ active[r]
  /\ s_mutex' = r
  /\ read_pos' = [read_pos EXCEPT ![r] = CaughtUp(r)]
  /\ n' = Smaller(Smaller(Avail(r), LOG_STREAM_BUF_BYTES), MaxRead)
  /\ UNCHANGED <<s_buf, s_write_pos, active, out, total>>

\* Nothing there: it returns at the deadline, or sleeps and looks again.
ReadNothing(r) ==
  /\ s_mutex = r /\ n = 0
  /\ s_mutex' = None
  /\ UNCHANGED <<s_buf, s_write_pos, active, read_pos, n, out, total>>

Copied(p) == [i \in 1 .. n |-> s_buf[Cell(p, i - 1)]]

ReadCopies(r) ==
  /\ s_mutex = r /\ n > 0
  /\ out' = Copied(read_pos[r])
  /\ read_pos' = [read_pos EXCEPT ![r] = Plus(read_pos[r], n)]
  /\ s_mutex' = None /\ n' = 0
  /\ UNCHANGED <<s_buf, s_write_pos, active, total>>

\* log_stream_dump, whose caller has room for the whole buffer.
DumpLooks ==
  /\ s_mutex = None /\ s_mutex' = Dumper
  /\ n' = Smaller(s_write_pos, LOG_STREAM_BUF_BYTES)
  /\ UNCHANGED <<s_buf, s_write_pos, active, read_pos, out, total>>

DumpCopies ==
  /\ s_mutex = Dumper
  /\ out' = Copied(Minus(s_write_pos, n))
  /\ s_mutex' = None /\ n' = 0
  /\ UNCHANGED <<s_buf, s_write_pos, active, read_pos, total>>

-------------------------------------------------------------------------------

\* log_stream_init; the buffer is not cleared.
Init ==
  /\ s_buf = [c \in Cells |-> Nothing] /\ s_write_pos = 0
  /\ active = [r \in Readers |-> FALSE] /\ read_pos = [r \in Readers |-> 0]
  /\ s_mutex = None /\ n = 0 /\ out = <<>> /\ total = 0

Next ==
  \/ \E len \in 1 .. MaxLine : LogLine(len)
  \/ LogLineDropped
  \/ \E r \in Readers :
       \/ Subscribe(r) \/ Unsubscribe(r)
       \/ ReadLooks(r) \/ ReadNothing(r) \/ ReadCopies(r)
  \/ DumpLooks \/ DumpCopies

Spec == Init /\ [][Next]_vars

-------------------------------------------------------------------------------
(* What is to hold.                                                          *)

\* The position, in the whole log, of the byte that reader r reads next.
TailPos(r) == total - Avail(r)

\* The buffer holds the most recent bytes, all of them and each in the cell
\* where a reader with a position in the window looks for it, also after the
\* counter has wrapped around.
WindowHeld ==
  \A d \in 1 .. Smaller(total, LOG_STREAM_BUF_BYTES) :
    s_buf[Cell(Minus(s_write_pos, d), 0)] = total - d

\* A read gives its caller the bytes from its position on, in order and without
\* a stale or overwritten one, and a snapshot those just before the end.
ReadsAreLog ==
  [][/\ \A r \in Readers :
          ReadCopies(r) => out' = [i \in 1 .. n |-> TailPos(r) + i - 1]
     /\ DumpCopies => out' = [i \in 1 .. n |-> total - n + i - 1]]_vars

\* The ring buffer implements the log of LogTail: what a reader gets is
\* consecutive, but for the bytes that were more than the buffer's size behind.
Log == INSTANCE LogTail WITH
         Window <- LOG_STREAM_BUF_BYTES,
         next <- [r \in Readers |-> IF active[r] THEN TailPos(r) ELSE -1]

LogSpec == Log!TailSpec
===============================================================================
