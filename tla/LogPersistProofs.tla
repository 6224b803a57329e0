---------------------------- MODULE LogPersistProofs ----------------------------
(***************************************************************************)
(* Theorems about LogPersist, for any number of reader slots, any sizes    *)
(* and limits, and a restart at any step.                                  *)
(***************************************************************************)
EXTENDS LogPersist, TLAPS

-------------------------------------------------------------------------------
(* The inductive invariant.                                                  *)

\* TypeOK, in parts.
LogTypes ==
  /\ total \in 0 .. MaxTotal /\ next \in [Readers -> {NoPos} \cup 0 .. MaxTotal]
  /\ s_reader \in {NoReader} \cup Readers
FlagTypes ==
  /\ cfg \in BOOLEAN /\ nvs \in BOOLEAN /\ s_active \in BOOLEAN
  /\ s_stop_requested \in BOOLEAN /\ s_fp \in BOOLEAN /\ mounted \in BOOLEAN
  /\ s_stopped_sem \in BOOLEAN /\ booting \in BOOLEAN /\ refused \in BOOLEAN
PlaceTypes == set \in SetPCs /\ flush \in FlushPCs /\ tab \in [Readers -> TabStates]
CountTypes ==
  /\ s_written \in 0 .. LOG_PERSIST_MAX_BYTES + MaxRead - 1 /\ got \in 0 .. MaxRead
FileTypes ==
  /\ current \in Files /\ previous \in Files
  /\ session \in 0 .. MaxSessions /\ tries \in 0 .. 2

TypeInv == LogTypes /\ FlagTypes /\ PlaceTypes /\ CountTypes /\ FileTypes

Off == flush = "none" /\ ~s_stopped_sem /\ ~s_active
On == flush \in {"top", "write"} /\ ~s_stop_requested /\ ~s_stopped_sem

\* Where the two tasks can be at the same time, and what they then hold.
Stages ==
  /\ set \in {"boot", "mount", "failed"} =>
       Off /\ s_reader = NoReader /\ ~s_fp /\ ~mounted
  /\ set \in {"remove", "rename", "open"} =>
       Off /\ s_reader = NoReader /\ ~s_fp /\ mounted
  /\ set = "subscribe" => Off /\ s_reader = NoReader /\ s_fp /\ mounted
  /\ set = "spawn" => Off /\ s_reader # NoReader /\ s_fp /\ mounted /\ ~s_stop_requested
  /\ set = "spawned" => On /\ ~s_active
  /\ set = "wait" => s_stop_requested /\ s_active /\ (s_stopped_sem <=> flush = "none")
  /\ set \in {"idle", "save"} =>
       \/ s_active /\ On
       \/ Off /\ s_reader = NoReader /\ ~s_fp /\ ~mounted
  /\ flush \in {"top", "write", "unsubscribe"} => s_reader # NoReader /\ s_fp /\ mounted
  /\ flush \in {"unsubscribe", "close", "give"} => set = "wait"
  /\ flush = "close" => s_reader = NoReader /\ s_fp /\ mounted
  /\ flush = "give" => s_reader = NoReader /\ ~s_fp /\ ~mounted
  /\ set = "wait" /\ flush = "none" => s_reader = NoReader /\ ~s_fp /\ ~mounted

\* There is room when flush_task reads, and it writes no more than it has read.
Limit == flush = "write" => s_written < LOG_PERSIST_MAX_BYTES

\* Slots are taken by those who hold them, and by one only.
Slots ==
  /\ s_reader # NoReader => next[s_reader] # NoPos /\ tab[s_reader] = "none"
  /\ \A r \in Readers : tab[r] # "none" => next[r] # NoPos

\* What the flag is worth on the way.
Config ==
  /\ set = "boot" => booting /\ nvs = cfg
  /\ set \in {"idle", "save"} => s_active = cfg
  /\ set = "idle" => nvs = cfg
  /\ set = "wait" => cfg
  /\ set \in {"mount", "remove", "rename", "open", "subscribe", "spawn", "failed"}
       /\ ~booting => ~cfg /\ ~nvs

\* Where the last session's log is, attempt by attempt and step by step.
LogKept ==
  session > 0 =>
    /\ tries = 0 => /\ current = session /\ ~refused
                    /\ set \notin {"rename", "open", "subscribe", "spawn"}
    /\ tries = 1 /\ ~refused =>
         /\ session \in {current, previous}
         /\ set = "rename" => current = session /\ previous = NoFile
         /\ set \in {"open", "subscribe", "spawn"} => previous = session

IInv == TypeInv /\ Stages /\ Limit /\ Slots /\ Config /\ LogKept

-------------------------------------------------------------------------------
(* The initial states.                                                       *)

\* What is assumed of the constants, in one place.
LEMMA Constants ==
  /\ Readers \subseteq Nat /\ NoReader \notin Readers
  /\ MaxTotal \in Nat /\ MaxSessions \in Nat /\ MaxRead \in Nat \ {0}
  /\ LOG_PERSIST_MAX_BYTES \in Nat \ {0}
BY ReadersAssumption, BoundsAssumption, CapAssumption,
   ReadAssumption DEF NoReader

\* What holds before app_main's first step.
LEMMA InitInv == Init => IInv
<1> SUFFICES ASSUME Init PROVE IInv OBVIOUS
<1>1. TypeInv
  <2>1. LogTypes BY Constants DEF Init, TailInit, LogTypes, NoReader
  <2>2. FlagTypes BY DEF Init, FlagTypes
  <2>3. PlaceTypes BY DEF Init, PlaceTypes, SetPCs, FlushPCs, TabStates
  <2>4. CountTypes BY Constants DEF Init, CountTypes
  <2>5. FileTypes BY Constants DEF Init, FileTypes, Files
  <2> QED BY <2>1, <2>2, <2>3, <2>4, <2>5 DEF TypeInv
<1>2. Stages BY DEF Init, Stages, Off
<1>3. Limit BY DEF Init, Limit
<1>4. Slots BY DEF Init, TailInit, Slots
<1>5. Config BY DEF Init, Config
<1>6. LogKept BY DEF Init, LogKept
<1> QED BY <1>1, <1>2, <1>3, <1>4, <1>5, <1>6 DEF IInv

-------------------------------------------------------------------------------
(* Every step keeps the invariant, one part at a time.                       *)

\* A slot that is taken has a position, and the others keep theirs.
LEMMA SubscribeSlot ==
  ASSUME LogTypes, NEW r \in Readers, Subscribe(r)
  PROVE  /\ total' = total /\ next' \in [Readers -> {NoPos} \cup 0 .. MaxTotal]
         /\ next'[r] # NoPos
         /\ \A q \in Readers \ {r} : next'[q] = next[q]
<1>1. Oldest \in 0 .. MaxTotal
  BY Constants, WindowAssumption DEF LogTypes, Oldest
<1>2. PICK p \in Oldest .. total : next' = [next EXCEPT ![r] = p]
  BY DEF Subscribe
<1>3. p \in 0 .. MaxTotal /\ p # NoPos
  BY <1>1, Constants DEF LogTypes, NoPos
<1> QED BY <1>2, <1>3 DEF LogTypes, Subscribe

\* A slot that is read keeps a position within the log.
LEMMA ReadSlot ==
  ASSUME LogTypes, NEW r \in Readers, Skip(r) \/ \E k \in 1 .. MaxRead : Deliver(r, k)
  PROVE  /\ total' = total /\ next' \in [Readers -> {NoPos} \cup 0 .. MaxTotal]
<1>1. Oldest \in 0 .. MaxTotal
  BY Constants, WindowAssumption DEF LogTypes, Oldest
<1>2. CASE Skip(r)
  BY <1>1, <1>2 DEF Skip, LogTypes
<1>3. ASSUME NEW k \in 1 .. MaxRead, Deliver(r, k) PROVE next[r] + k \in 0 .. MaxTotal
  BY <1>1, <1>3, Constants DEF Deliver, LogTypes, NoPos
<1> QED BY <1>2, <1>3 DEF Deliver, LogTypes

\* Types are kept, the limit of the file among them.
LEMMA TypeInvStep ==
  ASSUME TypeInv, Limit, Stages, [Next]_vars
  PROVE  TypeInv'
<1> USE Constants DEF TypeInv, Limit, Stages,
      logVars, fileVars, flagVars, flushVars, ghosts, At, Goto
<1>1. CASE Restart
  <2>1. LogTypes'
    BY <1>1 DEF LogTypes, Restart, Fresh
  <2>2. FlagTypes'
    BY <1>1 DEF FlagTypes, Restart, Fresh
  <2>3. PlaceTypes'
    BY <1>1 DEF PlaceTypes, SetPCs, FlushPCs, TabStates, Restart, Fresh
  <2>4. CountTypes'
    BY <1>1 DEF CountTypes, Restart, Fresh
  <2>5. FileTypes'
    BY <1>1 DEF FileTypes, Files, NoFile, Blank, Restart, Fresh
  <2> QED BY <2>1, <2>2, <2>3, <2>4, <2>5
<1>2. CASE ToggleOn
  <2>1. LogTypes'
    BY <1>2 DEF LogTypes, ToggleOn
  <2>2. FlagTypes'
    BY <1>2 DEF FlagTypes, ToggleOn
  <2>3. PlaceTypes'
    BY <1>2 DEF PlaceTypes, SetPCs, FlushPCs, TabStates, ToggleOn
  <2>4. CountTypes'
    BY <1>2 DEF CountTypes, ToggleOn
  <2>5. FileTypes'
    BY <1>2 DEF FileTypes, Files, NoFile, Blank, ToggleOn
  <2> QED BY <2>1, <2>2, <2>3, <2>4, <2>5
<1>3. CASE ToggleOff
  <2>1. LogTypes'
    BY <1>3 DEF LogTypes, ToggleOff
  <2>2. FlagTypes'
    BY <1>3 DEF FlagTypes, ToggleOff
  <2>3. PlaceTypes'
    BY <1>3 DEF PlaceTypes, SetPCs, FlushPCs, TabStates, ToggleOff
  <2>4. CountTypes'
    BY <1>3 DEF CountTypes, ToggleOff
  <2>5. FileTypes'
    BY <1>3 DEF FileTypes, Files, NoFile, Blank, ToggleOff
  <2> QED BY <2>1, <2>2, <2>3, <2>4, <2>5
<1>4. CASE BootBegins
  <2>1. LogTypes'
    BY <1>4 DEF LogTypes, BootBegins
  <2>2. FlagTypes'
    BY <1>4 DEF FlagTypes, BootBegins
  <2>3. PlaceTypes'
    BY <1>4 DEF PlaceTypes, SetPCs, FlushPCs, TabStates, BootBegins
  <2>4. CountTypes'
    BY <1>4 DEF CountTypes, BootBegins
  <2>5. FileTypes'
    BY <1>4 DEF FileTypes, Files, NoFile, Blank, BootBegins
  <2> QED BY <2>1, <2>2, <2>3, <2>4, <2>5
<1>5. CASE Mount
  <2>1. LogTypes'
    BY <1>5 DEF LogTypes, Mount
  <2>2. FlagTypes'
    BY <1>5 DEF FlagTypes, Mount
  <2>3. PlaceTypes'
    BY <1>5 DEF PlaceTypes, SetPCs, FlushPCs, TabStates, Mount
  <2>4. CountTypes'
    BY <1>5 DEF CountTypes, Mount
  <2>5. FileTypes'
    BY <1>5 DEF FileTypes, Files, NoFile, Blank, Mount
  <2> QED BY <2>1, <2>2, <2>3, <2>4, <2>5
<1>6. CASE Remove
  <2>1. LogTypes'
    BY <1>6 DEF LogTypes, Remove, Removed
  <2>2. FlagTypes'
    BY <1>6 DEF FlagTypes, Remove, Removed
  <2>3. PlaceTypes'
    BY <1>6 DEF PlaceTypes, SetPCs, FlushPCs, TabStates, Remove, Removed
  <2>4. CountTypes'
    BY <1>6 DEF CountTypes, Remove, Removed
  <2>5. FileTypes'
    BY <1>6 DEF FileTypes, Files, NoFile, Blank, Remove, Removed
  <2> QED BY <2>1, <2>2, <2>3, <2>4, <2>5
<1>7. CASE RenameStep
  <2>1. LogTypes'
    BY <1>7 DEF LogTypes, RenameStep, Rename
  <2>2. FlagTypes'
    BY <1>7 DEF FlagTypes, RenameStep, Rename
  <2>3. PlaceTypes'
    BY <1>7 DEF PlaceTypes, SetPCs, FlushPCs, TabStates, RenameStep, Rename
  <2>4. CountTypes'
    BY <1>7 DEF CountTypes, RenameStep, Rename
  <2>5. FileTypes'
    BY <1>7 DEF FileTypes, Files, NoFile, Blank, RenameStep, Rename
  <2> QED BY <2>1, <2>2, <2>3, <2>4, <2>5
<1>8. CASE Open
  <2>1. LogTypes'
    BY <1>8 DEF LogTypes, Open, Undo
  <2>2. FlagTypes'
    BY <1>8 DEF FlagTypes, Open, Undo
  <2>3. PlaceTypes'
    BY <1>8 DEF PlaceTypes, SetPCs, FlushPCs, TabStates, Open, Undo
  <2>4. CountTypes'
    <3>1. 0 \in 0 .. LOG_PERSIST_MAX_BYTES + MaxRead - 1 BY Constants
    <3> QED BY <1>8, <3>1 DEF CountTypes, Open
  <2>5. FileTypes'
    BY <1>8 DEF FileTypes, Files, NoFile, Blank, Open, Undo
  <2> QED BY <2>1, <2>2, <2>3, <2>4, <2>5
<1>9. CASE SubscribeStep
  <2>1. LogTypes'
    <3>1. CASE \E r \in Readers : Subscribe(r) /\ s_reader' = r
      <4> PICK r \in Readers : Subscribe(r) /\ s_reader' = r BY <3>1
      <4> QED BY SubscribeSlot DEF LogTypes
    <3>2. CASE UNCHANGED <<logVars, s_reader>>
      BY <3>2 DEF LogTypes, logVars
    <3> QED BY <1>9, <3>1, <3>2 DEF SubscribeStep
  <2>2. FlagTypes'
    BY <1>9 DEF FlagTypes, SubscribeStep, Undo, FirstFree, Subscribe, Oldest
  <2>3. PlaceTypes'
    BY <1>9 DEF PlaceTypes, SetPCs, FlushPCs, TabStates, SubscribeStep, Undo,
       FirstFree, Subscribe, Oldest
  <2>4. CountTypes'
    BY <1>9 DEF CountTypes, SubscribeStep, Undo, FirstFree, Subscribe, Oldest
  <2>5. FileTypes'
    BY <1>9 DEF FileTypes, Files, NoFile, Blank, SubscribeStep, Undo,
       FirstFree, Subscribe, Oldest
  <2> QED BY <2>1, <2>2, <2>3, <2>4, <2>5
<1>10. CASE Spawn
  <2>1. LogTypes'
    BY <1>10 DEF LogTypes, Spawn
  <2>2. FlagTypes'
    BY <1>10 DEF FlagTypes, Spawn
  <2>3. PlaceTypes'
    BY <1>10 DEF PlaceTypes, SetPCs, FlushPCs, TabStates, Spawn
  <2>4. CountTypes'
    BY <1>10 DEF CountTypes, Spawn
  <2>5. FileTypes'
    BY <1>10 DEF FileTypes, Files, NoFile, Blank, Spawn
  <2> QED BY <2>1, <2>2, <2>3, <2>4, <2>5
<1>11. CASE SpawnFails
  <2>1. LogTypes'
    BY <1>11 DEF LogTypes, SpawnFails, Undo, Unsubscribe
  <2>2. FlagTypes'
    BY <1>11 DEF FlagTypes, SpawnFails, Undo, Unsubscribe
  <2>3. PlaceTypes'
    BY <1>11 DEF PlaceTypes, SetPCs, FlushPCs, TabStates, SpawnFails, Undo,
       Unsubscribe
  <2>4. CountTypes'
    BY <1>11 DEF CountTypes, SpawnFails, Undo, Unsubscribe
  <2>5. FileTypes'
    BY <1>11 DEF FileTypes, Files, NoFile, Blank, SpawnFails, Undo, Unsubscribe
  <2> QED BY <2>1, <2>2, <2>3, <2>4, <2>5
<1>12. CASE Spawned
  <2>1. LogTypes'
    BY <1>12 DEF LogTypes, Spawned
  <2>2. FlagTypes'
    BY <1>12 DEF FlagTypes, Spawned
  <2>3. PlaceTypes'
    BY <1>12 DEF PlaceTypes, SetPCs, FlushPCs, TabStates, Spawned
  <2>4. CountTypes'
    BY <1>12 DEF CountTypes, Spawned
  <2>5. FileTypes'
    BY <1>12 DEF FileTypes, Files, NoFile, Blank, Spawned
  <2> QED BY <2>1, <2>2, <2>3, <2>4, <2>5
<1>13. CASE Failed
  <2>1. LogTypes'
    BY <1>13 DEF LogTypes, Failed, BootGivesUp
  <2>2. FlagTypes'
    BY <1>13 DEF FlagTypes, Failed, BootGivesUp
  <2>3. PlaceTypes'
    BY <1>13 DEF PlaceTypes, SetPCs, FlushPCs, TabStates, Failed, BootGivesUp
  <2>4. CountTypes'
    BY <1>13 DEF CountTypes, Failed, BootGivesUp
  <2>5. FileTypes'
    BY <1>13 DEF FileTypes, Files, NoFile, Blank, Failed, BootGivesUp
  <2> QED BY <2>1, <2>2, <2>3, <2>4, <2>5
<1>14. CASE Stopped
  <2>1. LogTypes'
    BY <1>14 DEF LogTypes, Stopped, MayGoOn
  <2>2. FlagTypes'
    BY <1>14 DEF FlagTypes, Stopped, MayGoOn
  <2>3. PlaceTypes'
    BY <1>14 DEF PlaceTypes, SetPCs, FlushPCs, TabStates, Stopped, MayGoOn
  <2>4. CountTypes'
    BY <1>14 DEF CountTypes, Stopped, MayGoOn
  <2>5. FileTypes'
    BY <1>14 DEF FileTypes, Files, NoFile, Blank, Stopped, MayGoOn
  <2> QED BY <2>1, <2>2, <2>3, <2>4, <2>5
<1>15. CASE Save
  <2>1. LogTypes'
    BY <1>15 DEF LogTypes, Save
  <2>2. FlagTypes'
    BY <1>15 DEF FlagTypes, Save
  <2>3. PlaceTypes'
    BY <1>15 DEF PlaceTypes, SetPCs, FlushPCs, TabStates, Save
  <2>4. CountTypes'
    BY <1>15 DEF CountTypes, Save
  <2>5. FileTypes'
    BY <1>15 DEF FileTypes, Files, NoFile, Blank, Save
  <2> QED BY <2>1, <2>2, <2>3, <2>4, <2>5
<1>16. CASE FlushEnds
  <2>1. LogTypes'
    BY <1>16 DEF LogTypes, FlushEnds, FlushStops
  <2>2. FlagTypes'
    BY <1>16 DEF FlagTypes, FlushEnds, FlushStops
  <2>3. PlaceTypes'
    BY <1>16 DEF PlaceTypes, SetPCs, FlushPCs, TabStates, FlushEnds, FlushStops
  <2>4. CountTypes'
    BY <1>16 DEF CountTypes, FlushEnds, FlushStops
  <2>5. FileTypes'
    BY <1>16 DEF FileTypes, Files, NoFile, Blank, FlushEnds, FlushStops
  <2> QED BY <2>1, <2>2, <2>3, <2>4, <2>5
<1>17. CASE FlushReads
  <2>1. LogTypes'
    <3>1. s_reader \in Readers
      BY <1>17 DEF FlushReads, Stages, LogTypes
    <3> QED BY <1>17, <3>1, ReadSlot DEF FlushReads, LogTypes
  <2>2. FlagTypes'
    BY <1>17 DEF FlagTypes, FlushReads, Room, Skip, Deliver, Oldest
  <2>3. PlaceTypes'
    BY <1>17 DEF PlaceTypes, SetPCs, FlushPCs, TabStates, FlushReads, Room,
       Skip, Deliver, Oldest
  <2>4. CountTypes'
    BY <1>17 DEF CountTypes, FlushReads, Room, Skip, Deliver, Oldest
  <2>5. FileTypes'
    BY <1>17 DEF FileTypes, Files, NoFile, Blank, FlushReads, Room, Skip,
       Deliver, Oldest
  <2> QED BY <2>1, <2>2, <2>3, <2>4, <2>5
<1>18. CASE FlushWrites
  <2>1. LogTypes'
    BY <1>18 DEF LogTypes, FlushWrites
  <2>2. FlagTypes'
    BY <1>18 DEF FlagTypes, FlushWrites
  <2>3. PlaceTypes'
    BY <1>18 DEF PlaceTypes, SetPCs, FlushPCs, TabStates, FlushWrites
  <2>4. CountTypes'
    BY <1>18 DEF CountTypes, FlushWrites
  <2>5. FileTypes'
    BY <1>18 DEF FileTypes, Files, NoFile, Blank, FlushWrites
  <2> QED BY <2>1, <2>2, <2>3, <2>4, <2>5
<1>19. CASE FlushUnsubscribes
  <2>1. LogTypes'
    BY <1>19 DEF LogTypes, FlushUnsubscribes, Unsubscribe
  <2>2. FlagTypes'
    BY <1>19 DEF FlagTypes, FlushUnsubscribes, Unsubscribe
  <2>3. PlaceTypes'
    BY <1>19 DEF PlaceTypes, SetPCs, FlushPCs, TabStates, FlushUnsubscribes,
       Unsubscribe
  <2>4. CountTypes'
    BY <1>19 DEF CountTypes, FlushUnsubscribes, Unsubscribe
  <2>5. FileTypes'
    BY <1>19 DEF FileTypes, Files, NoFile, Blank, FlushUnsubscribes, Unsubscribe
  <2> QED BY <2>1, <2>2, <2>3, <2>4, <2>5
<1>20. CASE FlushCloses
  <2>1. LogTypes'
    BY <1>20 DEF LogTypes, FlushCloses
  <2>2. FlagTypes'
    BY <1>20 DEF FlagTypes, FlushCloses
  <2>3. PlaceTypes'
    BY <1>20 DEF PlaceTypes, SetPCs, FlushPCs, TabStates, FlushCloses
  <2>4. CountTypes'
    BY <1>20 DEF CountTypes, FlushCloses
  <2>5. FileTypes'
    BY <1>20 DEF FileTypes, Files, NoFile, Blank, FlushCloses
  <2> QED BY <2>1, <2>2, <2>3, <2>4, <2>5
<1>21. CASE FlushGives
  <2>1. LogTypes'
    BY <1>21 DEF LogTypes, FlushGives
  <2>2. FlagTypes'
    BY <1>21 DEF FlagTypes, FlushGives
  <2>3. PlaceTypes'
    BY <1>21 DEF PlaceTypes, SetPCs, FlushPCs, TabStates, FlushGives
  <2>4. CountTypes'
    BY <1>21 DEF CountTypes, FlushGives
  <2>5. FileTypes'
    BY <1>21 DEF FileTypes, Files, NoFile, Blank, FlushGives
  <2> QED BY <2>1, <2>2, <2>3, <2>4, <2>5
<1>22. CASE Logged
  <2>1. LogTypes'
    BY <1>22 DEF LogTypes, Logged, Others
  <2>2. FlagTypes'
    BY <1>22 DEF FlagTypes, Logged, Others
  <2>3. PlaceTypes'
    BY <1>22 DEF PlaceTypes, SetPCs, FlushPCs, TabStates, Logged, Others
  <2>4. CountTypes'
    BY <1>22 DEF CountTypes, Logged, Others
  <2>5. FileTypes'
    BY <1>22 DEF FileTypes, Files, NoFile, Blank, Logged, Others
  <2> QED BY <2>1, <2>2, <2>3, <2>4, <2>5
<1>23. ASSUME NEW r \in Readers, TabOpens(r) PROVE TypeInv'
  <2>1. LogTypes'
    BY <1>23, SubscribeSlot DEF TabOpens, Others, LogTypes
  <2>2. FlagTypes'
    BY <1>23 DEF FlagTypes, TabOpens, Others, FirstFree, Subscribe, Oldest
  <2>3. PlaceTypes'
    BY <1>23 DEF PlaceTypes, SetPCs, FlushPCs, TabStates, TabOpens, Others,
       FirstFree, Subscribe, Oldest
  <2>4. CountTypes'
    BY <1>23 DEF CountTypes, TabOpens, Others, FirstFree, Subscribe, Oldest
  <2>5. FileTypes'
    BY <1>23 DEF FileTypes, Files, NoFile, Blank, TabOpens, Others, FirstFree,
       Subscribe, Oldest
  <2> QED BY <2>1, <2>2, <2>3, <2>4, <2>5
<1>24. ASSUME NEW r \in Readers, BrowserLeaves(r) PROVE TypeInv'
  <2>1. LogTypes'
    BY <1>24 DEF LogTypes, BrowserLeaves, Others
  <2>2. FlagTypes'
    BY <1>24 DEF FlagTypes, BrowserLeaves, Others
  <2>3. PlaceTypes'
    BY <1>24 DEF PlaceTypes, SetPCs, FlushPCs, TabStates, BrowserLeaves, Others
  <2>4. CountTypes'
    BY <1>24 DEF CountTypes, BrowserLeaves, Others
  <2>5. FileTypes'
    BY <1>24 DEF FileTypes, Files, NoFile, Blank, BrowserLeaves, Others
  <2> QED BY <2>1, <2>2, <2>3, <2>4, <2>5
<1>25. ASSUME NEW r \in Readers, TabReads(r) PROVE TypeInv'
  <2>1. LogTypes'
    BY <1>25, ReadSlot DEF TabReads, Others, LogTypes
  <2>2. FlagTypes'
    BY <1>25 DEF FlagTypes, TabReads, Others, Skip, Deliver, Oldest
  <2>3. PlaceTypes'
    BY <1>25 DEF PlaceTypes, SetPCs, FlushPCs, TabStates, TabReads, Others,
       Skip, Deliver, Oldest
  <2>4. CountTypes'
    BY <1>25 DEF CountTypes, TabReads, Others, Skip, Deliver, Oldest
  <2>5. FileTypes'
    BY <1>25 DEF FileTypes, Files, NoFile, Blank, TabReads, Others, Skip,
       Deliver, Oldest
  <2> QED BY <2>1, <2>2, <2>3, <2>4, <2>5
<1>26. ASSUME NEW r \in Readers, TabSendFails(r) PROVE TypeInv'
  <2>1. LogTypes'
    BY <1>26 DEF LogTypes, TabSendFails, Others, Unsubscribe
  <2>2. FlagTypes'
    BY <1>26 DEF FlagTypes, TabSendFails, Others, Unsubscribe
  <2>3. PlaceTypes'
    BY <1>26 DEF PlaceTypes, SetPCs, FlushPCs, TabStates, TabSendFails, Others,
       Unsubscribe
  <2>4. CountTypes'
    BY <1>26 DEF CountTypes, TabSendFails, Others, Unsubscribe
  <2>5. FileTypes'
    BY <1>26 DEF FileTypes, Files, NoFile, Blank, TabSendFails, Others,
       Unsubscribe
  <2> QED BY <2>1, <2>2, <2>3, <2>4, <2>5
<1>27. CASE UNCHANGED vars
  <2> USE <1>27 DEF vars
  <2>1. LogTypes' BY DEF LogTypes
  <2>2. FlagTypes' BY DEF FlagTypes
  <2>3. PlaceTypes' BY DEF PlaceTypes
  <2>4. CountTypes' BY DEF CountTypes
  <2>5. FileTypes' BY DEF FileTypes
  <2> QED BY <2>1, <2>2, <2>3, <2>4, <2>5
<1> QED
  BY <1>1, <1>2, <1>3, <1>4, <1>5, <1>6, <1>7, <1>8, <1>9, <1>10, <1>11, 
     <1>12, <1>13, <1>14, <1>15, <1>16, <1>17, <1>18, <1>19, <1>20, <1>21, 
     <1>22, <1>23, <1>24, <1>25, <1>26, <1>27 DEF Next, Setter, Flusher

\* The stages follow each other.
LEMMA StagesStep ==
  ASSUME TypeInv, Stages, [Next]_vars
  PROVE  Stages'
<1> USE Constants DEF TypeInv, Stages, Off, On, NoReader, PlaceTypes,
       FlagTypes, SetPCs, FlushPCs,
      logVars, fileVars, flagVars, flushVars, ghosts, At, Goto
<1>1. CASE Restart
  BY <1>1 DEF Restart, Fresh
<1>2. CASE ToggleOn
  BY <1>2 DEF ToggleOn
<1>3. CASE ToggleOff
  BY <1>3 DEF ToggleOff
<1>4. CASE BootBegins
  BY <1>4 DEF BootBegins
<1>5. CASE Mount
  BY <1>5 DEF Mount
<1>6. CASE Remove
  BY <1>6 DEF Remove, Removed
<1>7. CASE RenameStep
  BY <1>7 DEF RenameStep, Rename
<1>8. CASE Open
  BY <1>8 DEF Open, Undo
<1>9. CASE SubscribeStep
  BY <1>9 DEF SubscribeStep, Undo, FirstFree, Subscribe, Oldest
<1>10. CASE Spawn
  BY <1>10 DEF Spawn
<1>11. CASE SpawnFails
  BY <1>11 DEF SpawnFails, Undo, Unsubscribe
<1>12. CASE Spawned
  BY <1>12 DEF Spawned
<1>13. CASE Failed
  BY <1>13 DEF Failed, BootGivesUp
<1>14. CASE Stopped
  BY <1>14 DEF Stopped, MayGoOn
<1>15. CASE Save
  BY <1>15 DEF Save
<1>16. CASE FlushEnds
  BY <1>16 DEF FlushEnds, FlushStops
<1>17. CASE FlushReads
  BY <1>17 DEF FlushReads, Room, Skip, Deliver, Oldest
<1>18. CASE FlushWrites
  BY <1>18 DEF FlushWrites
<1>19. CASE FlushUnsubscribes
  BY <1>19 DEF FlushUnsubscribes, Unsubscribe
<1>20. CASE FlushCloses
  BY <1>20 DEF FlushCloses
<1>21. CASE FlushGives
  BY <1>21 DEF FlushGives
<1>22. CASE Logged
  BY <1>22 DEF Logged, Others
<1>23. ASSUME NEW r \in Readers, TabOpens(r) PROVE Stages'
  BY <1>23 DEF TabOpens, Others, FirstFree, Subscribe, Oldest
<1>24. ASSUME NEW r \in Readers, BrowserLeaves(r) PROVE Stages'
  BY <1>24 DEF BrowserLeaves, Others
<1>25. ASSUME NEW r \in Readers, TabReads(r) PROVE Stages'
  BY <1>25 DEF TabReads, Others, Skip, Deliver, Oldest
<1>26. ASSUME NEW r \in Readers, TabSendFails(r) PROVE Stages'
  BY <1>26 DEF TabSendFails, Others, Unsubscribe
<1>27. CASE UNCHANGED vars
  BY <1>27 DEF vars
<1> QED
  BY <1>1, <1>2, <1>3, <1>4, <1>5, <1>6, <1>7, <1>8, <1>9, <1>10, <1>11, 
     <1>12, <1>13, <1>14, <1>15, <1>16, <1>17, <1>18, <1>19, <1>20, <1>21, 
     <1>22, <1>23, <1>24, <1>25, <1>26, <1>27 DEF Next, Setter, Flusher

\* The limit is kept.
LEMMA LimitStep ==
  ASSUME TypeInv, Limit, [Next]_vars
  PROVE  Limit'
<1> USE Constants DEF TypeInv, Limit,
      logVars, fileVars, flagVars, flushVars, ghosts, At, Goto
<1>1. CASE Restart
  BY <1>1 DEF Restart, Fresh
<1>2. CASE ToggleOn
  BY <1>2 DEF ToggleOn
<1>3. CASE ToggleOff
  BY <1>3 DEF ToggleOff
<1>4. CASE BootBegins
  BY <1>4 DEF BootBegins
<1>5. CASE Mount
  BY <1>5 DEF Mount
<1>6. CASE Remove
  BY <1>6 DEF Remove, Removed
<1>7. CASE RenameStep
  BY <1>7 DEF RenameStep, Rename
<1>8. CASE Open
  BY <1>8 DEF Open, Undo
<1>9. CASE SubscribeStep
  BY <1>9 DEF SubscribeStep, Undo, FirstFree, Subscribe, Oldest
<1>10. CASE Spawn
  BY <1>10 DEF Spawn
<1>11. CASE SpawnFails
  BY <1>11 DEF SpawnFails, Undo, Unsubscribe
<1>12. CASE Spawned
  BY <1>12 DEF Spawned
<1>13. CASE Failed
  BY <1>13 DEF Failed, BootGivesUp
<1>14. CASE Stopped
  BY <1>14 DEF Stopped, MayGoOn
<1>15. CASE Save
  BY <1>15 DEF Save
<1>16. CASE FlushEnds
  BY <1>16 DEF FlushEnds, FlushStops
<1>17. CASE FlushReads
  BY <1>17 DEF FlushReads, Room, Skip, Deliver, Oldest
<1>18. CASE FlushWrites
  BY <1>18 DEF FlushWrites
<1>19. CASE FlushUnsubscribes
  BY <1>19 DEF FlushUnsubscribes, Unsubscribe
<1>20. CASE FlushCloses
  BY <1>20 DEF FlushCloses
<1>21. CASE FlushGives
  BY <1>21 DEF FlushGives
<1>22. CASE Logged
  BY <1>22 DEF Logged, Others
<1>23. ASSUME NEW r \in Readers, TabOpens(r) PROVE Limit'
  BY <1>23 DEF TabOpens, Others, FirstFree, Subscribe, Oldest
<1>24. ASSUME NEW r \in Readers, BrowserLeaves(r) PROVE Limit'
  BY <1>24 DEF BrowserLeaves, Others
<1>25. ASSUME NEW r \in Readers, TabReads(r) PROVE Limit'
  BY <1>25 DEF TabReads, Others, Skip, Deliver, Oldest
<1>26. ASSUME NEW r \in Readers, TabSendFails(r) PROVE Limit'
  BY <1>26 DEF TabSendFails, Others, Unsubscribe
<1>27. CASE UNCHANGED vars
  BY <1>27 DEF vars
<1> QED
  BY <1>1, <1>2, <1>3, <1>4, <1>5, <1>6, <1>7, <1>8, <1>9, <1>10, <1>11, 
     <1>12, <1>13, <1>14, <1>15, <1>16, <1>17, <1>18, <1>19, <1>20, <1>21, 
     <1>22, <1>23, <1>24, <1>25, <1>26, <1>27 DEF Next, Setter, Flusher

\* Slots keep their holders.
LEMMA SlotsStep ==
  ASSUME TypeInv, Stages, Slots, [Next]_vars
  PROVE  Slots'
<1> USE Constants DEF TypeInv, Stages, Slots, NoPos, NoReader, TabStates,
       LogTypes, PlaceTypes,
      logVars, fileVars, flagVars, flushVars, ghosts, At, Goto
<1>1. CASE Restart
  BY <1>1 DEF Restart, Fresh
<1>2. CASE ToggleOn
  BY <1>2 DEF ToggleOn
<1>3. CASE ToggleOff
  BY <1>3 DEF ToggleOff
<1>4. CASE BootBegins
  BY <1>4 DEF BootBegins
<1>5. CASE Mount
  BY <1>5 DEF Mount
<1>6. CASE Remove
  BY <1>6 DEF Remove, Removed
<1>7. CASE RenameStep
  BY <1>7 DEF RenameStep, Rename
<1>8. CASE Open
  BY <1>8 DEF Open, Undo
<1>9. CASE SubscribeStep
  <2>1. CASE \E r \in Readers : FirstFree(r) /\ Subscribe(r) /\ s_reader' = r
    <3> PICK r \in Readers : FirstFree(r) /\ Subscribe(r) /\ s_reader' = r BY <2>1
    <3>1. tab[r] = "none" /\ tab' = tab BY <1>9 DEF SubscribeStep, FirstFree
    <3> QED BY <3>1, SubscribeSlot
  <2>2. CASE UNCHANGED <<logVars, s_reader, tab>>
    BY <2>2
  <2> QED BY <1>9, <2>1, <2>2 DEF SubscribeStep
<1>10. CASE Spawn
  BY <1>10 DEF Spawn
<1>11. CASE SpawnFails
  BY <1>11 DEF SpawnFails, Undo, Unsubscribe
<1>12. CASE Spawned
  BY <1>12 DEF Spawned
<1>13. CASE Failed
  BY <1>13 DEF Failed, BootGivesUp
<1>14. CASE Stopped
  BY <1>14 DEF Stopped, MayGoOn
<1>15. CASE Save
  BY <1>15 DEF Save
<1>16. CASE FlushEnds
  BY <1>16 DEF FlushEnds, FlushStops
<1>17. CASE FlushReads
  BY <1>17 DEF FlushReads, Room, Skip, Deliver, Oldest
<1>18. CASE FlushWrites
  BY <1>18 DEF FlushWrites
<1>19. CASE FlushUnsubscribes
  BY <1>19 DEF FlushUnsubscribes, Unsubscribe
<1>20. CASE FlushCloses
  BY <1>20 DEF FlushCloses
<1>21. CASE FlushGives
  BY <1>21 DEF FlushGives
<1>22. CASE Logged
  BY <1>22 DEF Logged, Others
<1>23. ASSUME NEW r \in Readers, TabOpens(r) PROVE Slots'
  <2>1. /\ s_reader' = s_reader /\ s_reader # r
        /\ \A q \in Readers \ {r} : tab'[q] = tab[q]
    BY <1>23 DEF TabOpens, Others, FirstFree
  <2>2. \A q \in Readers \ {r} : next'[q] = next[q]
    BY <1>23, SubscribeSlot DEF TabOpens
  <2>3. next'[r] # NoPos
    BY <1>23, SubscribeSlot DEF TabOpens
  <2>4. s_reader # NoReader => next'[s_reader] # NoPos /\ tab'[s_reader] = "none"
    BY <2>1, <2>2
  <2> QED BY <2>1, <2>2, <2>3, <2>4
<1>24. ASSUME NEW r \in Readers, BrowserLeaves(r) PROVE Slots'
  BY <1>24 DEF BrowserLeaves, Others
<1>25. ASSUME NEW r \in Readers, TabReads(r) PROVE Slots'
  BY <1>25 DEF TabReads, Others, Skip, Deliver, Oldest
<1>26. ASSUME NEW r \in Readers, TabSendFails(r) PROVE Slots'
  BY <1>26 DEF TabSendFails, Others, Unsubscribe
<1>27. CASE UNCHANGED vars
  BY <1>27 DEF vars
<1> QED
  BY <1>1, <1>2, <1>3, <1>4, <1>5, <1>6, <1>7, <1>8, <1>9, <1>10, <1>11, 
     <1>12, <1>13, <1>14, <1>15, <1>16, <1>17, <1>18, <1>19, <1>20, <1>21, 
     <1>22, <1>23, <1>24, <1>25, <1>26, <1>27 DEF Next, Setter, Flusher

\* The flag is kept.
LEMMA ConfigStep ==
  ASSUME TypeInv, Stages, Config, [Next]_vars
  PROVE  Config'
<1> USE Constants DEF TypeInv, Stages, Config, Off, On, PlaceTypes, FlagTypes,
       SetPCs, FlushPCs,
      logVars, fileVars, flagVars, flushVars, ghosts, At, Goto
<1>1. CASE Restart
  BY <1>1 DEF Restart, Fresh
<1>2. CASE ToggleOn
  BY <1>2 DEF ToggleOn
<1>3. CASE ToggleOff
  BY <1>3 DEF ToggleOff
<1>4. CASE BootBegins
  BY <1>4 DEF BootBegins
<1>5. CASE Mount
  BY <1>5 DEF Mount
<1>6. CASE Remove
  BY <1>6 DEF Remove, Removed
<1>7. CASE RenameStep
  BY <1>7 DEF RenameStep, Rename
<1>8. CASE Open
  BY <1>8 DEF Open, Undo
<1>9. CASE SubscribeStep
  BY <1>9 DEF SubscribeStep, Undo, FirstFree, Subscribe, Oldest
<1>10. CASE Spawn
  BY <1>10 DEF Spawn
<1>11. CASE SpawnFails
  BY <1>11 DEF SpawnFails, Undo, Unsubscribe
<1>12. CASE Spawned
  BY <1>12 DEF Spawned
<1>13. CASE Failed
  BY <1>13 DEF Failed, BootGivesUp
<1>14. CASE Stopped
  BY <1>14 DEF Stopped, MayGoOn
<1>15. CASE Save
  BY <1>15 DEF Save
<1>16. CASE FlushEnds
  BY <1>16 DEF FlushEnds, FlushStops
<1>17. CASE FlushReads
  BY <1>17 DEF FlushReads, Room, Skip, Deliver, Oldest
<1>18. CASE FlushWrites
  BY <1>18 DEF FlushWrites
<1>19. CASE FlushUnsubscribes
  BY <1>19 DEF FlushUnsubscribes, Unsubscribe
<1>20. CASE FlushCloses
  BY <1>20 DEF FlushCloses
<1>21. CASE FlushGives
  BY <1>21 DEF FlushGives
<1>22. CASE Logged
  BY <1>22 DEF Logged, Others
<1>23. ASSUME NEW r \in Readers, TabOpens(r) PROVE Config'
  BY <1>23 DEF TabOpens, Others, FirstFree, Subscribe, Oldest
<1>24. ASSUME NEW r \in Readers, BrowserLeaves(r) PROVE Config'
  BY <1>24 DEF BrowserLeaves, Others
<1>25. ASSUME NEW r \in Readers, TabReads(r) PROVE Config'
  BY <1>25 DEF TabReads, Others, Skip, Deliver, Oldest
<1>26. ASSUME NEW r \in Readers, TabSendFails(r) PROVE Config'
  BY <1>26 DEF TabSendFails, Others, Unsubscribe
<1>27. CASE UNCHANGED vars
  BY <1>27 DEF vars
<1> QED
  BY <1>1, <1>2, <1>3, <1>4, <1>5, <1>6, <1>7, <1>8, <1>9, <1>10, <1>11, 
     <1>12, <1>13, <1>14, <1>15, <1>16, <1>17, <1>18, <1>19, <1>20, <1>21, 
     <1>22, <1>23, <1>24, <1>25, <1>26, <1>27 DEF Next, Setter, Flusher

\* The log is kept.
LEMMA LogKeptStep ==
  ASSUME TypeInv, Stages, LogKept, [Next]_vars
  PROVE  LogKept'
<1> USE Constants DEF TypeInv, Stages, LogKept, NoFile, Blank, FileTypes,
       Files, PlaceTypes, FlagTypes, SetPCs, FlushPCs,
      logVars, fileVars, flagVars, flushVars, ghosts, At, Goto
<1>1. CASE Restart
  BY <1>1 DEF Restart, Fresh
<1>2. CASE ToggleOn
  BY <1>2 DEF ToggleOn
<1>3. CASE ToggleOff
  BY <1>3 DEF ToggleOff
<1>4. CASE BootBegins
  BY <1>4 DEF BootBegins
<1>5. CASE Mount
  BY <1>5 DEF Mount
<1>6. CASE Remove
  BY <1>6 DEF Remove, Removed
<1>7. CASE RenameStep
  BY <1>7 DEF RenameStep, Rename
<1>8. CASE Open
  BY <1>8 DEF Open, Undo
<1>9. CASE SubscribeStep
  BY <1>9 DEF SubscribeStep, Undo, FirstFree, Subscribe, Oldest
<1>10. CASE Spawn
  BY <1>10 DEF Spawn
<1>11. CASE SpawnFails
  BY <1>11 DEF SpawnFails, Undo, Unsubscribe
<1>12. CASE Spawned
  BY <1>12 DEF Spawned
<1>13. CASE Failed
  BY <1>13 DEF Failed, BootGivesUp
<1>14. CASE Stopped
  BY <1>14 DEF Stopped, MayGoOn
<1>15. CASE Save
  BY <1>15 DEF Save
<1>16. CASE FlushEnds
  BY <1>16 DEF FlushEnds, FlushStops
<1>17. CASE FlushReads
  BY <1>17 DEF FlushReads, Room, Skip, Deliver, Oldest
<1>18. CASE FlushWrites
  BY <1>18 DEF FlushWrites
<1>19. CASE FlushUnsubscribes
  BY <1>19 DEF FlushUnsubscribes, Unsubscribe
<1>20. CASE FlushCloses
  BY <1>20 DEF FlushCloses
<1>21. CASE FlushGives
  BY <1>21 DEF FlushGives
<1>22. CASE Logged
  BY <1>22 DEF Logged, Others
<1>23. ASSUME NEW r \in Readers, TabOpens(r) PROVE LogKept'
  BY <1>23 DEF TabOpens, Others, FirstFree, Subscribe, Oldest
<1>24. ASSUME NEW r \in Readers, BrowserLeaves(r) PROVE LogKept'
  BY <1>24 DEF BrowserLeaves, Others
<1>25. ASSUME NEW r \in Readers, TabReads(r) PROVE LogKept'
  BY <1>25 DEF TabReads, Others, Skip, Deliver, Oldest
<1>26. ASSUME NEW r \in Readers, TabSendFails(r) PROVE LogKept'
  BY <1>26 DEF TabSendFails, Others, Unsubscribe
<1>27. CASE UNCHANGED vars
  BY <1>27 DEF vars
<1> QED
  BY <1>1, <1>2, <1>3, <1>4, <1>5, <1>6, <1>7, <1>8, <1>9, <1>10, <1>11, 
     <1>12, <1>13, <1>14, <1>15, <1>16, <1>17, <1>18, <1>19, <1>20, <1>21, 
     <1>22, <1>23, <1>24, <1>25, <1>26, <1>27 DEF Next, Setter, Flusher

\* Together.
LEMMA Invariant == Spec => []IInv
<1>1. IInv /\ [Next]_vars => IInv'
  BY TypeInvStep, StagesStep, LimitStep, SlotsStep, ConfigStep,
     LogKeptStep DEF IInv
<1> QED BY InitInv, <1>1, PTL DEF Spec

-------------------------------------------------------------------------------
(* The theorems.                                                             *)

\* Types and bounds, the file's limit among them, for any sizes.
THEOREM TypeCorrect == Spec => []TypeOK
<1>1. IInv => TypeOK BY DEF IInv, TypeInv, LogTypes, FlagTypes, PlaceTypes,
                        CountTypes, FileTypes, TypeOK
<1> QED BY <1>1, Invariant, PTL

\* Disabled, the subsystem holds no slot, file or mount and has no task, however
\* it came to be disabled.
THEOREM DisabledIsQuiet == Spec => []DisabledTouchesNothing
<1>1. IInv => DisabledTouchesNothing
  BY DEF IInv, Stages, Off, On, At, DisabledTouchesNothing
<1> QED BY <1>1, Invariant, PTL

\* flush_task never reads from a slot or writes to a file that is not its own.
THEOREM FlushNeverStrays == Spec => []FlushOwnsItsFile
<1>1. IInv => FlushOwnsItsFile
  BY DEF IInv, TypeInv, LogTypes, Stages, Slots, FlushOwnsItsFile
<1> QED BY <1>1, Invariant, PTL

\* For any number of sessions and a restart or failure at any step, the last
\* session's log survives the first attempt to begin another.
THEOREM LastLogKept == Spec => []LastLogSurvivesOneTry
<1>1. IInv => LastLogSurvivesOneTry
  BY DEF IInv, TypeInv, FileTypes, LogKept, LastLogSurvivesOneTry
<1> QED BY <1>1, Invariant, PTL

\* The flag on the page, the flag in flash and what runs never disagree between
\* calls.
THEOREM FlagsAgree == Spec => []StateSaved
<1>1. IInv => StateSaved
  BY DEF IInv, TypeInv, FlagTypes, Config, At, StateSaved
<1> QED BY <1>1, Invariant, PTL
===============================================================================
