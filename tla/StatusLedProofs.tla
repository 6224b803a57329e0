---------------------------- MODULE StatusLedProofs ----------------------------
(***************************************************************************)
(* Theorems about StatusLed, for any times of the button and the detector, *)
(* any length of an acknowledgement and any number of streams.             *)
(***************************************************************************)
EXTENDS StatusLed, TLAPS

\* What the constants are.
LEMMA ConstFacts ==
  /\ HoldPolls \in Nat /\ HoldPolls >= 1 /\ WindowPolls \in Nat /\ WindowPolls >= 1
  /\ FlashTicks \in Nat /\ FlashTicks >= 1
  /\ Timeout \in Nat /\ Timeout >= 1 /\ MaxStreams \in Nat
  BY PollsAssumption, TimeoutAssumption

ButtonOK ==
  /\ pressed \in BOOLEAN
  /\ pc \in {"poll", "register", "held", "reset", "window", "second", "double",
             "survey", "flash"}
  /\ polls \in 0 .. HoldPolls + WindowPolls
  /\ pc = "held" => polls <= HoldPolls
  /\ pc = "window" => polls <= WindowPolls
  /\ prev_led \in States \cup {"none"}
  /\ pc \in {"register", "held"} => prev_led \in Owned
LedOK ==
  /\ led \in States /\ last \in Owned /\ stale \in BOOLEAN
  /\ led = "error" => pc \in {"held", "reset"}
FlashOK ==
  /\ flash \in 0 .. FlashTicks /\ acked \in 0 .. FlashTicks
  /\ flash + acked = FlashTicks
  /\ task = "flash" => flash > 0
TaskOK ==
  /\ task \in {"look", "flash", "started", "age", "active"} /\ shown \in Colours
  /\ state \in States \cup {"none"}
  /\ task \in {"started", "age", "active"} => state \in States
NetOK ==
  /\ net \in BOOLEAN /\ ever \in BOOLEAN
  /\ ap \in {"none", "backup", "setup"} /\ streams \in 0 .. MaxStreams
MicOK ==
  /\ mic \in {"idle", "mark", "live", "flat"} /\ started \in BOOLEAN
  /\ age \in 0 .. Timeout /\ silent \in 0 .. Timeout /\ active \in BOOLEAN

\* The two clocks agree once the first chunk has been stored.
ClocksAgree ==
  /\ started \/ mic = "mark" => age = silent
  /\ mic \in {"live", "flat"} => started
  /\ task = "age" => started

\* What the release will put back is what an owner set last, unless one wrote since.
Restores ==
  /\ ~InPress /\ ~stale => led = last
  /\ pc \in {"register", "held"} /\ ~stale => prev_led = last

IInv == ButtonOK /\ LedOK /\ FlashOK /\ TaskOK /\ NetOK /\ MicOK /\ ClocksAgree
        /\ Restores

\* The invariant holds at power-on, and after any restart.
LEMMA InitInv == Init => IInv
  <1> SUFFICES ASSUME Init PROVE IInv
    OBVIOUS
  <1>1. ButtonOK
    <2>1. pressed \in BOOLEAN /\ pc = "poll" /\ polls = 0 /\ prev_led = "none"
      BY DEF Init
    <2>2. QED
      BY <2>1, ConstFacts DEF ButtonOK, States, Owned
  <1>2. LedOK
    BY ConstFacts DEF Init, LedOK, States, Owned
  <1>3. FlashOK
    BY ConstFacts DEF Init, FlashOK
  <1>4. TaskOK
    <2>1. task = "look" /\ state = "none" /\ shown = "off"
      BY DEF Init
    <2>2. QED
      BY <2>1, ConstFacts DEF TaskOK, States, Colours
  <1>5. NetOK
    <2>1. net = FALSE
      BY DEF Init
    <2>2. ever = FALSE
      BY DEF Init
    <2>3. ap = "none"
      BY DEF Init
    <2>4. streams = 0
      BY DEF Init
    <2>5. streams \in 0 .. MaxStreams
      BY <2>4, ConstFacts
    <2>6. QED
      BY <2>1, <2>2, <2>3, <2>5 DEF NetOK
  <1>6. MicOK
    <2>1. mic = "idle" /\ age = 0 /\ silent = 0
      BY DEF Init
    <2>2. started = FALSE
      BY DEF Init
    <2>3. active = FALSE
      BY DEF Init
    <2>4. age \in 0 .. Timeout /\ silent \in 0 .. Timeout
      BY <2>1, ConstFacts
    <2>5. QED
      BY <2>1, <2>2, <2>3, <2>4 DEF MicOK
  <1>7. ClocksAgree /\ Restores
    BY DEF Init, ClocksAgree, Restores, InPress
  <1>8. QED
    BY <1>1, <1>2, <1>3, <1>4, <1>5, <1>6, <1>7 DEF IInv

\* The same, of esp_restart.
LEMMA RestartInv == Restart => IInv'
  <1> SUFFICES ASSUME Restart PROVE IInv'
    OBVIOUS
  <1>1. ButtonOK'
    <2>1. pressed' \in BOOLEAN /\ pc' = "poll" /\ polls' = 0 /\ prev_led' = "none"
      BY DEF Restart
    <2>2. QED
      BY <2>1, ConstFacts DEF ButtonOK, States, Owned
  <1>2. LedOK'
    BY ConstFacts DEF Restart, LedOK, States, Owned
  <1>3. FlashOK'
    BY ConstFacts DEF Restart, FlashOK
  <1>4. TaskOK'
    <2>1. task' = "look" /\ state' = "none" /\ shown' = "off"
      BY DEF Restart
    <2>2. QED
      BY <2>1, ConstFacts DEF TaskOK, States, Colours
  <1>5. NetOK'
    <2>1. net' = FALSE
      BY DEF Restart
    <2>2. ever' = FALSE
      BY DEF Restart
    <2>3. ap' = "none"
      BY DEF Restart
    <2>4. streams' = 0
      BY DEF Restart
    <2>5. streams' \in 0 .. MaxStreams
      BY <2>4, ConstFacts
    <2>6. QED
      BY <2>1, <2>2, <2>3, <2>5 DEF NetOK
  <1>6. MicOK'
    <2>1. mic' = "idle" /\ age' = 0 /\ silent' = 0
      BY DEF Restart
    <2>2. started' = FALSE
      BY DEF Restart
    <2>3. active' = FALSE
      BY DEF Restart
    <2>4. age' \in 0 .. Timeout /\ silent' \in 0 .. Timeout
      BY <2>1, ConstFacts
    <2>5. QED
      BY <2>1, <2>2, <2>3, <2>4 DEF MicOK
  <1>7. ClocksAgree' /\ Restores'
    BY DEF Restart, ClocksAgree, Restores, InPress
  <1>8. QED
    BY <1>1, <1>2, <1>3, <1>4, <1>5, <1>6, <1>7 DEF IInv

\* WiFi and RTSP set the LED, before, during or after a press.
LEMMA OwnersStep == IInv /\ Owners => IInv'
  <1> SUFFICES ASSUME IInv, Owners PROVE IInv'
    OBVIOUS
  <1>1. UNCHANGED <<buttonVars, flash, taskVars, micVars, acked>>
    BY DEF Owners, GotIp, StaDisconnected, EnterApMode, FallbackTask, Play,
       StopStreaming
  <1>2. \/ UNCHANGED <<led, ownerVars>>
        \/ led' = last' /\ last' \in Owned /\ stale' = InPress
    <2>1. CASE Play \/ StopStreaming
      BY <2>1 DEF Play, StopStreaming, OwnerSets, LedRefresh, Owned, States
    <2>2. CASE GotIp \/ EnterApMode \/ FallbackTask
      BY <2>2 DEF GotIp, EnterApMode, FallbackTask, OwnerSets, Owned, States
    <2>3. CASE StaDisconnected
      BY <2>3 DEF StaDisconnected, OwnerSets, ownerVars, Owned, States
    <2>4. QED
      BY <2>1, <2>2, <2>3 DEF Owners
  <1>3. NetOK'
    <2>1. CASE Play \/ StopStreaming
      BY <2>1, ConstFacts DEF IInv, NetOK, Play, StopStreaming
    <2>2. CASE GotIp \/ EnterApMode \/ FallbackTask \/ StaDisconnected
      BY <2>2 DEF IInv, NetOK, GotIp, EnterApMode, FallbackTask, StaDisconnected
    <2>3. QED
      BY <2>1, <2>2 DEF Owners
  <1>4. LedOK' /\ Restores'
    <2>1. UNCHANGED <<pc, prev_led>>
      BY <1>1 DEF buttonVars
    <2>2. CASE UNCHANGED <<led, ownerVars>>
      BY <2>1, <2>2 DEF IInv, LedOK, Restores, InPress, ownerVars
    <2>3. CASE led' = last' /\ last' \in Owned /\ stale' = InPress
      <3>1. InPress \in BOOLEAN /\ InPress' = InPress
        BY <2>1 DEF InPress
      <3>2. LedOK'
        BY <2>3, <3>1 DEF LedOK, States, Owned
      <3>3. pc' \in {"register", "held"} => InPress
        BY <2>1 DEF InPress
      <3>4. Restores'
        BY <2>3, <3>1, <3>3 DEF Restores
      <3>5. QED
        BY <3>2, <3>4
    <2>4. QED
      BY <1>2, <2>2, <2>3
  <1>5. ButtonOK' /\ FlashOK' /\ TaskOK' /\ MicOK' /\ ClocksAgree'
    BY <1>1 DEF IInv, ButtonOK, FlashOK, TaskOK, MicOK, ClocksAgree, buttonVars,
       taskVars, micVars
  <1>6. QED
    BY <1>3, <1>4, <1>5 DEF IInv

\* The press saves the LED, holds it, and puts it back.
LEMMA ButtonStep ==
  IInv /\ (PressSeen \/ PressRegisters \/ HeldPoll \/ Released) => IInv'
  <1> SUFFICES ASSUME IInv, PressSeen \/ PressRegisters \/ HeldPoll \/ Released
               PROVE  IInv'
    OBVIOUS
  <1>1. UNCHANGED <<pressed, flash, taskVars, netVars, micVars, ownerVars, acked>>
    BY DEF PressSeen, PressRegisters, HeldPoll, Released
  <1>2. FlashOK' /\ TaskOK' /\ NetOK' /\ MicOK' /\ ClocksAgree'
    BY <1>1 DEF IInv, FlashOK, TaskOK, NetOK, MicOK, ClocksAgree, taskVars, netVars,
       micVars
  <1>3. ButtonOK' /\ LedOK' /\ Restores'
    <2> USE <1>1, ConstFacts DEF IInv, ButtonOK, LedOK, Restores, InPress, ownerVars,
            States, Owned
    <2>1. CASE PressSeen
      BY <2>1 DEF PressSeen
    <2>2. CASE PressRegisters
      BY <2>2 DEF PressRegisters
    <2>3. CASE HeldPoll
      BY <2>3 DEF HeldPoll
    <2>4. CASE Released
      BY <2>4 DEF Released
    <2>5. QED
      BY <2>1, <2>2, <2>3, <2>4
  <1>4. QED
    BY <1>2, <1>3 DEF IInv

\* The gestures that follow a release.
LEMMA GestureStep ==
  IInv /\ (WindowPoll \/ SecondReleased \/ ToggleOff \/ ToggleElse \/ ToggleSurveyed
             \/ Flash) => IInv'
  <1> SUFFICES ASSUME IInv, \/ WindowPoll \/ SecondReleased \/ ToggleOff
                            \/ ToggleElse \/ ToggleSurveyed \/ Flash
               PROVE  IInv'
    OBVIOUS
  <1>1. UNCHANGED <<pressed, prev_led, taskVars, micVars, net, ever, streams>>
    BY DEF WindowPoll, SecondReleased, ToggleOff, ToggleElse, ToggleSurveyed, Flash,
       netVars
  <1>2. TaskOK' /\ MicOK' /\ ClocksAgree'
    BY <1>1 DEF IInv, TaskOK, MicOK, ClocksAgree, taskVars, micVars
  <1>3. NetOK'
    BY <1>1 DEF IInv, NetOK, WindowPoll, SecondReleased, ToggleOff, ToggleElse,
       ToggleSurveyed, Flash, netVars
  <1>4. FlashOK'
    BY <1>1, ConstFacts DEF IInv, FlashOK, WindowPoll, SecondReleased, ToggleOff,
       ToggleElse, ToggleSurveyed, Flash, taskVars
  <1>5. ButtonOK' /\ LedOK' /\ Restores'
    <2> USE <1>1, ConstFacts DEF IInv, ButtonOK, LedOK, Restores, InPress, ownerVars,
            States, Owned
    <2>1. CASE WindowPoll
      BY <2>1 DEF WindowPoll
    <2>2. CASE SecondReleased \/ Flash
      BY <2>2 DEF SecondReleased, Flash
    <2>5. CASE ToggleElse
      BY <2>5 DEF ToggleElse
    <2>3. CASE ToggleOff \/ ToggleSurveyed
      <3>1. pc' = "flash" /\ UNCHANGED <<polls, pressed, prev_led>>
        BY <2>3 DEF ToggleOff, ToggleSurveyed
      <3>2. led' = last' /\ last' \in Owned
        BY <2>3 DEF ToggleOff, ToggleSurveyed, OwnerSets
      <3>3. stale' \in BOOLEAN
        <4>1. stale' = (pc \in {"register", "held", "reset"})
          BY <2>3 DEF ToggleOff, ToggleSurveyed, OwnerSets
        <4>2. QED
          BY <4>1
      <3>4. ButtonOK'
        BY <3>1
      <3>5. LedOK' /\ Restores'
        BY <3>1, <3>2, <3>3
      <3>6. QED
        BY <3>4, <3>5
    <2>4. QED
      BY <2>1, <2>2, <2>3, <2>5
  <1>6. QED
    BY <1>2, <1>3, <1>4, <1>5 DEF IInv

\* The detector, the clock and the LED task leave the LED's state alone.
LEMMA SensingStep == IInv /\ (Mic \/ Tick \/ LedTask \/ Finger) => IInv'
  <1> SUFFICES ASSUME IInv, Mic \/ Tick \/ LedTask \/ Finger
               PROVE  IInv'
    OBVIOUS
  <1>1. UNCHANGED <<pc, polls, prev_led, led, netVars, ownerVars>>
    BY DEF Mic, PipelineActive, FirstChunk, FirstChunkMarks, Chunk, Reported, Tick,
       LedTask, Look, FlashDone, AskStarted, AskAge, AskActive, Finger, buttonVars
  <1>2. pressed' \in BOOLEAN
    BY DEF Mic, PipelineActive, FirstChunk, FirstChunkMarks, Chunk, Reported, Tick,
       LedTask, Look, FlashDone, AskStarted, AskAge, AskActive, Finger, buttonVars,
       IInv, ButtonOK
  <1>3. ButtonOK' /\ LedOK' /\ NetOK' /\ Restores'
    BY <1>1, <1>2 DEF IInv, ButtonOK, LedOK, NetOK, Restores, InPress, netVars,
       ownerVars
  <1>4. FlashOK' /\ TaskOK' /\ MicOK' /\ ClocksAgree'
    <2>1. CASE Finger
      BY <2>1 DEF Finger, IInv, FlashOK, TaskOK, MicOK, ClocksAgree, taskVars, micVars
    <2>2. CASE Tick \/ Mic
      <3>1. UNCHANGED <<flash, acked, task, state, shown>>
        BY <2>2 DEF Tick, Mic, PipelineActive, FirstChunk, FirstChunkMarks, Chunk,
           Reported, taskVars
      <3>2. FlashOK' /\ TaskOK'
        <4>1. FlashOK'
          BY <3>1 DEF IInv, FlashOK
        <4>2. TaskOK'
          BY <3>1 DEF IInv, TaskOK
        <4>3. QED
          BY <4>1, <4>2
      <3>3. CASE Tick
        <4>1. UNCHANGED <<mic, started, active, task>>
          BY <3>3 DEF Tick, taskVars
        <4>2. age \in 0 .. Timeout /\ silent \in 0 .. Timeout
          BY DEF IInv, MicOK
        <4>3. age' \in 0 .. Timeout /\ silent' \in 0 .. Timeout
          BY <3>3, <4>2, ConstFacts DEF Tick
        <4>4. age = silent => age' = silent'
          BY <3>3 DEF Tick
        <4>5. MicOK'
          BY <4>1, <4>3 DEF IInv, MicOK
        <4>6. ClocksAgree'
          BY <4>1, <4>4 DEF IInv, ClocksAgree
        <4>7. QED
          BY <3>2, <4>5, <4>6
      <3>4. CASE Mic
        <4> USE <3>1, ConstFacts DEF IInv, MicOK, ClocksAgree
        <4>1. CASE PipelineActive
          BY <3>2, <4>1 DEF PipelineActive
        <4>2. CASE FirstChunk
          BY <3>2, <4>2 DEF FirstChunk
        <4>3. CASE FirstChunkMarks
          BY <3>2, <4>3 DEF FirstChunkMarks
        <4>4. CASE Chunk
          BY <3>2, <4>4 DEF Chunk
        <4>5. CASE Reported
          BY <3>2, <4>5 DEF Reported
        <4>6. QED
          BY <3>4, <4>1, <4>2, <4>3, <4>4, <4>5 DEF Mic
      <3>5. QED
        BY <2>2, <3>2, <3>3, <3>4
    <2>3. CASE LedTask
      <3>1. \A s \in States : Pattern(s) \in Colours
        BY DEF Pattern, States, Colours
      <3>2. UNCHANGED micVars
        BY <2>3 DEF LedTask, Look, FlashDone, AskStarted, AskAge, AskActive
      <3>3. MicOK'
        BY <3>2 DEF IInv, MicOK, micVars
      <3>4. FlashOK'
        BY <2>3, ConstFacts DEF LedTask, Look, FlashDone, AskStarted, AskAge,
           AskActive, Show, Blink, Render, IInv, FlashOK
      <3>5. TaskOK'
        <4> USE <3>1 DEF IInv, TaskOK, Show, Blink, Render
        <4>1. CASE Look
          BY <4>1 DEF Look, LedOK, Colours
        <4>2. CASE FlashDone
          BY <4>2 DEF FlashDone, Colours
        <4>3. CASE AskStarted
          BY <4>3 DEF AskStarted
        <4>4. CASE AskAge
          BY <4>4 DEF AskAge, Colours
        <4>5. CASE AskActive
          BY <4>5 DEF AskActive, Colours
        <4>6. QED
          BY <2>3, <4>1, <4>2, <4>3, <4>4, <4>5 DEF LedTask
      <3>6. ClocksAgree'
        BY <2>3, <3>2 DEF LedTask, Look, FlashDone, AskStarted, AskAge, AskActive,
           Show, Blink, Render, IInv, ClocksAgree, micVars
      <3>7. QED
        BY <3>3, <3>4, <3>5, <3>6
    <2>4. QED
      BY <2>1, <2>2, <2>3
  <1>5. QED
    BY <1>3, <1>4 DEF IInv

\* Nothing happens, and the invariant stays.
LEMMA StutterStep == IInv /\ UNCHANGED vars => IInv'
  BY DEF vars, buttonVars, taskVars, netVars, micVars, ownerVars, IInv, ButtonOK,
     LedOK, FlashOK, TaskOK, NetOK, MicOK, ClocksAgree, Restores, InPress

\* The inductive invariant holds in every reachable state.
THEOREM Invariance == Spec => []IInv
  <1>1. IInv /\ [Next]_vars => IInv'
    BY RestartInv, OwnersStep, ButtonStep, GestureStep, SensingStep, StutterStep
    DEF Next, Button, HoldResets
  <1>2. QED
    BY <1>1, InitInv, PTL DEF Spec

\* Every variable of StatusLed keeps its type, for any constants.
THEOREM TypeCorrect == Spec => []TypeOK
  <1>1. IInv => TypeOK
    BY DEF IInv, TypeOK, ButtonOK, LedOK, FlashOK, TaskOK, NetOK, MicOK
  <1>2. QED
    BY <1>1, Invariance, PTL

\* Orange is only ever a press that goes on.
THEOREM OrangeIsAPress == Spec => []ErrorIsAPress
  <1>1. IInv => ErrorIsAPress
    BY DEF IInv, ErrorIsAPress, ButtonOK, LedOK, Owned
  <1>2. QED
    BY <1>1, Invariance, PTL

\* Outside a press the LED has what an owner set last, but after a lost write.
THEOREM LedFollowsOwners == Spec => []LastWriteShows
  <1>1. IInv => LastWriteShows
    BY DEF IInv, LastWriteShows, Restores
  <1>2. QED
    BY <1>1, Invariance, PTL

\* A press borrows the LED: its orange ends with it, and its owners' state shows again.
THEOREM LedGivenBack == Spec => []PressBorrowsLed
  <1>1. ErrorIsAPress /\ LastWriteShows => PressBorrowsLed
    BY DEF PressBorrowsLed
  <1>2. QED
    BY <1>1, OrangeIsAPress, LedFollowsOwners, PTL

\* No flash of an acknowledgement is lost and none is left over.
THEOREM FlashesAreExact == Spec => []FlashAcknowledged
  <1>1. IInv => FlashAcknowledged
    BY ConstFacts DEF IInv, FlashAcknowledged, FlashOK
  <1>2. QED
    BY <1>1, Invariance, PTL

\* Magenta begins only with a mic that is flat or a pipeline that does not run.
THEOREM MagentaIsEarned == Spec => MagentaMeansSilent
  <1>1. ASSUME IInv, [Next]_vars, shown' = "magenta", shown # "magenta"
        PROVE  silent >= Timeout \/ ~active
    <2>1. (AskAge /\ age >= Timeout) \/ (AskActive /\ ~active)
      <3>1. \A s \in States : Pattern(s) # "magenta"
        BY DEF Pattern, States
      <3>2. Look => shown' # "magenta" \/ shown' = shown
        BY <1>1, <3>1 DEF Look, Show, Blink, Render, IInv, LedOK
      <3>3. AskActive => ~active
        BY <1>1, <3>1 DEF AskActive, Show, Blink, Render, IInv, TaskOK
      <3>4. LedTask
        BY <1>1 DEF Next, Button, Owners, Mic, PressSeen, PressRegisters, HeldPoll,
           HoldResets, Released, WindowPoll, SecondReleased, ToggleOff, ToggleElse,
           ToggleSurveyed, Flash, Restart, GotIp, StaDisconnected, EnterApMode,
           FallbackTask, Play, StopStreaming, PipelineActive, FirstChunk,
           FirstChunkMarks, Chunk, Reported, Tick, Finger, taskVars, vars
      <3>5. ~FlashDone /\ ~AskStarted
        BY <1>1 DEF FlashDone, AskStarted, Show
      <3>6. AskAge => age >= Timeout
        BY <1>1 DEF AskAge
      <3>7. ~Look
        BY <1>1, <3>2
      <3>8. AskAge \/ AskActive
        BY <3>4, <3>5, <3>7 DEF LedTask
      <3>9. CASE AskAge
        BY <3>6, <3>9
      <3>10. CASE AskActive
        BY <3>3, <3>10
      <3>11. QED
        BY <3>8, <3>9, <3>10
    <2>2. AskAge => age = silent
      BY <1>1 DEF IInv, ClocksAgree, AskAge
    <2>3. QED
      BY <2>1, <2>2
  <1>2. QED
    BY <1>1, Invariance, PTL DEF MagentaMeansSilent, Spec
===============================================================================
