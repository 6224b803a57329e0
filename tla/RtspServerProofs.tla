--------------------------- MODULE RtspServerProofs ---------------------------
(***************************************************************************)
(* Theorems about RtspServer, for any number of slots, sender tasks and    *)
(* reader slots, any allocation failures and any times.                    *)
(***************************************************************************)
EXTENDS RtspServer, FiniteSetTheorems, TLAPS

Alive(t) == spc[t] # "idle"

\* A running sender has a slot; with that the types are inductive.
TypeInv == TypeOK /\ \A t \in Senders : Alive(t) => sslot[t] \in Slots

\* The types hold before the listener starts.
LEMMA TypeInit == Init => TypeInv
  BY TimesAssumption, BoundsAssumption, SetsAssumption
  DEF Init, TypeInv, TypeOK, Alive, HandlerPCs

\* Every step of the listener, a handler, a sender or the preview keeps the types.
LEMMA TypeStep == TypeInv /\ [Next]_vars => TypeInv'
  <1> SUFFICES ASSUME TypeInv, [Next]_vars PROVE TypeInv'
    OBVIOUS
  <1> USE TimesAssumption, SetsAssumption
      DEF TypeInv, TypeOK, Alive, HandlerPCs, listenerVars, senderVars,
          sessionVars, poolVars
  <1>1. ASSUME NEW s \in Slots, Claim(s)
        PROVE  TypeInv'
    BY <1>1 DEF Claim
  <1>2. ASSUME CountConnected
        PROVE  TypeInv'
    BY <1>2 DEF CountConnected
  <1>3. ASSUME SpawnClient
        PROVE  TypeInv'
    BY <1>3 DEF SpawnClient
  <1>4. ASSUME SpawnClientFails
        PROVE  TypeInv'
    BY <1>4 DEF SpawnClientFails
  <1>5. ASSUME UncountConnected
        PROVE  TypeInv'
    BY <1>5 DEF UncountConnected
  <1>6. ASSUME Preview
        PROVE  TypeInv'
    BY <1>6 DEF Preview, PreviewBegin, PreviewFails, PreviewSubscribe,
       PreviewUnsubscribe, PreviewFinish, PreviewOnly, Subscribe
  <1>7. ASSUME Tick
        PROVE  TypeInv'
    BY <1>7 DEF Tick, Less
  <1>8. ASSUME NEW s \in Slots, RecvPlain(s)
        PROVE  TypeInv'
    BY <1>8 DEF RecvPlain, Respond
  <1>9. ASSUME NEW s \in Slots, RecvSetup(s)
        PROVE  TypeInv'
    BY <1>9 DEF RecvSetup, Respond
  <1>10. ASSUME NEW s \in Slots, PlayRefused(s)
        PROVE  TypeInv'
    BY <1>10 DEF PlayRefused, PlayReady, Subscribe, Respond
  <1>11. ASSUME NEW s \in Slots, PlayStarts(s)
        PROVE  TypeInv'
    BY <1>11 DEF PlayStarts, PlayReady, Subscribe, Respond
  <1>12. ASSUME NEW s \in Slots, PlayWithoutSender(s)
        PROVE  TypeInv'
    BY <1>12 DEF PlayWithoutSender, PlayReady, Subscribe, Respond
  <1>13. ASSUME NEW s \in Slots, PlayCounted(s)
        PROVE  TypeInv'
    BY <1>13 DEF PlayCounted, Respond
  <1>14. ASSUME NEW s \in Slots, NEW r \in {"TEARDOWN", "GONE"}, RecvEnd(s, r)
        PROVE  TypeInv'
    BY <1>14 DEF RecvEnd
  <1>15. ASSUME NEW s \in Slots, CtrlLock(s)
        PROVE  TypeInv'
    BY <1>15 DEF CtrlLock
  <1>16. ASSUME NEW s \in Slots, NEW ok \in BOOLEAN, CtrlDone(s, ok)
        PROVE  TypeInv'
    BY <1>16 DEF CtrlDone
  <1>17. ASSUME NEW s \in Slots, StopBegin(s)
        PROVE  TypeInv'
    <2>1. StopBudget \in Nat
      BY DEF StopBudget
    <2>2. hTimer' \in [Slots -> Nat]
      BY <1>17, <2>1 DEF StopBegin
    <2>3. playing' \in [Slots -> BOOLEAN]
      BY <1>17 DEF StopBegin
    <2>4. hpc' \in [Slots -> HandlerPCs]
      BY <1>17 DEF StopBegin
    <2>5. QED
      BY <1>17, <2>2, <2>3, <2>4 DEF StopBegin
  <1>18. ASSUME NEW s \in Slots, StopWaitEnds(s)
        PROVE  TypeInv'
    BY <1>18 DEF StopWaitEnds
  <1>19. ASSUME NEW s \in Slots, StopUncounted(s)
        PROVE  TypeInv'
    BY <1>19 DEF StopUncounted
  <1>20. ASSUME NEW s \in Slots, Unsubscribe(s)
        PROVE  TypeInv'
    BY <1>20 DEF Unsubscribe
  <1>21. ASSUME NEW s \in Slots, Release(s)
        PROVE  TypeInv'
    BY <1>21 DEF Release
  <1>22. ASSUME NEW t \in Senders, SenderTop(t)
        PROVE  TypeInv'
    BY <1>22 DEF SenderTop
  <1>23. ASSUME NEW t \in Senders, SenderReadEmptyOrUdp(t)
        PROVE  TypeInv'
    BY <1>23 DEF SenderReadEmptyOrUdp, SenderStopsReading
  <1>24. ASSUME NEW t \in Senders, SenderReadTcp(t)
        PROVE  TypeInv'
    BY <1>24 DEF SenderReadTcp, SenderStopsReading
  <1>25. ASSUME NEW t \in Senders, SenderLock(t)
        PROVE  TypeInv'
    BY <1>25 DEF SenderLock
  <1>26. ASSUME NEW t \in Senders, SenderExit(t)
        PROVE  TypeInv'
    BY <1>26 DEF SenderExit
  <1>27. ASSUME NEW t \in Senders, NEW ok \in BOOLEAN, SenderSent(t, ok)
        PROVE  TypeInv'
    BY <1>27 DEF SenderSent
  <1>28. CASE UNCHANGED vars
    BY <1>28 DEF vars, listenerVars, senderVars, sessionVars, poolVars
  <1>29. CASE Listener
    BY <1>1, <1>2, <1>3, <1>4, <1>29 DEF Listener
  <1>30. ASSUME NEW s \in Slots, Receive(s)
        PROVE  TypeInv'
    BY <1>8, <1>9, <1>10, <1>11, <1>12, <1>14, <1>30 DEF Receive
  <1>31. ASSUME NEW s \in Slots, HandlerStep(s)
        PROVE  TypeInv'
    BY <1>13, <1>16, <1>17, <1>18, <1>19, <1>20, <1>21, <1>31 DEF HandlerStep
  <1>32. ASSUME NEW t \in Senders, SenderStep(t)
        PROVE  TypeInv'
    BY <1>22, <1>23, <1>24, <1>25, <1>26, <1>27, <1>32 DEF SenderStep
  <1>33. QED
    BY <1>5, <1>6, <1>7, <1>15, <1>28, <1>29, <1>30, <1>31, <1>32 DEF Next

\* Every variable keeps its type in every reachable state.
THEOREM TypeCorrect == Spec => []TypeOK
  <1>1. TypeInv => TypeOK
    BY DEF TypeInv
  <1>2. QED
    BY TypeInit, TypeStep, <1>1, PTL DEF Spec

-------------------------------------------------------------------------------
(***************************************************************************)
(* SenderWithinSession.  stop_streaming may give up its wait, so the       *)
(* property rests on the times: what a running sender can still take stays *)
(* below what is left of the wait.                                         *)
(***************************************************************************)

\* A running sender is its slot's, and has not given rtp_stopped.
Owned == \A t \in Senders :
  Alive(t) => rtp_task[sslot[t]] = t /\ ~stopped[sslot[t]]

\* tx_mtx is held by whom it says, in the middle of a send.
LockHeld == \A s \in Slots :
  /\ txOwner[s] = "ctrl" => hpc[s] = "ctrl_send"
  /\ \A t \in Senders : txOwner[s] = t => spc[t] = "sending" /\ sslot[t] = s

\* A slot outside a session has no sender, and the listener fills such a slot.
EndedClean ==
  /\ \A s \in Slots : hpc[s] \in {"free", "claimed", "counted", "uncount", "unsub", "release"} =>
                         rtp_task[s] = None
  /\ lslot # None => hpc[lslot] \in {"claimed", "counted"}

TimersBounded == \A t \in Senders :
  /\ spc[t] = "reading" => sTimer[t] <= ReadTimeout
  /\ spc[t] = "sending" => sTimer[t] <= SendBudget

\* A wait in progress outlasts what its sender can still spend: a read and a
\* send, the send alone, or nothing.
WaitOutlasts == \A t \in Senders :
  Alive(t) /\ hpc[sslot[t]] = "stop_wait" =>
    /\ ~playing[sslot[t]]
    /\ 0 < hTimer[sslot[t]]
    /\ spc[t] = "reading" => sTimer[t] + SendBudget < hTimer[sslot[t]]
    /\ spc[t] \in {"ready", "lock"} => SendBudget < hTimer[sslot[t]]
    /\ spc[t] = "sending" => sTimer[t] < hTimer[sslot[t]]

SenderInv == TypeInv /\ Owned /\ LockHeld /\ EndedClean /\ TimersBounded /\ WaitOutlasts

\* Only an ended wait clears rtp_task, and by then the sender is gone.
LEMMA OwnedStep == SenderInv /\ [Next]_vars => Owned'
  <1> SUFFICES ASSUME SenderInv, [Next]_vars PROVE Owned'
    OBVIOUS
  <1> USE TimesAssumption, SetsAssumption
      DEF SenderInv, Owned, EndedClean, WaitOutlasts, TypeInv, TypeOK, Alive,
          listenerVars, senderVars, sessionVars, poolVars
  <1>1. ASSUME NEW s \in Slots, Claim(s)
        PROVE  Owned'
    BY <1>1 DEF Claim
  <1>2. ASSUME CountConnected
        PROVE  Owned'
    BY <1>2 DEF CountConnected
  <1>3. ASSUME SpawnClient
        PROVE  Owned'
    BY <1>3 DEF SpawnClient
  <1>4. ASSUME SpawnClientFails
        PROVE  Owned'
    BY <1>4 DEF SpawnClientFails
  <1>5. ASSUME UncountConnected
        PROVE  Owned'
    BY <1>5 DEF UncountConnected
  <1>6. ASSUME Preview
        PROVE  Owned'
    BY <1>6 DEF Preview, PreviewBegin, PreviewFails, PreviewSubscribe,
       PreviewUnsubscribe, PreviewFinish, PreviewOnly, Subscribe
  <1>7. ASSUME Tick
        PROVE  Owned'
    BY <1>7 DEF Tick, Less
  <1>8. ASSUME NEW s \in Slots, RecvPlain(s)
        PROVE  Owned'
    BY <1>8 DEF RecvPlain, Respond
  <1>9. ASSUME NEW s \in Slots, RecvSetup(s)
        PROVE  Owned'
    BY <1>9 DEF RecvSetup, Respond
  <1>10. ASSUME NEW s \in Slots, PlayRefused(s)
        PROVE  Owned'
    BY <1>10 DEF PlayRefused, PlayReady, Subscribe, Respond
  <1>11. ASSUME NEW s \in Slots, PlayStarts(s)
        PROVE  Owned'
    BY <1>11 DEF PlayStarts, PlayReady, Subscribe, Respond
  <1>12. ASSUME NEW s \in Slots, PlayWithoutSender(s)
        PROVE  Owned'
    BY <1>12 DEF PlayWithoutSender, PlayReady, Subscribe, Respond
  <1>13. ASSUME NEW s \in Slots, PlayCounted(s)
        PROVE  Owned'
    BY <1>13 DEF PlayCounted, Respond
  <1>14. ASSUME NEW s \in Slots, NEW r \in {"TEARDOWN", "GONE"}, RecvEnd(s, r)
        PROVE  Owned'
    BY <1>14 DEF RecvEnd
  <1>15. ASSUME NEW s \in Slots, CtrlLock(s)
        PROVE  Owned'
    BY <1>15 DEF CtrlLock
  <1>16. ASSUME NEW s \in Slots, NEW ok \in BOOLEAN, CtrlDone(s, ok)
        PROVE  Owned'
    BY <1>16 DEF CtrlDone
  <1>17. ASSUME NEW s \in Slots, StopBegin(s)
        PROVE  Owned'
    BY <1>17 DEF StopBegin, StopBudget
  <1>18. ASSUME NEW s \in Slots, StopWaitEnds(s)
        PROVE  Owned'
    BY <1>18 DEF StopWaitEnds
  <1>19. ASSUME NEW s \in Slots, StopUncounted(s)
        PROVE  Owned'
    BY <1>19 DEF StopUncounted
  <1>20. ASSUME NEW s \in Slots, Unsubscribe(s)
        PROVE  Owned'
    BY <1>20 DEF Unsubscribe
  <1>21. ASSUME NEW s \in Slots, Release(s)
        PROVE  Owned'
    BY <1>21 DEF Release
  <1>22. ASSUME NEW t \in Senders, SenderTop(t)
        PROVE  Owned'
    BY <1>22 DEF SenderTop
  <1>23. ASSUME NEW t \in Senders, SenderReadEmptyOrUdp(t)
        PROVE  Owned'
    BY <1>23 DEF SenderReadEmptyOrUdp, SenderStopsReading
  <1>24. ASSUME NEW t \in Senders, SenderReadTcp(t)
        PROVE  Owned'
    BY <1>24 DEF SenderReadTcp, SenderStopsReading
  <1>25. ASSUME NEW t \in Senders, SenderLock(t)
        PROVE  Owned'
    BY <1>25 DEF SenderLock
  <1>26. ASSUME NEW t \in Senders, SenderExit(t)
        PROVE  Owned'
    BY <1>26 DEF SenderExit
  <1>27. ASSUME NEW t \in Senders, NEW ok \in BOOLEAN, SenderSent(t, ok)
        PROVE  Owned'
    BY <1>27 DEF SenderSent
  <1>28. CASE UNCHANGED vars
    BY <1>28 DEF vars, listenerVars, senderVars, sessionVars, poolVars
  <1>29. QED
    BY <1>1, <1>2, <1>3, <1>4, <1>5, <1>6, <1>7, <1>8, <1>9, <1>10, <1>11,
       <1>12, <1>13, <1>14, <1>15, <1>16, <1>17, <1>18, <1>19, <1>20, <1>21,
       <1>22, <1>23, <1>24, <1>25, <1>26, <1>27, <1>28
    DEF Next, Listener, Receive, HandlerStep, SenderStep

\* The lock changes hands only where a send starts or ends.
LEMMA LockHeldStep == SenderInv /\ [Next]_vars => LockHeld'
  <1> SUFFICES ASSUME SenderInv, [Next]_vars PROVE LockHeld'
    OBVIOUS
  <1> USE TimesAssumption, SetsAssumption
      DEF SenderInv, LockHeld, EndedClean, TypeInv, TypeOK, Alive,
          listenerVars, senderVars, sessionVars, poolVars
  <1>1. ASSUME NEW s \in Slots, Claim(s)
        PROVE  LockHeld'
    BY <1>1 DEF Claim
  <1>2. ASSUME CountConnected
        PROVE  LockHeld'
    BY <1>2 DEF CountConnected
  <1>3. ASSUME SpawnClient
        PROVE  LockHeld'
    BY <1>3 DEF SpawnClient
  <1>4. ASSUME SpawnClientFails
        PROVE  LockHeld'
    BY <1>4 DEF SpawnClientFails
  <1>5. ASSUME UncountConnected
        PROVE  LockHeld'
    BY <1>5 DEF UncountConnected
  <1>6. ASSUME Preview
        PROVE  LockHeld'
    BY <1>6 DEF Preview, PreviewBegin, PreviewFails, PreviewSubscribe,
       PreviewUnsubscribe, PreviewFinish, PreviewOnly, Subscribe
  <1>7. ASSUME Tick
        PROVE  LockHeld'
    BY <1>7 DEF Tick, Less
  <1>8. ASSUME NEW s \in Slots, RecvPlain(s)
        PROVE  LockHeld'
    BY <1>8 DEF RecvPlain, Respond
  <1>9. ASSUME NEW s \in Slots, RecvSetup(s)
        PROVE  LockHeld'
    BY <1>9 DEF RecvSetup, Respond
  <1>10. ASSUME NEW s \in Slots, PlayRefused(s)
        PROVE  LockHeld'
    BY <1>10 DEF PlayRefused, PlayReady, Subscribe, Respond
  <1>11. ASSUME NEW s \in Slots, PlayStarts(s)
        PROVE  LockHeld'
    BY <1>11 DEF PlayStarts, PlayReady, Subscribe, Respond
  <1>12. ASSUME NEW s \in Slots, PlayWithoutSender(s)
        PROVE  LockHeld'
    BY <1>12 DEF PlayWithoutSender, PlayReady, Subscribe, Respond
  <1>13. ASSUME NEW s \in Slots, PlayCounted(s)
        PROVE  LockHeld'
    BY <1>13 DEF PlayCounted, Respond
  <1>14. ASSUME NEW s \in Slots, NEW r \in {"TEARDOWN", "GONE"}, RecvEnd(s, r)
        PROVE  LockHeld'
    BY <1>14 DEF RecvEnd
  <1>15. ASSUME NEW s \in Slots, CtrlLock(s)
        PROVE  LockHeld'
    BY <1>15 DEF CtrlLock
  <1>16. ASSUME NEW s \in Slots, NEW ok \in BOOLEAN, CtrlDone(s, ok)
        PROVE  LockHeld'
    BY <1>16 DEF CtrlDone
  <1>17. ASSUME NEW s \in Slots, StopBegin(s)
        PROVE  LockHeld'
    BY <1>17 DEF StopBegin, StopBudget
  <1>18. ASSUME NEW s \in Slots, StopWaitEnds(s)
        PROVE  LockHeld'
    BY <1>18 DEF StopWaitEnds
  <1>19. ASSUME NEW s \in Slots, StopUncounted(s)
        PROVE  LockHeld'
    BY <1>19 DEF StopUncounted
  <1>20. ASSUME NEW s \in Slots, Unsubscribe(s)
        PROVE  LockHeld'
    BY <1>20 DEF Unsubscribe
  <1>21. ASSUME NEW s \in Slots, Release(s)
        PROVE  LockHeld'
    BY <1>21 DEF Release
  <1>22. ASSUME NEW t \in Senders, SenderTop(t)
        PROVE  LockHeld'
    BY <1>22 DEF SenderTop
  <1>23. ASSUME NEW t \in Senders, SenderReadEmptyOrUdp(t)
        PROVE  LockHeld'
    BY <1>23 DEF SenderReadEmptyOrUdp, SenderStopsReading
  <1>24. ASSUME NEW t \in Senders, SenderReadTcp(t)
        PROVE  LockHeld'
    BY <1>24 DEF SenderReadTcp, SenderStopsReading
  <1>25. ASSUME NEW t \in Senders, SenderLock(t)
        PROVE  LockHeld'
    BY <1>25 DEF SenderLock
  <1>26. ASSUME NEW t \in Senders, SenderExit(t)
        PROVE  LockHeld'
    BY <1>26 DEF SenderExit
  <1>27. ASSUME NEW t \in Senders, NEW ok \in BOOLEAN, SenderSent(t, ok)
        PROVE  LockHeld'
    BY <1>27 DEF SenderSent
  <1>28. CASE UNCHANGED vars
    BY <1>28 DEF vars, listenerVars, senderVars, sessionVars, poolVars
  <1>29. QED
    BY <1>1, <1>2, <1>3, <1>4, <1>5, <1>6, <1>7, <1>8, <1>9, <1>10, <1>11,
       <1>12, <1>13, <1>14, <1>15, <1>16, <1>17, <1>18, <1>19, <1>20, <1>21,
       <1>22, <1>23, <1>24, <1>25, <1>26, <1>27, <1>28
    DEF Next, Listener, Receive, HandlerStep, SenderStep

\* A session ends through stop_streaming, which leaves rtp_task NULL.
LEMMA EndedCleanStep == SenderInv /\ [Next]_vars => EndedClean'
  <1> SUFFICES ASSUME SenderInv, [Next]_vars PROVE EndedClean'
    OBVIOUS
  <1> USE TimesAssumption, SetsAssumption
      DEF SenderInv, EndedClean, TypeInv, TypeOK, Alive, listenerVars,
          senderVars, sessionVars, poolVars
  <1>1. ASSUME NEW s \in Slots, Claim(s)
        PROVE  EndedClean'
    BY <1>1 DEF Claim
  <1>2. ASSUME CountConnected
        PROVE  EndedClean'
    BY <1>2 DEF CountConnected
  <1>3. ASSUME SpawnClient
        PROVE  EndedClean'
    BY <1>3 DEF SpawnClient
  <1>4. ASSUME SpawnClientFails
        PROVE  EndedClean'
    BY <1>4 DEF SpawnClientFails
  <1>5. ASSUME UncountConnected
        PROVE  EndedClean'
    BY <1>5 DEF UncountConnected
  <1>6. ASSUME Preview
        PROVE  EndedClean'
    BY <1>6 DEF Preview, PreviewBegin, PreviewFails, PreviewSubscribe,
       PreviewUnsubscribe, PreviewFinish, PreviewOnly, Subscribe
  <1>7. ASSUME Tick
        PROVE  EndedClean'
    BY <1>7 DEF Tick, Less
  <1>8. ASSUME NEW s \in Slots, RecvPlain(s)
        PROVE  EndedClean'
    BY <1>8 DEF RecvPlain, Respond
  <1>9. ASSUME NEW s \in Slots, RecvSetup(s)
        PROVE  EndedClean'
    BY <1>9 DEF RecvSetup, Respond
  <1>10. ASSUME NEW s \in Slots, PlayRefused(s)
        PROVE  EndedClean'
    BY <1>10 DEF PlayRefused, PlayReady, Subscribe, Respond
  <1>11. ASSUME NEW s \in Slots, PlayStarts(s)
        PROVE  EndedClean'
    BY <1>11 DEF PlayStarts, PlayReady, Subscribe, Respond
  <1>12. ASSUME NEW s \in Slots, PlayWithoutSender(s)
        PROVE  EndedClean'
    BY <1>12 DEF PlayWithoutSender, PlayReady, Subscribe, Respond
  <1>13. ASSUME NEW s \in Slots, PlayCounted(s)
        PROVE  EndedClean'
    BY <1>13 DEF PlayCounted, Respond
  <1>14. ASSUME NEW s \in Slots, NEW r \in {"TEARDOWN", "GONE"}, RecvEnd(s, r)
        PROVE  EndedClean'
    BY <1>14 DEF RecvEnd
  <1>15. ASSUME NEW s \in Slots, CtrlLock(s)
        PROVE  EndedClean'
    BY <1>15 DEF CtrlLock
  <1>16. ASSUME NEW s \in Slots, NEW ok \in BOOLEAN, CtrlDone(s, ok)
        PROVE  EndedClean'
    BY <1>16 DEF CtrlDone
  <1>17. ASSUME NEW s \in Slots, StopBegin(s)
        PROVE  EndedClean'
    BY <1>17 DEF StopBegin, StopBudget
  <1>18. ASSUME NEW s \in Slots, StopWaitEnds(s)
        PROVE  EndedClean'
    BY <1>18 DEF StopWaitEnds
  <1>19. ASSUME NEW s \in Slots, StopUncounted(s)
        PROVE  EndedClean'
    BY <1>19 DEF StopUncounted
  <1>20. ASSUME NEW s \in Slots, Unsubscribe(s)
        PROVE  EndedClean'
    BY <1>20 DEF Unsubscribe
  <1>21. ASSUME NEW s \in Slots, Release(s)
        PROVE  EndedClean'
    BY <1>21 DEF Release
  <1>22. ASSUME NEW t \in Senders, SenderTop(t)
        PROVE  EndedClean'
    BY <1>22 DEF SenderTop
  <1>23. ASSUME NEW t \in Senders, SenderReadEmptyOrUdp(t)
        PROVE  EndedClean'
    BY <1>23 DEF SenderReadEmptyOrUdp, SenderStopsReading
  <1>24. ASSUME NEW t \in Senders, SenderReadTcp(t)
        PROVE  EndedClean'
    BY <1>24 DEF SenderReadTcp, SenderStopsReading
  <1>25. ASSUME NEW t \in Senders, SenderLock(t)
        PROVE  EndedClean'
    BY <1>25 DEF SenderLock
  <1>26. ASSUME NEW t \in Senders, SenderExit(t)
        PROVE  EndedClean'
    BY <1>26 DEF SenderExit
  <1>27. ASSUME NEW t \in Senders, NEW ok \in BOOLEAN, SenderSent(t, ok)
        PROVE  EndedClean'
    BY <1>27 DEF SenderSent
  <1>28. CASE UNCHANGED vars
    BY <1>28 DEF vars, listenerVars, senderVars, sessionVars, poolVars
  <1>29. QED
    BY <1>1, <1>2, <1>3, <1>4, <1>5, <1>6, <1>7, <1>8, <1>9, <1>10, <1>11,
       <1>12, <1>13, <1>14, <1>15, <1>16, <1>17, <1>18, <1>19, <1>20, <1>21,
       <1>22, <1>23, <1>24, <1>25, <1>26, <1>27, <1>28
    DEF Next, Listener, Receive, HandlerStep, SenderStep

\* Timers start at their limits and only run down.
LEMMA TimersBoundedStep == SenderInv /\ [Next]_vars => TimersBounded'
  <1> SUFFICES ASSUME SenderInv, [Next]_vars PROVE TimersBounded'
    OBVIOUS
  <1> USE TimesAssumption, SetsAssumption
      DEF SenderInv, TimersBounded, TypeInv, TypeOK, Alive, listenerVars,
          senderVars, sessionVars, poolVars
  <1>1. ASSUME NEW s \in Slots, Claim(s)
        PROVE  TimersBounded'
    BY <1>1 DEF Claim
  <1>2. ASSUME CountConnected
        PROVE  TimersBounded'
    BY <1>2 DEF CountConnected
  <1>3. ASSUME SpawnClient
        PROVE  TimersBounded'
    BY <1>3 DEF SpawnClient
  <1>4. ASSUME SpawnClientFails
        PROVE  TimersBounded'
    BY <1>4 DEF SpawnClientFails
  <1>5. ASSUME UncountConnected
        PROVE  TimersBounded'
    BY <1>5 DEF UncountConnected
  <1>6. ASSUME Preview
        PROVE  TimersBounded'
    BY <1>6 DEF Preview, PreviewBegin, PreviewFails, PreviewSubscribe,
       PreviewUnsubscribe, PreviewFinish, PreviewOnly, Subscribe
  <1>7. ASSUME Tick
        PROVE  TimersBounded'
    BY <1>7 DEF Tick, Less
  <1>8. ASSUME NEW s \in Slots, RecvPlain(s)
        PROVE  TimersBounded'
    BY <1>8 DEF RecvPlain, Respond
  <1>9. ASSUME NEW s \in Slots, RecvSetup(s)
        PROVE  TimersBounded'
    BY <1>9 DEF RecvSetup, Respond
  <1>10. ASSUME NEW s \in Slots, PlayRefused(s)
        PROVE  TimersBounded'
    BY <1>10 DEF PlayRefused, PlayReady, Subscribe, Respond
  <1>11. ASSUME NEW s \in Slots, PlayStarts(s)
        PROVE  TimersBounded'
    BY <1>11 DEF PlayStarts, PlayReady, Subscribe, Respond
  <1>12. ASSUME NEW s \in Slots, PlayWithoutSender(s)
        PROVE  TimersBounded'
    BY <1>12 DEF PlayWithoutSender, PlayReady, Subscribe, Respond
  <1>13. ASSUME NEW s \in Slots, PlayCounted(s)
        PROVE  TimersBounded'
    BY <1>13 DEF PlayCounted, Respond
  <1>14. ASSUME NEW s \in Slots, NEW r \in {"TEARDOWN", "GONE"}, RecvEnd(s, r)
        PROVE  TimersBounded'
    BY <1>14 DEF RecvEnd
  <1>15. ASSUME NEW s \in Slots, CtrlLock(s)
        PROVE  TimersBounded'
    BY <1>15 DEF CtrlLock
  <1>16. ASSUME NEW s \in Slots, NEW ok \in BOOLEAN, CtrlDone(s, ok)
        PROVE  TimersBounded'
    BY <1>16 DEF CtrlDone
  <1>17. ASSUME NEW s \in Slots, StopBegin(s)
        PROVE  TimersBounded'
    BY <1>17 DEF StopBegin, StopBudget
  <1>18. ASSUME NEW s \in Slots, StopWaitEnds(s)
        PROVE  TimersBounded'
    BY <1>18 DEF StopWaitEnds
  <1>19. ASSUME NEW s \in Slots, StopUncounted(s)
        PROVE  TimersBounded'
    BY <1>19 DEF StopUncounted
  <1>20. ASSUME NEW s \in Slots, Unsubscribe(s)
        PROVE  TimersBounded'
    BY <1>20 DEF Unsubscribe
  <1>21. ASSUME NEW s \in Slots, Release(s)
        PROVE  TimersBounded'
    BY <1>21 DEF Release
  <1>22. ASSUME NEW t \in Senders, SenderTop(t)
        PROVE  TimersBounded'
    BY <1>22 DEF SenderTop
  <1>23. ASSUME NEW t \in Senders, SenderReadEmptyOrUdp(t)
        PROVE  TimersBounded'
    BY <1>23 DEF SenderReadEmptyOrUdp, SenderStopsReading
  <1>24. ASSUME NEW t \in Senders, SenderReadTcp(t)
        PROVE  TimersBounded'
    BY <1>24 DEF SenderReadTcp, SenderStopsReading
  <1>25. ASSUME NEW t \in Senders, SenderLock(t)
        PROVE  TimersBounded'
    BY <1>25 DEF SenderLock
  <1>26. ASSUME NEW t \in Senders, SenderExit(t)
        PROVE  TimersBounded'
    BY <1>26 DEF SenderExit
  <1>27. ASSUME NEW t \in Senders, NEW ok \in BOOLEAN, SenderSent(t, ok)
        PROVE  TimersBounded'
    BY <1>27 DEF SenderSent
  <1>28. CASE UNCHANGED vars
    BY <1>28 DEF vars, listenerVars, senderVars, sessionVars, poolVars
  <1>29. QED
    BY <1>1, <1>2, <1>3, <1>4, <1>5, <1>6, <1>7, <1>8, <1>9, <1>10, <1>11,
       <1>12, <1>13, <1>14, <1>15, <1>16, <1>17, <1>18, <1>19, <1>20, <1>21,
       <1>22, <1>23, <1>24, <1>25, <1>26, <1>27, <1>28
    DEF Next, Listener, Receive, HandlerStep, SenderStep
\* What the code's numbers provide: a wait longer than a read and a send
\* together (200 ms + 1.52 s < 2 s), and peers that a send's budget does bound.
Timely == ~TricklingPeer /\ ReadTimeout + SendBudget < StopWait


\* The wait starts above what the sender can spend, and both run down together.
LEMMA WaitOutlastsStep == Timely /\ SenderInv /\ [Next]_vars => WaitOutlasts'
  <1> SUFFICES ASSUME Timely, SenderInv, [Next]_vars PROVE WaitOutlasts'
    OBVIOUS
  <1> USE TimesAssumption, SetsAssumption
      DEF SenderInv, WaitOutlasts, Owned, LockHeld, EndedClean, TimersBounded,
          Timely, TypeInv, TypeOK, Alive, listenerVars, senderVars,
          sessionVars, poolVars
  <1>1. ASSUME NEW s \in Slots, Claim(s)
        PROVE  WaitOutlasts'
    BY <1>1 DEF Claim
  <1>2. ASSUME CountConnected
        PROVE  WaitOutlasts'
    BY <1>2 DEF CountConnected
  <1>3. ASSUME SpawnClient
        PROVE  WaitOutlasts'
    BY <1>3 DEF SpawnClient
  <1>4. ASSUME SpawnClientFails
        PROVE  WaitOutlasts'
    BY <1>4 DEF SpawnClientFails
  <1>5. ASSUME UncountConnected
        PROVE  WaitOutlasts'
    BY <1>5 DEF UncountConnected
  <1>6. ASSUME Preview
        PROVE  WaitOutlasts'
    BY <1>6 DEF Preview, PreviewBegin, PreviewFails, PreviewSubscribe,
       PreviewUnsubscribe, PreviewFinish, PreviewOnly, Subscribe
  <1>7. ASSUME Tick
        PROVE  WaitOutlasts'
    <2> SUFFICES ASSUME NEW t \in Senders,
                        Alive(t)', (hpc[sslot[t]] = "stop_wait")'
                 PROVE  /\ (~playing[sslot[t]])'
                        /\ (0 < hTimer[sslot[t]])'
                        /\ (spc[t] = "reading" =>
                              sTimer[t] + SendBudget < hTimer[sslot[t]])'
                        /\ (spc[t] \in {"ready", "lock"} =>
                              SendBudget < hTimer[sslot[t]])'
                        /\ (spc[t] = "sending" => sTimer[t] < hTimer[sslot[t]])'
      OBVIOUS
    <2> DEFINE s == sslot[t]
    <2>1. s \in Slots /\ Alive(t) /\ hpc[s] = "stop_wait" /\ ~playing[s]
      BY <1>7 DEF Tick
    <2>2. hTimer'[s] = hTimer[s] - 1 /\ hTimer[s] > 0
      BY <1>7, <2>1 DEF Tick, Less, HandlerDue
    <2>3. txOwner[s] # "ctrl" /\ (txOwner[s] # None => txOwner[s] = t)
      BY <2>1
    <2>4. ~SenderDue(t)
      BY <1>7, <2>1 DEF Tick, Spins
    <2>5. spc[t] \in {"reading", "sending"}
      BY <2>1, <2>3, <2>4 DEF SenderDue, SenderRuns
    <2>6. sTimer[t] > 0 /\ sTimer'[t] = sTimer[t] - 1
      BY <1>7, <2>4, <2>5 DEF Tick, Less, SenderDue
    <2>7. QED
      BY <1>7, <2>1, <2>2, <2>5, <2>6 DEF Tick
  <1>8. ASSUME NEW s \in Slots, RecvPlain(s)
        PROVE  WaitOutlasts'
    BY <1>8 DEF RecvPlain, Respond
  <1>9. ASSUME NEW s \in Slots, RecvSetup(s)
        PROVE  WaitOutlasts'
    BY <1>9 DEF RecvSetup, Respond
  <1>10. ASSUME NEW s \in Slots, PlayRefused(s)
        PROVE  WaitOutlasts'
    BY <1>10 DEF PlayRefused, PlayReady, Subscribe, Respond
  <1>11. ASSUME NEW s \in Slots, PlayStarts(s)
        PROVE  WaitOutlasts'
    BY <1>11 DEF PlayStarts, PlayReady, Subscribe, Respond
  <1>12. ASSUME NEW s \in Slots, PlayWithoutSender(s)
        PROVE  WaitOutlasts'
    BY <1>12 DEF PlayWithoutSender, PlayReady, Subscribe, Respond
  <1>13. ASSUME NEW s \in Slots, PlayCounted(s)
        PROVE  WaitOutlasts'
    BY <1>13 DEF PlayCounted, Respond
  <1>14. ASSUME NEW s \in Slots, NEW r \in {"TEARDOWN", "GONE"}, RecvEnd(s, r)
        PROVE  WaitOutlasts'
    BY <1>14 DEF RecvEnd
  <1>15. ASSUME NEW s \in Slots, CtrlLock(s)
        PROVE  WaitOutlasts'
    BY <1>15 DEF CtrlLock
  <1>16. ASSUME NEW s \in Slots, NEW ok \in BOOLEAN, CtrlDone(s, ok)
        PROVE  WaitOutlasts'
    BY <1>16 DEF CtrlDone
  <1>17. ASSUME NEW s \in Slots, StopBegin(s)
        PROVE  WaitOutlasts'
    BY <1>17 DEF StopBegin, StopBudget
  <1>18. ASSUME NEW s \in Slots, StopWaitEnds(s)
        PROVE  WaitOutlasts'
    BY <1>18 DEF StopWaitEnds
  <1>19. ASSUME NEW s \in Slots, StopUncounted(s)
        PROVE  WaitOutlasts'
    BY <1>19 DEF StopUncounted
  <1>20. ASSUME NEW s \in Slots, Unsubscribe(s)
        PROVE  WaitOutlasts'
    BY <1>20 DEF Unsubscribe
  <1>21. ASSUME NEW s \in Slots, Release(s)
        PROVE  WaitOutlasts'
    BY <1>21 DEF Release
  <1>22. ASSUME NEW t \in Senders, SenderTop(t)
        PROVE  WaitOutlasts'
    BY <1>22 DEF SenderTop
  <1>23. ASSUME NEW t \in Senders, SenderReadEmptyOrUdp(t)
        PROVE  WaitOutlasts'
    BY <1>23 DEF SenderReadEmptyOrUdp, SenderStopsReading
  <1>24. ASSUME NEW t \in Senders, SenderReadTcp(t)
        PROVE  WaitOutlasts'
    BY <1>24 DEF SenderReadTcp, SenderStopsReading
  <1>25. ASSUME NEW t \in Senders, SenderLock(t)
        PROVE  WaitOutlasts'
    BY <1>25 DEF SenderLock
  <1>26. ASSUME NEW t \in Senders, SenderExit(t)
        PROVE  WaitOutlasts'
    BY <1>26 DEF SenderExit
  <1>27. ASSUME NEW t \in Senders, NEW ok \in BOOLEAN, SenderSent(t, ok)
        PROVE  WaitOutlasts'
    BY <1>27 DEF SenderSent
  <1>28. CASE UNCHANGED vars
    BY <1>28 DEF vars, listenerVars, senderVars, sessionVars, poolVars
  <1>29. CASE Listener
    BY <1>1, <1>2, <1>3, <1>4, <1>29 DEF Listener
  <1>30. ASSUME NEW s \in Slots, Receive(s)
        PROVE  WaitOutlasts'
    BY <1>8, <1>9, <1>10, <1>11, <1>12, <1>14, <1>30 DEF Receive
  <1>31. ASSUME NEW s \in Slots, HandlerStep(s)
        PROVE  WaitOutlasts'
    BY <1>13, <1>16, <1>17, <1>18, <1>19, <1>20, <1>21, <1>31 DEF HandlerStep
  <1>32. ASSUME NEW t \in Senders, SenderStep(t)
        PROVE  WaitOutlasts'
    BY <1>22, <1>23, <1>24, <1>25, <1>26, <1>27, <1>32 DEF SenderStep
  <1>33. QED
    BY <1>5, <1>6, <1>7, <1>15, <1>28, <1>29, <1>30, <1>31, <1>32 DEF Next

\* Without sessions nothing is owned and no lock is held.
LEMMA SenderInvInit == Init => SenderInv
  BY TypeInit, SetsAssumption
  DEF Init, SenderInv, Owned, LockHeld, EndedClean, TimersBounded,
      WaitOutlasts, Alive

\* When every wait outlasts what it waits for, senders and handlers never part.
LEMMA SenderInvCorrect == Timely => (Spec => []SenderInv)
  <1> SUFFICES ASSUME Timely PROVE Spec => []SenderInv
    OBVIOUS
  <1>1. SenderInv /\ [Next]_vars => SenderInv'
    BY TypeStep, OwnedStep, LockHeldStep, EndedCleanStep, TimersBoundedStep,
       WaitOutlastsStep
    DEF SenderInv
  <1>2. QED
    BY SenderInvInit, <1>1, PTL DEF Spec

\* With the times and peers the code counts on, a running sender is always the
\* one its slot's rtp_task names: no session is torn down under its sender.
THEOREM NoStraySender == Timely => (Spec => []SenderWithinSession)
  <1> SUFFICES ASSUME Timely PROVE Spec => []SenderWithinSession
    OBVIOUS
  <1>1. SenderInv => SenderWithinSession
    BY DEF SenderInv, Owned, SenderWithinSession, Alive
  <1>2. QED
    BY SenderInvCorrect, <1>1, PTL

\* Nor is a socket closed, or a slot handed to the next client, under one.
THEOREM NoSendOnClosedSocket == Timely => (Spec => []SenderGoneBeforeClose)
  <1> SUFFICES ASSUME Timely PROVE Spec => []SenderGoneBeforeClose
    OBVIOUS
  <1>1. SenderInv => SenderGoneBeforeClose
    BY SetsAssumption
    DEF SenderInv, TypeInv, Owned, EndedClean, SenderGoneBeforeClose, Alive
  <1>2. QED
    BY SenderInvCorrect, <1>1, PTL
-------------------------------------------------------------------------------
(***************************************************************************)
(* The two counters of /status, whatever the times and the peers.          *)
(***************************************************************************)

\* Where a session is tells whether it has a sender to count.
Phase ==
  /\ EndedClean
  /\ \A s \in Slots : hpc[s] = "stop_wait" => rtp_task[s] # None
  /\ "sender_task" \notin MayFail =>
       \A s \in Slots : hpc[s] = "play_count" => rtp_task[s] # None

\* What a handler has counted follows from where it is, step by step.
LEMMA PhaseStep == TypeInv /\ Phase /\ [Next]_vars => Phase'
  <1> SUFFICES ASSUME TypeInv, Phase, [Next]_vars PROVE Phase'
    OBVIOUS
  <1> USE SetsAssumption
      DEF Phase, EndedClean, TypeInv, TypeOK, Alive, listenerVars, senderVars,
          sessionVars, poolVars
  <1>1. ASSUME NEW s \in Slots, Claim(s)
        PROVE  Phase'
    BY <1>1 DEF Claim
  <1>2. ASSUME CountConnected
        PROVE  Phase'
    BY <1>2 DEF CountConnected
  <1>3. ASSUME SpawnClient
        PROVE  Phase'
    BY <1>3 DEF SpawnClient
  <1>4. ASSUME SpawnClientFails
        PROVE  Phase'
    BY <1>4 DEF SpawnClientFails
  <1>5. ASSUME UncountConnected
        PROVE  Phase'
    BY <1>5 DEF UncountConnected
  <1>6. ASSUME Preview
        PROVE  Phase'
    BY <1>6 DEF Preview, PreviewBegin, PreviewFails, PreviewSubscribe,
       PreviewUnsubscribe, PreviewFinish, PreviewOnly, Subscribe
  <1>7. ASSUME Tick
        PROVE  Phase'
    BY <1>7 DEF Tick, Less
  <1>8. ASSUME NEW s \in Slots, RecvPlain(s)
        PROVE  Phase'
    BY <1>8 DEF RecvPlain, Respond
  <1>9. ASSUME NEW s \in Slots, RecvSetup(s)
        PROVE  Phase'
    BY <1>9 DEF RecvSetup, Respond
  <1>10. ASSUME NEW s \in Slots, PlayRefused(s)
        PROVE  Phase'
    BY <1>10 DEF PlayRefused, PlayReady, Subscribe, Respond
  <1>11. ASSUME NEW s \in Slots, PlayStarts(s)
        PROVE  Phase'
    BY <1>11 DEF PlayStarts, PlayReady, Subscribe, Respond
  <1>12. ASSUME NEW s \in Slots, PlayWithoutSender(s)
        PROVE  Phase'
    BY <1>12 DEF PlayWithoutSender, PlayReady, Subscribe, Respond
  <1>13. ASSUME NEW s \in Slots, PlayCounted(s)
        PROVE  Phase'
    BY <1>13 DEF PlayCounted, Respond
  <1>14. ASSUME NEW s \in Slots, NEW r \in {"TEARDOWN", "GONE"}, RecvEnd(s, r)
        PROVE  Phase'
    BY <1>14 DEF RecvEnd
  <1>15. ASSUME NEW s \in Slots, CtrlLock(s)
        PROVE  Phase'
    BY <1>15 DEF CtrlLock
  <1>16. ASSUME NEW s \in Slots, NEW ok \in BOOLEAN, CtrlDone(s, ok)
        PROVE  Phase'
    BY <1>16 DEF CtrlDone
  <1>17. ASSUME NEW s \in Slots, StopBegin(s)
        PROVE  Phase'
    BY <1>17 DEF StopBegin, StopBudget
  <1>18. ASSUME NEW s \in Slots, StopWaitEnds(s)
        PROVE  Phase'
    BY <1>18 DEF StopWaitEnds
  <1>19. ASSUME NEW s \in Slots, StopUncounted(s)
        PROVE  Phase'
    BY <1>19 DEF StopUncounted
  <1>20. ASSUME NEW s \in Slots, Unsubscribe(s)
        PROVE  Phase'
    BY <1>20 DEF Unsubscribe
  <1>21. ASSUME NEW s \in Slots, Release(s)
        PROVE  Phase'
    BY <1>21 DEF Release
  <1>22. ASSUME NEW t \in Senders, SenderTop(t)
        PROVE  Phase'
    BY <1>22 DEF SenderTop
  <1>23. ASSUME NEW t \in Senders, SenderReadEmptyOrUdp(t)
        PROVE  Phase'
    BY <1>23 DEF SenderReadEmptyOrUdp, SenderStopsReading
  <1>24. ASSUME NEW t \in Senders, SenderReadTcp(t)
        PROVE  Phase'
    BY <1>24 DEF SenderReadTcp, SenderStopsReading
  <1>25. ASSUME NEW t \in Senders, SenderLock(t)
        PROVE  Phase'
    BY <1>25 DEF SenderLock
  <1>26. ASSUME NEW t \in Senders, SenderExit(t)
        PROVE  Phase'
    BY <1>26 DEF SenderExit
  <1>27. ASSUME NEW t \in Senders, NEW ok \in BOOLEAN, SenderSent(t, ok)
        PROVE  Phase'
    BY <1>27 DEF SenderSent
  <1>28. CASE UNCHANGED vars
    BY <1>28 DEF vars, listenerVars, senderVars, sessionVars, poolVars
  <1>29. QED
    BY <1>1, <1>2, <1>3, <1>4, <1>5, <1>6, <1>7, <1>8, <1>9, <1>10, <1>11,
       <1>12, <1>13, <1>14, <1>15, <1>16, <1>17, <1>18, <1>19, <1>20, <1>21,
       <1>22, <1>23, <1>24, <1>25, <1>26, <1>27, <1>28
    DEF Next, Listener, Receive, HandlerStep, SenderStep

\* s_connected keeps counting the handlers that have come in and not gone out.
LEMMA ConnectedStep == TypeInv /\ Phase /\ ConnectedExact /\ [Next]_vars => ConnectedExact'
  <1> SUFFICES ASSUME TypeInv, Phase, ConnectedExact, [Next]_vars PROVE ConnectedExact'
    OBVIOUS
  <1> USE SetsAssumption
      DEF ConnectedExact, TypeInv, TypeOK, Phase, EndedClean, listenerVars,
          senderVars, sessionVars, poolVars
  <1>1. ASSUME NEW s \in Slots, Claim(s)
        PROVE  ConnectedExact'
    <2>1. InUse' = InUse
      BY <1>1 DEF Claim, InUse
    <2>2. QED
      BY <1>1, <2>1 DEF Claim
  <1>2. ASSUME CountConnected
        PROVE  ConnectedExact'
    <2>1. InUse \subseteq Slots /\ IsFiniteSet(InUse)
      BY SlotsAssumption, FS_Subset DEF InUse
    <2>2. lslot \notin InUse /\ InUse' = InUse \cup {lslot}
      BY <1>2 DEF InUse, CountConnected
    <2>3. Cardinality(InUse') = Cardinality(InUse) + 1
      BY <2>1, <2>2, FS_AddElement
    <2>4. QED
      BY <1>2, <2>1, <2>3, FS_CardinalityType DEF InUse, CountConnected
  <1>3. ASSUME SpawnClient
        PROVE  ConnectedExact'
    <2>1. InUse' = InUse
      BY <1>3 DEF SpawnClient, InUse
    <2>2. QED
      BY <1>3, <2>1 DEF SpawnClient
  <1>4. ASSUME SpawnClientFails
        PROVE  ConnectedExact'
    <2>1. InUse \subseteq Slots /\ IsFiniteSet(InUse)
      BY SlotsAssumption, FS_Subset DEF InUse
    <2>2. lslot \in InUse /\ InUse' = InUse \ {lslot}
      BY <1>4 DEF InUse, SpawnClientFails
    <2>3. Cardinality(InUse') = Cardinality(InUse) - 1
      BY <2>1, <2>2, FS_RemoveElement
    <2>4. QED
      BY <1>4, <2>1, <2>3, FS_CardinalityType DEF InUse, SpawnClientFails
  <1>5. ASSUME UncountConnected
        PROVE  ConnectedExact'
    <2>1. IsFiniteSet(InUse)
      BY SlotsAssumption, FS_Subset DEF InUse
    <2>2. QED
      BY <1>5, <2>1, FS_CardinalityType DEF InUse, UncountConnected
  <1>6. ASSUME Preview
        PROVE  ConnectedExact'
    <2>1. InUse' = InUse
      BY <1>6 DEF Preview, PreviewBegin, PreviewFails, PreviewSubscribe,
         PreviewUnsubscribe, PreviewFinish, PreviewOnly, Subscribe, InUse
    <2>2. QED
      BY <1>6, <2>1 DEF Preview, PreviewBegin, PreviewFails, PreviewSubscribe,
         PreviewUnsubscribe, PreviewFinish, PreviewOnly, Subscribe
  <1>7. ASSUME Tick
        PROVE  ConnectedExact'
    <2>1. InUse' = InUse
      BY <1>7 DEF Tick, Less, InUse
    <2>2. QED
      BY <1>7, <2>1 DEF Tick, Less
  <1>8. ASSUME NEW s \in Slots, RecvPlain(s)
        PROVE  ConnectedExact'
    <2>1. InUse' = InUse
      BY <1>8 DEF RecvPlain, Respond, InUse
    <2>2. QED
      BY <1>8, <2>1 DEF RecvPlain, Respond
  <1>9. ASSUME NEW s \in Slots, RecvSetup(s)
        PROVE  ConnectedExact'
    <2>1. InUse' = InUse
      BY <1>9 DEF RecvSetup, Respond, InUse
    <2>2. QED
      BY <1>9, <2>1 DEF RecvSetup, Respond
  <1>10. ASSUME NEW s \in Slots, PlayRefused(s)
        PROVE  ConnectedExact'
    <2>1. InUse' = InUse
      BY <1>10 DEF PlayRefused, PlayReady, Subscribe, Respond, InUse
    <2>2. QED
      BY <1>10, <2>1 DEF PlayRefused, PlayReady, Subscribe, Respond
  <1>11. ASSUME NEW s \in Slots, PlayStarts(s)
        PROVE  ConnectedExact'
    <2>1. InUse' = InUse
      BY <1>11 DEF PlayStarts, PlayReady, Subscribe, Respond, InUse
    <2>2. QED
      BY <1>11, <2>1 DEF PlayStarts, PlayReady, Subscribe, Respond
  <1>12. ASSUME NEW s \in Slots, PlayWithoutSender(s)
        PROVE  ConnectedExact'
    <2>1. InUse' = InUse
      BY <1>12 DEF PlayWithoutSender, PlayReady, Subscribe, Respond, InUse
    <2>2. QED
      BY <1>12, <2>1 DEF PlayWithoutSender, PlayReady, Subscribe, Respond
  <1>13. ASSUME NEW s \in Slots, PlayCounted(s)
        PROVE  ConnectedExact'
    <2>1. InUse' = InUse
      BY <1>13 DEF PlayCounted, Respond, InUse
    <2>2. QED
      BY <1>13, <2>1 DEF PlayCounted, Respond
  <1>14. ASSUME NEW s \in Slots, NEW r \in {"TEARDOWN", "GONE"}, RecvEnd(s, r)
        PROVE  ConnectedExact'
    <2>1. InUse' = InUse
      BY <1>14 DEF RecvEnd, InUse
    <2>2. QED
      BY <1>14, <2>1 DEF RecvEnd
  <1>15. ASSUME NEW s \in Slots, CtrlLock(s)
        PROVE  ConnectedExact'
    <2>1. InUse' = InUse
      BY <1>15 DEF CtrlLock, InUse
    <2>2. QED
      BY <1>15, <2>1 DEF CtrlLock
  <1>16. ASSUME NEW s \in Slots, NEW ok \in BOOLEAN, CtrlDone(s, ok)
        PROVE  ConnectedExact'
    <2>1. InUse' = InUse
      BY <1>16 DEF CtrlDone, InUse
    <2>2. QED
      BY <1>16, <2>1 DEF CtrlDone
  <1>17. ASSUME NEW s \in Slots, StopBegin(s)
        PROVE  ConnectedExact'
    <2>1. InUse' = InUse
      BY <1>17 DEF StopBegin, StopBudget, InUse
    <2>2. QED
      BY <1>17, <2>1 DEF StopBegin, StopBudget
  <1>18. ASSUME NEW s \in Slots, StopWaitEnds(s)
        PROVE  ConnectedExact'
    <2>1. InUse' = InUse
      BY <1>18 DEF StopWaitEnds, InUse
    <2>2. QED
      BY <1>18, <2>1 DEF StopWaitEnds
  <1>19. ASSUME NEW s \in Slots, StopUncounted(s)
        PROVE  ConnectedExact'
    <2>1. InUse' = InUse
      BY <1>19 DEF StopUncounted, InUse
    <2>2. QED
      BY <1>19, <2>1 DEF StopUncounted
  <1>20. ASSUME NEW s \in Slots, Unsubscribe(s)
        PROVE  ConnectedExact'
    <2>1. InUse' = InUse
      BY <1>20 DEF Unsubscribe, InUse
    <2>2. QED
      BY <1>20, <2>1 DEF Unsubscribe
  <1>21. ASSUME NEW s \in Slots, Release(s)
        PROVE  ConnectedExact'
    <2>1. InUse \subseteq Slots /\ IsFiniteSet(InUse)
      BY SlotsAssumption, FS_Subset DEF InUse
    <2>2. s \in InUse /\ InUse' = InUse \ {s}
      BY <1>21 DEF InUse, Release
    <2>3. Cardinality(InUse') = Cardinality(InUse) - 1
      BY <2>1, <2>2, FS_RemoveElement
    <2>4. QED
      BY <1>21, <2>1, <2>3, FS_CardinalityType DEF InUse, Release
  <1>22. ASSUME NEW t \in Senders, SenderTop(t)
        PROVE  ConnectedExact'
    <2>1. InUse' = InUse
      BY <1>22 DEF SenderTop, InUse
    <2>2. QED
      BY <1>22, <2>1 DEF SenderTop
  <1>23. ASSUME NEW t \in Senders, SenderReadEmptyOrUdp(t)
        PROVE  ConnectedExact'
    <2>1. InUse' = InUse
      BY <1>23 DEF SenderReadEmptyOrUdp, SenderStopsReading, InUse
    <2>2. QED
      BY <1>23, <2>1 DEF SenderReadEmptyOrUdp, SenderStopsReading
  <1>24. ASSUME NEW t \in Senders, SenderReadTcp(t)
        PROVE  ConnectedExact'
    <2>1. InUse' = InUse
      BY <1>24 DEF SenderReadTcp, SenderStopsReading, InUse
    <2>2. QED
      BY <1>24, <2>1 DEF SenderReadTcp, SenderStopsReading
  <1>25. ASSUME NEW t \in Senders, SenderLock(t)
        PROVE  ConnectedExact'
    <2>1. InUse' = InUse
      BY <1>25 DEF SenderLock, InUse
    <2>2. QED
      BY <1>25, <2>1 DEF SenderLock
  <1>26. ASSUME NEW t \in Senders, SenderExit(t)
        PROVE  ConnectedExact'
    <2>1. InUse' = InUse
      BY <1>26 DEF SenderExit, InUse
    <2>2. QED
      BY <1>26, <2>1 DEF SenderExit
  <1>27. ASSUME NEW t \in Senders, NEW ok \in BOOLEAN, SenderSent(t, ok)
        PROVE  ConnectedExact'
    <2>1. InUse' = InUse
      BY <1>27 DEF SenderSent, InUse
    <2>2. QED
      BY <1>27, <2>1 DEF SenderSent
  <1>28. CASE UNCHANGED vars
    BY <1>28 DEF vars, InUse
  <1>29. QED
    BY <1>1, <1>2, <1>3, <1>4, <1>5, <1>6, <1>7, <1>8, <1>9, <1>10, <1>11,
       <1>12, <1>13, <1>14, <1>15, <1>16, <1>17, <1>18, <1>19, <1>20, <1>21,
       <1>22, <1>23, <1>24, <1>25, <1>26, <1>27, <1>28
    DEF Next, Listener, Receive, HandlerStep, SenderStep

\* s_streaming keeps counting the sessions between PLAY and their end.
LEMMA StreamingStep ==
        TypeInv /\ Phase /\ StreamingExact /\ [Next]_vars => StreamingExact'
  <1> SUFFICES ASSUME TypeInv, Phase, StreamingExact, [Next]_vars PROVE StreamingExact'
    OBVIOUS
  <1> USE SetsAssumption
      DEF StreamingExact, TypeInv, TypeOK, Phase, EndedClean, listenerVars,
          senderVars, sessionVars, poolVars
  <1>1. ASSUME NEW s \in Slots, Claim(s)
        PROVE  StreamingExact'
    <2>1. Playing' = Playing
      BY <1>1 DEF Claim, Playing
    <2>2. QED
      BY <1>1, <2>1 DEF Claim
  <1>2. ASSUME CountConnected
        PROVE  StreamingExact'
    <2>1. Playing' = Playing
      BY <1>2 DEF CountConnected, Playing
    <2>2. QED
      BY <1>2, <2>1 DEF CountConnected
  <1>3. ASSUME SpawnClient
        PROVE  StreamingExact'
    <2>1. Playing' = Playing
      BY <1>3 DEF SpawnClient, Playing
    <2>2. QED
      BY <1>3, <2>1 DEF SpawnClient
  <1>4. ASSUME SpawnClientFails
        PROVE  StreamingExact'
    <2>1. Playing' = Playing
      BY <1>4 DEF SpawnClientFails, Playing
    <2>2. QED
      BY <1>4, <2>1 DEF SpawnClientFails
  <1>5. ASSUME UncountConnected
        PROVE  StreamingExact'
    <2>1. Playing' = Playing
      BY <1>5 DEF UncountConnected, Playing
    <2>2. QED
      BY <1>5, <2>1 DEF UncountConnected
  <1>6. ASSUME Preview
        PROVE  StreamingExact'
    <2>1. Playing' = Playing
      BY <1>6 DEF Preview, PreviewBegin, PreviewFails, PreviewSubscribe,
         PreviewUnsubscribe, PreviewFinish, PreviewOnly, Subscribe, Playing
    <2>2. QED
      BY <1>6, <2>1 DEF Preview, PreviewBegin, PreviewFails, PreviewSubscribe,
         PreviewUnsubscribe, PreviewFinish, PreviewOnly, Subscribe
  <1>7. ASSUME Tick
        PROVE  StreamingExact'
    <2>1. Playing' = Playing
      BY <1>7 DEF Tick, Less, Playing
    <2>2. QED
      BY <1>7, <2>1 DEF Tick, Less
  <1>8. ASSUME NEW s \in Slots, RecvPlain(s)
        PROVE  StreamingExact'
    <2>1. Playing' = Playing
      BY <1>8 DEF RecvPlain, Respond, Playing
    <2>2. QED
      BY <1>8, <2>1 DEF RecvPlain, Respond
  <1>9. ASSUME NEW s \in Slots, RecvSetup(s)
        PROVE  StreamingExact'
    <2>1. Playing' = Playing
      BY <1>9 DEF RecvSetup, Respond, Playing
    <2>2. QED
      BY <1>9, <2>1 DEF RecvSetup, Respond
  <1>10. ASSUME NEW s \in Slots, PlayRefused(s)
        PROVE  StreamingExact'
    <2>1. Playing' = Playing
      BY <1>10 DEF PlayRefused, PlayReady, Subscribe, Respond, Playing
    <2>2. QED
      BY <1>10, <2>1 DEF PlayRefused, PlayReady, Subscribe, Respond
  <1>11. ASSUME NEW s \in Slots, PlayStarts(s)
        PROVE  StreamingExact'
    <2>1. Playing' = Playing
      BY <1>11 DEF PlayStarts, PlayReady, Subscribe, Playing
    <2>2. QED
      BY <1>11, <2>1 DEF PlayStarts, PlayReady, Subscribe
  <1>12. ASSUME NEW s \in Slots, PlayWithoutSender(s)
        PROVE  StreamingExact'
    <2>1. Playing' = Playing
      BY <1>12 DEF PlayWithoutSender, PlayReady, Subscribe, Playing
    <2>2. QED
      BY <1>12, <2>1 DEF PlayWithoutSender, PlayReady, Subscribe
  <1>13. ASSUME NEW s \in Slots, PlayCounted(s)
        PROVE  StreamingExact'
    <2>1. Playing \subseteq Slots /\ IsFiniteSet(Playing)
      BY SlotsAssumption, FS_Subset DEF Playing
    <2>2. Cardinality(Playing) \in Nat /\ s_streaming' = s_streaming + 1
      BY <1>13, <2>1, FS_CardinalityType DEF PlayCounted
    <2>3. CASE rtp_task[s] # None
      <3>1. s \notin Playing /\ Playing' = Playing \cup {s}
        BY <1>13, <2>3 DEF Playing, PlayCounted, Respond
      <3>2. Cardinality(Playing') = Cardinality(Playing) + 1
        BY <2>1, <3>1, FS_AddElement
      <3>3. QED
        BY <2>2, <3>2
    <2>4. CASE rtp_task[s] = None
      <3>1. Playing' = Playing
        BY <1>13, <2>4 DEF Playing, PlayCounted, Respond
      <3>2. "sender_task" \in MayFail
        BY <1>13, <2>4 DEF PlayCounted
      <3>3. QED
        BY <2>2, <3>1, <3>2
    <2>5. QED
      BY <2>3, <2>4
  <1>14. ASSUME NEW s \in Slots, NEW r \in {"TEARDOWN", "GONE"}, RecvEnd(s, r)
        PROVE  StreamingExact'
    <2>1. Playing' = Playing
      BY <1>14 DEF RecvEnd, Playing
    <2>2. QED
      BY <1>14, <2>1 DEF RecvEnd
  <1>15. ASSUME NEW s \in Slots, CtrlLock(s)
        PROVE  StreamingExact'
    <2>1. Playing' = Playing
      BY <1>15 DEF CtrlLock, Playing
    <2>2. QED
      BY <1>15, <2>1 DEF CtrlLock
  <1>16. ASSUME NEW s \in Slots, NEW ok \in BOOLEAN, CtrlDone(s, ok)
        PROVE  StreamingExact'
    <2>1. Playing' = Playing
      BY <1>16 DEF CtrlDone, Playing
    <2>2. QED
      BY <1>16, <2>1 DEF CtrlDone
  <1>17. ASSUME NEW s \in Slots, StopBegin(s)
        PROVE  StreamingExact'
    <2>1. Playing' = Playing
      BY <1>17 DEF StopBegin, StopBudget, Playing
    <2>2. QED
      BY <1>17, <2>1 DEF StopBegin, StopBudget
  <1>18. ASSUME NEW s \in Slots, StopWaitEnds(s)
        PROVE  StreamingExact'
    <2>1. Playing' = Playing
      BY <1>18 DEF StopWaitEnds, Playing
    <2>2. QED
      BY <1>18, <2>1 DEF StopWaitEnds
  <1>19. ASSUME NEW s \in Slots, StopUncounted(s)
        PROVE  StreamingExact'
    <2>1. Playing \subseteq Slots /\ IsFiniteSet(Playing)
      BY SlotsAssumption, FS_Subset DEF Playing
    <2>2. s \in Playing /\ Playing' = Playing \ {s}
      BY <1>19 DEF Playing, StopUncounted
    <2>3. Cardinality(Playing') = Cardinality(Playing) - 1
      BY <2>1, <2>2, FS_RemoveElement
    <2>4. QED
      BY <1>19, <2>1, <2>3, FS_CardinalityType DEF Playing, StopUncounted
  <1>20. ASSUME NEW s \in Slots, Unsubscribe(s)
        PROVE  StreamingExact'
    <2>1. Playing' = Playing
      BY <1>20 DEF Unsubscribe, Playing
    <2>2. QED
      BY <1>20, <2>1 DEF Unsubscribe
  <1>21. ASSUME NEW s \in Slots, Release(s)
        PROVE  StreamingExact'
    <2>1. Playing' = Playing
      BY <1>21 DEF Release, Playing
    <2>2. QED
      BY <1>21, <2>1 DEF Release
  <1>22. ASSUME NEW t \in Senders, SenderTop(t)
        PROVE  StreamingExact'
    <2>1. Playing' = Playing
      BY <1>22 DEF SenderTop, Playing
    <2>2. QED
      BY <1>22, <2>1 DEF SenderTop
  <1>23. ASSUME NEW t \in Senders, SenderReadEmptyOrUdp(t)
        PROVE  StreamingExact'
    <2>1. Playing' = Playing
      BY <1>23 DEF SenderReadEmptyOrUdp, SenderStopsReading, Playing
    <2>2. QED
      BY <1>23, <2>1 DEF SenderReadEmptyOrUdp, SenderStopsReading
  <1>24. ASSUME NEW t \in Senders, SenderReadTcp(t)
        PROVE  StreamingExact'
    <2>1. Playing' = Playing
      BY <1>24 DEF SenderReadTcp, SenderStopsReading, Playing
    <2>2. QED
      BY <1>24, <2>1 DEF SenderReadTcp, SenderStopsReading
  <1>25. ASSUME NEW t \in Senders, SenderLock(t)
        PROVE  StreamingExact'
    <2>1. Playing' = Playing
      BY <1>25 DEF SenderLock, Playing
    <2>2. QED
      BY <1>25, <2>1 DEF SenderLock
  <1>26. ASSUME NEW t \in Senders, SenderExit(t)
        PROVE  StreamingExact'
    <2>1. Playing' = Playing
      BY <1>26 DEF SenderExit, Playing
    <2>2. QED
      BY <1>26, <2>1 DEF SenderExit
  <1>27. ASSUME NEW t \in Senders, NEW ok \in BOOLEAN, SenderSent(t, ok)
        PROVE  StreamingExact'
    <2>1. Playing' = Playing
      BY <1>27 DEF SenderSent, Playing
    <2>2. QED
      BY <1>27, <2>1 DEF SenderSent
  <1>28. CASE UNCHANGED vars
    BY <1>28 DEF vars, Playing
  <1>29. QED
    BY <1>1, <1>2, <1>3, <1>4, <1>5, <1>6, <1>7, <1>8, <1>9, <1>10, <1>11,
       <1>12, <1>13, <1>14, <1>15, <1>16, <1>17, <1>18, <1>19, <1>20, <1>21,
       <1>22, <1>23, <1>24, <1>25, <1>26, <1>27, <1>28
    DEF Next, Listener, Receive, HandlerStep, SenderStep

\* Both counters start at zero, with no handler.
LEMMA CounterInit == Init => Phase /\ ConnectedExact /\ StreamingExact
  <1> SUFFICES ASSUME Init PROVE Phase /\ ConnectedExact /\ StreamingExact
    OBVIOUS
  <1>1. InUse = {} /\ Playing = {}
    BY DEF Init, InUse, Playing
  <1>2. Phase
    BY DEF Init, Phase, EndedClean
  <1>3. QED
    BY <1>1, <1>2, FS_EmptySet DEF Init, ConnectedExact, StreamingExact

\* The listener counts a slot after it has taken it, a client task counts itself off
\* after it has released its slot, and another client may come in between: the
\* count stays the slots counted and the tasks not yet counted off, whether or not
\* client tasks can be created.
THEOREM ConnectedCount == Spec => []ConnectedExact
  <1> DEFINE Inv == TypeInv /\ Phase /\ ConnectedExact
  <1>1. Init => Inv
    BY TypeInit, CounterInit
  <1>2. Inv /\ [Next]_vars => Inv'
    BY TypeStep, PhaseStep, ConnectedStep
  <1>3. QED
    BY <1>1, <1>2, PTL DEF Spec

\* Whatever allocation fails and however a sender ends, the streaming count never
\* falls short of the sessions that play; it is their number where every sender
\* that a PLAY asks for is created.
THEOREM StreamingCount == Spec => []StreamingExact
  <1> DEFINE Inv == TypeInv /\ Phase /\ StreamingExact
  <1>1. Init => Inv
    BY TypeInit, CounterInit
  <1>2. Inv /\ [Next]_vars => Inv'
    BY TypeStep, PhaseStep, StreamingStep
  <1>3. QED
    BY <1>1, <1>2, PTL DEF Spec

\* Both counts of /status, for any slots, peers, times and failing allocations.
THEOREM CountsAreExact == Spec => []CountsExact
  <1>1. StreamingExact /\ ConnectedExact => CountsExact
    BY DEF CountsExact
  <1>2. QED
    BY <1>1, ConnectedCount, StreamingCount, PTL
-------------------------------------------------------------------------------
(***************************************************************************)
(* The reader slots: who holds which, who reads from it, and how many are  *)
(* taken.                                                                  *)
(***************************************************************************)

\* Sessions and the preview hold active reader slots, no two of them the same.
ReadersHeld ==
  /\ \A s \in Slots : reader[s] # None => reader[s] \in active /\ reader[s] # pvReader
  /\ \A s \in Slots : reader[s] # None => \A u \in Slots \ {s} : reader[u] # reader[s]
  /\ pvReader # None => pvReader \in active
  /\ pvpc # "stream" => pvReader = None

\* A sender reads from the reader slot of its session, and only while it reads.
SendersRead == \A t \in Senders :
  sread[t] = IF spc[t] \in {"reading", "ready"} THEN reader[sslot[t]] ELSE None

\* A slot is handed out when nobody has it, and taken back from the one who has.
LEMMA ReadersHeldStep ==
        TypeInv /\ ReadersHeld /\ [Next]_vars => ReadersHeld'
  <1> SUFFICES ASSUME TypeInv, ReadersHeld, [Next]_vars PROVE ReadersHeld'
    OBVIOUS
  <1> USE SetsAssumption
      DEF ReadersHeld, TypeInv, TypeOK, Alive, listenerVars, senderVars,
          sessionVars, poolVars
  <1>1. ASSUME NEW s \in Slots, Claim(s)
        PROVE  ReadersHeld'
    BY <1>1 DEF Claim
  <1>2. ASSUME CountConnected
        PROVE  ReadersHeld'
    BY <1>2 DEF CountConnected
  <1>3. ASSUME SpawnClient
        PROVE  ReadersHeld'
    BY <1>3 DEF SpawnClient
  <1>4. ASSUME SpawnClientFails
        PROVE  ReadersHeld'
    BY <1>4 DEF SpawnClientFails
  <1>5. ASSUME UncountConnected
        PROVE  ReadersHeld'
    BY <1>5 DEF UncountConnected
  <1>6. ASSUME PreviewBegin
        PROVE  ReadersHeld'
    BY <1>6 DEF PreviewBegin, PreviewOnly
  <1>7. ASSUME PreviewFails
        PROVE  ReadersHeld'
    BY <1>7 DEF PreviewFails, PreviewOnly
  <1>8. ASSUME PreviewSubscribe
        PROVE  ReadersHeld'
    BY <1>8 DEF PreviewSubscribe, PreviewOnly, Subscribe
  <1>9. ASSUME PreviewUnsubscribe
        PROVE  ReadersHeld'
    BY <1>9 DEF PreviewUnsubscribe, PreviewOnly
  <1>10. ASSUME PreviewFinish
        PROVE  ReadersHeld'
    BY <1>10 DEF PreviewFinish, PreviewOnly
  <1>11. ASSUME Tick
        PROVE  ReadersHeld'
    BY <1>11 DEF Tick, Less
  <1>12. ASSUME NEW s \in Slots, RecvPlain(s)
        PROVE  ReadersHeld'
    BY <1>12 DEF RecvPlain, Respond
  <1>13. ASSUME NEW s \in Slots, RecvSetup(s)
        PROVE  ReadersHeld'
    BY <1>13 DEF RecvSetup, Respond
  <1>14. ASSUME NEW s \in Slots, PlayRefused(s)
        PROVE  ReadersHeld'
    BY <1>14 DEF PlayRefused, PlayReady, Subscribe, Respond
  <1>15. ASSUME NEW s \in Slots, PlayStarts(s)
        PROVE  ReadersHeld'
    BY <1>15 DEF PlayStarts, PlayReady, Subscribe, Respond
  <1>16. ASSUME NEW s \in Slots, PlayWithoutSender(s)
        PROVE  ReadersHeld'
    BY <1>16 DEF PlayWithoutSender, PlayReady, Subscribe, Respond
  <1>17. ASSUME NEW s \in Slots, PlayCounted(s)
        PROVE  ReadersHeld'
    BY <1>17 DEF PlayCounted, Respond
  <1>18. ASSUME NEW s \in Slots, NEW r \in {"TEARDOWN", "GONE"}, RecvEnd(s, r)
        PROVE  ReadersHeld'
    BY <1>18 DEF RecvEnd
  <1>19. ASSUME NEW s \in Slots, CtrlLock(s)
        PROVE  ReadersHeld'
    BY <1>19 DEF CtrlLock
  <1>20. ASSUME NEW s \in Slots, NEW ok \in BOOLEAN, CtrlDone(s, ok)
        PROVE  ReadersHeld'
    BY <1>20 DEF CtrlDone
  <1>21. ASSUME NEW s \in Slots, StopBegin(s)
        PROVE  ReadersHeld'
    BY <1>21 DEF StopBegin, StopBudget
  <1>22. ASSUME NEW s \in Slots, StopWaitEnds(s)
        PROVE  ReadersHeld'
    BY <1>22 DEF StopWaitEnds
  <1>23. ASSUME NEW s \in Slots, StopUncounted(s)
        PROVE  ReadersHeld'
    BY <1>23 DEF StopUncounted
  <1>24. ASSUME NEW s \in Slots, Unsubscribe(s)
        PROVE  ReadersHeld'
    BY <1>24 DEF Unsubscribe
  <1>25. ASSUME NEW s \in Slots, Release(s)
        PROVE  ReadersHeld'
    BY <1>25 DEF Release
  <1>26. ASSUME NEW t \in Senders, SenderTop(t)
        PROVE  ReadersHeld'
    BY <1>26 DEF SenderTop
  <1>27. ASSUME NEW t \in Senders, SenderReadEmptyOrUdp(t)
        PROVE  ReadersHeld'
    BY <1>27 DEF SenderReadEmptyOrUdp, SenderStopsReading
  <1>28. ASSUME NEW t \in Senders, SenderReadTcp(t)
        PROVE  ReadersHeld'
    BY <1>28 DEF SenderReadTcp, SenderStopsReading
  <1>29. ASSUME NEW t \in Senders, SenderLock(t)
        PROVE  ReadersHeld'
    BY <1>29 DEF SenderLock
  <1>30. ASSUME NEW t \in Senders, SenderExit(t)
        PROVE  ReadersHeld'
    BY <1>30 DEF SenderExit
  <1>31. ASSUME NEW t \in Senders, NEW ok \in BOOLEAN, SenderSent(t, ok)
        PROVE  ReadersHeld'
    BY <1>31 DEF SenderSent
  <1>32. CASE UNCHANGED vars
    BY <1>32 DEF vars
  <1>33. QED
    BY <1>1, <1>2, <1>3, <1>4, <1>5, <1>6, <1>7, <1>8, <1>9, <1>10, <1>11,
       <1>12, <1>13, <1>14, <1>15, <1>16, <1>17, <1>18, <1>19, <1>20, <1>21,
       <1>22, <1>23, <1>24, <1>25, <1>26, <1>27, <1>28, <1>29, <1>30, <1>31,
       <1>32
    DEF Next, Listener, Receive, HandlerStep, SenderStep, Preview

\* A session changes its reader slot only while it has no sender.
LEMMA SendersReadStep ==
        SenderInv /\ SendersRead /\ [Next]_vars => SendersRead'
  <1> SUFFICES ASSUME SenderInv, SendersRead, [Next]_vars PROVE SendersRead'
    OBVIOUS
  <1> USE SetsAssumption
      DEF SendersRead, SenderInv, Owned, EndedClean, TypeInv, TypeOK, Alive,
         listenerVars, senderVars,
          sessionVars, poolVars
  <1>1. ASSUME NEW s \in Slots, Claim(s)
        PROVE  SendersRead'
    BY <1>1 DEF Claim
  <1>2. ASSUME CountConnected
        PROVE  SendersRead'
    BY <1>2 DEF CountConnected
  <1>3. ASSUME SpawnClient
        PROVE  SendersRead'
    BY <1>3 DEF SpawnClient
  <1>4. ASSUME SpawnClientFails
        PROVE  SendersRead'
    BY <1>4 DEF SpawnClientFails
  <1>5. ASSUME UncountConnected
        PROVE  SendersRead'
    BY <1>5 DEF UncountConnected
  <1>6. ASSUME PreviewBegin
        PROVE  SendersRead'
    BY <1>6 DEF PreviewBegin, PreviewOnly
  <1>7. ASSUME PreviewFails
        PROVE  SendersRead'
    BY <1>7 DEF PreviewFails, PreviewOnly
  <1>8. ASSUME PreviewSubscribe
        PROVE  SendersRead'
    BY <1>8 DEF PreviewSubscribe, PreviewOnly, Subscribe
  <1>9. ASSUME PreviewUnsubscribe
        PROVE  SendersRead'
    BY <1>9 DEF PreviewUnsubscribe, PreviewOnly
  <1>10. ASSUME PreviewFinish
        PROVE  SendersRead'
    BY <1>10 DEF PreviewFinish, PreviewOnly
  <1>11. ASSUME Tick
        PROVE  SendersRead'
    BY <1>11 DEF Tick, Less
  <1>12. ASSUME NEW s \in Slots, RecvPlain(s)
        PROVE  SendersRead'
    BY <1>12 DEF RecvPlain, Respond
  <1>13. ASSUME NEW s \in Slots, RecvSetup(s)
        PROVE  SendersRead'
    BY <1>13 DEF RecvSetup, Respond
  <1>14. ASSUME NEW s \in Slots, PlayRefused(s)
        PROVE  SendersRead'
    BY <1>14 DEF PlayRefused, PlayReady, Subscribe, Respond
  <1>15. ASSUME NEW s \in Slots, PlayStarts(s)
        PROVE  SendersRead'
    BY <1>15 DEF PlayStarts, PlayReady, Subscribe, Respond
  <1>16. ASSUME NEW s \in Slots, PlayWithoutSender(s)
        PROVE  SendersRead'
    BY <1>16 DEF PlayWithoutSender, PlayReady, Subscribe, Respond
  <1>17. ASSUME NEW s \in Slots, PlayCounted(s)
        PROVE  SendersRead'
    BY <1>17 DEF PlayCounted, Respond
  <1>18. ASSUME NEW s \in Slots, NEW r \in {"TEARDOWN", "GONE"}, RecvEnd(s, r)
        PROVE  SendersRead'
    BY <1>18 DEF RecvEnd
  <1>19. ASSUME NEW s \in Slots, CtrlLock(s)
        PROVE  SendersRead'
    BY <1>19 DEF CtrlLock
  <1>20. ASSUME NEW s \in Slots, NEW ok \in BOOLEAN, CtrlDone(s, ok)
        PROVE  SendersRead'
    BY <1>20 DEF CtrlDone
  <1>21. ASSUME NEW s \in Slots, StopBegin(s)
        PROVE  SendersRead'
    BY <1>21 DEF StopBegin, StopBudget
  <1>22. ASSUME NEW s \in Slots, StopWaitEnds(s)
        PROVE  SendersRead'
    BY <1>22 DEF StopWaitEnds
  <1>23. ASSUME NEW s \in Slots, StopUncounted(s)
        PROVE  SendersRead'
    BY <1>23 DEF StopUncounted
  <1>24. ASSUME NEW s \in Slots, Unsubscribe(s)
        PROVE  SendersRead'
    BY <1>24 DEF Unsubscribe
  <1>25. ASSUME NEW s \in Slots, Release(s)
        PROVE  SendersRead'
    BY <1>25 DEF Release
  <1>26. ASSUME NEW t \in Senders, SenderTop(t)
        PROVE  SendersRead'
    BY <1>26 DEF SenderTop
  <1>27. ASSUME NEW t \in Senders, SenderReadEmptyOrUdp(t)
        PROVE  SendersRead'
    BY <1>27 DEF SenderReadEmptyOrUdp, SenderStopsReading
  <1>28. ASSUME NEW t \in Senders, SenderReadTcp(t)
        PROVE  SendersRead'
    BY <1>28 DEF SenderReadTcp, SenderStopsReading
  <1>29. ASSUME NEW t \in Senders, SenderLock(t)
        PROVE  SendersRead'
    BY <1>29 DEF SenderLock
  <1>30. ASSUME NEW t \in Senders, SenderExit(t)
        PROVE  SendersRead'
    BY <1>30 DEF SenderExit
  <1>31. ASSUME NEW t \in Senders, NEW ok \in BOOLEAN, SenderSent(t, ok)
        PROVE  SendersRead'
    BY <1>31 DEF SenderSent
  <1>32. CASE UNCHANGED vars
    BY <1>32 DEF vars
  <1>33. QED
    BY <1>1, <1>2, <1>3, <1>4, <1>5, <1>6, <1>7, <1>8, <1>9, <1>10, <1>11,
       <1>12, <1>13, <1>14, <1>15, <1>16, <1>17, <1>18, <1>19, <1>20, <1>21,
       <1>22, <1>23, <1>24, <1>25, <1>26, <1>27, <1>28, <1>29, <1>30, <1>31,
       <1>32
    DEF Next, Listener, Receive, HandlerStep, SenderStep, Preview

\* Where sends keep to their budget, audio_pipeline_read and the drain of an
\* unsubscribe never meet on one ring buffer, and no two clients share one, for any
\* number of clients, previews and senders that cannot be created.
THEOREM OneConsumerPerRing == Timely => (Spec => []RingHasOneConsumer)
  <1> SUFFICES ASSUME Timely PROVE Spec => []RingHasOneConsumer
    OBVIOUS
  <1> DEFINE RingInv == ReadersHeld /\ SendersRead
  <1>1. Init => RingInv
    BY DEF Init, ReadersHeld, SendersRead
  <1>2. TypeInv /\ SenderInv /\ RingInv /\ [Next]_vars => RingInv'
    BY ReadersHeldStep, SendersReadStep
  <1>3. SenderInv /\ RingInv => RingHasOneConsumer
    <2> SUFFICES ASSUME SenderInv, RingInv PROVE RingHasOneConsumer
      OBVIOUS
    <2>1. \A s \in Slots : reader[s] # None =>
            reader[s] # pvReader /\ \A u \in Slots \ {s} : reader[u] # reader[s]
      BY DEF ReadersHeld
    <2>2. ASSUME NEW t \in Senders, sread[t] # None
          PROVE  /\ Alive(t) /\ sslot[t] \in Slots
                 /\ sread[t] = reader[sslot[t]] /\ rtp_task[sslot[t]] = t
      BY <2>2 DEF SendersRead, SenderInv, TypeInv, Owned, Alive
    <2>3. ASSUME NEW t \in Senders, sread[t] # None
          PROVE  sread[t] \in active /\ sread[t] # pvReader
      BY <2>2, <2>3 DEF ReadersHeld
    <2>4. ASSUME NEW t \in Senders, sread[t] # None, NEW u \in Senders \ {t}
          PROVE  sread[u] # sread[t]
      <3> SUFFICES ASSUME sread[u] = sread[t] PROVE FALSE
        OBVIOUS
      <3>1. sslot[u] # sslot[t]
        BY <2>2, <2>4
      <3>2. QED
        BY <2>1, <2>2, <2>4, <3>1
    <2>5. QED
      BY <2>1, <2>2, <2>3, <2>4 DEF RingHasOneConsumer
  <1>4. SenderInv => TypeInv
    BY DEF SenderInv
  <1> HIDE DEF RingInv
  <1>5. QED
    BY SenderInvCorrect, <1>1, <1>2, <1>3, <1>4, PTL DEF Spec

\* No reader slot is active for nobody, and a session holds one only between its
\* PLAY and its unsubscribe.
ReadersUsed ==
  /\ \A r \in active : r = pvReader \/ \E s \in Slots : reader[s] = r
  /\ \A s \in Slots : reader[s] # None => rtp_task[s] # None \/ hpc[s] \in {"uncount", "unsub"}

\* Where senders can be created, a PLAY that takes a slot gives rtp_task a value too.
LEMMA ReadersUsedStep ==
        "sender_task" \notin MayFail /\ TypeInv /\ Phase /\ ReadersHeld /\ ReadersUsed
          /\ [Next]_vars => ReadersUsed'
  <1> SUFFICES ASSUME "sender_task" \notin MayFail, TypeInv, Phase, ReadersHeld,
                      ReadersUsed, [Next]_vars
               PROVE  ReadersUsed'
    OBVIOUS
  <1> USE SetsAssumption
      DEF ReadersHeld, ReadersUsed, Phase, EndedClean, TypeInv, TypeOK, Alive,
         listenerVars, senderVars,
          sessionVars, poolVars
  <1>1. ASSUME NEW s \in Slots, Claim(s)
        PROVE  ReadersUsed'
    BY <1>1 DEF Claim
  <1>2. ASSUME CountConnected
        PROVE  ReadersUsed'
    BY <1>2 DEF CountConnected
  <1>3. ASSUME SpawnClient
        PROVE  ReadersUsed'
    BY <1>3 DEF SpawnClient
  <1>4. ASSUME SpawnClientFails
        PROVE  ReadersUsed'
    BY <1>4 DEF SpawnClientFails
  <1>5. ASSUME UncountConnected
        PROVE  ReadersUsed'
    BY <1>5 DEF UncountConnected
  <1>6. ASSUME PreviewBegin
        PROVE  ReadersUsed'
    BY <1>6 DEF PreviewBegin, PreviewOnly
  <1>7. ASSUME PreviewFails
        PROVE  ReadersUsed'
    BY <1>7 DEF PreviewFails, PreviewOnly
  <1>8. ASSUME PreviewSubscribe
        PROVE  ReadersUsed'
    BY <1>8 DEF PreviewSubscribe, PreviewOnly, Subscribe
  <1>9. ASSUME PreviewUnsubscribe
        PROVE  ReadersUsed'
    BY <1>9 DEF PreviewUnsubscribe, PreviewOnly
  <1>10. ASSUME PreviewFinish
        PROVE  ReadersUsed'
    BY <1>10 DEF PreviewFinish, PreviewOnly
  <1>11. ASSUME Tick
        PROVE  ReadersUsed'
    BY <1>11 DEF Tick, Less
  <1>12. ASSUME NEW s \in Slots, RecvPlain(s)
        PROVE  ReadersUsed'
    BY <1>12 DEF RecvPlain, Respond
  <1>13. ASSUME NEW s \in Slots, RecvSetup(s)
        PROVE  ReadersUsed'
    BY <1>13 DEF RecvSetup, Respond
  <1>14. ASSUME NEW s \in Slots, PlayRefused(s)
        PROVE  ReadersUsed'
    BY <1>14 DEF PlayRefused, PlayReady, Subscribe, Respond
  <1>15. ASSUME NEW s \in Slots, PlayStarts(s)
        PROVE  ReadersUsed'
    BY <1>15 DEF PlayStarts, PlayReady, Subscribe, Respond
  <1>16. ASSUME NEW s \in Slots, PlayWithoutSender(s)
        PROVE  ReadersUsed'
    BY <1>16 DEF PlayWithoutSender, PlayReady, Subscribe, Respond
  <1>17. ASSUME NEW s \in Slots, PlayCounted(s)
        PROVE  ReadersUsed'
    BY <1>17 DEF PlayCounted, Respond
  <1>18. ASSUME NEW s \in Slots, NEW r \in {"TEARDOWN", "GONE"}, RecvEnd(s, r)
        PROVE  ReadersUsed'
    BY <1>18 DEF RecvEnd
  <1>19. ASSUME NEW s \in Slots, CtrlLock(s)
        PROVE  ReadersUsed'
    BY <1>19 DEF CtrlLock
  <1>20. ASSUME NEW s \in Slots, NEW ok \in BOOLEAN, CtrlDone(s, ok)
        PROVE  ReadersUsed'
    BY <1>20 DEF CtrlDone
  <1>21. ASSUME NEW s \in Slots, StopBegin(s)
        PROVE  ReadersUsed'
    BY <1>21 DEF StopBegin, StopBudget
  <1>22. ASSUME NEW s \in Slots, StopWaitEnds(s)
        PROVE  ReadersUsed'
    BY <1>22 DEF StopWaitEnds
  <1>23. ASSUME NEW s \in Slots, StopUncounted(s)
        PROVE  ReadersUsed'
    BY <1>23 DEF StopUncounted
  <1>24. ASSUME NEW s \in Slots, Unsubscribe(s)
        PROVE  ReadersUsed'
    BY <1>24 DEF Unsubscribe
  <1>25. ASSUME NEW s \in Slots, Release(s)
        PROVE  ReadersUsed'
    BY <1>25 DEF Release
  <1>26. ASSUME NEW t \in Senders, SenderTop(t)
        PROVE  ReadersUsed'
    BY <1>26 DEF SenderTop
  <1>27. ASSUME NEW t \in Senders, SenderReadEmptyOrUdp(t)
        PROVE  ReadersUsed'
    BY <1>27 DEF SenderReadEmptyOrUdp, SenderStopsReading
  <1>28. ASSUME NEW t \in Senders, SenderReadTcp(t)
        PROVE  ReadersUsed'
    BY <1>28 DEF SenderReadTcp, SenderStopsReading
  <1>29. ASSUME NEW t \in Senders, SenderLock(t)
        PROVE  ReadersUsed'
    BY <1>29 DEF SenderLock
  <1>30. ASSUME NEW t \in Senders, SenderExit(t)
        PROVE  ReadersUsed'
    BY <1>30 DEF SenderExit
  <1>31. ASSUME NEW t \in Senders, NEW ok \in BOOLEAN, SenderSent(t, ok)
        PROVE  ReadersUsed'
    BY <1>31 DEF SenderSent
  <1>32. CASE UNCHANGED vars
    BY <1>32 DEF vars
  <1>33. QED
    BY <1>1, <1>2, <1>3, <1>4, <1>5, <1>6, <1>7, <1>8, <1>9, <1>10, <1>11,
       <1>12, <1>13, <1>14, <1>15, <1>16, <1>17, <1>18, <1>19, <1>20, <1>21,
       <1>22, <1>23, <1>24, <1>25, <1>26, <1>27, <1>28, <1>29, <1>30, <1>31,
       <1>32
    DEF Next, Listener, Receive, HandlerStep, SenderStep, Preview

\* With more reader slots than client slots, a PLAY finds one, however many clients
\* stream and whatever the preview holds, where senders can be created.
THEOREM PlayAlwaysFindsReader ==
          IsFiniteSet(Readers) /\ Cardinality(Slots) < Cardinality(Readers)
            /\ "sender_task" \notin MayFail
          => (Spec => []PlayFindsReader)
  <1> SUFFICES ASSUME IsFiniteSet(Readers), Cardinality(Slots) < Cardinality(Readers),
                      "sender_task" \notin MayFail
               PROVE  Spec => []PlayFindsReader
    OBVIOUS
  <1> DEFINE Inv == TypeInv /\ Phase /\ ReadersHeld /\ ReadersUsed
  <1>1. Init => Inv
    <2>1. Init => Phase
      BY CounterInit
    <2>2. Init => ReadersHeld /\ ReadersUsed
      BY DEF Init, ReadersHeld, ReadersUsed
    <2>3. QED
      BY TypeInit, <2>1, <2>2
  <1>2. Inv /\ [Next]_vars => Inv'
    BY TypeStep, PhaseStep, ReadersHeldStep, ReadersUsedStep
  <1>3. Inv => PlayFindsReader
    <2> SUFFICES ASSUME Inv, NEW s \in Slots, hpc[s] = "recv", rtp_task[s] = None,
                        active = Readers
                 PROVE  FALSE
      BY DEF PlayFindsReader
    <2> DEFINE holder == [u \in Slots |-> IF u = s THEN pvReader ELSE reader[u]]
               held   == {holder[u] : u \in Slots}
    <2>1. reader[s] = None
      BY DEF ReadersUsed
    <2>2. Readers \subseteq held
      <3> SUFFICES ASSUME NEW r \in Readers PROVE r \in held
        OBVIOUS
      <3>1. r # None /\ (r = pvReader \/ \E u \in Slots : reader[u] = r)
        BY SetsAssumption DEF ReadersUsed
      <3>2. CASE r = pvReader
        BY <3>2
      <3>3. ASSUME NEW u \in Slots, reader[u] = r
            PROVE  r \in held
        <4>1. holder[u] = r
          BY <2>1, <3>1, <3>3
        <4>2. QED
          BY <4>1
      <3>4. QED
        BY <3>1, <3>2, <3>3
    <2>3. holder \in Surjection(Slots, held)
      BY DEF Surjection
    <2>4. IsFiniteSet(held) /\ Cardinality(held) <= Cardinality(Slots)
      BY <2>3, SlotsAssumption, FS_Surjection
    <2>5. Cardinality(Readers) <= Cardinality(held)
      BY <2>2, <2>4, FS_Subset
    <2>6. /\ Cardinality(Slots) \in Nat /\ Cardinality(held) \in Nat
          /\ Cardinality(Readers) \in Nat
      BY <2>4, SlotsAssumption, FS_CardinalityType
    <2>7. QED
      BY <2>4, <2>5, <2>6
  <1> HIDE DEF Inv
  <1>4. QED
    BY <1>1, <1>2, <1>3, PTL DEF Spec
-------------------------------------------------------------------------------
(***************************************************************************)
(* RtspServer implements ReaderPool.                                       *)
(***************************************************************************)

PreviewHas == {pvReader} \ {None}

\* What a handle says of the pool, in one place.
LEMMA WhoHolds ==
  ASSUME TypeInv
  PROVE  /\ \A s \in Slots, r \in Readers : <<s, r>> \in Handles <=> reader[s] = r
         /\ Pool!Streaming = {s \in Slots : reader[s] # None}
         /\ Pool!Taken = {reader[s] : s \in Pool!Streaming} \cup PreviewHas
         /\ Handles \subseteq Slots \X Readers
  <1>1. \A s \in Slots : reader[s] \in Readers \cup {None}
    BY DEF TypeInv, TypeOK
  <1>2. None \notin Readers
    BY SetsAssumption
  <1>3. \A s \in Slots, r \in Readers : <<s, r>> \in Handles <=> reader[s] = r
    BY <1>2 DEF Handles
  <1>4. Pool!Streaming = {s \in Slots : reader[s] # None}
    <2>1. \A p \in Handles : p[1] \in Slots /\ reader[p[1]] # None
      BY DEF Handles
    <2>2. ASSUME NEW s \in Slots, reader[s] # None
          PROVE  <<s, reader[s]>> \in Handles /\ <<s, reader[s]>>[1] = s
      BY <2>2 DEF Handles
    <2> DEFINE who == {s \in Slots : reader[s] # None}
    <2>3. \A p \in Handles : p[1] \in who
      BY <2>1
    <2>4. ASSUME NEW s \in who PROVE s \in {p[1] : p \in Handles}
      BY <2>2
    <2>5. {p[1] : p \in Handles} = who
      BY <2>3, <2>4
    <2>6. QED
      BY <2>5 DEF Pool!Streaming
  <1>5. Pool!Taken = {reader[s] : s \in Pool!Streaming} \cup PreviewHas
    <2>1. \A p \in Handles : p[1] \in Pool!Streaming /\ p[2] = reader[p[1]]
      BY <1>4 DEF Handles
    <2>2. ASSUME NEW s \in Pool!Streaming
          PROVE  <<s, reader[s]>> \in Handles /\ <<s, reader[s]>>[2] = reader[s]
      BY <1>4 DEF Handles
    <2> DEFINE held == {reader[s] : s \in Pool!Streaming}
    <2>3. \A p \in Handles : p[2] \in held
      BY <2>1
    <2>4. ASSUME NEW r \in held PROVE r \in {p[2] : p \in Handles}
      <3>1. PICK s \in Pool!Streaming : r = reader[s]
        OBVIOUS
      <3>2. QED
        BY <2>2, <3>1
    <2>5. {p[2] : p \in Handles} = held
      BY <2>3, <2>4
    <2>6. QED
      BY <2>5 DEF Pool!Taken, PreviewHas
  <1>6. Handles \subseteq Slots \X Readers
    BY <1>1 DEF Handles
  <1>7. QED
    BY <1>3, <1>4, <1>5, <1>6

\* A session without a handle gets one.
LEMMA HandleAdded ==
  ASSUME TypeInv, NEW s \in Slots, NEW r \in Readers,
         reader[s] = None, reader' = [reader EXCEPT ![s] = r]
  PROVE  Handles' = Handles \cup {<<s, r>>}
  <1>1. r # None /\ reader \in [Slots -> Readers \cup {None}]
    BY SetsAssumption DEF TypeInv, TypeOK
  <1>2. \A u \in Slots : reader'[u] = IF u = s THEN r ELSE reader[u]
    BY <1>1
  <1>3. \A p : p \in Handles' <=> \E u \in Slots : reader'[u] # None /\ p = <<u, reader'[u]>>
    BY DEF Handles
  <1>4. \A p : p \in Handles <=> \E u \in Slots : reader[u] # None /\ p = <<u, reader[u]>>
    BY DEF Handles
  <1>5. ASSUME NEW p
        PROVE  p \in Handles' <=> p \in Handles \/ p = <<s, r>>
    BY <1>1, <1>2, <1>3, <1>4
  <1>6. QED
    BY <1>5

\* A session drops the handle it has.
LEMMA HandleDropped ==
  ASSUME TypeInv, NEW s \in Slots, reader' = [reader EXCEPT ![s] = None]
  PROVE  Handles' = Handles \ {<<s, reader[s]>>}
  <1>1. reader \in [Slots -> Readers \cup {None}]
    BY DEF TypeInv, TypeOK
  <1>2. \A u \in Slots : reader'[u] = IF u = s THEN None ELSE reader[u]
    BY <1>1
  <1>3. \A p : p \in Handles' <=> \E u \in Slots : reader'[u] # None /\ p = <<u, reader'[u]>>
    BY DEF Handles
  <1>4. \A p : p \in Handles <=> \E u \in Slots : reader[u] # None /\ p = <<u, reader[u]>>
    BY DEF Handles
  <1>5. ASSUME NEW p
        PROVE  p \in Handles' <=> p \in Handles /\ p # <<s, reader[s]>>
    BY <1>2, <1>3, <1>4
  <1>6. QED
    BY <1>5

\* Who holds a slot is all the pool sees.
LEMMA PoolStutters ==
  UNCHANGED <<reader, pvReader>> => UNCHANGED <<Handles, {pvReader} \ {None}>>
  BY DEF Handles

\* A slot that is not active is nobody's.
LEMMA FreeIsNotTaken ==
  ASSUME TypeInv, ReadersHeld, NEW r \in Readers \ active
  PROVE  r \notin Pool!Taken
  BY WhoHolds DEF ReadersHeld, PreviewHas

\* A step, or none, of the pool.
PoolMoves == [Pool!PoolNext]_<<Handles, {pvReader} \ {None}>>

\* Every step hands out one free slot, takes one back from its holder, or leaves the pool
\* alone; where a session could lose a handle, it has none.
LEMMA PoolStep ==
  ASSUME TypeInv, Phase, ReadersHeld, ReadersUsed, "sender_task" \notin MayFail,
         [Next]_vars
  PROVE  PoolMoves
  <1> USE DEF listenerVars, senderVars, sessionVars, poolVars
  <1>0. UNCHANGED <<reader, pvReader>> => PoolMoves
    BY PoolStutters DEF PoolMoves
  <1>1. ASSUME NEW s \in Slots, Claim(s) PROVE PoolMoves
    <2>1. reader[s] = None
      BY <1>1 DEF Claim, ReadersUsed, Phase, EndedClean
    <2>2. UNCHANGED <<reader, pvReader>>
      BY <1>1, <2>1 DEF Claim, TypeInv, TypeOK
    <2>3. QED
      BY <1>0, <2>2
  <1>2. ASSUME NEW s \in Slots, PlayRefused(s) PROVE PoolMoves
    <2>1. reader[s] = None
      BY <1>2 DEF PlayRefused, PlayReady, ReadersUsed
    <2>2. UNCHANGED <<reader, pvReader>>
      BY <1>2, <2>1 DEF PlayRefused, TypeInv, TypeOK
    <2>3. QED
      BY <1>0, <2>2
  <1>3. ASSUME NEW s \in Slots, PlayStarts(s) PROVE PoolMoves
    <2>1. reader[s] = None
      BY <1>3 DEF PlayStarts, PlayReady, ReadersUsed
    <2>2. PICK r \in Readers : Subscribe(r) /\ reader' = [reader EXCEPT ![s] = r]
      BY <1>3 DEF PlayStarts
    <2>3. r \notin active
      BY <2>2, SetsAssumption DEF Subscribe
    <2>4. s \notin Pool!Streaming /\ r \notin Pool!Taken
      BY <2>1, <2>3, WhoHolds, FreeIsNotTaken
    <2>5. Handles' = Handles \cup {<<s, r>>} /\ pvReader' = pvReader
      BY <1>3, <2>1, <2>2, HandleAdded DEF PlayStarts
    <2>6. Pool!StreamTakes(s, r)
      BY <2>4, <2>5 DEF Pool!StreamTakes
    <2>7. QED
      BY <2>6 DEF PoolMoves, Pool!PoolNext
  <1>4. ASSUME NEW s \in Slots, Unsubscribe(s) PROVE PoolMoves
    <2>1. /\ reader' = [reader EXCEPT ![s] = None] /\ pvReader' = pvReader
          /\ Handles' = Handles \ {<<s, reader[s]>>}
      BY <1>4, HandleDropped DEF Unsubscribe
    <2>2. CASE reader[s] = None
      BY <1>0, <2>1, <2>2 DEF TypeInv, TypeOK
    <2>3. CASE reader[s] # None
      <3>1. reader[s] \in Readers
        BY <2>3 DEF TypeInv, TypeOK
      <3>2. <<s, reader[s]>> \in Handles
        BY <3>1, WhoHolds
      <3>3. Pool!StreamGivesBack(s, reader[s])
        BY <2>1, <3>2 DEF Pool!StreamGivesBack
      <3>4. QED
        BY <3>1, <3>3 DEF PoolMoves, Pool!PoolNext
    <2>4. QED
      BY <2>2, <2>3
  <1>5. ASSUME PreviewSubscribe PROVE PoolMoves
    <2>1. PICK r \in Readers \cup {None} : Subscribe(r) /\ pvReader' = r
      BY <1>5 DEF PreviewSubscribe
    <2>2. reader' = reader /\ pvReader = None
      BY <1>5 DEF PreviewSubscribe, PreviewOnly, ReadersHeld
    <2>3. CASE r = None
      BY <1>0, <2>1, <2>2, <2>3
    <2>4. CASE r \in Readers
      <3>1. r \notin active /\ r # None
        BY <2>1, <2>4, SetsAssumption DEF Subscribe
      <3>2. r \notin Pool!Taken
        BY <2>4, <3>1, FreeIsNotTaken
      <3>3. {pvReader} \ {None} = {} /\ ({pvReader} \ {None})' = {r} /\ Handles' = Handles
        BY <2>1, <2>2, <3>1 DEF Handles
      <3>4. Pool!PreviewTakes(r)
        BY <3>2, <3>3 DEF Pool!PreviewTakes
      <3>5. QED
        BY <2>4, <3>4 DEF PoolMoves, Pool!PoolNext
    <2>5. QED
      BY <2>3, <2>4
  <1>6. ASSUME PreviewUnsubscribe PROVE PoolMoves
    <2>1. UNCHANGED reader /\ pvReader' = None
      BY <1>6 DEF PreviewUnsubscribe, PreviewOnly
    <2>2. Handles' = Handles /\ ({pvReader} \ {None})' = {}
      BY <2>1 DEF Handles
    <2>3. CASE pvReader = None
      BY <1>0, <2>1, <2>3
    <2>4. CASE pvReader # None
      <3>1. {pvReader} \ {None} # {}
        BY <2>4
      <3>2. Pool!PreviewGivesBack
        BY <2>2, <3>1 DEF Pool!PreviewGivesBack
      <3>3. QED
        BY <3>2 DEF PoolMoves, Pool!PoolNext
    <2>5. QED
      BY <2>3, <2>4
  <1>7. CASE UNCHANGED vars
    BY <1>0, <1>7 DEF vars
  <1>8. CASE CountConnected \/ SpawnClient \/ SpawnClientFails \/ UncountConnected \/ Tick
    BY <1>0, <1>8
    DEF CountConnected, SpawnClient, SpawnClientFails, UncountConnected, Tick
  <1>9. CASE PreviewBegin \/ PreviewFails \/ PreviewFinish
    BY <1>0, <1>9 DEF PreviewBegin, PreviewFails, PreviewFinish, PreviewOnly
  <1>10. ASSUME NEW s \in Slots,
                \/ RecvPlain(s) \/ RecvSetup(s) \/ CtrlLock(s)
                \/ PlayCounted(s) \/ StopBegin(s) \/ StopWaitEnds(s)
                \/ StopUncounted(s) \/ Release(s)
         PROVE  PoolMoves
    BY <1>0, <1>10
    DEF RecvPlain, RecvSetup, CtrlLock, PlayCounted, StopBegin, StopWaitEnds,
        StopUncounted, Release
  <1>11. ASSUME NEW s \in Slots, NEW r \in {"TEARDOWN", "GONE"}, RecvEnd(s, r)
         PROVE  PoolMoves
    BY <1>0, <1>11 DEF RecvEnd
  <1>12. ASSUME NEW s \in Slots, NEW ok \in BOOLEAN, CtrlDone(s, ok)
         PROVE  PoolMoves
    BY <1>0, <1>12 DEF CtrlDone
  <1>13. ASSUME NEW t \in Senders, SenderStep(t)
         PROVE  PoolMoves
    <2>1. UNCHANGED <<reader, pvReader>>
      BY <1>13 DEF SenderStep, SenderTop, SenderReadEmptyOrUdp, SenderReadTcp,
         SenderStopsReading, SenderLock, SenderExit, SenderSent
    <2>2. QED
      BY <1>0, <2>1
  <1>14. ASSUME NEW s \in Slots PROVE ~PlayWithoutSender(s)
    BY DEF PlayWithoutSender
  <1>15. ASSUME NEW s \in Slots, Receive(s) \/ CtrlLock(s) \/ HandlerStep(s)
         PROVE  PoolMoves
    BY <1>2, <1>3, <1>4, <1>10, <1>11, <1>12, <1>14, <1>15 DEF Receive, HandlerStep
  <1>16. CASE Listener \/ Preview
    BY <1>1, <1>5, <1>6, <1>8, <1>9, <1>16 DEF Listener, Preview
  <1>17. QED
    BY <1>7, <1>8, <1>13, <1>15, <1>16 DEF Next

\* Where senders can be created: types, phases, and slots held and used.
LEMMA PoolInvariant ==
  "sender_task" \notin MayFail
    => (Spec => [](TypeInv /\ Phase /\ ReadersHeld /\ ReadersUsed))
  <1> SUFFICES ASSUME "sender_task" \notin MayFail
               PROVE  Spec => [](TypeInv /\ Phase /\ ReadersHeld /\ ReadersUsed)
    OBVIOUS
  <1>1. Init => TypeInv /\ Phase
    BY TypeInit, CounterInit
  <1>2. Init => ReadersHeld /\ ReadersUsed
    BY DEF Init, ReadersHeld, ReadersUsed
  <1>3. TypeInv /\ Phase /\ ReadersHeld /\ ReadersUsed /\ [Next]_vars
          => (TypeInv /\ Phase /\ ReadersHeld /\ ReadersUsed)'
    BY TypeStep, PhaseStep, ReadersHeldStep, ReadersUsedStep
  <1>4. QED
    BY <1>1, <1>2, <1>3, PTL DEF Spec

\* Sessions and the preview use the reader slots as ReaderPool says, one holder per slot
\* and one slot per holder, for any number of each, where senders can be created: no
\* PLAY, refusal, new connection or late unsubscribe loses, shares or steals a slot.
THEOREM ImplementsPool == "sender_task" \notin MayFail => (Spec => Pool!PoolSpec)
  <1> SUFFICES ASSUME "sender_task" \notin MayFail PROVE Spec => Pool!PoolSpec
    OBVIOUS
  <1>1. Init => Pool!PoolInit
    BY DEF Init, Pool!PoolInit, Handles
  <1>2. TypeInv /\ Phase /\ ReadersHeld /\ ReadersUsed /\ [Next]_vars
          => [Pool!PoolNext]_<<Handles, {pvReader} \ {None}>>
    BY PoolStep DEF PoolMoves
  <1>3. QED
    BY <1>1, <1>2, PoolInvariant, PTL DEF Spec, Pool!PoolSpec

\* No slot leaks: s_readers marks active exactly the slots that a session or the preview
\* has a handle of, so every one of them will be given back.
THEOREM ActiveIsTaken == "sender_task" \notin MayFail => (Spec => [](active = Pool!Taken))
  <1> SUFFICES ASSUME "sender_task" \notin MayFail PROVE Spec => [](active = Pool!Taken)
    OBVIOUS
  <1>1. TypeInv /\ ReadersHeld /\ ReadersUsed => active = Pool!Taken
    <2> SUFFICES ASSUME TypeInv, ReadersHeld, ReadersUsed PROVE active = Pool!Taken
      OBVIOUS
    <2>1. ASSUME NEW r \in active PROVE r \in Pool!Taken
      <3>1. r \in Readers /\ r # None
        BY SetsAssumption DEF TypeInv, TypeOK
      <3>2. QED
        BY <3>1, WhoHolds DEF ReadersUsed, PreviewHas
    <2>2. ASSUME NEW r \in Pool!Taken PROVE r \in active
      BY WhoHolds DEF ReadersHeld, PreviewHas
    <2>3. QED
      BY <2>1, <2>2
  <1>2. QED
    BY <1>1, PoolInvariant, PTL

\* Whatever uses the pool as ReaderPool says: no two clients share a slot, and no client
\* has two.
THEOREM PoolIsExclusive == Pool!PoolSpec => []Pool!Exclusive
  <1> DEFINE strs == Handles
             pv == {pvReader} \ {None}
  <1>1. Pool!PoolInit => Pool!Exclusive
    BY DEF Pool!PoolInit, Pool!Exclusive
  <1>2. Pool!Exclusive /\ [Pool!PoolNext]_<<strs, pv>> => Pool!Exclusive'
    <2> SUFFICES ASSUME Pool!Exclusive, [Pool!PoolNext]_<<strs, pv>> PROVE Pool!Exclusive'
      OBVIOUS
    <2>1. ASSUME NEW c \in Slots, NEW r \in Readers, Pool!StreamTakes(c, r)
          PROVE  Pool!Exclusive'
      <3>1. \A p \in Handles : p[1] # c /\ p[2] # r
        BY <2>1 DEF Pool!StreamTakes, Pool!Streaming, Pool!Taken
      <3>2. r \notin pv
        BY <2>1 DEF Pool!StreamTakes, Pool!Taken
      <3>3. <<c, r>>[1] = c /\ <<c, r>>[2] = r
        OBVIOUS
      <3>4. Handles' = Handles \cup {<<c, r>>} /\ pv' = pv
        BY <2>1 DEF Pool!StreamTakes
      <3>5. QED
        BY <3>1, <3>2, <3>3, <3>4 DEF Pool!Exclusive
    <2>2. ASSUME NEW c \in Slots, NEW r \in Readers, Pool!StreamGivesBack(c, r)
          PROVE  Pool!Exclusive'
      BY <2>2 DEF Pool!StreamGivesBack, Pool!Exclusive
    <2>3. ASSUME NEW r \in Readers, Pool!PreviewTakes(r)
          PROVE  Pool!Exclusive'
      <3>1. \A p \in Handles : p[2] # r
        BY <2>3 DEF Pool!PreviewTakes, Pool!Taken
      <3>2. Handles' = Handles /\ pv' = {r}
        BY <2>3 DEF Pool!PreviewTakes
      <3>3. QED
        BY <3>1, <3>2 DEF Pool!Exclusive
    <2>4. CASE Pool!PreviewGivesBack
      BY <2>4 DEF Pool!PreviewGivesBack, Pool!Exclusive
    <2>5. CASE UNCHANGED <<strs, pv>>
      BY <2>5 DEF Pool!Exclusive
    <2>6. QED
      BY <2>1, <2>2, <2>3, <2>4, <2>5 DEF Pool!PoolNext
  <1>3. QED
    BY <1>1, <1>2, PTL DEF Pool!PoolSpec
===============================================================================
