---------------------------- MODULE OtaUpdateProofs ----------------------------
(***************************************************************************)
(* Theorems about OtaUpdate, for images of any length and any number of    *)
(* download attempts.                                                      *)
(***************************************************************************)
EXTENDS OtaUpdate, SequenceTheorems, TLAPS

\* There are two partitions, and the other one is never the same.
LEMMA OtherFacts ==
  /\ \A s \in Slots : Other(s) \in Slots /\ Other(s) # s /\ Other(Other(s)) = s
  /\ \A s, t \in Slots : s # t => s = Other(t)
  BY DEF Slots, Other

\* The types hold at boot.
LEMMA TypeInit == Init => TypeOK
  <1> SUFFICES ASSUME Init PROVE TypeOK
    OBVIOUS
  <1>1. [i \in 1 .. ImageChunks |-> "upload"] \in Seq(Users)
    BY ChunksAssumption, IsASeq DEF Users
  <1>2. img \in [Slots -> Seq(Users)]
    BY <1>1, EmptySeq DEF Init
  <1>3. 0 \in 0 .. ImageChunks /\ 0 \in 0 .. OTA_GH_ATTEMPTS
    BY ChunksAssumption, AttemptsAssumption
  <1>4. running \in Slots /\ boot \in Slots /\ pending \in BOOLEAN
    BY DEF Init, Slots
  <1>5. pc \in [Users -> PCs] /\ left \in [Users -> 0 .. ImageChunks]
    BY <1>3 DEF Init, PCs
  <1>6. QED
    BY <1>2, <1>3, <1>4, <1>5 DEF Init, TypeOK

\* What a user has yet to feed is positive while it feeds.
Feeding == \A u \in Users : pc[u] \in {"erase", "write"} => left[u] > 0

TypeInv == TypeOK /\ Feeding

Flash == /\ running \in Slots /\ boot \in Slots /\ pending \in BOOLEAN
         /\ img \in [Slots -> Seq(Users)] /\ spoiled \subseteq Users
Eng == /\ busy \in BOOLEAN /\ flashing \in BOOLEAN /\ open \in BOOLEAN
       /\ written \in 0 .. ImageChunks
At == pc \in [Users -> PCs]
Left == left \in [Users -> 0 .. ImageChunks]
Gh == /\ attempt \in 0 .. OTA_GH_ATTEMPTS
      /\ prog \in {"idle", "downloading", "verifying", "rebooting", "error"}
      /\ s_update_available \in BOOLEAN /\ asset \in BOOLEAN /\ checking \in BOOLEAN

\* Every step of an update, a boot or the network keeps the types.
LEMMA TypeStep == TypeInv /\ [Next]_vars => TypeInv'
  <1> SUFFICES ASSUME TypeInv, [Next]_vars PROVE TypeInv'
    OBVIOUS
  <1> USE ChunksAssumption, AttemptsAssumption
      DEF TypeInv, Feeding, TypeOK, Flash, Eng, At, Left, Gh, PCs, Goto, Rest,
          flashVars, engineVars, ghVars
  <1>a. /\ 0 \in 0 .. ImageChunks /\ ImageChunks \in 0 .. ImageChunks
        /\ 0 \in 0 .. OTA_GH_ATTEMPTS
    BY ChunksAssumption, AttemptsAssumption
  <1>1. ASSUME Restart
        PROVE  TypeInv'
    <2>1. running' \in Slots /\ boot' \in Slots
      BY <1>1, OtherFacts DEF Restart
    <2>2. pending' \in BOOLEAN
      BY <1>1 DEF Restart
    <2>3. img' \in [Slots -> Seq(Users)]
      BY <1>1 DEF Restart
    <2>4. /\ spoiled' = {} /\ busy' = FALSE /\ flashing' = FALSE /\ written' = 0 /\ open' = FALSE
          /\ attempt' = 0 /\ prog' = "idle"
          /\ s_update_available' = FALSE /\ asset' = FALSE /\ checking' = FALSE
      BY <1>1 DEF Restart, Fresh
    <2>5. pc' = [u \in Users |-> "idle"] /\ left' = [u \in Users |-> 0]
      BY <1>1 DEF Restart, Fresh
    <2>6. pc' \in [Users -> PCs] /\ left' \in [Users -> 0 .. ImageChunks] /\ Feeding'
      BY <2>5, <1>a
    <2>7. QED
      BY <2>1, <2>2, <2>3, <2>4, <2>6, <1>a
  <1>2. ASSUME Confirm
        PROVE  TypeInv'
    <2>1. Flash'
      BY <1>2, <1>a DEF Confirm
    <2>2. Eng'
      BY <1>2, <1>a DEF Confirm
    <2>3. At'
      BY <1>2, <1>a DEF Confirm
    <2>4. Left'
      BY <1>2, <1>a DEF Confirm
    <2>5. Gh'
      BY <1>2, <1>a DEF Confirm
    <2>6. Feeding'
      BY <1>2, <1>a DEF Confirm, Users
    <2>7. QED
      BY <2>1, <2>2, <2>3, <2>4, <2>5, <2>6
  <1>3. ASSUME UploadBegins
        PROVE  TypeInv'
    <2>1. Flash'
      BY <1>3, <1>a DEF UploadBegins, BeginOk, WebIdle
    <2>2. Eng'
      BY <1>3, <1>a DEF UploadBegins, BeginOk, WebIdle
    <2>3. At'
      BY <1>3, <1>a DEF UploadBegins, BeginOk, WebIdle
    <2>4. Left'
      BY <1>3, <1>a DEF UploadBegins, BeginOk, WebIdle
    <2>5. Gh'
      BY <1>3, <1>a DEF UploadBegins, BeginOk, WebIdle
    <2>6. Feeding'
      BY <1>3, <1>a DEF UploadBegins, BeginOk, WebIdle, Users
    <2>7. QED
      BY <2>1, <2>2, <2>3, <2>4, <2>5, <2>6
  <1>4. ASSUME UploadRejected
        PROVE  TypeInv'
    BY <1>4 DEF UploadRejected
  <1>5. ASSUME UploadFails
        PROVE  TypeInv'
    BY <1>5 DEF UploadFails, Abort
  <1>6. ASSUME UploadInterrupted
        PROVE  TypeInv'
    BY <1>6 DEF UploadInterrupted, Abort
  <1>7. ASSUME CheckBegins
        PROVE  TypeInv'
    BY <1>7 DEF CheckBegins
  <1>8. ASSUME CheckEnds
        PROVE  TypeInv'
    BY <1>8 DEF CheckEnds, CheckAnswered
  <1>9. ASSUME Install
        PROVE  TypeInv'
    <2>1. Flash'
      BY <1>9, <1>a DEF Install, WebIdle, MayInstall
    <2>2. Eng'
      BY <1>9, <1>a DEF Install, WebIdle, MayInstall
    <2>3. At'
      BY <1>9, <1>a DEF Install, WebIdle, MayInstall
    <2>4. Left'
      BY <1>9, <1>a DEF Install, WebIdle, MayInstall
    <2>5. Gh'
      BY <1>9, <1>a DEF Install, WebIdle, MayInstall
    <2>6. Feeding'
      BY <1>9, <1>a DEF Install, WebIdle, MayInstall, Users
    <2>7. QED
      BY <2>1, <2>2, <2>3, <2>4, <2>5, <2>6
  <1>10. ASSUME GhBegins
         PROVE  TypeInv'
    <2>1. Flash'
      BY <1>10, <1>a DEF GhBegins, BeginOk
    <2>2. Eng'
      BY <1>10, <1>a DEF GhBegins, BeginOk
    <2>3. At'
      BY <1>10, <1>a DEF GhBegins, BeginOk
    <2>4. Left'
      BY <1>10, <1>a DEF GhBegins, BeginOk
    <2>5. Gh'
      BY <1>10, <1>a DEF GhBegins, BeginOk
    <2>6. Feeding'
      BY <1>10, <1>a DEF GhBegins, BeginOk, Users
    <2>7. QED
      BY <2>1, <2>2, <2>3, <2>4, <2>5, <2>6
  <1>11. ASSUME GhCannotBegin
         PROVE  TypeInv'
    BY <1>11 DEF GhCannotBegin, GiveUp, GhEnds, UploadAnswered
  <1>12. ASSUME GhNetworkFails
         PROVE  TypeInv'
    <2>1. Flash'
      BY <1>12, <1>a DEF GhNetworkFails, Abort, GiveUp, GhEnds, UploadAnswered, LastAttempt
    <2>2. Eng'
      BY <1>12, <1>a DEF GhNetworkFails, Abort, GiveUp, GhEnds, UploadAnswered, LastAttempt
    <2>3. At'
      BY <1>12, <1>a DEF GhNetworkFails, Abort, GiveUp, GhEnds, UploadAnswered, LastAttempt
    <2>4. Left'
      BY <1>12, <1>a DEF GhNetworkFails, Abort, GiveUp, GhEnds, UploadAnswered, LastAttempt
    <2>5. Gh'
      BY <1>12, <1>a DEF GhNetworkFails, Abort, GiveUp, GhEnds, UploadAnswered, LastAttempt
    <2>6. Feeding'
      BY <1>12, <1>a DEF GhNetworkFails, Abort, GiveUp, GhEnds, UploadAnswered,
         LastAttempt, Users
    <2>7. QED
      BY <2>1, <2>2, <2>3, <2>4, <2>5, <2>6
  <1>13. ASSUME NEW u \in Users, FeedRefused(u)
         PROVE  TypeInv'
    BY <1>13 DEF FeedRefused, GiveUp, GhEnds, UploadAnswered
  <1>14. ASSUME NEW u \in Users, FeedTooMuch(u)
         PROVE  TypeInv'
    BY <1>14 DEF FeedTooMuch, FeedAborts, Abort, GiveUp, GhEnds, UploadAnswered
  <1>15. ASSUME NEW u \in Users, FeedTakes(u)
         PROVE  TypeInv'
    BY <1>15 DEF FeedTakes
  <1>16. ASSUME NEW u \in Users, StartFails(u)
         PROVE  TypeInv'
    BY <1>16 DEF StartFails, FeedAborts, Abort, GiveUp, GhEnds, UploadAnswered
  <1>17. ASSUME NEW u \in Users, Started(u)
         PROVE  TypeInv'
    <2>1. img' \in [Slots -> Seq(Users)]
      BY <1>17, OtherFacts, EmptySeq DEF Started
    <2>2. QED
      BY <1>17, <2>1 DEF Started
  <1>18. ASSUME NEW u \in Users, Wrote(u)
         PROVE  TypeInv'
    <2>1. Append(img[Other(running)], u) \in Seq(Users)
      BY OtherFacts, AppendProperties
    <2>2. img' \in [Slots -> Seq(Users)]
      BY <1>18, <2>1, OtherFacts DEF Wrote
    <2>3. left' \in [Users -> 0 .. ImageChunks]
      BY <1>18 DEF Wrote
    <2>4. QED
      BY <1>18, <2>2, <2>3 DEF Wrote
  <1>19. ASSUME NEW u \in Users, WriteFails(u)
         PROVE  TypeInv'
    BY <1>19 DEF WriteFails, FeedAborts, Abort, GiveUp, GhEnds, UploadAnswered
  <1>20. ASSUME NEW u \in Users, FinishAccepts(u)
         PROVE  TypeInv'
    BY <1>20 DEF FinishAccepts
  <1>21. ASSUME NEW u \in Users, FinishRefuses(u)
         PROVE  TypeInv'
    BY <1>21 DEF FinishRefuses, Abort, GiveUp, GhEnds, UploadAnswered
  <1>22. ASSUME NEW u \in Users, Verified(u)
         PROVE  TypeInv'
    BY <1>22 DEF Verified, Passes
  <1>23. ASSUME NEW u \in Users, VerifyFails(u)
         PROVE  TypeInv'
    BY <1>23 DEF VerifyFails, GiveUp, GhEnds, UploadAnswered
  <1>24. ASSUME NEW u \in Users, Checked(u)
         PROVE  TypeInv'
    BY <1>24 DEF Checked
  <1>25. ASSUME NEW u \in Users, Selected(u)
         PROVE  TypeInv'
    BY <1>25, OtherFacts, ZenonT(30) DEF Selected, Selectable, GhSucceeds, UploadAnswered
  <1>26. ASSUME NEW u \in Users, SelectFails(u)
         PROVE  TypeInv'
    BY <1>26 DEF SelectFails, GiveUp, GhEnds, UploadAnswered
  <1>27. CASE UNCHANGED vars
    BY <1>27 DEF vars
  <1>28. QED
    BY <1>1, <1>2, <1>3, <1>4, <1>5, <1>6, <1>7, <1>8, <1>9, <1>10,
       <1>11, <1>12, <1>13, <1>14, <1>15, <1>16, <1>17, <1>18, <1>19,
       <1>20, <1>21, <1>22, <1>23, <1>24, <1>25, <1>26, <1>27 DEF Next,
       Upload, Github, Engine

\* The types and bounds are kept by every run: what is counted as written never
\* exceeds the announced size.
THEOREM TypeCorrect == Spec => []TypeOK
  <1>1. Init => TypeInv  BY TypeInit DEF TypeInv, Feeding, Init
  <1>2. TypeInv /\ [Next]_vars => TypeInv'  BY TypeStep
  <1>3. TypeInv => TypeOK  BY DEF TypeInv
  <1>4. QED  BY <1>1, <1>2, <1>3, PTL DEF Spec

-------------------------------------------------------------------------------
(* The inductive invariant: what is wanted, that no handle is live while the *)
(* running image is on trial, and what s_prog shows of the installer.        *)

\* No update may have opened the slot to fall back to.
TrialHasNoHandle == pending => ~open

\* The installer's task is reported as long as it runs.
GhShown == pc["gh"] # "idle" => prog \in {"downloading", "verifying", "rebooting"}

Wanted ==
  /\ AlwaysBootable /\ EngineHasUser /\ RebootingMeansSelected
  /\ TrialHasNoHandle /\ GhShown

IInv == TypeInv /\ Wanted

\* At first boot the partition that runs is complete.
LEMMA IInit == Init => IInv
  <1> SUFFICES ASSUME Init PROVE IInv
    OBVIOUS
  <1>1. TypeInv
    BY TypeInit DEF TypeInv, Feeding, Init
  <1>2. Whole(img[running])
    BY DEF Init, Whole, Slots, Users
  <1>3. QED
    BY <1>1, <1>2 DEF IInv, Wanted, AlwaysBootable, EngineHasUser,
       RebootingMeansSelected, TrialHasNoHandle, GhShown, Init, Users

\* Every step keeps a complete image to boot.
LEMMA IStep == IInv /\ [Next]_vars => IInv'
  <1> SUFFICES ASSUME IInv, [Next]_vars PROVE IInv'
    OBVIOUS
  <1>0. TypeInv'
    BY TypeStep DEF IInv
  <1>100. SUFFICES Wanted'
    BY <1>0 DEF IInv
  <1>101. Wanted /\ TypeInv
    BY DEF IInv
  <1> USE DEF Wanted, AlwaysBootable, EngineHasUser, RebootingMeansSelected,
              TrialHasNoHandle, GhShown, TypeInv, TypeOK, Users, Engaged, Goto,
              Rest, flashVars, engineVars, ghVars
  <1>1. ASSUME Restart
        PROVE  Wanted'
    <2>1. AlwaysBootable'
      BY <1>1, <1>101, OtherFacts DEF Restart, Fresh
    <2>2. EngineHasUser'
      BY <1>1, <1>101, OtherFacts DEF Restart, Fresh
    <2>3. RebootingMeansSelected'
      BY <1>1, <1>101, OtherFacts DEF Restart, Fresh
    <2>4. TrialHasNoHandle'
      BY <1>1, <1>101, OtherFacts DEF Restart, Fresh
    <2>5. GhShown'
      BY <1>1, <1>101, OtherFacts DEF Restart, Fresh
    <2>6. QED
      BY <2>1, <2>2, <2>3, <2>4, <2>5
  <1>2. ASSUME Confirm
        PROVE  Wanted'
    <2>1. AlwaysBootable'
      BY <1>2, <1>101, OtherFacts DEF Confirm
    <2>2. EngineHasUser'
      BY <1>2, <1>101, OtherFacts DEF Confirm
    <2>3. RebootingMeansSelected'
      BY <1>2, <1>101, OtherFacts DEF Confirm
    <2>4. TrialHasNoHandle'
      BY <1>2, <1>101, OtherFacts DEF Confirm
    <2>5. GhShown'
      BY <1>2, <1>101, OtherFacts DEF Confirm
    <2>6. QED
      BY <2>1, <2>2, <2>3, <2>4, <2>5
  <1>3. ASSUME UploadBegins
        PROVE  Wanted'
    <2>1. AlwaysBootable'
      BY <1>3, <1>101, OtherFacts DEF UploadBegins, BeginOk, WebIdle
    <2>2. EngineHasUser'
      BY <1>3, <1>101, OtherFacts DEF UploadBegins, BeginOk, WebIdle
    <2>3. RebootingMeansSelected'
      BY <1>3, <1>101, OtherFacts DEF UploadBegins, BeginOk, WebIdle
    <2>4. TrialHasNoHandle'
      BY <1>3, <1>101, OtherFacts DEF UploadBegins, BeginOk, WebIdle
    <2>5. GhShown'
      BY <1>3, <1>101, OtherFacts DEF UploadBegins, BeginOk, WebIdle
    <2>6. QED
      BY <2>1, <2>2, <2>3, <2>4, <2>5
  <1>4. ASSUME UploadRejected
        PROVE  Wanted'
    <2>1. AlwaysBootable'
      BY <1>4, <1>101, OtherFacts DEF UploadRejected, WebIdle
    <2>2. EngineHasUser'
      BY <1>4, <1>101, OtherFacts DEF UploadRejected, WebIdle
    <2>3. RebootingMeansSelected'
      BY <1>4, <1>101, OtherFacts DEF UploadRejected, WebIdle
    <2>4. TrialHasNoHandle'
      BY <1>4, <1>101, OtherFacts DEF UploadRejected, WebIdle
    <2>5. GhShown'
      BY <1>4, <1>101, OtherFacts DEF UploadRejected, WebIdle
    <2>6. QED
      BY <2>1, <2>2, <2>3, <2>4, <2>5
  <1>5. ASSUME UploadFails
        PROVE  Wanted'
    <2>1. AlwaysBootable'
      BY <1>5, <1>101, OtherFacts DEF UploadFails, Abort
    <2>2. EngineHasUser'
      BY <1>5, <1>101, OtherFacts DEF UploadFails, Abort
    <2>3. RebootingMeansSelected'
      BY <1>5, <1>101, OtherFacts DEF UploadFails, Abort
    <2>4. TrialHasNoHandle'
      BY <1>5, <1>101, OtherFacts DEF UploadFails, Abort
    <2>5. GhShown'
      BY <1>5, <1>101, OtherFacts DEF UploadFails, Abort
    <2>6. QED
      BY <2>1, <2>2, <2>3, <2>4, <2>5
  <1>6. ASSUME UploadInterrupted
        PROVE  Wanted'
    <2>1. AlwaysBootable'
      BY <1>6, <1>101, OtherFacts DEF UploadInterrupted, Abort
    <2>2. EngineHasUser'
      BY <1>6, <1>101, OtherFacts DEF UploadInterrupted, Abort
    <2>3. RebootingMeansSelected'
      BY <1>6, <1>101, OtherFacts DEF UploadInterrupted, Abort
    <2>4. TrialHasNoHandle'
      BY <1>6, <1>101, OtherFacts DEF UploadInterrupted, Abort
    <2>5. GhShown'
      BY <1>6, <1>101, OtherFacts DEF UploadInterrupted, Abort
    <2>6. QED
      BY <2>1, <2>2, <2>3, <2>4, <2>5
  <1>7. ASSUME CheckBegins
        PROVE  Wanted'
    BY <1>7, <1>101, OtherFacts DEF CheckBegins
  <1>8. ASSUME CheckEnds
        PROVE  Wanted'
    <2>1. AlwaysBootable'
      BY <1>8, <1>101, OtherFacts DEF CheckEnds, CheckAnswered
    <2>2. EngineHasUser'
      BY <1>8, <1>101, OtherFacts DEF CheckEnds, CheckAnswered
    <2>3. RebootingMeansSelected'
      BY <1>8, <1>101, OtherFacts DEF CheckEnds, CheckAnswered
    <2>4. TrialHasNoHandle'
      BY <1>8, <1>101, OtherFacts DEF CheckEnds, CheckAnswered
    <2>5. GhShown'
      BY <1>8, <1>101, OtherFacts DEF CheckEnds, CheckAnswered
    <2>6. QED
      BY <2>1, <2>2, <2>3, <2>4, <2>5
  <1>9. ASSUME Install
        PROVE  Wanted'
    <2>1. AlwaysBootable'
      BY <1>9, <1>101, OtherFacts DEF Install, WebIdle, MayInstall
    <2>2. EngineHasUser'
      BY <1>9, <1>101, OtherFacts DEF Install, WebIdle, MayInstall
    <2>3. RebootingMeansSelected'
      BY <1>9, <1>101, OtherFacts DEF Install, WebIdle, MayInstall
    <2>4. TrialHasNoHandle'
      BY <1>9, <1>101, OtherFacts DEF Install, WebIdle, MayInstall
    <2>5. GhShown'
      BY <1>9, <1>101, OtherFacts DEF Install, WebIdle, MayInstall
    <2>6. QED
      BY <2>1, <2>2, <2>3, <2>4, <2>5
  <1>10. ASSUME GhBegins
         PROVE  Wanted'
    <2>1. AlwaysBootable'
      BY <1>10, <1>101, OtherFacts DEF GhBegins, BeginOk
    <2>2. EngineHasUser'
      BY <1>10, <1>101, OtherFacts DEF GhBegins, BeginOk
    <2>3. RebootingMeansSelected'
      BY <1>10, <1>101, OtherFacts DEF GhBegins, BeginOk
    <2>4. TrialHasNoHandle'
      BY <1>10, <1>101, OtherFacts DEF GhBegins, BeginOk
    <2>5. GhShown'
      BY <1>10, <1>101, OtherFacts DEF GhBegins, BeginOk
    <2>6. QED
      BY <2>1, <2>2, <2>3, <2>4, <2>5
  <1>11. ASSUME GhCannotBegin
         PROVE  Wanted'
    <2>1. AlwaysBootable'
      BY <1>11, <1>101, OtherFacts DEF GhCannotBegin, GiveUp, GhEnds, UploadAnswered
    <2>2. EngineHasUser'
      BY <1>11, <1>101, OtherFacts DEF GhCannotBegin, GiveUp, GhEnds, UploadAnswered
    <2>3. RebootingMeansSelected'
      BY <1>11, <1>101, OtherFacts DEF GhCannotBegin, GiveUp, GhEnds, UploadAnswered
    <2>4. TrialHasNoHandle'
      BY <1>11, <1>101, OtherFacts DEF GhCannotBegin, GiveUp, GhEnds, UploadAnswered
    <2>5. GhShown'
      BY <1>11, <1>101, OtherFacts DEF GhCannotBegin, GiveUp, GhEnds, UploadAnswered
    <2>6. QED
      BY <2>1, <2>2, <2>3, <2>4, <2>5
  <1>12. ASSUME GhNetworkFails
         PROVE  Wanted'
    <2>1. AlwaysBootable'
      BY <1>12, <1>101, OtherFacts DEF GhNetworkFails, Abort, GiveUp, GhEnds,
         UploadAnswered,
         LastAttempt
    <2>2. EngineHasUser'
      BY <1>12, <1>101, OtherFacts DEF GhNetworkFails, Abort, GiveUp, GhEnds,
         UploadAnswered,
         LastAttempt
    <2>3. RebootingMeansSelected'
      BY <1>12, <1>101, OtherFacts DEF GhNetworkFails, Abort, GiveUp, GhEnds,
         UploadAnswered,
         LastAttempt
    <2>4. TrialHasNoHandle'
      BY <1>12, <1>101, OtherFacts DEF GhNetworkFails, Abort, GiveUp, GhEnds,
         UploadAnswered,
         LastAttempt
    <2>5. GhShown'
      BY <1>12, <1>101, OtherFacts DEF GhNetworkFails, Abort, GiveUp, GhEnds,
         UploadAnswered,
         LastAttempt
    <2>6. QED
      BY <2>1, <2>2, <2>3, <2>4, <2>5
  <1>13. ASSUME NEW u \in Users, FeedRefused(u)
         PROVE  Wanted'
    BY <1>13, <1>101, OtherFacts DEF FeedRefused, GiveUp, GhEnds, UploadAnswered
  <1>14. ASSUME NEW u \in Users, FeedTooMuch(u)
         PROVE  Wanted'
    BY <1>14, <1>101, OtherFacts DEF FeedTooMuch, FeedAborts, Abort, GiveUp, GhEnds,
       UploadAnswered
  <1>15. ASSUME NEW u \in Users, FeedTakes(u)
         PROVE  Wanted'
    BY <1>15, <1>101, OtherFacts DEF FeedTakes
  <1>16. ASSUME NEW u \in Users, StartFails(u)
         PROVE  Wanted'
    <2>1. AlwaysBootable'
      BY <1>16, <1>101, OtherFacts DEF StartFails, FeedAborts, Abort, GiveUp, GhEnds,
         UploadAnswered
    <2>2. EngineHasUser'
      BY <1>16, <1>101, OtherFacts DEF StartFails, FeedAborts, Abort, GiveUp, GhEnds,
         UploadAnswered
    <2>3. RebootingMeansSelected'
      BY <1>16, <1>101, OtherFacts DEF StartFails, FeedAborts, Abort, GiveUp, GhEnds,
         UploadAnswered
    <2>4. TrialHasNoHandle'
      BY <1>16, <1>101, OtherFacts DEF StartFails, FeedAborts, Abort, GiveUp, GhEnds,
         UploadAnswered
    <2>5. GhShown'
      BY <1>16, <1>101, OtherFacts DEF StartFails, FeedAborts, Abort, GiveUp, GhEnds,
         UploadAnswered
    <2>6. QED
      BY <2>1, <2>2, <2>3, <2>4, <2>5
  <1>17. ASSUME NEW u \in Users, Started(u)
         PROVE  Wanted'
    BY <1>17, <1>101, OtherFacts DEF Started, MayErase
  <1>18. ASSUME NEW u \in Users, Wrote(u)
         PROVE  Wanted'
    BY <1>18, <1>101, OtherFacts DEF Wrote
  <1>19. ASSUME NEW u \in Users, WriteFails(u)
         PROVE  Wanted'
    <2>1. AlwaysBootable'
      BY <1>19, <1>101, OtherFacts DEF WriteFails, FeedAborts, Abort, GiveUp, GhEnds,
         UploadAnswered
    <2>2. EngineHasUser'
      BY <1>19, <1>101, OtherFacts DEF WriteFails, FeedAborts, Abort, GiveUp, GhEnds,
         UploadAnswered
    <2>3. RebootingMeansSelected'
      BY <1>19, <1>101, OtherFacts DEF WriteFails, FeedAborts, Abort, GiveUp, GhEnds,
         UploadAnswered
    <2>4. TrialHasNoHandle'
      BY <1>19, <1>101, OtherFacts DEF WriteFails, FeedAborts, Abort, GiveUp, GhEnds,
         UploadAnswered
    <2>5. GhShown'
      BY <1>19, <1>101, OtherFacts DEF WriteFails, FeedAborts, Abort, GiveUp, GhEnds,
         UploadAnswered
    <2>6. QED
      BY <2>1, <2>2, <2>3, <2>4, <2>5
  <1>20. ASSUME NEW u \in Users, FinishAccepts(u)
         PROVE  Wanted'
    BY <1>20, <1>101, OtherFacts DEF FinishAccepts
  <1>21. ASSUME NEW u \in Users, FinishRefuses(u)
         PROVE  Wanted'
    <2>1. AlwaysBootable'
      BY <1>21, <1>101, OtherFacts DEF FinishRefuses, Abort, GiveUp, GhEnds, UploadAnswered
    <2>2. EngineHasUser'
      BY <1>21, <1>101, OtherFacts DEF FinishRefuses, Abort, GiveUp, GhEnds, UploadAnswered
    <2>3. RebootingMeansSelected'
      BY <1>21, <1>101, OtherFacts DEF FinishRefuses, Abort, GiveUp, GhEnds, UploadAnswered
    <2>4. TrialHasNoHandle'
      BY <1>21, <1>101, OtherFacts DEF FinishRefuses, Abort, GiveUp, GhEnds, UploadAnswered
    <2>5. GhShown'
      BY <1>21, <1>101, OtherFacts DEF FinishRefuses, Abort, GiveUp, GhEnds, UploadAnswered
    <2>6. QED
      BY <2>1, <2>2, <2>3, <2>4, <2>5
  <1>22. ASSUME NEW u \in Users, Verified(u)
         PROVE  Wanted'
    BY <1>22, <1>101, OtherFacts DEF Verified, Passes
  <1>23. ASSUME NEW u \in Users, VerifyFails(u)
         PROVE  Wanted'
    BY <1>23, <1>101, OtherFacts DEF VerifyFails, GiveUp, GhEnds, UploadAnswered
  <1>24. ASSUME NEW u \in Users, Checked(u)
         PROVE  Wanted'
    BY <1>24, <1>101, OtherFacts DEF Checked
  <1>25. ASSUME NEW u \in Users, Selected(u)
         PROVE  Wanted'
    BY <1>25, <1>101, OtherFacts DEF Selected, Selectable, GhSucceeds, UploadAnswered
  <1>26. ASSUME NEW u \in Users, SelectFails(u)
         PROVE  Wanted'
    <2>1. AlwaysBootable'
      BY <1>26, <1>101, OtherFacts DEF SelectFails, GiveUp, GhEnds, UploadAnswered
    <2>2. EngineHasUser'
      BY <1>26, <1>101, OtherFacts DEF SelectFails, GiveUp, GhEnds, UploadAnswered
    <2>3. RebootingMeansSelected'
      BY <1>26, <1>101, OtherFacts DEF SelectFails, GiveUp, GhEnds, UploadAnswered
    <2>4. TrialHasNoHandle'
      BY <1>26, <1>101, OtherFacts DEF SelectFails, GiveUp, GhEnds, UploadAnswered
    <2>5. GhShown'
      BY <1>26, <1>101, OtherFacts DEF SelectFails, GiveUp, GhEnds, UploadAnswered
    <2>6. QED
      BY <2>1, <2>2, <2>3, <2>4, <2>5
  <1>27. CASE UNCHANGED vars
    BY <1>27, <1>101 DEF vars
  <1>28. QED
    BY <1>1, <1>2, <1>3, <1>4, <1>5, <1>6, <1>7, <1>8, <1>9, <1>10,
       <1>11, <1>12, <1>13, <1>14, <1>15, <1>16, <1>17, <1>18, <1>19,
       <1>20, <1>21, <1>22, <1>23, <1>24, <1>25, <1>26, <1>27 DEF Next,
       Upload, Github, Engine

\* The inductive invariant holds in every reachable state.
LEMMA Always == Spec => []IInv
  <1>1. Init => IInv  BY IInit
  <1>2. IInv /\ [Next]_vars => IInv'  BY IStep
  <1>3. QED  BY <1>1, <1>2, PTL DEF Spec

\* However two updates interfere and wherever a restart hits, there is a whole
\* image to run, and one to fall back to while the running one is on trial.
THEOREM NeverBricked == Spec => []AlwaysBootable
  <1>1. IInv => AlwaysBootable  BY DEF IInv, Wanted
  <1>2. QED  BY <1>1, Always, PTL

\* The engine is never left busy for good: some user is on its way to release it.
THEOREM EngineReleased == Spec => []EngineHasUser
  <1>1. IInv => EngineHasUser  BY DEF IInv, Wanted
  <1>2. QED  BY <1>1, Always, PTL

\* The installer reports that it restarts only with the new image selected.
THEOREM RebootIsUpdate == Spec => []RebootingMeansSelected
  <1>1. IInv => RebootingMeansSelected  BY DEF IInv, Wanted
  <1>2. QED  BY <1>1, Always, PTL

-------------------------------------------------------------------------------
(* What esp_ota_set_boot_partition has read stays, unless it is erased.      *)

\* Past its verification an update has only the other one beside it, whose chunks
\* since the last erase and those to come make no more than one image ...
NoMoreThanOne ==
  \A u, v \in Users : u # v /\ pc[u] \in {"select", "commit"} /\ open =>
    Len(img[Other(running)]) + left[v] <= ImageChunks

\* ... so a whole image gets no further chunk.
CheckedIsWhole ==
  \A u \in Users : pc[u] = "commit" => u \in spoiled \/ Whole(img[Other(running)])

CheckInv == NoMoreThanOne /\ CheckedIsWhole

\* A whole image has all its chunks.
LEMMA WholeLength ==
  ASSUME NEW c, Whole(c)
  PROVE  Len(c) = ImageChunks
  BY ChunksAssumption DEF Whole

\* A step that touches neither the slot nor the counts of chunks keeps both.
LEMMA Untouched ==
  ASSUME TypeInv, CheckInv, UNCHANGED <<img, running, left, spoiled>>, open' => open,
         \A u \in Users : pc'[u] \in {"select", "commit"} => pc[u] = pc'[u]
  PROVE  CheckInv'
  BY DEF CheckInv, NoMoreThanOne, CheckedIsWhole

\* Every step keeps them.
LEMMA CheckStep == TypeInv /\ TypeInv' /\ CheckInv /\ [Next]_vars => CheckInv'
  <1> SUFFICES ASSUME TypeInv, TypeInv', CheckInv, [Next]_vars PROVE CheckInv'
    OBVIOUS
  <1> USE DEF Goto, Rest, flashVars, engineVars, ghVars
  <1>0. pc \in [Users -> PCs] /\ open \in BOOLEAN
    BY DEF TypeInv, TypeOK
  <1>a. Abort => (open' => open)
    BY DEF Abort
  <1>1. ASSUME Restart
        PROVE  CheckInv'
    BY <1>1 DEF Restart, Fresh, CheckInv, NoMoreThanOne, CheckedIsWhole
  <1>2. ASSUME UploadBegins \/ GhBegins
        PROVE  CheckInv'
    <2>1. /\ UNCHANGED <<img, running, spoiled>> /\ open' = FALSE
          /\ \A u \in Users : pc'[u] = "commit" => pc[u] = "commit"
      BY <1>0, <1>2 DEF UploadBegins, GhBegins, BeginOk
    <2>2. QED
      BY <2>1 DEF CheckInv, NoMoreThanOne, CheckedIsWhole
  <1>3. ASSUME NEW u \in Users, Started(u)
        PROVE  CheckInv'
    <2>1. img'[Other(running')] = <<>>
      BY <1>3, OtherFacts DEF Started, TypeInv, TypeOK
    <2>2. Len(<<>>) = 0
      OBVIOUS
    <2>3. NoMoreThanOne'
      BY <2>1, <2>2, ChunksAssumption DEF NoMoreThanOne, TypeInv, TypeOK
    <2>4. \A v \in Users : pc'[v] = "commit" => pc[v] = "commit"
      BY <1>0, <1>3 DEF Started
    <2>5. spoiled' = spoiled \cup {v \in Users : pc[v] = "commit"}
      BY <1>3 DEF Started
    <2>6. QED
      BY <2>3, <2>4, <2>5 DEF CheckInv, CheckedIsWhole
  <1>4. ASSUME NEW u \in Users, Wrote(u)
        PROVE  CheckInv'
    <2> DEFINE c == img[Other(running)]
    <2>1. /\ c \in Seq(Users) /\ Len(c) \in Nat /\ left[u] \in Nat /\ left[u] > 0
          /\ ImageChunks \in Nat
      BY <1>4, OtherFacts, ChunksAssumption DEF Wrote, TypeInv, TypeOK, Feeding
    <2>2. /\ img'[Other(running')] = Append(c, u) /\ running' = running
          /\ left' = [left EXCEPT ![u] = @ - 1] /\ spoiled' = spoiled
          /\ pc' = [pc EXCEPT ![u] = "feed"] /\ open /\ open' = open
      BY <1>4, OtherFacts DEF Wrote, TypeInv, TypeOK
    <2>3. Len(Append(c, u)) = Len(c) + 1
      BY <2>1, AppendProperties
    <2> HIDE DEF c
    <2>4. ASSUME NEW v \in Users, pc'[v] \in {"select", "commit"}
          PROVE  v # u /\ pc[v] = pc'[v] /\ Len(c) + left[u] <= ImageChunks
      <3>1. v # u /\ pc[v] = pc'[v]
        BY <1>0, <2>2, <2>4
      <3>2. QED
        BY <2>2, <2>4, <3>1 DEF CheckInv, NoMoreThanOne, c
    <2>5. left'[u] = left[u] - 1
      BY <2>2 DEF TypeInv, TypeOK
    <2>6. \A v, w \in Users : v # w /\ pc'[v] \in {"select", "commit"} => w = u
      BY <1>0, <2>2 DEF Users
    <2>7. NoMoreThanOne'
      <3> SUFFICES ASSUME NEW v \in Users, NEW w \in Users, v # w,
                          pc'[v] \in {"select", "commit"}
                   PROVE  Len(img'[Other(running')]) + left'[w] <= ImageChunks
        BY DEF NoMoreThanOne
      <3>1. w = u
        BY <2>6
      <3>2. Len(c) + left[u] <= ImageChunks
        BY <2>4
      <3>3. Len(img'[Other(running')]) = Len(c) + 1
        BY <2>2, <2>3
      <3>4. QED
        BY <2>1, <2>5, <3>1, <3>2, <3>3
    <2>8. CheckedIsWhole'
      <3> SUFFICES ASSUME NEW v \in Users, pc'[v] = "commit", v \notin spoiled
                   PROVE  FALSE
        BY <2>2 DEF CheckedIsWhole
      <3>1. Len(c) + left[u] <= ImageChunks /\ pc[v] = "commit"
        BY <2>4
      <3>2. Whole(c)
        BY <3>1 DEF CheckInv, CheckedIsWhole, c
      <3>3. Len(c) = ImageChunks
        BY <3>2, WholeLength
      <3>4. QED
        BY <2>1, <3>1, <3>3
    <2>9. QED
      BY <2>7, <2>8 DEF CheckInv
  <1>5. ASSUME NEW u \in Users, Verified(u)
        PROVE  CheckInv'
    <2>1. /\ UNCHANGED <<img, running, spoiled>> /\ open' = FALSE
          /\ \A v \in Users : pc'[v] = "commit" => pc[v] = "commit"
      BY <1>0, <1>5 DEF Verified
    <2>2. QED
      BY <2>1 DEF CheckInv, NoMoreThanOne, CheckedIsWhole
  <1>6. ASSUME NEW u \in Users, Checked(u)
        PROVE  CheckInv'
    <2>1. /\ UNCHANGED <<img, running, left, open>> /\ Whole(img[Other(running)])
          /\ \A v \in Users : pc'[v] \in {"select", "commit"} => pc[v] \in {"select", "commit"}
      BY <1>0, <1>6 DEF Checked, Selectable
    <2>2. QED
      BY <2>1 DEF CheckInv, NoMoreThanOne, CheckedIsWhole
  <1>7. ASSUME Confirm \/ UploadRejected \/ UploadFails \/ UploadInterrupted \/ CheckBegins
               \/ CheckEnds \/ Install \/ GhCannotBegin \/ GhNetworkFails
        PROVE  CheckInv'
    <2>0. UNCHANGED <<img, running, left, spoiled>>
      BY <1>7 DEF Confirm, UploadRejected, UploadFails, UploadInterrupted, CheckBegins,
                  CheckEnds, Install, GhCannotBegin, GhNetworkFails
    <2>1. UNCHANGED open \/ Abort
      BY <1>7 DEF Confirm, UploadRejected, UploadFails, UploadInterrupted, CheckBegins,
                  CheckEnds, Install, GhCannotBegin, GhNetworkFails
    <2>2. \A v \in Users : pc'[v] \in {"select", "commit"} => pc[v] = pc'[v]
      BY <1>0, <1>7
         DEF Confirm, UploadRejected, UploadFails, UploadInterrupted, CheckBegins, CheckEnds,
             Install, GhCannotBegin, GhNetworkFails, GiveUp, GhEnds, UploadAnswered
    <2>3. open' => open
      BY <1>a, <2>1
    <2>4. QED
      BY <2>0, <2>2, <2>3, Untouched
  <1>8. ASSUME NEW u \in Users,
               FeedRefused(u) \/ FeedTooMuch(u) \/ FeedTakes(u) \/ StartFails(u)
               \/ WriteFails(u) \/ FinishAccepts(u) \/ FinishRefuses(u) \/ VerifyFails(u)
               \/ Selected(u) \/ SelectFails(u)
        PROVE  CheckInv'
    <2>0. UNCHANGED <<img, running, left, spoiled>>
      BY <1>8 DEF FeedRefused, FeedTooMuch, FeedTakes, StartFails, WriteFails, FinishAccepts,
                  FinishRefuses, VerifyFails, Selected, SelectFails
    <2>1. UNCHANGED open \/ open' = FALSE \/ Abort
      BY <1>8 DEF FeedRefused, FeedTooMuch, FeedTakes, StartFails, WriteFails, FinishAccepts,
                  FinishRefuses, VerifyFails, Selected, SelectFails, FeedAborts
    <2>2. \A v \in Users : pc'[v] \in {"select", "commit"} => pc[v] = pc'[v]
      BY <1>0, <1>8
         DEF FeedRefused, FeedTooMuch, FeedTakes, StartFails, WriteFails, FinishAccepts,
             FinishRefuses, VerifyFails, Selected, SelectFails, GiveUp, GhEnds, GhSucceeds,
             UploadAnswered
    <2>3. open' => open
      BY <1>a, <2>1
    <2>4. QED
      BY <2>0, <2>2, <2>3, Untouched
  <1>9. CASE UNCHANGED vars
    BY <1>9, Untouched DEF vars
  <1>10. QED
    BY <1>1, <1>2, <1>3, <1>4, <1>5, <1>6, <1>7, <1>8, <1>9 DEF Next, Upload, Github, Engine

LEMMA CheckAlways == Spec => [](TypeInv /\ CheckInv)
  <1>1. Init => TypeInv /\ CheckInv
    <2> SUFFICES ASSUME Init PROVE TypeInv /\ CheckInv
      OBVIOUS
    <2>1. TypeInv
      BY TypeInit DEF TypeInv, Feeding, Init
    <2>2. CheckInv
      BY DEF Init, CheckInv, NoMoreThanOne, CheckedIsWhole
    <2>3. QED
      BY <2>1, <2>2
  <1>2. TypeInv /\ CheckInv /\ [Next]_vars => (TypeInv /\ CheckInv)'
    BY TypeStep, CheckStep
  <1>3. QED
    BY <1>1, <1>2, PTL DEF Spec

\* A slot is selected for the next boot only with one sender's whole image in it, for images
\* of any length, unless another update has erased it since it was read for the last time:
\* esp_ota_set_boot_partition reads for long before it writes otadata, and what keeps the
\* other update's chunks out of the image is that together they would be more than one.
THEOREM SelectionIsWhole == Spec => OnlyWholeImageSelected
  <1>1. TypeInv /\ CheckInv /\ [Next]_vars
          => (boot' # boot /\ boot' # running' =>
                Whole(img'[boot']) \/ \E u \in Users : Spoiled(u) /\ pc'[u] # "commit")
    <2> SUFFICES ASSUME TypeInv, CheckInv, [Next]_vars, boot' # boot, boot' # running'
                 PROVE  Whole(img'[boot']) \/ \E u \in Users : Spoiled(u) /\ pc'[u] # "commit"
      OBVIOUS
    <2>1. ASSUME NEW u \in Users, Selected(u)
          PROVE  Whole(img'[boot']) \/ \E v \in Users : Spoiled(v) /\ pc'[v] # "commit"
      <3>1. pc[u] = "commit" /\ boot' = Other(running) /\ img' = img
        BY <2>1 DEF Selected
      <3>2. pc'[u] # "commit"
        BY <2>1 DEF Selected, GhSucceeds, UploadAnswered, Goto, TypeInv, TypeOK
      <3>3. u \in spoiled \/ Whole(img[Other(running)])
        BY <3>1 DEF CheckInv, CheckedIsWhole
      <3>4. QED
        BY <3>1, <3>2, <3>3 DEF Spoiled
    <2>2. \/ boot' = boot \/ boot' = running' \/ \E u \in Users : Selected(u)
      BY DEF Next, vars, flashVars, Restart, Confirm, Upload, Github,
         Engine, Rest,
             UploadBegins, UploadRejected, UploadFails, UploadInterrupted,
             CheckBegins, CheckEnds, CheckAnswered, Install, GhBegins, GhCannotBegin,
             GhNetworkFails, FeedRefused, FeedTooMuch, FeedTakes, StartFails,
             Started, Wrote, WriteFails, FinishAccepts, FinishRefuses, Verified,
             VerifyFails, Checked, SelectFails
    <2>3. QED
      BY <2>1, <2>2
  <1>2. QED
    BY CheckAlways, <1>1, PTL DEF Spec, OnlyWholeImageSelected
===============================================================================
