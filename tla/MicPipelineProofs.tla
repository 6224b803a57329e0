--------------------------- MODULE MicPipelineProofs ---------------------------
(***************************************************************************)
(* Theorems about the audio pipeline.  MicPipeline: for any number of      *)
(* times a mic is plugged in, any number of stall checks and any width of  *)
(* the chunk counter that the chunks of one interval do not fill.          *)
(* AudioFanout: for any number of readers and any sizes of buffers,        *)
(* packets and chunks.                                                     *)
(***************************************************************************)
EXTENDS MicPipeline, AudioFanout, TLAPS

\* The local handle is held only between opening the device and storing it.
LocalHandle == pc # "store" => dev = 0

\* ActiveMeansMic strengthened: it is established when the device is started,
\* and so holds from then on, before s_active is set as well.
StartedMeansMic ==
  /\ s_active => pc = "done" /\ rd # "none"
  /\ pc = "activate" => rd # "none"
  /\ source = "USB" /\ (pc \in {"spawn", "activate"} \/ s_active)
       /\ (s_dev = 0 \/ s_dev # conn) =>
         gone # {} \/ cb # "idle" \/ s_usb_reboot_pending

\* What the watchdog remembers of the counter and of its own checks.
WatchdogKnows ==
  /\ baselined =>
       \/ s_chunk_count = last_count + fresh
       \/ s_chunk_count = last_count + fresh - CountWrap
  /\ baselined /\ fresh = 0 => quiet >= stalled_checks + 1
  /\ ~baselined => stalled_checks = 0

IInv ==
  TypeOK /\ LocalHandle /\ OneReader /\ ReadsOpenHandle /\ StartedMeansMic /\ WatchdogKnows

\* The constants, as the provers take them best.
LEMMA Counts ==
  /\ MaxPlugs \in Nat /\ MaxPlugs >= 1 /\ STALL_CHECKS \in Nat /\ STALL_CHECKS >= 1
  /\ CountWrap \in Nat /\ ChunksPerInterval \in Nat /\ ChunksPerInterval < CountWrap
  BY CountsAssumption, WrapAssumption

\* The invariant holds at boot.
LEMMA InitInv == Init => IInv
  <1> SUFFICES ASSUME Init PROVE IInv
    OBVIOUS
  <1>1. UsbTypes
    <2>1. /\ conn \in {0, 1} /\ plugs = conn /\ heard = FALSE /\ s_connect_q = FALSE
          /\ open = {} /\ gone = {} /\ dev = 0 /\ s_dev = 0 /\ rh = 0
      BY DEF Init
    <2>2. conn \in 0 .. MaxPlugs /\ plugs \in 0 .. MaxPlugs /\ conn <= plugs
          /\ rh \in 0 .. plugs
      BY <2>1, Counts
    <2>3. QED
      BY <2>1, <2>2 DEF UsbTypes
  <1>2. TaskTypes
    BY DEF Init, TaskTypes, Sources, Errors, Retried
  <1>3. CheckTypes
    <2>1. /\ s_chunk_count = 0 /\ fresh = 0 /\ last_count = 0
          /\ stalled_checks = 0 /\ quiet = 0
      BY DEF Init
    <2>2. QED
      BY <2>1, Counts DEF CheckTypes
  <1>4. LocalHandle /\ OneReader /\ ReadsOpenHandle
    BY DEF Init, LocalHandle, OneReader, ReadsOpenHandle
  <1>5. StartedMeansMic /\ WatchdogKnows
    BY Counts DEF Init, StartedMeansMic, WatchdogKnows
  <1>6. QED
    BY <1>1, <1>2, <1>3, <1>4, <1>5 DEF IInv, TypeOK

\* A restart is a boot.
LEMMA RestartInits ==
  ASSUME Restart, source' \in Sources, watchdog_enabled' \in BOOLEAN
  PROVE  Init'
  BY DEF Restart, Init

\* Hence the invariant holds after a restart.
LEMMA InitInvPrimed == Init' => IInv'
  BY InitInv, PTL

Restarts ==
  BootAborts \/ CloseRestarts \/ MainAborts \/ RebootDue \/ CheckRestarts \/ SaveSource

\* Every action that restarts leaves a possible configuration.
LEMMA RestartingSteps == TypeOK /\ Restarts => IInv'
  <1> SUFFICES ASSUME TypeOK, Restarts PROVE IInv'
    OBVIOUS
  <1>1. Restart /\ source' \in Sources /\ watchdog_enabled' \in BOOLEAN
    BY DEF TypeOK, TaskTypes, Restarts, BootAborts, CloseRestarts, MainAborts, RebootDue,
           CheckRestarts, SaveSource, configVars
  <1>2. QED
    BY <1>1, RestartInits, InitInvPrimed

-------------------------------------------------------------------------------
(* The steps without a restart.                                              *)

Runs ==
  \/ Driver \/ MainEnds \/ Reader \/ Callback \/ SaveSwitch
  \/ StartFails \/ Install \/ WaitEnds \/ WaitTimesOut \/ OpenDevice \/ StoreDevice
  \/ Negotiate \/ StartDevice \/ CloseDevice \/ SpawnReader \/ Activate \/ RetryPauseEnds
  \/ CheckIdle \/ CheckBaseline \/ CheckProgress \/ CheckStalled

\* A step restarts or does not.
LEMMA NextSplits == [Next]_vars => Restarts \/ Runs \/ UNCHANGED vars
  BY DEF Next, Restarts, Runs, StartUp, Check

\* The types of the mic, its handles and events.
LEMMA UsbTypesKept ==
  ASSUME UsbTypes, LocalHandle, Runs
  PROVE  UsbTypes'
  <1>1. CASE Plug
    <2>1. conn' = plugs + 1 /\ plugs' = plugs + 1 /\ plugs < MaxPlugs /\ heard' = FALSE
      BY <1>1 DEF Plug
    <2>2. UNCHANGED <<s_connect_q, open, gone, dev, s_dev, rh>>
      BY <1>1 DEF Plug, startVars, readVars
    <2>3. /\ conn' \in 0 .. MaxPlugs /\ plugs' \in 0 .. MaxPlugs /\ conn' <= plugs'
          /\ 1 .. plugs \subseteq 1 .. plugs' /\ 0 .. plugs \subseteq 0 .. plugs'
      BY <2>1, Counts DEF UsbTypes
    <2>4. QED
      BY <2>1, <2>2, <2>3 DEF UsbTypes
  <1>2. CASE Unplug
    BY <1>2, Counts DEF Unplug, UsbTypes, startVars, readVars
  <1>3. CASE Connected
    BY <1>3 DEF Connected, UsbTypes, startVars, readVars
  <1>4. CASE WaitEnds
    BY <1>4 DEF WaitEnds, UsbTypes, StartUpOnly
  <1>5. CASE OpenDevice
    BY <1>5 DEF OpenDevice, UsbTypes, StartUpOnly
  <1>6. CASE StoreDevice
    BY <1>6 DEF StoreDevice, UsbTypes, StartUpOnly
  <1>7. CASE CloseDevice
    BY <1>7 DEF CloseDevice, UsbTypes, StartUpOnly, LocalHandle
  <1>8. CASE StartFails \/ Install \/ WaitTimesOut \/ Negotiate \/ StartDevice
             \/ SpawnReader \/ Activate \/ RetryPauseEnds
    BY <1>8 DEF StartFails, Install, WaitTimesOut, Negotiate, StartDevice, SpawnReader,
                Activate, RetryPauseEnds, StartUpOnly, UsbTypes
  <1>9. CASE ReadBegins
    <2>1. s_dev \in 0 .. plugs
      BY DEF UsbTypes
    <2>2. rh' = s_dev /\ UNCHANGED <<usbVars, startVars, s_dev>>
      BY <1>9 DEF ReadBegins, ReaderOnly
    <2>3. QED
      BY <2>1, <2>2 DEF usbVars, startVars, UsbTypes
  <1>10. CASE ReadEmpty \/ ReadChunk \/ ReadWedges
    <2>1. 0 \in 0 .. plugs
      BY Counts DEF UsbTypes
    <2>2. rh' \in {0, rh} /\ UNCHANGED <<usbVars, startVars, s_dev>>
      BY <1>10 DEF ReadEmpty, ReadChunk, MicGives, ReadWedges, ReaderOnly
    <2>3. QED
      BY <2>1, <2>2 DEF usbVars, startVars, UsbTypes
  <1>11. CASE CallbackBegins
    BY <1>11 DEF CallbackBegins, RecoverOnly, startVars, readVars, UsbTypes
  <1>12. CASE CallbackMarks \/ CallbackSchedules
    BY <1>12 DEF CallbackMarks, CallbackSchedules, RecoverOnly, usbVars, startVars,
       readVars,
                 UsbTypes
  <1>13. CASE CheckIdle \/ CheckBaseline \/ CheckProgress \/ CheckStalled
    BY <1>13 DEF CheckIdle, CheckBaseline, CheckProgress, CheckStalled, WatchdogOnly,
       usbVars,
                 startVars, UsbTypes
  <1>14. CASE MainEnds \/ SaveSwitch
    BY <1>14 DEF MainEnds, SaveSwitch, usbVars, startVars, readVars, UsbTypes
  <1>15. QED
    BY <1>1, <1>2, <1>3, <1>4, <1>5, <1>6, <1>7, <1>8, <1>9, <1>10, <1>11, <1>12, <1>13, <1>14
       DEF Runs, Driver, Reader, Callback

\* The types of the tasks and their flags.
LEMMA TaskTypesKept ==
  ASSUME TaskTypes, Runs
  PROVE  TaskTypes'
  <1>1. CASE Driver
    BY <1>1 DEF Driver, Plug, Unplug, Connected, configVars, startVars, readVars,
                recoverVars, checkVars, TaskTypes
  <1>2. CASE StartFails \/ WaitTimesOut
    <2>1. /\ main' \in {main, "later"} /\ pc' \in {"pause", "done"}
          /\ UNCHANGED <<err, s_host_ready, s_active, rd>> /\ StartUpOnly
      BY <1>2 DEF StartFails, WaitTimesOut, Fails
    <2>2. QED
      BY <2>1 DEF StartUpOnly, configVars, checkVars, TaskTypes
  <1>3. CASE Install \/ WaitEnds \/ OpenDevice \/ StoreDevice \/ SpawnReader \/ Activate
             \/ RetryPauseEnds
    <2>1. /\ main' \in {main, "later"} /\ err' = err
          /\ pc' \in {"install", "wait", "open", "store", "negotiate", "spawn", "activate",
                     "done"}
          /\ s_host_ready' \in BOOLEAN /\ s_active' \in BOOLEAN
          /\ rd' \in {rd, "top"} /\ StartUpOnly
      BY <1>3 DEF Install, WaitEnds, OpenDevice, StoreDevice, SpawnReader, Activate,
                  RetryPauseEnds, Proceed, TaskTypes
    <2>2. QED
      BY <2>1 DEF StartUpOnly, configVars, checkVars, TaskTypes
  <1>4. CASE Negotiate \/ StartDevice
    BY <1>4 DEF Negotiate, StartDevice, Proceed, StartUpOnly, configVars, checkVars,
                TaskTypes, Errors, Retried
  <1>5. CASE CloseDevice
    BY <1>5 DEF CloseDevice, Fails, StartUpOnly, configVars, checkVars, TaskTypes, Errors
  <1>6. CASE Reader
    BY <1>6 DEF Reader, ReadBegins, ReadEmpty, ReadChunk, MicGives, ReadWedges,
                ReaderOnly, configVars, startVars, recoverVars, checkVars, TaskTypes
  <1>7. CASE Callback
    BY <1>7, ZenonT(30) DEF Callback, CallbackBegins, CallbackMarks, CallbackSchedules, RecoverOnly,
                configVars, startVars, readVars, checkVars, TaskTypes
  <1>8. CASE CheckIdle \/ CheckBaseline \/ CheckProgress \/ CheckStalled
    BY <1>8, ZenonT(30) DEF CheckIdle, CheckBaseline, CheckProgress, CheckStalled, WatchdogOnly,
                configVars, startVars, recoverVars, TaskTypes
  <1>9. CASE MainEnds \/ SaveSwitch
    BY <1>9, ZenonT(30) DEF MainEnds, SaveSwitch, configVars, startVars, readVars,
                recoverVars, checkVars, TaskTypes
  <1>10. QED
    BY <1>1, <1>2, <1>3, <1>4, <1>5, <1>6, <1>7, <1>8, <1>9 DEF Runs

\* The types of the counters.
LEMMA CheckTypesKept ==
  ASSUME CheckTypes, Runs
  PROVE  CheckTypes'
  <1>1. CASE Driver \/ Callback \/ MainEnds \/ SaveSwitch \/ ReadBegins \/ ReadEmpty
             \/ ReadWedges
    BY <1>1 DEF Driver, Plug, Unplug, Connected, Callback, CallbackBegins, CallbackMarks,
                CallbackSchedules, RecoverOnly, MainEnds, SaveSwitch, ReadBegins, ReadEmpty,
                ReadWedges, ReaderOnly, readVars, checkVars, CheckTypes
  <1>2. CASE StartFails \/ Install \/ WaitEnds \/ WaitTimesOut \/ OpenDevice \/ StoreDevice
             \/ Negotiate \/ StartDevice \/ CloseDevice \/ SpawnReader \/ Activate
             \/ RetryPauseEnds
    <2>1. StartUpOnly
      BY <1>2 DEF StartFails, Install, WaitEnds, WaitTimesOut, OpenDevice, StoreDevice,
                  Negotiate, StartDevice, CloseDevice, SpawnReader, Activate, RetryPauseEnds
    <2>2. QED
      BY <2>1 DEF StartUpOnly, checkVars, CheckTypes
  <1>3. CASE ReadChunk
    BY <1>3, Counts DEF ReadChunk, MicGives, ReaderOnly, checkVars, CheckTypes
  <1>4. CASE CheckIdle
    BY <1>4, Counts DEF CheckIdle, WatchdogOnly, CheckTypes
  <1>5. CASE CheckBaseline
    BY <1>5, Counts DEF CheckBaseline, CountCheck, WatchdogOnly, CheckTypes
  <1>6. CASE CheckProgress
    BY <1>6, Counts DEF CheckProgress, CountCheck, WatchdogOnly, CheckTypes
  <1>7. CASE CheckStalled
    BY <1>7, Counts DEF CheckStalled, CountCheck, WatchdogOnly, CheckTypes
  <1>8. QED
    BY <1>1, <1>2, <1>3, <1>4, <1>5, <1>6, <1>7 DEF Runs, Reader

\* One capture task, reading from an open handle, and where the local handle is.
LEMMA ReaderKept ==
  ASSUME TypeOK, LocalHandle, OneReader, ReadsOpenHandle, Runs
  PROVE  LocalHandle' /\ OneReader' /\ ReadsOpenHandle'
  <1> USE DEF LocalHandle, OneReader, ReadsOpenHandle
  <1>1. CASE Driver \/ MainEnds \/ SaveSwitch
    BY <1>1 DEF Driver, Plug, Unplug, Connected, MainEnds, SaveSwitch, usbVars, configVars,
                startVars, readVars
  <1>2. CASE StartFails \/ Install \/ WaitEnds \/ WaitTimesOut \/ Negotiate \/ StartDevice
             \/ RetryPauseEnds
    <2>1. /\ pc \notin {"activate", "done", "store"} /\ pc' # "store"
          /\ UNCHANGED <<dev, rd, rh, open, source>>
      BY <1>2 DEF StartFails, Install, WaitEnds, WaitTimesOut, Negotiate, StartDevice,
                  RetryPauseEnds, Fails, Proceed, StartUpOnly, configVars
    <2>2. QED
      BY <2>1
  <1>3. CASE OpenDevice
    BY <1>3 DEF OpenDevice, Proceed, StartUpOnly, configVars
  <1>4. CASE StoreDevice
    BY <1>4 DEF StoreDevice, Proceed, StartUpOnly, configVars
  <1>5. CASE CloseDevice
    BY <1>5 DEF CloseDevice, Fails, StartUpOnly, configVars
  <1>6. CASE SpawnReader
    BY <1>6 DEF SpawnReader, Proceed, StartUpOnly, configVars
  <1>7. CASE Activate
    BY <1>7 DEF Activate, StartUpOnly, configVars
  <1>8. CASE Reader
    BY <1>8 DEF Reader, ReadBegins, ReadEmpty, ReadChunk, MicGives, ReadWedges,
       ReaderOnly, usbVars,
                configVars, startVars, TypeOK, UsbTypes, TaskTypes, Sources
  <1>9. CASE Callback
    BY <1>9 DEF Callback, CallbackBegins, CallbackMarks, CallbackSchedules, RecoverOnly,
                usbVars, configVars, startVars, readVars
  <1>10. CASE CheckIdle \/ CheckBaseline \/ CheckProgress \/ CheckStalled
    BY <1>10 DEF CheckIdle, CheckBaseline, CheckProgress, CheckStalled, WatchdogOnly,
       usbVars,
                 configVars, startVars
  <1>11. QED
    BY <1>1, <1>2, <1>3, <1>4, <1>5, <1>6, <1>7, <1>8, <1>9, <1>10 DEF Runs

\* The recovery of a mic that goes, from the start of the device on.
LEMMA StartedKept ==
  ASSUME TypeOK, OneReader, StartedMeansMic, Runs
  PROVE  StartedMeansMic'
  <1> USE DEF StartedMeansMic
  <1>1. CASE Plug
    BY <1>1 DEF Plug, configVars, startVars, readVars, recoverVars
  <1>2. CASE Unplug
    BY <1>2 DEF Unplug, configVars, startVars, readVars, recoverVars, TypeOK, UsbTypes
  <1>3. CASE Connected \/ MainEnds \/ SaveSwitch
    BY <1>3 DEF Connected, MainEnds, SaveSwitch, usbVars, configVars, startVars, readVars,
                recoverVars
  <1>4. CASE Install
    BY <1>4 DEF Install, Proceed, StartUpOnly, configVars, TypeOK, TaskTypes, Sources
  <1>5. CASE StartFails \/ WaitEnds \/ WaitTimesOut \/ OpenDevice \/ StoreDevice \/ Negotiate
             \/ CloseDevice \/ RetryPauseEnds
    <2>1. /\ pc \notin {"activate", "done"} /\ pc' \notin {"spawn", "activate"}
          /\ s_active' = s_active
      BY <1>5 DEF StartFails, WaitEnds, WaitTimesOut, OpenDevice, StoreDevice, Negotiate,
                  CloseDevice, RetryPauseEnds, Fails, Proceed
    <2>2. QED
      BY <2>1
  <1>6. CASE StartDevice
    BY <1>6 DEF StartDevice, Proceed, StartUpOnly, configVars
  <1>7. CASE SpawnReader
    BY <1>7 DEF SpawnReader, Proceed, StartUpOnly, configVars
  <1>8. CASE Activate
    BY <1>8 DEF Activate, StartUpOnly, configVars
  <1>9. CASE Reader
    BY <1>9 DEF Reader, ReadBegins, ReadEmpty, ReadChunk, MicGives, ReadWedges,
       ReaderOnly, usbVars,
                configVars, startVars, recoverVars
  <1>10. CASE Callback
    BY <1>10 DEF Callback, CallbackBegins, CallbackMarks, CallbackSchedules, RecoverOnly,
                 usbVars, configVars, startVars, readVars, TypeOK, TaskTypes
  <1>11. CASE CheckIdle \/ CheckBaseline \/ CheckProgress \/ CheckStalled
    BY <1>11 DEF CheckIdle, CheckBaseline, CheckProgress, CheckStalled, WatchdogOnly,
       usbVars,
                 configVars, startVars, recoverVars
  <1>12. QED
    BY <1>1, <1>2, <1>3, <1>4, <1>5, <1>6, <1>7, <1>8, <1>9, <1>10, <1>11 DEF Runs, Driver

\* What the watchdog knows of the counter stays true as the counter wraps.
LEMMA WatchdogKept ==
  ASSUME CheckTypes, WatchdogKnows, Runs
  PROVE  WatchdogKnows'
  <1>1. CASE Driver \/ Callback \/ MainEnds \/ SaveSwitch \/ ReadBegins \/ ReadEmpty
             \/ ReadWedges
    BY <1>1 DEF Driver, Plug, Unplug, Connected, Callback, CallbackBegins, CallbackMarks,
                CallbackSchedules, RecoverOnly, MainEnds, SaveSwitch, ReadBegins, ReadEmpty,
                ReadWedges, ReaderOnly, readVars, checkVars, WatchdogKnows
  <1>2. CASE StartFails \/ Install \/ WaitEnds \/ WaitTimesOut \/ OpenDevice \/ StoreDevice
             \/ Negotiate \/ StartDevice \/ CloseDevice \/ SpawnReader \/ Activate
             \/ RetryPauseEnds
    <2>1. StartUpOnly
      BY <1>2 DEF StartFails, Install, WaitEnds, WaitTimesOut, OpenDevice, StoreDevice,
                  Negotiate, StartDevice, CloseDevice, SpawnReader, Activate, RetryPauseEnds
    <2>2. QED
      BY <2>1 DEF StartUpOnly, checkVars, WatchdogKnows
  <1>3. CASE ReadChunk
    BY <1>3, Counts DEF ReadChunk, MicGives, ReaderOnly, checkVars, CheckTypes,
       WatchdogKnows
  <1>4. CASE CheckIdle
    BY <1>4 DEF CheckIdle, WatchdogKnows
  <1>5. CASE CheckBaseline
    BY <1>5, Counts DEF CheckBaseline, CountCheck, WatchdogOnly, CheckTypes, WatchdogKnows
  <1>6. CASE CheckProgress
    BY <1>6, Counts DEF CheckProgress, CountCheck, WatchdogOnly, CheckTypes, WatchdogKnows
  <1>7. CASE CheckStalled
    BY <1>7, Counts DEF CheckStalled, CountCheck, WatchdogOnly, CheckTypes, WatchdogKnows
  <1>8. QED
    BY <1>1, <1>2, <1>3, <1>4, <1>5, <1>6, <1>7 DEF Runs, Reader

-------------------------------------------------------------------------------
(* The invariant and the theorems.                                           *)

\* IInv is inductive.
LEMMA InvKept == IInv /\ [Next]_vars => IInv'
  <1> SUFFICES ASSUME IInv, [Next]_vars PROVE IInv'
    OBVIOUS
  <1>1. CASE Restarts
    BY <1>1, RestartingSteps DEF IInv
  <1>2. CASE Runs
    <2>1. TypeOK'
      BY <1>2, UsbTypesKept, TaskTypesKept, CheckTypesKept DEF IInv, TypeOK
    <2>2. LocalHandle' /\ OneReader' /\ ReadsOpenHandle'
      BY <1>2, ReaderKept DEF IInv
    <2>3. StartedMeansMic'
      BY <1>2, StartedKept DEF IInv
    <2>4. WatchdogKnows'
      BY <1>2, WatchdogKept DEF IInv, TypeOK
    <2>5. QED
      BY <2>1, <2>2, <2>3, <2>4 DEF IInv
  <1>3. CASE UNCHANGED vars
    BY <1>3 DEF IInv, TypeOK, UsbTypes, TaskTypes, CheckTypes, LocalHandle, OneReader,
                ReadsOpenHandle, StartedMeansMic, WatchdogKnows, vars, usbVars, configVars,
                startVars, readVars, recoverVars, checkVars
  <1>4. QED
    BY <1>1, <1>2, <1>3, NextSplits

\* IInv holds in every state.
LEMMA Invariance == Spec => []IInv
  BY InitInv, InvKept, PTL DEF Spec

\* Every variable keeps its type.
THEOREM TypeCorrect == Spec => []TypeOK
  <1>1. IInv => TypeOK
    BY DEF IInv
  <1>2. QED
    BY <1>1, Invariance, PTL

\* There is never a second capture task, and none reads from a closed handle.
THEOREM OneOpenReader == Spec => []ReaderIsSound
  <1>1. IInv => ReaderIsSound
    BY DEF IInv, ReaderIsSound
  <1>2. QED
    BY <1>1, Invariance, PTL

\* Where the pipeline is shown active without its mic, the reboot is scheduled
\* or the callback that schedules it has yet to end.
THEOREM ActiveIsRecovered == Spec => []ActiveMeansMic
  <1>1. IInv => ActiveMeansMic
    BY DEF IInv, StartedMeansMic, ActiveMeansMic
  <1>2. QED
    BY <1>1, Invariance, PTL

\* The watchdog never restarts a device that gave a chunk within its checks,
\* although the counter it compares wraps.
THEOREM PatientWatchdog == Spec => WatchdogPatient
  <1>1. IInv /\ [Next]_vars => [CheckRestarts => quiet >= STALL_CHECKS]_vars
    <2> SUFFICES ASSUME IInv, CheckRestarts PROVE quiet >= STALL_CHECKS
      OBVIOUS
    <2>1. CheckTypes /\ WatchdogKnows
      BY DEF IInv, TypeOK
    <2>2. baselined /\ s_chunk_count = last_count /\ stalled_checks + 1 >= STALL_CHECKS
      BY DEF CheckRestarts
    <2>3. fresh = 0
      BY <2>1, <2>2, Counts DEF CheckTypes, WatchdogKnows
    <2>4. QED
      BY <2>1, <2>2, <2>3, Counts DEF CheckTypes, WatchdogKnows
  <1>2. QED
    BY <1>1, Invariance, PTL DEF Spec, WatchdogPatient

-------------------------------------------------------------------------------
(* What the reader slots carry.                                              *)

\* s are the samples from position p on, up to q, which comes after them.
Run(s, p, q) == q = Plus(p, Len(s)) /\ \A i \in 1 .. Len(s) : s[i] = Plus(p, i - 1)

\* A slot is in use or empty.
SlotsClean ==
  \A r \in Readers : /\ user[r] = "none" <=> r \notin active
                     /\ r \notin active => rb[r] = <<>> /\ pkt[r] = <<>> /\ r \notin lost

\* From the first sample of the packet through the buffer to the chunk in hand, and from
\* that to the mic, no sample is missing.
Unbroken(r) ==
  \E p, m \in Positions :
    /\ Run(pkt[r], p, m) /\ Run(rb[r], m, Upcoming)
    /\ user[r] = "rtp" => stamp[r] = p

Lines == Run(pcm, Upcoming, next) /\ \A r \in active \ lost : Unbroken(r)

FanInv == FanTypeOK /\ SlotsClean /\ Lines

\* Quotient and remainder are the only ones of their kind.
LEMMA Division ==
  ASSUME NEW M \in Nat \ {0}, NEW q \in Int, NEW r \in 0 .. M - 1
  PROVE  (M * q + r) % M = r
  <1> DEFINE n == M * q + r
             k == (n \div M) - q
  <1>1. n \in Int /\ k \in Int
    OBVIOUS
  <1>2. n = M * (n \div M) + (n % M) /\ n % M \in 0 .. M - 1
    BY <1>1
  <1>3. M * k = M * (n \div M) - M * q
    OBVIOUS
  <1>4. M * k = r - (n % M)
    BY <1>2, <1>3
  <1>5. M * k < M /\ M * k > -M
    BY <1>2, <1>4
  <1>6. k = 0
    <2>1. CASE k >= 1
      <3>1. M * k >= M
        BY <1>1, <2>1
      <3>2. QED
        BY <1>5, <3>1
    <2>2. CASE k <= -1
      <3>1. M * k <= -M
        BY <1>1, <2>2
      <3>2. QED
        BY <1>5, <3>1
    <2>3. QED
      BY <1>1, <2>1, <2>2
  <1>7. QED
    BY <1>1, <1>2, <1>4, <1>6

\* The constants, as the provers take them best.
LEMMA Sizes ==
  /\ Wrap \in Nat \ {0} /\ Wrap > RingSamples + 2 * Packet
  /\ Packet \in Nat \ {0} /\ RingSamples \in Nat \ {0} /\ Chunks \subseteq 1 .. Packet
  /\ 0 \in Positions
  BY SizesAssumption, PositionsAssumption DEF Positions

\* Steps along the positions add up.
LEMMA PlusAdds ==
  ASSUME NEW p \in Positions, NEW a \in Nat, NEW b \in Nat
  PROVE  /\ Plus(p, 0) = p /\ Plus(p, a) \in Positions
         /\ Plus(Plus(p, a), b) = Plus(p, a + b)
  <1> DEFINE W == Wrap
             k == (p + a) \div W
             r == (p + a) % W
             j == (r + b) \div W
             t == (r + b) % W
  <1>1. W \in Nat \ {0} /\ p \in 0 .. W - 1
    BY Sizes DEF Positions
  <1>2. k \in Int /\ r \in 0 .. W - 1 /\ p + a = W * k + r
    BY <1>1
  <1>3. j \in Int /\ t \in 0 .. W - 1 /\ r + b = W * j + t
    BY <1>1, <1>2
  <1> HIDE DEF k, r, j, t
  <1>4. p + (a + b) = W * (k + j) + t
    BY <1>1, <1>2, <1>3
  <1>5. (p + (a + b)) % W = t
    <2>1. k + j \in Int
      BY <1>2, <1>3
    <2>2. (W * (k + j) + t) % W = t
      BY <2>1, <1>1, <1>3, Division
    <2>3. QED
      BY <2>2, <1>4
  <1>6. p + 0 = W * 0 + p /\ 0 \in Int
    BY <1>1
  <1>7. (p + 0) % W = p
    BY <1>1, <1>6, Division
  <1>8. QED
    BY <1>2, <1>5, <1>7 DEF Plus, Positions, r, t

\* What a run begins with, and that it stays among the positions.
LEMMA RunEnds ==
  ASSUME NEW s \in Seq(Positions), NEW p \in Positions, NEW q, Run(s, p, q)
  PROVE  /\ q \in Positions
         /\ s = <<>> => q = p
         /\ s # <<>> => s[1] = p /\ Head(s) = p
  <1>1. Len(s) \in Nat /\ (s = <<>> => Len(s) = 0) /\ (s # <<>> => Len(s) >= 1)
    OBVIOUS
  <1>2. Plus(p, 0) = p /\ Plus(p, Len(s)) \in Positions
    BY <1>1, PlusAdds
  <1>3. s # <<>> => 1 \in 1 .. Len(s) /\ 1 - 1 = 0 /\ Head(s) = s[1]
    BY <1>1
  <1>4. QED
    BY <1>1, <1>2, <1>3 DEF Run

\* Nothing is a run of no samples.
LEMMA RunEmpty ==
  ASSUME NEW p \in Positions
  PROVE  Run(<<>>, p, p)
  BY PlusAdds DEF Run

\* A run may be continued by the next one.
LEMMA RunConcat ==
  ASSUME NEW s \in Seq(Positions), NEW t \in Seq(Positions),
         NEW p \in Positions, NEW m \in Positions, NEW q,
         Run(s, p, m), Run(t, m, q)
  PROVE  Run(s \o t, p, q)
  <1>1. /\ Len(s) \in Nat /\ Len(t) \in Nat /\ Len(s \o t) = Len(s) + Len(t)
        /\ m = Plus(p, Len(s)) /\ q = Plus(m, Len(t))
    BY DEF Run
  <1>2. q = Plus(p, Len(s) + Len(t))
    BY <1>1, PlusAdds
  <1>3. ASSUME NEW i \in 1 .. Len(s \o t)
        PROVE  (s \o t)[i] = Plus(p, i - 1)
    <2>1. CASE i <= Len(s)
      <3>1. (s \o t)[i] = s[i] /\ i \in 1 .. Len(s)
        BY <1>1, <2>1
      <3>2. QED
        BY <3>1 DEF Run
    <2>2. CASE i > Len(s)
      <3>1. (s \o t)[i] = t[i - Len(s)] /\ i - Len(s) \in 1 .. Len(t)
        BY <1>1, <2>2
      <3>2. t[i - Len(s)] = Plus(m, (i - Len(s)) - 1)
        BY <3>1 DEF Run
      <3>3. (i - Len(s)) - 1 \in Nat /\ Len(s) + ((i - Len(s)) - 1) = i - 1
        BY <1>1, <2>2
      <3>4. QED
        BY <1>1, <3>1, <3>2, <3>3, PlusAdds
    <2>3. QED
      BY <1>1, <2>1, <2>2
  <1>4. QED
    BY <1>1, <1>2, <1>3 DEF Run

\* A sequence may be taken apart.
LEMMA SubSeqParts ==
  ASSUME NEW s \in Seq(Positions), NEW n \in 0 .. Len(s)
  PROVE  /\ SubSeq(s, 1, n) \in Seq(Positions) /\ Len(SubSeq(s, 1, n)) = n
         /\ SubSeq(s, n + 1, Len(s)) \in Seq(Positions)
         /\ Len(SubSeq(s, n + 1, Len(s))) = Len(s) - n
         /\ \A i \in 1 .. n : SubSeq(s, 1, n)[i] = s[i]
         /\ \A i \in 1 .. Len(s) - n : SubSeq(s, n + 1, Len(s))[i] = s[n + i]
  <1> DEFINE a == SubSeq(s, 1, n)
             b == SubSeq(s, n + 1, Len(s))
  <1>1. /\ Len(s) \in Nat /\ n \in Nat /\ Len(s) - n \in Nat /\ n <= Len(s)
        /\ n + (Len(s) - n) = Len(s)
    OBVIOUS
  <1>2. a \in Seq(Positions) /\ Len(a) = n /\ \A i \in 1 .. n : a[i] = s[i]
    BY <1>1
  <1>3. /\ b \in Seq(Positions) /\ Len(b) = Len(s) - n
        /\ \A i \in 1 .. Len(s) - n : b[i] = s[n + i]
    <2>1. \A i \in n + 1 .. Len(s) : s[i] \in Positions
      BY <1>1
    <2>2. Len(b) = Len(s) - n
      <3>1. CASE n + 1 <= Len(s)
        BY <1>1, <3>1
      <3>2. CASE n = Len(s)
        BY <1>1, <3>2
      <3>3. n + 1 <= Len(s) \/ n = Len(s)
        <4>1. \A l, k \in Nat : k <= l => k + 1 <= l \/ k = l
          OBVIOUS
        <4>2. QED
          BY <1>1, <4>1
      <3>4. QED
        BY <3>1, <3>2, <3>3
    <2>3. b \in Seq(Positions)
      BY <1>1, <2>1
    <2>4. ASSUME NEW i \in 1 .. Len(s) - n
          PROVE  b[i] = s[n + i]
      <3>1. (n + 1) + i - 1 = n + i
        BY <1>1
      <3>2. QED
        BY <1>1, <3>1
    <2>5. QED
      BY <2>2, <2>3, <2>4
  <1>4. QED
    BY <1>2, <1>3

\* A run may be taken apart.
LEMMA RunSplit ==
  ASSUME NEW s \in Seq(Positions), NEW p \in Positions, NEW q, Run(s, p, q),
         NEW n \in 0 .. Len(s)
  PROVE  /\ SubSeq(s, 1, n) \in Seq(Positions) /\ Len(SubSeq(s, 1, n)) = n
         /\ SubSeq(s, n + 1, Len(s)) \in Seq(Positions)
         /\ Len(SubSeq(s, n + 1, Len(s))) = Len(s) - n
         /\ Run(SubSeq(s, 1, n), p, Plus(p, n))
         /\ Run(SubSeq(s, n + 1, Len(s)), Plus(p, n), q)
  <1> DEFINE a == SubSeq(s, 1, n)
             b == SubSeq(s, n + 1, Len(s))
  <1>1. /\ Len(s) \in Nat /\ n \in Nat /\ Len(s) - n \in Nat /\ n <= Len(s)
        /\ n + (Len(s) - n) = Len(s)
    OBVIOUS
  <1>2. a \in Seq(Positions) /\ Len(a) = n /\ \A i \in 1 .. n : a[i] = s[i]
    BY SubSeqParts
  <1>3. /\ b \in Seq(Positions) /\ Len(b) = Len(s) - n
        /\ \A i \in 1 .. Len(s) - n : b[i] = s[n + i]
    BY SubSeqParts
  <1> HIDE DEF a, b
  <1>4. Run(a, p, Plus(p, n))
    BY <1>1, <1>2 DEF Run
  <1>5. q = Plus(Plus(p, n), Len(b))
    BY <1>1, <1>3, PlusAdds DEF Run
  <1>6. ASSUME NEW i \in 1 .. Len(b)
        PROVE  b[i] = Plus(Plus(p, n), i - 1)
    <2>1. b[i] = s[n + i] /\ n + i \in 1 .. Len(s)
      BY <1>1, <1>3
    <2>2. s[n + i] = Plus(p, (n + i) - 1)
      BY <2>1 DEF Run
    <2>3. i - 1 \in Nat /\ n + (i - 1) = (n + i) - 1
      BY <1>1, <1>3
    <2>4. QED
      BY <1>1, <2>1, <2>2, <2>3, PlusAdds
  <1>7. QED
    BY <1>2, <1>3, <1>4, <1>5, <1>6 DEF Run, a, b

\* The types, one by one.
LEMMA FanTypes ==
  ASSUME FanTypeOK, NEW r \in Readers
  PROVE  /\ next \in Positions /\ pcm \in Seq(Positions) /\ Len(pcm) <= Packet
         /\ rb[r] \in Seq(Positions) /\ Len(rb[r]) <= RingSamples /\ Len(rb[r]) \in Nat
         /\ pkt[r] \in Seq(Positions) /\ Len(pkt[r]) <= Packet /\ Len(pkt[r]) \in Nat
         /\ stamp[r] \in Positions /\ user[r] \in {"none", "rtp", "preview"}
  BY DEF FanTypeOK

\* The chunk in hand comes next, and after it the mic's.
LEMMA ComingNext ==
  ASSUME FanTypeOK, Run(pcm, Upcoming, next)
  PROVE  /\ Upcoming \in Positions
         /\ pcm = <<>> => Upcoming = next
  <1>1. pcm \in Seq(Positions) /\ next \in Positions
    BY DEF FanTypeOK
  <1>2. pcm # <<>> => Head(pcm) \in Positions
    BY <1>1
  <1>3. QED
    BY <1>1, <1>2 DEF Upcoming

\* What concerns neither a slot nor the chunk in hand leaves the slot's stream whole.
LEMMA Elsewhere ==
  ASSUME NEW r \in Readers, Unbroken(r), pkt'[r] = pkt[r], rb'[r] = rb[r],
         stamp'[r] = stamp[r], user'[r] = user[r], Upcoming' = Upcoming
  PROVE  Unbroken(r)'
  BY DEF Unbroken

\* A chunk from the mic continues what came before.
LEMMA CaptureInv == FanInv /\ Capture => FanInv'
  <1> SUFFICES ASSUME FanInv, Capture PROVE FanInv'
    OBVIOUS
  <1>1. FanTypeOK /\ SlotsClean /\ Lines
    BY DEF FanInv
  <1>2. PICK n \in Chunks : /\ pcm' = [i \in 1 .. n |-> Plus(next, i - 1)]
                            /\ next' = Plus(next, n)
    BY DEF Capture
  <1>3. pcm = <<>> /\ UNCHANGED <<active, user, lost, rb, pkt, stamp, vanished>>
        /\ mic' \in BOOLEAN
    BY <1>1 DEF Capture, slotVars, FanTypeOK
  <1>4. n \in 1 .. Packet /\ n \in Nat /\ next \in Positions
    BY <1>1, Sizes DEF FanTypeOK
  <1>5. \A i \in 1 .. n : Plus(next, i - 1) \in Positions
    BY <1>4, PlusAdds
  <1>6. next' \in Positions /\ Plus(next, 0) = next
    BY <1>2, <1>4, PlusAdds
  <1>7. pcm' \in Seq(Positions) /\ Len(pcm') = n /\ \A i \in 1 .. n : pcm'[i] = Plus(next, i - 1)
    BY <1>2, <1>4, <1>5
  <1>8. pcm' # <<>> /\ Head(pcm') = next
    BY <1>4, <1>6, <1>7
  <1>9. Upcoming = next /\ Upcoming' = next
    BY <1>3, <1>8 DEF Upcoming
  <1>10. Run(pcm', Upcoming', next')
    BY <1>2, <1>7, <1>9 DEF Run
  <1>11. FanTypeOK'
    BY <1>1, <1>3, <1>4, <1>6, <1>7, Sizes DEF FanTypeOK
  <1>12. SlotsClean'
    BY <1>1, <1>3 DEF SlotsClean
  <1>13. ASSUME NEW r \in active' \ lost'
         PROVE  Unbroken(r)'
    <2>1. r \in Readers /\ Unbroken(r)
      BY <1>1, <1>3 DEF Lines, FanTypeOK
    <2>2. QED
      BY <2>1, <1>3, <1>9, Elsewhere
  <1>14. Lines'
    BY <1>10, <1>13 DEF Lines
  <1>15. QED
    BY <1>11, <1>12, <1>14 DEF FanInv

\* Blanking keeps lengths, and is of no concern to others.
LEMMA BlankFacts ==
  ASSUME NEW queue \in [Readers -> Seq(Positions)], NEW who
  PROVE  /\ Blank(queue, who) \in [Readers -> Seq(Positions)]
         /\ \A r \in Readers : /\ Len(Blank(queue, who)[r]) = Len(queue[r])
                               /\ r \notin who => Blank(queue, who)[r] = queue[r]
  <1>1. ASSUME NEW q \in Readers
        PROVE  /\ [i \in DOMAIN queue[q] |-> 0] \in Seq(Positions)
               /\ Len([i \in DOMAIN queue[q] |-> 0]) = Len(queue[q])
    <2>1. queue[q] \in Seq(Positions) /\ Len(queue[q]) \in Nat
          /\ DOMAIN queue[q] = 1 .. Len(queue[q])
      OBVIOUS
    <2>2. QED
      BY <2>1, Sizes
  <1>2. QED
    BY <1>1 DEF Blank

\* A reader that gets the chunk gets it whole, behind what it has yet to take.
LEMMA FanOutInv == FanInv /\ FanOut => FanInv'
  <1> SUFFICES ASSUME FanInv, FanOut PROVE FanInv'
    OBVIOUS
  <1> DEFINE full   == {r \in active : ~Fits(r)}
             copied == [r \in Readers |-> IF r \in active \ full THEN rb[r] \o pcm ELSE rb[r]]
  <1>1. FanTypeOK /\ SlotsClean /\ Lines
    BY DEF FanInv
  <1>2. /\ pcm # <<>> /\ pcm' = <<>>
        /\ lost' = lost \cup full
        /\ rb' = Blank(copied, lost') /\ pkt' = Blank(pkt, lost')
        /\ stamp' = [r \in Readers |-> IF r \in lost' THEN 0 ELSE stamp[r]]
        /\ UNCHANGED <<mic, next, active, user, vanished>>
    BY DEF FanOut
  <1>3. /\ next \in Positions /\ pcm \in Seq(Positions) /\ active \subseteq Readers
        /\ lost \subseteq Readers /\ rb \in [Readers -> Seq(Positions)]
        /\ pkt \in [Readers -> Seq(Positions)]
    BY <1>1 DEF FanTypeOK
  <1>4. copied \in [Readers -> Seq(Positions)]
    BY <1>3
  <1>5. \A r \in Readers : Len(copied[r]) <= RingSamples
    <2>1. TAKE r \in Readers
    <2>2. CASE r \in active \ full
      <3>1. Len(rb[r]) + Len(pcm) <= RingSamples
        BY <2>2 DEF Fits
      <3>2. copied[r] = rb[r] \o pcm /\ Len(rb[r] \o pcm) = Len(rb[r]) + Len(pcm)
        BY <2>2, <1>3
      <3>3. QED
        BY <3>1, <3>2
    <2>3. CASE r \notin active \ full
      BY <2>3, <1>1 DEF FanTypeOK
    <2>4. QED
      BY <2>2, <2>3
  <1>6. lost' \subseteq Readers
    BY <1>2, <1>3
  <1>7. ASSUME NEW r \in Readers
        PROVE  r \notin lost' =>
                 /\ pkt'[r] = pkt[r] /\ stamp'[r] = stamp[r] /\ user'[r] = user[r]
                 /\ rb'[r] = IF r \in active THEN rb[r] \o pcm ELSE rb[r]
    <2> HIDE DEF full, copied
    <2>1. r \notin lost' => Blank(copied, lost')[r] = copied[r]
      BY <1>4, BlankFacts
    <2>2. r \notin lost' => Blank(pkt, lost')[r] = pkt[r]
      BY <1>3, BlankFacts
    <2>3. r \notin lost' => r \notin full /\ stamp'[r] = stamp[r] /\ user'[r] = user[r]
      BY <1>2
    <2>4. r \notin full => copied[r] = IF r \in active THEN rb[r] \o pcm ELSE rb[r]
      BY DEF copied
    <2>5. QED
      BY <2>1, <2>2, <2>3, <2>4, <1>2
  <1>8. FanTypeOK'
    <2> HIDE DEF full, copied
    <2>1. rb' \in [Readers -> Seq(Positions)] /\ pkt' \in [Readers -> Seq(Positions)]
      <3>1. Blank(copied, lost') \in [Readers -> Seq(Positions)]
        BY <1>4, BlankFacts
      <3>2. Blank(pkt, lost') \in [Readers -> Seq(Positions)]
        BY <1>3, BlankFacts
      <3>3. QED
        BY <3>1, <3>2, <1>2
    <2>2. ASSUME NEW r \in Readers
          PROVE  Len(rb'[r]) <= RingSamples /\ Len(pkt'[r]) <= Packet
      <3>1. Len(Blank(copied, lost')[r]) = Len(copied[r])
        BY <1>4, BlankFacts
      <3>2. Len(Blank(pkt, lost')[r]) = Len(pkt[r])
        BY <1>3, BlankFacts
      <3>3. Len(copied[r]) <= RingSamples /\ Len(pkt[r]) <= Packet
        BY <1>1, <1>5 DEF FanTypeOK
      <3>4. QED
        BY <3>1, <3>2, <3>3, <1>2
    <2>3. stamp' \in [Readers -> Positions]
      BY <1>1, <1>2, Sizes DEF FanTypeOK
    <2>4. pcm' \in Seq(Positions) /\ Len(pcm') <= Packet
      BY <1>2, Sizes
    <2>5. /\ mic' \in BOOLEAN /\ next' \in Positions /\ active' \subseteq Readers
          /\ user' \in [Readers -> {"none", "rtp", "preview"}] /\ vanished' \subseteq Readers
      BY <1>1, <1>2 DEF FanTypeOK
    <2>6. QED
      BY <2>1, <2>2, <2>3, <2>4, <2>5, <1>6 DEF FanTypeOK
  <1>9. SlotsClean'
    <2>1. ASSUME NEW r \in Readers, r \notin active
          PROVE  rb'[r] = <<>> /\ pkt'[r] = <<>> /\ r \notin lost'
      <3>1. rb[r] = <<>> /\ pkt[r] = <<>> /\ r \notin lost
        BY <1>1, <2>1 DEF SlotsClean
      <3>2. r \notin lost'
        BY <3>1, <2>1, <1>2
      <3>3. QED
        BY <3>1, <3>2, <2>1, <1>7
    <2>2. QED
      BY <2>1, <1>1, <1>2 DEF SlotsClean
  <1>10. Upcoming' = next /\ Upcoming \in Positions /\ Run(pcm, Upcoming, next)
    BY <1>1, <1>2, ComingNext DEF Lines, Upcoming
  <1>11. Run(pcm', Upcoming', next')
    BY <1>2, <1>3, <1>10, RunEmpty
  <1>12. ASSUME NEW r \in active' \ lost'
         PROVE  Unbroken(r)'
    <2>1. r \in Readers /\ r \in active /\ r \notin lost'
      BY <1>2, <1>3
    <2>2. Unbroken(r)
      BY <2>1, <1>1, <1>2 DEF Lines
    <2>3. PICK p, m \in Positions :
            /\ Run(pkt[r], p, m) /\ Run(rb[r], m, Upcoming)
            /\ user[r] = "rtp" => stamp[r] = p
      BY <2>2 DEF Unbroken
    <2>4. /\ pkt'[r] = pkt[r] /\ stamp'[r] = stamp[r] /\ user'[r] = user[r]
          /\ rb'[r] = rb[r] \o pcm
      BY <2>1, <1>7
    <2>5. Run(rb[r] \o pcm, m, next)
      BY <2>1, <2>3, <1>3, <1>10, RunConcat
    <2>6. QED
      BY <2>3, <2>4, <2>5, <1>10 DEF Unbroken
  <1>13. Lines'
    BY <1>11, <1>12 DEF Lines
  <1>14. QED
    BY <1>8, <1>9, <1>13 DEF FanInv

\* What a task does with its own slot leaves the others, and the chunk in hand, alone.
LEMMA OwnSlot ==
  ASSUME FanInv, FanTypeOK', SlotsClean', NEW r \in Readers,
         UNCHANGED <<pcm, next>>, active' \subseteq active \cup {r},
         \A q \in Readers \ {r} :
           /\ pkt'[q] = pkt[q] /\ rb'[q] = rb[q] /\ stamp'[q] = stamp[q]
           /\ user'[q] = user[q] /\ (q \in lost' <=> q \in lost),
         r \in active' \ lost' => Unbroken(r)'
  PROVE  FanInv'
  <1>1. FanTypeOK /\ Lines /\ active' \subseteq Readers
    BY DEF FanInv, FanTypeOK
  <1>2. Upcoming' = Upcoming
    BY DEF Upcoming
  <1>3. ASSUME NEW q \in active' \ lost', q # r
        PROVE  Unbroken(q)'
    <2>1. q \in Readers \ {r} /\ q \in active \ lost
      BY <1>1, <1>3
    <2>2. Unbroken(q)
      BY <2>1, <1>1 DEF Lines
    <2>3. QED
      BY <2>1, <2>2, <1>2, Elsewhere
  <1>4. Lines'
    BY <1>1, <1>2, <1>3 DEF Lines
  <1>5. QED
    BY <1>4 DEF FanInv

\* A new reader starts with what comes next.
LEMMA SubscribeInv ==
  ASSUME FanInv, NEW r \in Readers, NEW who \in {"rtp", "preview"}, Subscribe(r, who)
  PROVE  FanInv'
  <1>1. FanTypeOK /\ SlotsClean /\ Lines
    BY DEF FanInv
  <1>2. /\ r \notin active /\ user[r] = "none"
        /\ active' = active \cup {r}
        /\ user' = [user EXCEPT ![r] = who]
        /\ stamp' = [stamp EXCEPT ![r] = IF who = "rtp" THEN Upcoming ELSE 0]
        /\ UNCHANGED <<mic, next, pcm, rb, pkt, vanished, lost>>
    BY DEF Subscribe
  <1>3. Upcoming \in Positions /\ Upcoming' = Upcoming
    BY <1>1, <1>2, ComingNext DEF Lines, Upcoming
  <1>4. user \in [Readers -> {"none", "rtp", "preview"}] /\ stamp \in [Readers -> Positions]
    BY <1>1 DEF FanTypeOK
  <1>5. user'[r] = who /\ stamp'[r] = (IF who = "rtp" THEN Upcoming ELSE 0)
    BY <1>2, <1>4
  <1>6. \A q \in Readers \ {r} : user'[q] = user[q] /\ stamp'[q] = stamp[q]
    BY <1>2, <1>4
  <1>7. FanTypeOK'
    <2>1. user' \in [Readers -> {"none", "rtp", "preview"}]
      BY <1>2, <1>4
    <2>2. stamp' \in [Readers -> Positions]
      BY <1>2, <1>3, <1>4, Sizes
    <2>3. QED
      BY <2>1, <2>2, <1>1, <1>2 DEF FanTypeOK
  <1>8. SlotsClean'
    BY <1>1, <1>2, <1>5, <1>6 DEF SlotsClean
  <1>9. Unbroken(r)'
    <2>1. rb'[r] = <<>> /\ pkt'[r] = <<>>
      BY <1>1, <1>2 DEF SlotsClean
    <2>2. Run(<<>>, Upcoming, Upcoming)
      BY <1>3, RunEmpty
    <2>3. user'[r] = "rtp" => stamp'[r] = Upcoming
      BY <1>5
    <2>4. QED
      BY <2>1, <2>2, <2>3, <1>3 DEF Unbroken
  <1>10. QED
    BY <1>2, <1>6, <1>7, <1>8, <1>9, OwnSlot

\* What is taken out of the buffer is behind what was.
LEMMA GrabInv == ASSUME FanInv, NEW r \in Readers, Grab(r) PROVE FanInv'
  <1> DEFINE room == Packet - Len(pkt[r])
             n    == IF Len(rb[r]) < room THEN Len(rb[r]) ELSE room
             out  == SubSeq(rb[r], 1, n)
             rest == SubSeq(rb[r], n + 1, Len(rb[r]))
  <1>1. FanTypeOK /\ SlotsClean /\ Lines
    BY DEF FanInv
  <1>2. /\ r \in active /\ user[r] # "none" /\ Len(pkt[r]) < Packet
        /\ pkt' = [pkt EXCEPT ![r] = pkt[r] \o out]
        /\ rb' = [rb EXCEPT ![r] = rest]
        /\ UNCHANGED <<mic, next, pcm, active, user, lost, stamp, vanished>>
    BY DEF Grab, slotVars
  <1>3. /\ rb \in [Readers -> Seq(Positions)] /\ pkt \in [Readers -> Seq(Positions)]
        /\ rb[r] \in Seq(Positions) /\ pkt[r] \in Seq(Positions)
        /\ Len(rb[r]) \in Nat /\ Len(pkt[r]) \in Nat /\ Len(rb[r]) <= RingSamples
    BY <1>1 DEF FanTypeOK
  <1>4. room \in Nat /\ n \in 0 .. Len(rb[r]) /\ Len(pkt[r]) + n <= Packet
    BY <1>2, <1>3, Sizes
  <1> HIDE DEF room, n
  <1>5. /\ out \in Seq(Positions) /\ Len(out) = n
        /\ rest \in Seq(Positions) /\ Len(rest) = Len(rb[r]) - n
    <2>1. \A i \in 1 .. Len(rb[r]) : rb[r][i] \in Positions
      BY <1>3
    <2>2. QED
      BY <1>3, <1>4, SubSeqParts
  <1> HIDE DEF out, rest
  <1>6. /\ pkt[r] \o out \in Seq(Positions) /\ Len(pkt[r] \o out) <= Packet
        /\ Len(rest) <= RingSamples
    BY <1>3, <1>4, <1>5, Sizes
  <1>7. /\ pkt'[r] = pkt[r] \o out /\ rb'[r] = rest
        /\ \A q \in Readers \ {r} : pkt'[q] = pkt[q] /\ rb'[q] = rb[q]
    BY <1>2, <1>3
  <1>8. FanTypeOK'
    <2>1. rb' \in [Readers -> Seq(Positions)] /\ pkt' \in [Readers -> Seq(Positions)]
      BY <1>2, <1>3, <1>5, <1>6
    <2>2. \A q \in Readers : Len(rb'[q]) <= RingSamples /\ Len(pkt'[q]) <= Packet
      BY <1>1, <1>6, <1>7 DEF FanTypeOK
    <2>3. QED
      BY <2>1, <2>2, <1>1, <1>2 DEF FanTypeOK
  <1>9. SlotsClean'
    BY <1>1, <1>2, <1>7 DEF SlotsClean
  <1>10. ASSUME r \in active' \ lost'
         PROVE  Unbroken(r)'
    <2>1. Unbroken(r) /\ Upcoming' = Upcoming
      BY <1>1, <1>2, <1>10 DEF Lines, Upcoming
    <2>2. PICK p, m \in Positions :
            /\ Run(pkt[r], p, m) /\ Run(rb[r], m, Upcoming)
            /\ user[r] = "rtp" => stamp[r] = p
      BY <2>1 DEF Unbroken
    <2>3. Run(out, m, Plus(m, n)) /\ Run(rest, Plus(m, n), Upcoming)
      BY <2>2, <1>3, <1>4, RunSplit DEF out, rest
    <2>4. Plus(m, n) \in Positions
      BY <1>4, PlusAdds
    <2>5. Run(pkt[r] \o out, p, Plus(m, n))
      BY <2>2, <2>3, <2>4, <1>3, <1>5, RunConcat
    <2>6. Unbroken(r)'
      BY <2>1, <2>2, <2>3, <2>4, <2>5, <1>2, <1>7 DEF Unbroken
    <2>7. QED
      BY <2>6
  <1>11. QED
    BY <1>2, <1>7, <1>8, <1>9, <1>10, OwnSlot

\* A packet that was sent is off the line, and the next is stamped with what follows it.
LEMMA SentInv ==
  ASSUME FanInv, NEW r \in Readers, RtpSent(r) \/ PreviewSent(r)
  PROVE  FanInv'
  <1>1. FanTypeOK /\ SlotsClean /\ Lines
    BY DEF FanInv
  <1>2. /\ user[r] \in {"rtp", "preview"} /\ pkt' = [pkt EXCEPT ![r] = <<>>]
        /\ UNCHANGED <<mic, next, pcm, active, user, lost, rb, vanished>>
    BY DEF RtpSent, PreviewSent, slotVars
  <1>3. /\ rb[r] \in Seq(Positions) /\ pkt[r] \in Seq(Positions) /\ Len(pkt[r]) \in Nat
        /\ pkt \in [Readers -> Seq(Positions)] /\ stamp \in [Readers -> Positions]
    BY <1>1 DEF FanTypeOK
  <1>4. /\ user[r] = "rtp" =>
             stamp' = [stamp EXCEPT ![r] = IF r \in lost THEN 0 ELSE Plus(stamp[r], Len(pkt[r]))]
        /\ user[r] = "preview" => stamp' = stamp
    BY DEF RtpSent, PreviewSent
  <1>5. Plus(stamp[r], Len(pkt[r])) \in Positions
    BY <1>3, PlusAdds
  <1>6. stamp' \in [Readers -> Positions]
    BY <1>2, <1>3, <1>4, <1>5, Sizes
  <1>7. /\ pkt'[r] = <<>>
        /\ \A q \in Readers \ {r} : pkt'[q] = pkt[q] /\ stamp'[q] = stamp[q]
    BY <1>2, <1>3, <1>4
  <1>8. FanTypeOK'
    <2>1. pkt' \in [Readers -> Seq(Positions)] /\ \A q \in Readers : Len(pkt'[q]) <= Packet
      BY <1>1, <1>2, <1>3, <1>7, Sizes DEF FanTypeOK
    <2>2. QED
      BY <2>1, <1>1, <1>2, <1>6 DEF FanTypeOK
  <1>9. SlotsClean'
    BY <1>1, <1>2, <1>7 DEF SlotsClean
  <1>10. ASSUME r \in active' \ lost'
         PROVE  Unbroken(r)'
    <2>1. Unbroken(r) /\ Upcoming' = Upcoming
      BY <1>1, <1>2, <1>10 DEF Lines, Upcoming
    <2>2. PICK p, m \in Positions :
            /\ Run(pkt[r], p, m) /\ Run(rb[r], m, Upcoming)
            /\ user[r] = "rtp" => stamp[r] = p
      BY <2>1 DEF Unbroken
    <2>3. user[r] = "rtp" => stamp'[r] = m
      BY <2>2, <1>2, <1>3, <1>4, <1>10 DEF Run
    <2>4. Run(<<>>, m, m)
      BY RunEmpty
    <2>5. QED
      BY <2>1, <2>2, <2>3, <2>4, <1>2, <1>7 DEF Unbroken
  <1>11. QED
    BY <1>2, <1>7, <1>8, <1>9, <1>10, OwnSlot

\* A slot that is given back is left empty.
LEMMA UnsubscribeInv ==
  ASSUME FanInv, NEW r \in Readers, Unsubscribe(r), mic' = mic
  PROVE  FanInv'
  <1>1. FanTypeOK /\ SlotsClean
    BY DEF FanInv
  <1>2. /\ active' = active \ {r} /\ user' = [user EXCEPT ![r] = "none"]
        /\ rb' = [rb EXCEPT ![r] = <<>>] /\ pkt' = [pkt EXCEPT ![r] = <<>>]
        /\ vanished' = vanished \ {r} /\ lost' = lost \ {r}
        /\ stamp' = [stamp EXCEPT ![r] = 0]
        /\ UNCHANGED <<mic, next, pcm>>
    BY DEF Unsubscribe
  <1>3. /\ rb \in [Readers -> Seq(Positions)] /\ pkt \in [Readers -> Seq(Positions)]
        /\ stamp \in [Readers -> Positions]
        /\ user \in [Readers -> {"none", "rtp", "preview"}]
    BY <1>1 DEF FanTypeOK
  <1>4. /\ user'[r] = "none" /\ rb'[r] = <<>> /\ pkt'[r] = <<>>
        /\ \A q \in Readers \ {r} :
             /\ pkt'[q] = pkt[q] /\ rb'[q] = rb[q] /\ stamp'[q] = stamp[q]
             /\ user'[q] = user[q]
    BY <1>2, <1>3
  <1>5. FanTypeOK'
    <2>1. /\ rb' \in [Readers -> Seq(Positions)] /\ pkt' \in [Readers -> Seq(Positions)]
          /\ user' \in [Readers -> {"none", "rtp", "preview"}]
      BY <1>2, <1>3
    <2>2. stamp' \in [Readers -> Positions]
      BY <1>2, <1>3, Sizes
    <2>3. \A q \in Readers : Len(rb'[q]) <= RingSamples /\ Len(pkt'[q]) <= Packet
      <3>1. TAKE q \in Readers
      <3>2. CASE q = r
        BY <3>2, <1>4, Sizes
      <3>3. CASE q # r
        BY <3>3, <1>1, <1>4 DEF FanTypeOK
      <3>4. QED
        BY <3>2, <3>3
    <2>4. QED
      BY <2>1, <2>2, <2>3, <1>1, <1>2 DEF FanTypeOK
  <1>6. SlotsClean'
    BY <1>1, <1>2, <1>4 DEF SlotsClean
  <1>7. QED
    BY <1>2, <1>4, <1>5, <1>6, OwnSlot

\* The microphone's and the browser's ends, which nobody sees at once.
LEMMA EndsInv ==
  ASSUME FanInv, mic' \in BOOLEAN, vanished' \subseteq Readers,
         UNCHANGED <<next, pcm, active, user, lost, rb, pkt, stamp>>
  PROVE  FanInv'
  <1>1. FanTypeOK /\ SlotsClean /\ Lines
    BY DEF FanInv
  <1>2. FanTypeOK' /\ SlotsClean'
    BY <1>1 DEF FanTypeOK, SlotsClean
  <1>3. Upcoming' = Upcoming
    BY DEF Upcoming
  <1>4. ASSUME NEW r \in active' \ lost'
        PROVE  Unbroken(r)'
    BY <1>1, <1>3, <1>4, Elsewhere DEF Lines, FanTypeOK
  <1>5. Lines'
    BY <1>1, <1>3, <1>4 DEF Lines
  <1>6. QED
    BY <1>2, <1>5 DEF FanInv

LEMMA FanStep == FanInv /\ [FanNext]_fanVars => FanInv'
  <1> SUFFICES ASSUME FanInv, [FanNext]_fanVars PROVE FanInv'
    OBVIOUS
  <1>1. mic \in BOOLEAN /\ vanished \subseteq Readers
    BY DEF FanInv, FanTypeOK
  <1>2. CASE Feed
    BY <1>2, CaptureInv, FanOutInv DEF Feed
  <1>3. CASE MicGone
    BY <1>1, <1>3, EndsInv DEF MicGone, slotVars
  <1>4. ASSUME NEW r \in Readers, NEW who \in {"rtp", "preview"}, Subscribe(r, who)
        PROVE  FanInv'
    BY <1>4, SubscribeInv
  <1>5. ASSUME NEW r \in Readers, Grab(r) \/ RtpSent(r) \/ PreviewSent(r)
        PROVE  FanInv'
    BY <1>5, GrabInv, SentInv
  <1>6. ASSUME NEW r \in Readers, RtpStops(r) \/ PreviewStops(r)
        PROVE  FanInv'
    <2>1. Unsubscribe(r) /\ mic' = mic
      BY <1>6 DEF RtpStops, PreviewStops, Unsubscribe
    <2>2. QED
      BY <2>1, UnsubscribeInv
  <1>7. ASSUME NEW r \in Readers, BrowserVanishes(r)
        PROVE  FanInv'
    <2>1. vanished' \subseteq Readers /\ mic' \in BOOLEAN
      BY <1>1, <1>7 DEF BrowserVanishes
    <2>2. UNCHANGED <<next, pcm, active, user, lost, rb, pkt, stamp>>
      BY <1>7 DEF BrowserVanishes, slotVars
    <2>3. QED
      BY <2>1, <2>2, EndsInv
  <1>8. CASE UNCHANGED fanVars
    BY <1>1, <1>8, EndsInv DEF fanVars, slotVars
  <1>9. QED
    BY <1>2, <1>3, <1>4, <1>5, <1>6, <1>7, <1>8 DEF FanNext, Preview

LEMMA FanStart == FanInit => FanInv
  <1> SUFFICES ASSUME FanInit PROVE FanInv
    OBVIOUS
  <1>1. FanTypeOK
    <2>1. mic \in BOOLEAN
      BY DEF FanInit
    <2>2. \A r \in Readers : Len(rb[r]) <= RingSamples /\ Len(pkt[r]) <= Packet
      BY Sizes DEF FanInit
    <2>3. rb \in [Readers -> Seq(Positions)] /\ pkt \in [Readers -> Seq(Positions)]
      BY DEF FanInit
    <2>4. pcm \in Seq(Positions) /\ Len(pcm) <= Packet
      BY Sizes DEF FanInit
    <2>5. QED
      BY <2>1, <2>2, <2>3, <2>4, Sizes DEF FanInit, FanTypeOK
  <1>2. SlotsClean
    BY DEF FanInit, SlotsClean
  <1>3. Upcoming = 0 /\ Run(<<>>, 0, 0)
    BY Sizes, RunEmpty DEF FanInit, Upcoming
  <1>4. Lines
    BY <1>3 DEF FanInit, Lines
  <1>5. QED
    BY <1>1, <1>2, <1>4 DEF FanInv

\* What is on the line and what comes next are one run; its first sample is stamped.
LEMMA LinesIntact == FanInv => StreamIntact
  <1> SUFFICES ASSUME FanInv, NEW r \in active \ lost
               PROVE  LET coming == Append(pkt[r] \o rb[r], Upcoming)
                      IN  /\ \A i \in 1 .. Len(coming) - 1 : coming[i + 1] = Plus(coming[i], 1)
                          /\ user[r] = "rtp" => Head(coming) = stamp[r]
    BY DEF StreamIntact
  <1> DEFINE line   == pkt[r] \o rb[r]
             coming == Append(line, Upcoming)
  <1>1. FanTypeOK /\ Lines /\ r \in Readers /\ Unbroken(r)
    BY DEF FanInv, Lines, FanTypeOK
  <1>2. rb[r] \in Seq(Positions) /\ pkt[r] \in Seq(Positions) /\ line \in Seq(Positions)
    BY <1>1, FanTypes
  <1>3. PICK p, m \in Positions :
          /\ Run(pkt[r], p, m) /\ Run(rb[r], m, Upcoming)
          /\ user[r] = "rtp" => stamp[r] = p
    BY <1>1 DEF Unbroken
  <1>4. Run(line, p, Upcoming)
    BY <1>2, <1>3, RunConcat
  <1> HIDE DEF line
  <1>5. /\ Len(line) \in Nat /\ Len(coming) = Len(line) + 1
        /\ \A i \in 1 .. Len(line) : coming[i] = line[i]
        /\ coming[Len(line) + 1] = Upcoming
        /\ Head(coming) = coming[1]
    BY <1>2
  <1> HIDE DEF coming
  <1>6. ASSUME NEW i \in 1 .. Len(line) + 1
        PROVE  coming[i] = Plus(p, i - 1)
    <2>1. CASE i \in 1 .. Len(line)
      BY <2>1, <1>4, <1>5 DEF Run
    <2>2. CASE i = Len(line) + 1
      <3>1. i - 1 = Len(line)
        BY <2>2, <1>5
      <3>2. QED
        BY <2>2, <3>1, <1>4, <1>5 DEF Run
    <2>3. QED
      BY <2>1, <2>2, <1>5
  <1>7. ASSUME NEW i \in 1 .. Len(coming) - 1
        PROVE  coming[i + 1] = Plus(coming[i], 1)
    <2>1. /\ i \in 1 .. Len(line) + 1 /\ i + 1 \in 1 .. Len(line) + 1
          /\ i - 1 \in Nat /\ (i - 1) + 1 = (i + 1) - 1
      BY <1>5
    <2>2. coming[i] = Plus(p, i - 1) /\ coming[i + 1] = Plus(p, (i + 1) - 1)
      BY <2>1, <1>6
    <2>3. Plus(Plus(p, i - 1), 1) = Plus(p, (i - 1) + 1)
      BY <2>1, PlusAdds
    <2>4. QED
      BY <2>1, <2>2, <2>3
  <1>8. user[r] = "rtp" => Head(coming) = stamp[r]
    <2>1. 1 \in 1 .. Len(line) + 1 /\ 1 - 1 = 0
      BY <1>5
    <2>2. coming[1] = p
      BY <2>1, <1>6, PlusAdds
    <2>3. QED
      BY <2>2, <1>3, <1>5
  <1>9. QED
    BY <1>7, <1>8 DEF coming, line

\* The variables of AudioFanout keep their types; a buffer holds what it can, and a packet
\* what a read asks for.
THEOREM FanTypeCorrect == FanSpec => []FanTypeOK
  <1>1. FanInv => FanTypeOK
    BY DEF FanInv
  <1>2. QED
    BY <1>1, FanStart, FanStep, PTL DEF FanSpec

\* For any number of readers, any buffer and packet size: whoever subscribed gets every
\* sample from then on, once and in order, and an RTP packet is stamped with the position
\* of its first sample, unless that reader's own buffer was full.
THEOREM StreamsIntact == FanSpec => []StreamIntact
  <1>1. QED
    BY LinesIntact, FanStart, FanStep, PTL DEF FanSpec

-------------------------------------------------------------------------------
(* AudioFanout implements ReaderPool.                                        *)

Rtp == {<<r, r>> : r \in {q \in Readers : user[q] = "rtp"}}
Previews == {r \in Readers : user[r] = "preview"}

\* The worker of the preview is started once at a time.
OnePreview == \A r, q \in Previews : r = q

\* A step, or none, of the pool, over what Pool puts for its variables.
PoolMoves ==
  [Pool!PoolNext]_<<{<<r, r>> : r \in {q \in Readers : user[q] = "rtp"}},
                    {r \in Readers : user[r] = "preview"}>>

\* In the terms of ReaderPool, a slot is taken that has a user.
LEMMA WhoUses ==
  /\ \A r \in Readers : <<r, r>> \in Rtp <=> user[r] = "rtp"
  /\ Pool!Streaming \subseteq {r \in Readers : user[r] = "rtp"}
  /\ Pool!Taken \subseteq {r \in Readers : user[r] # "none"}
  <1>1. \A r \in Readers : <<r, r>> \in Rtp <=> user[r] = "rtp"
    BY DEF Rtp
  <1>2. \A p \in Rtp : p[1] \in Readers /\ p[2] \in Readers /\ p[1] = p[2] /\ user[p[1]] = "rtp"
    BY DEF Rtp
  <1>3. Pool!Streaming \subseteq {r \in Readers : user[r] = "rtp"}
    BY <1>2 DEF Pool!Streaming, Rtp
  <1>4. Pool!Taken \subseteq {r \in Readers : user[r] # "none"}
    BY <1>2 DEF Pool!Taken, Rtp
  <1>5. QED
    BY <1>1, <1>3, <1>4

\* A slot without a user gets one.
LEMMA UserComes ==
  ASSUME NEW r \in Readers, NEW who \in {"rtp", "preview"},
         user \in [Readers -> {"none", "rtp", "preview"}], user[r] = "none",
         user' = [user EXCEPT ![r] = who]
  PROVE  /\ Rtp' = IF who = "rtp" THEN Rtp \cup {<<r, r>>} ELSE Rtp
         /\ Previews' = IF who = "preview" THEN Previews \cup {r} ELSE Previews
  <1>1. \A q \in Readers : user'[q] = IF q = r THEN who ELSE user[q]
    OBVIOUS
  <1>2. Previews' = IF who = "preview" THEN Previews \cup {r} ELSE Previews
    BY <1>1 DEF Previews
  <1>3. ASSUME NEW p
        PROVE  p \in Rtp' <=> p \in Rtp \/ (who = "rtp" /\ p = <<r, r>>)
    BY <1>1 DEF Rtp
  <1>4. QED
    BY <1>2, <1>3

\* A slot loses its user.
LEMMA UserGoes ==
  ASSUME NEW r \in Readers, user \in [Readers -> {"none", "rtp", "preview"}],
         user' = [user EXCEPT ![r] = "none"]
  PROVE  Rtp' = Rtp \ {<<r, r>>} /\ Previews' = Previews \ {r}
  <1>1. \A q \in Readers : user'[q] = IF q = r THEN "none" ELSE user[q]
    OBVIOUS
  <1>2. Previews' = Previews \ {r}
    BY <1>1 DEF Previews
  <1>3. ASSUME NEW p
        PROVE  p \in Rtp' <=> p \in Rtp /\ p # <<r, r>>
    BY <1>1 DEF Rtp
  <1>4. QED
    BY <1>2, <1>3

\* Every step of senders, the preview and the capture task is one of the pool or none.
LEMMA PoolStep ==
  ASSUME FanInv, OnePreview, [FanNext]_fanVars
  PROVE  PoolMoves /\ OnePreview'
  <1>0. user \in [Readers -> {"none", "rtp", "preview"}]
    BY DEF FanInv, FanTypeOK
  <1>1. UNCHANGED user => PoolMoves /\ OnePreview'
    BY DEF PoolMoves, OnePreview, Previews
  <1>2. ASSUME NEW r \in Readers, NEW who \in {"rtp", "preview"}, Subscribe(r, who)
        PROVE  PoolMoves /\ OnePreview'
    <2>1. /\ user[r] = "none" /\ user' = [user EXCEPT ![r] = who]
          /\ who = "preview" => Previews = {}
      BY <1>2 DEF Subscribe, Previews
    <2>2. r \notin Pool!Taken /\ r \notin Pool!Streaming
      BY <2>1, WhoUses
    <2>3. /\ Rtp' = IF who = "rtp" THEN Rtp \cup {<<r, r>>} ELSE Rtp
          /\ Previews' = IF who = "preview" THEN Previews \cup {r} ELSE Previews
      BY <1>0, <2>1, UserComes
    <2>4. CASE who = "rtp"
      <3>1. Pool!StreamTakes(r, r)
        BY <2>2, <2>3, <2>4 DEF Pool!StreamTakes, Rtp, Previews
      <3>2. OnePreview'
        BY <2>3, <2>4 DEF OnePreview
      <3>3. QED
        BY <3>1, <3>2 DEF PoolMoves, Pool!PoolNext
    <2>5. CASE who = "preview"
      <3>1. Rtp' = Rtp /\ Previews = {} /\ Previews' = {r}
        BY <2>1, <2>3, <2>5
      <3>2. Pool!PreviewTakes(r)
        BY <2>2, <3>1 DEF Pool!PreviewTakes, Rtp, Previews
      <3>3. OnePreview'
        BY <3>1 DEF OnePreview
      <3>4. QED
        BY <3>2, <3>3 DEF PoolMoves, Pool!PoolNext
    <2>6. QED
      BY <2>4, <2>5
  <1>3. ASSUME NEW r \in Readers, RtpStops(r) \/ PreviewStops(r)
        PROVE  PoolMoves /\ OnePreview'
    <2>1. user' = [user EXCEPT ![r] = "none"]
      BY <1>3 DEF RtpStops, PreviewStops, Unsubscribe
    <2>2. Rtp' = Rtp \ {<<r, r>>} /\ Previews' = Previews \ {r}
      BY <1>0, <2>1, UserGoes
    <2>3. OnePreview'
      BY <2>2 DEF OnePreview
    <2>4. CASE user[r] = "rtp"
      <3>1. <<r, r>> \in Rtp /\ Previews' = Previews
        BY <2>2, <2>4, WhoUses DEF Previews
      <3>2. Pool!StreamGivesBack(r, r)
        BY <2>2, <3>1 DEF Pool!StreamGivesBack, Rtp, Previews
      <3>3. QED
        BY <2>3, <3>2 DEF PoolMoves, Pool!PoolNext
    <2>5. CASE user[r] = "preview"
      <3>1. <<r, r>> \notin Rtp /\ r \in Previews
        BY <2>5, WhoUses DEF Previews
      <3>2. Previews # {} /\ Previews' = {} /\ Rtp' = Rtp
        BY <2>2, <3>1 DEF OnePreview
      <3>3. Pool!PreviewGivesBack
        BY <3>2 DEF Pool!PreviewGivesBack, Rtp, Previews
      <3>4. QED
        BY <2>3, <3>3 DEF PoolMoves, Pool!PoolNext
    <2>6. QED
      BY <1>3, <2>4, <2>5 DEF RtpStops, PreviewStops
  <1>4. CASE Feed \/ MicGone
    BY <1>1, <1>4 DEF Feed, Capture, FanOut, MicGone, slotVars
  <1>5. ASSUME NEW r \in Readers, Grab(r) \/ RtpSent(r) \/ PreviewSent(r) \/ BrowserVanishes(r)
        PROVE  PoolMoves /\ OnePreview'
    BY <1>1, <1>5 DEF Grab, RtpSent, PreviewSent, BrowserVanishes, slotVars
  <1>6. CASE UNCHANGED fanVars
    BY <1>1, <1>6 DEF fanVars, slotVars
  <1>7. QED
    BY <1>2, <1>3, <1>4, <1>5, <1>6 DEF FanNext, Preview

\* What AudioFanout assumes of who has a reader slot is what ReaderPool promises, and so
\* what RtspServer is proved to do: the two models of the slots agree on whose they are.
THEOREM FanImplementsPool == FanSpec => Pool!PoolSpec
  <1>1. FanInit => Pool!PoolInit /\ OnePreview
    BY DEF FanInit, Pool!PoolInit, OnePreview, Previews
  <1>2. FanInv /\ OnePreview /\ [FanNext]_fanVars => OnePreview'
    BY PoolStep
  <1>3. FanInv /\ OnePreview /\ [FanNext]_fanVars
          => [Pool!PoolNext]_<<{<<r, r>> : r \in {q \in Readers : user[q] = "rtp"}},
                               {r \in Readers : user[r] = "preview"}>>
    BY PoolStep DEF PoolMoves
  <1>4. QED
    BY <1>1, <1>2, <1>3, FanStart, FanStep, PTL DEF FanSpec, Pool!PoolSpec
===============================================================================
