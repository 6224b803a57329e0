--------------------------- MODULE WifiManagerProofs ---------------------------
(***************************************************************************)
(* Theorems about WifiManager, for any number of boot retries, any outage  *)
(* timeout, any event queue and either or both of the togglers.            *)
(***************************************************************************)
EXTENDS WifiManager, SequenceTheorems, TLAPS

Newest(q) == q[Len(q)]

\* Taking the oldest event leaves the newest where it is.
LEMMA TailFacts ==
  ASSUME NEW q \in Seq(Events), q # <<>>
  PROVE  /\ Tail(q) \in Seq(Events) /\ Head(q) \in Events /\ Len(Tail(q)) = Len(q) - 1
         /\ Tail(q) # <<>> => Newest(Tail(q)) = Newest(q)
         /\ Len(q) = 1 => Tail(q) = <<>> /\ Newest(q) = Head(q)
         /\ Tail(q) = <<>> => Newest(q) = Head(q)
  <1>1. /\ Tail(q) \in Seq(Events) /\ Head(q) \in Events /\ Len(Tail(q)) = Len(q) - 1
        /\ \A i \in 1 .. Len(Tail(q)) : Tail(q)[i] = q[i + 1]
    BY HeadTailProperties
  <1>2. Len(q) \in Nat \ {0} /\ Head(q) = q[1]
    BY EmptySeq
  <1>3. Tail(q) # <<>> => Len(Tail(q)) \in Nat \ {0}
    BY <1>1, EmptySeq
  <1>4. Len(q) = 1 => Tail(q) = <<>>
    BY <1>1, <1>3
  <1>5. Tail(q) = <<>> => Len(q) = 1
    BY <1>1, <1>2, EmptySeq
  <1>6. Tail(q) # <<>> => Newest(Tail(q)) = Newest(q)
    BY <1>1, <1>2, <1>3 DEF Newest
  <1>7. QED
    BY <1>1, <1>2, <1>4, <1>5, <1>6 DEF Newest

\* Posting an event leaves the oldest where it is.
LEMMA AppendFacts ==
  ASSUME NEW q \in Seq(Events), NEW e \in Events
  PROVE  /\ Append(q, e) \in Seq(Events) /\ Append(q, e) # <<>>
         /\ Len(Append(q, e)) = Len(q) + 1
         /\ Newest(Append(q, e)) = e
         /\ q # <<>> => Head(Append(q, e)) = Head(q)
         /\ q = <<>> => Head(Append(q, e)) = e
  <1>1. /\ Append(q, e) \in Seq(Events) /\ Append(q, e) # <<>>
        /\ Len(Append(q, e)) = Len(q) + 1
        /\ \A i \in 1 .. Len(q) : Append(q, e)[i] = q[i]
        /\ Append(q, e)[Len(q) + 1] = e
    BY AppendProperties
  <1>2. Head(Append(q, e)) = Append(q, e)[1]
    BY <1>1
  <1>3. q # <<>> => Len(q) \in Nat \ {0} /\ Head(q) = q[1]
    BY EmptySeq
  <1>4. q = <<>> => Len(q) = 0
    OBVIOUS
  <1>5. QED
    BY <1>1, <1>2, <1>3, <1>4 DEF Newest

\* The one event at start-up.
LEMMA StartFacts ==
  /\ <<"START">> \in Seq(Events) /\ <<"START">> # <<>> /\ Len(<<"START">>) = 1
  /\ Head(<<"START">>) = "START" /\ Newest(<<"START">>) = "START"
  <1>1. "START" \in Events
    BY DEF Events
  <1>2. <<"START">> \in Seq(Events)
    BY <1>1
  <1>3. Len(<<"START">>) = 1 /\ <<"START">>[1] = "START"
    OBVIOUS
  <1>4. <<"START">> # <<>>
    OBVIOUS
  <1>5. Newest(<<"START">>) = "START"
    BY <1>3 DEF Newest
  <1>6. Head(<<"START">>) = "START"
    BY <1>2, <1>3, <1>4
  <1>7. QED
    BY <1>2, <1>3, <1>4, <1>5, <1>6

\* The types hold at boot.
LEMMA TypeInit == Init => TypeOK
  <1> SUFFICES ASSUME Init PROVE TypeOK
    OBVIOUS
  <1>1. pc \in [Tasks -> PCs]
    BY DEF Init, PCs
  <1>2. evq \in Seq(Events)
    BY EmptySeq DEF Init
  <1>3. s_retry_count \in 0 .. WIFI_MAX_RETRIES /\ outage \in {None} \cup 0 .. Timeout
    BY CountsAssumption DEF Init
  <1>4. /\ sta = "off" /\ apOn = FALSE /\ ready = FALSE
        /\ s_ap_mode = FALSE /\ s_want_ap = FALSE /\ s_ever_connected = FALSE
        /\ s_fallback_mode = FALSE /\ s_sta_connected = FALSE
        /\ s_scan_suppress_connect = FALSE /\ overlap = FALSE
    BY DEF Init
  <1>5. QED
    BY <1>1, <1>2, <1>3, <1>4 DEF TypeOK

\* Every event, timer and request keeps the types.
LEMMA TypeStep == TypeOK /\ [Next]_vars => TypeOK'
  <1> SUFFICES ASSUME TypeOK, [Next]_vars PROVE TypeOK'
    OBVIOUS
  <1> USE CountsAssumption, TogglersAssumption
      DEF TypeOK, Tasks, PCs, Events, None, NoteOverlap, flagVars, connVars
  <1>1. ASSUME AttemptFails
        PROVE  TypeOK'
    BY <1>1, AppendFacts DEF AttemptFails, Post
  <1>2. ASSUME Associate
        PROVE  TypeOK'
    BY <1>2 DEF Associate
  <1>3. ASSUME Lease
        PROVE  TypeOK'
    BY <1>3, AppendFacts DEF Lease, Post
  <1>4. ASSUME LinkLost
        PROVE  TypeOK'
    BY <1>4, AppendFacts DEF LinkLost, Post
  <1>5. ASSUME Roam
        PROVE  TypeOK'
    BY <1>5, AppendFacts DEF Roam, Post
  <1>6. ASSUME StartSta
        PROVE  TypeOK'
    BY <1>6, StartFacts DEF StartSta, Goto
  <1>7. ASSUME StartBlank
        PROVE  TypeOK'
    BY <1>7, StartFacts DEF StartBlank, Goto
  <1>8. ASSUME MainStarted
        PROVE  TypeOK'
    BY <1>8 DEF MainStarted, Goto
  <1>9. ASSUME MainReady
        PROVE  TypeOK'
    BY <1>9 DEF MainReady
  <1>10. ASSUME MainCheck
         PROVE  TypeOK'
    BY <1>10 DEF MainCheck, Goto
  <1>11. ASSUME StaStart
         PROVE  TypeOK'
    BY <1>11, TailFacts DEF StaStart, Take, Connect
  <1>12. ASSUME Roaming
         PROVE  TypeOK'
    BY <1>12, TailFacts DEF Roaming, Take
  <1>13. ASSUME Dropped
         PROVE  TypeOK'
    <2>1. evq' \in Seq(Events)
      BY <1>13, TailFacts DEF Dropped, Take
    <2>2. outage' \in {None} \cup 0 .. Timeout
      BY <1>13 DEF Dropped
    <2>3. QED
      BY <1>13, <2>1, <2>2 DEF Dropped, Goto
  <1>14. ASSUME Reconnect
         PROVE  TypeOK'
    BY <1>14 DEF Reconnect, Connect, Goto
  <1>15. ASSUME BootRetry
         PROVE  TypeOK'
    BY <1>15, TailFacts DEF BootRetry, Take, Connect, MoreRetries
  <1>16. ASSUME GiveUp
         PROVE  TypeOK'
    BY <1>16, TailFacts DEF GiveUp, Take, Goto, MoreRetries
  <1>17. ASSUME GotIp
         PROVE  TypeOK'
    <2>1. evq' \in Seq(Events)
      BY <1>17, TailFacts DEF GotIp, Take
    <2>2. pc' \in [Tasks -> PCs]
      BY <1>17 DEF GotIp, Goto
    <2>4. apOn' \in BOOLEAN /\ ready' \in BOOLEAN
      BY <1>17 DEF GotIp
    <2>3. s_retry_count' \in 0 .. WIFI_MAX_RETRIES /\ outage' \in {None} \cup 0 .. Timeout
      BY <1>17 DEF GotIp
    <2>5. /\ s_ever_connected' = TRUE /\ s_sta_connected' = TRUE
          /\ sta' = sta /\ s_ap_mode' = s_ap_mode /\ s_fallback_mode' = s_fallback_mode
          /\ s_want_ap' = s_want_ap /\ overlap' = overlap
          /\ s_scan_suppress_connect' = s_scan_suppress_connect
      BY <1>17 DEF GotIp
    <2>6. /\ sta' \in {"off", "idle", "connecting", "associated", "up"}
          /\ s_ap_mode' \in BOOLEAN /\ s_want_ap' \in BOOLEAN /\ s_fallback_mode' \in BOOLEAN
          /\ s_scan_suppress_connect' \in BOOLEAN /\ overlap' \in BOOLEAN
      BY <2>5
    <2>7. s_ever_connected' \in BOOLEAN /\ s_sta_connected' \in BOOLEAN
      BY <2>5
    <2>8. QED
      BY <2>1, <2>2, <2>3, <2>4, <2>6, <2>7
  <1>18. ASSUME FallbackDue
         PROVE  TypeOK'
    BY <1>18 DEF FallbackDue, Goto
  <1>19. ASSUME ScanBegin
         PROVE  TypeOK'
    BY <1>19 DEF ScanBegin, Goto
  <1>20. ASSUME ScanDone
         PROVE  TypeOK'
    <2>1. pc' \in [Tasks -> PCs]
      BY <1>20 DEF ScanDone, Goto
    <2>2. s_scan_suppress_connect' \in BOOLEAN
      BY <1>20 DEF ScanDone
    <2>3. QED
      BY <1>20, <2>1, <2>2 DEF ScanDone
  <1>21. ASSUME ScanResume
         PROVE  TypeOK'
    BY <1>21 DEF ScanResume, Goto, Connect, Resume
  <1>22. ASSUME Tick
         PROVE  TypeOK'
    BY <1>22 DEF Tick
  <1>23. ASSUME NEW t \in Tasks, SetupSurveyed(t)
         PROVE  TypeOK'
    <2>1. pc' \in [Tasks -> PCs]
      BY <1>23 DEF SetupSurveyed, Goto
    <2>2. QED
      BY <1>23, <2>1, SMTT(20) DEF SetupSurveyed
  <1>24. ASSUME NEW t \in Tasks, SetupUp(t)
         PROVE  TypeOK'
    <2>1. pc' \in [Tasks -> PCs]
      BY <1>24 DEF SetupUp, Goto
    <2>2. QED
      BY <1>24, <2>1, SMTT(20) DEF SetupUp
  <1>25. ASSUME NEW t \in Tasks, Surveyed(t)
         PROVE  TypeOK'
    <2>1. pc' \in [Tasks -> PCs]
      BY <1>25 DEF Surveyed, Goto
    <2>2. QED
      BY <1>25, <2>1, SMTT(20) DEF Surveyed
  <1>26. ASSUME NEW t \in Tasks, BackupUp(t)
         PROVE  TypeOK'
    <2>1. pc' \in [Tasks -> PCs]
      BY <1>26 DEF BackupUp, Goto
    <2>2. QED
      BY <1>26, <2>1, SMTT(20) DEF BackupUp
  <1>27. ASSUME NEW t \in Tasks, ExitFlags(t)
         PROVE  TypeOK'
    <2>1. pc' \in [Tasks -> PCs]
      BY <1>27 DEF ExitFlags, Goto
    <2>2. s_ap_mode' \in BOOLEAN /\ s_fallback_mode' \in BOOLEAN
      BY <1>27 DEF ExitFlags
    <2>3. QED
      BY <1>27, <2>1, <2>2, SMTT(20) DEF ExitFlags
  <1>28. ASSUME NEW t \in Tasks, ExitStore(t)
         PROVE  TypeOK'
    <2>1. pc' \in [Tasks -> PCs]
      BY <1>28 DEF ExitStore, Goto
    <2>2. QED
      BY <1>28, <2>1, SMTT(20) DEF ExitStore
  <1>29. ASSUME NEW t \in Tasks, ToggleOn(t)
         PROVE  TypeOK'
    <2>1. pc' \in [Tasks -> PCs]
      BY <1>29 DEF ToggleOn, Goto
    <2>2. QED
      BY <1>29, <2>1, SMTT(20) DEF ToggleOn
  <1>30. ASSUME NEW t \in Tasks, ToggleOff(t)
         PROVE  TypeOK'
    <2>1. pc' \in [Tasks -> PCs]
      BY <1>30 DEF ToggleOff, Goto
    <2>2. /\ apOn' = FALSE
          /\ UNCHANGED <<sta, evq, ready, flagVars, connVars, s_scan_suppress_connect,
                         outage, overlap>>
      BY <1>30 DEF ToggleOff
    <2>3. apOn' \in BOOLEAN
      BY <2>2
    <2>4. QED
      BY <2>1, <2>2, <2>3
  <1>31. CASE UNCHANGED vars
    BY <1>31 DEF vars
  <1>32. QED
    BY <1>1, <1>2, <1>3, <1>4, <1>5, <1>6, <1>7, <1>8, <1>9, <1>10,
       <1>11, <1>12, <1>13, <1>14, <1>15, <1>16, <1>17, <1>18, <1>19, <1>20,
       <1>21, <1>22, <1>23, <1>24, <1>25, <1>26, <1>27, <1>28, <1>29, <1>30,
       <1>31
    DEF Next, Driver, Main, Event, Scan, Continue

\* The types are kept by every run; the count of boot retries never passes its
\* maximum.
THEOREM TypeCorrect == Spec => []TypeOK
  <1>1. Init => TypeOK  BY TypeInit
  <1>2. TypeOK /\ [Next]_vars => TypeOK'  BY TypeStep
  <1>3. QED  BY <1>1, <1>2, PTL DEF Spec

-------------------------------------------------------------------------------
(* The inductive invariant.                                                  *)

\* Before app_main starts the driver there is nothing.
BeforeStart ==
  pc["main"] = "init" => sta = "off" /\ evq = <<>> /\ ~s_ever_connected /\ ~s_want_ap

\* The driver says why it is idle last.
IdleIsAnnounced ==
  sta = "idle" /\ evq # <<>> => Newest(evq) \in {"START", "DISCONNECTED"}

\* Before the first GOT_IP is handled, a start or a drop that no GOT_IP precedes is
\* the last event of an idle station, and a station with a lease has announced it.
Announced(q, i) == \E j \in 1 .. i : q[j] = "GOT_IP"

FirstOf(q, x) ==
  /\ x = "up" => Announced(q, Len(q))
  /\ \A i \in 1 .. Len(q) :
       q[i] \in {"START", "DISCONNECTED"} => Announced(q, i) \/ (i = Len(q) /\ x = "idle")

FirstConnection == ~s_ever_connected => FirstOf(evq, sta)

SetupIsQuiet ==
  s_want_ap =>
    /\ ~s_ever_connected /\ sta = "idle"
    /\ evq = <<>> \/ Head(evq) = "START"

Handlers ==
  /\ pc["event"] = "drop" => s_ever_connected /\ ~s_sta_connected
  /\ s_scan_suppress_connect => pc["httpd"] = "scan"

IInv ==
  /\ TypeOK /\ BeforeStart /\ IdleIsAnnounced /\ FirstConnection
  /\ SetupIsQuiet /\ Handlers /\ NoLostReconnect

\* A start or a drop that comes first is the only event.
LEMMA FirstHead ==
  ASSUME NEW q \in Seq(Events), NEW x, FirstOf(q, x), q # <<>>,
         Head(q) \in {"START", "DISCONNECTED"}
  PROVE  Len(q) = 1 /\ x = "idle" /\ Tail(q) = <<>>
  <1>1. Len(q) \in Nat \ {0} /\ Head(q) = q[1]
    BY EmptySeq
  <1>2. ~Announced(q, 1)
    BY <1>1 DEF Announced
  <1>3. 1 \in 1 .. Len(q) /\ q[1] \in {"START", "DISCONNECTED"}
    BY <1>1
  <1>4. 1 = Len(q) /\ x = "idle"
    BY <1>2, <1>3 DEF FirstOf
  <1>5. QED
    BY <1>4, TailFacts

\* Nothing is lost of what is known when another event is taken.
LEMMA FirstTail ==
  ASSUME NEW q \in Seq(Events), NEW x, FirstOf(q, x), q # <<>>, Head(q) # "GOT_IP"
  PROVE  FirstOf(Tail(q), x)
  <1>1. /\ Len(q) \in Nat \ {0} /\ Head(q) = q[1] /\ Len(Tail(q)) = Len(q) - 1
        /\ \A i \in 1 .. Len(Tail(q)) : Tail(q)[i] = q[i + 1]
    BY EmptySeq, HeadTailProperties
  <1>2. ASSUME NEW i \in 0 .. Len(Tail(q)), Announced(q, i + 1)
        PROVE  Announced(Tail(q), i)
    <2>1. PICK j \in 1 .. i + 1 : q[j] = "GOT_IP"
      BY <1>2 DEF Announced
    <2>2. j - 1 \in 1 .. i /\ Tail(q)[j - 1] = q[j]
      BY <1>1, <2>1
    <2>3. QED
      BY <2>1, <2>2 DEF Announced
  <1>3. x = "up" => Announced(Tail(q), Len(Tail(q)))
    BY <1>1, <1>2 DEF FirstOf
  <1>4. ASSUME NEW i \in 1 .. Len(Tail(q)), Tail(q)[i] \in {"START", "DISCONNECTED"}
        PROVE  Announced(Tail(q), i) \/ (i = Len(Tail(q)) /\ x = "idle")
    <2>1. i + 1 \in 1 .. Len(q) /\ q[i + 1] \in {"START", "DISCONNECTED"}
      BY <1>1, <1>4
    <2>2. Announced(q, i + 1) \/ (i + 1 = Len(q) /\ x = "idle")
      BY <2>1 DEF FirstOf
    <2>3. CASE Announced(q, i + 1)
      <3>1. i \in 0 .. Len(Tail(q))
        BY <1>1
      <3>2. QED
        BY <1>2, <2>3, <3>1
    <2>4. CASE i + 1 = Len(q) /\ x = "idle"
      <3>1. Len(q) \in Nat /\ Len(Tail(q)) = Len(q) - 1 /\ i \in Int
        BY <1>1
      <3>2. i = Len(Tail(q))
        BY <2>4, <3>1
      <3>3. QED
        BY <2>4, <3>2
    <2>5. QED
      BY <2>2, <2>3, <2>4
  <1>5. QED
    BY <1>3, <1>4 DEF FirstOf

\* A station that was trying posts what it came to.
LEMMA FirstAppend ==
  ASSUME NEW q \in Seq(Events), NEW x, NEW e \in Events, NEW y, FirstOf(q, x), x # "idle",
         y = "up" => e = "GOT_IP", e \in {"START", "DISCONNECTED"} => y = "idle"
  PROVE  FirstOf(Append(q, e), y)
  <1> DEFINE r == Append(q, e)
  <1>1. /\ Len(q) \in Nat /\ Len(r) = Len(q) + 1 /\ r[Len(q) + 1] = e
        /\ \A i \in 1 .. Len(q) : r[i] = q[i]
    BY AppendProperties
  <1> HIDE DEF r
  <1>2. y = "up" => Announced(r, Len(r))
    BY <1>1 DEF Announced
  <1>3. ASSUME NEW i \in 1 .. Len(r), r[i] \in {"START", "DISCONNECTED"}
        PROVE  Announced(r, i) \/ (i = Len(r) /\ y = "idle")
    <2>1. CASE i = Len(r)
      BY <1>1, <1>3, <2>1
    <2>2. CASE i # Len(r)
      <3>1. i \in 1 .. Len(q) /\ q[i] \in {"START", "DISCONNECTED"}
        BY <1>1, <1>3, <2>2
      <3>2. Announced(q, i)
        BY <3>1 DEF FirstOf
      <3>3. QED
        BY <1>1, <3>1, <3>2 DEF Announced
    <2>3. QED
      BY <2>1, <2>2
  <1>4. FirstOf(r, y)
    BY <1>2, <1>3 DEF FirstOf
  <1>5. QED
    BY <1>4 DEF r

\* A station without a lease has nothing to announce, and neither has a start.
LEMMA FirstFew ==
  /\ \A x : x # "up" => FirstOf(<<>>, x)
  /\ FirstOf(<<"START">>, "idle")
  <1>1. Len(<<"START">>) = 1
    OBVIOUS
  <1>2. QED
    BY <1>1 DEF FirstOf

\* At boot the radio is off and no flag is set.
LEMMA IInit == Init => IInv
  BY TypeInit, FirstFew
  DEF IInv, Init, BeforeStart, IdleIsAnnounced, FirstConnection, SetupIsQuiet,
      Handlers, NoLostReconnect, Tasks

\* Every step keeps what is queued before the first connection.
LEMMA FirstStep == IInv /\ [Next]_vars => FirstConnection'
  <1> SUFFICES ASSUME IInv, [Next]_vars, ~s_ever_connected' PROVE FirstOf(evq', sta')
    BY DEF FirstConnection
  <1>0. evq \in Seq(Events)
    BY DEF IInv, TypeOK
  <1>1. ~s_ever_connected
    BY DEF Next, Driver, Main, Event, Scan, Continue, AttemptFails, Associate, Lease,
       LinkLost, Roam, StartSta, StartBlank, MainStarted, MainReady, MainCheck, StaStart,
       Roaming, Dropped, Reconnect, BootRetry, GiveUp, GotIp, FallbackDue, ScanBegin,
       ScanDone, ScanResume, Tick, SetupSurveyed, SetupUp, Surveyed, BackupUp, ExitFlags,
       ExitStore, ToggleOn, ToggleOff, connVars, vars
  <1>2. FirstOf(evq, sta)
    BY <1>1 DEF IInv, FirstConnection
  <1>3. ASSUME UNCHANGED <<evq, sta>>
        PROVE  FirstOf(evq', sta')
    BY <1>2, <1>3
  <1>4. ASSUME Driver
        PROVE  FirstOf(evq', sta')
    <2>1. CASE Associate
      BY <1>2, <2>1 DEF Associate, FirstOf
    <2>2. CASE AttemptFails
      BY <1>0, <1>2, <2>2, FirstAppend DEF AttemptFails, Post, Events
    <2>3. CASE Lease
      BY <1>0, <1>2, <2>3, FirstAppend DEF Lease, Post, Events
    <2>4. CASE LinkLost
      BY <1>0, <1>2, <2>4, FirstAppend DEF LinkLost, Post, Events
    <2>5. CASE Roam
      BY <1>0, <1>2, <2>5, FirstAppend DEF Roam, Post, Events
    <2>6. QED
      BY <1>4, <2>1, <2>2, <2>3, <2>4, <2>5 DEF Driver
  <1>5. ASSUME Main
        PROVE  FirstOf(evq', sta')
    <2>1. CASE StartSta \/ StartBlank
      BY <2>1, FirstFew DEF StartSta, StartBlank
    <2>2. CASE MainStarted \/ MainReady \/ MainCheck
      BY <1>3, <2>2 DEF MainStarted, MainReady, MainCheck
    <2>3. QED
      BY <1>5, <2>1, <2>2 DEF Main
  <1>6. ASSUME Event
        PROVE  FirstOf(evq', sta')
    <2>1. CASE StaStart \/ BootRetry \/ GiveUp
      <3>1. sta = "idle" /\ evq' = <<>>
        BY <1>0, <1>2, <2>1, FirstHead DEF StaStart, BootRetry, GiveUp, Take
      <3>2. sta' # "up"
        BY <2>1, <3>1 DEF StaStart, BootRetry, GiveUp, Connect
      <3>3. QED
        BY <3>1, <3>2, FirstFew
    <2>2. CASE Roaming
      BY <1>0, <1>2, <2>2, FirstTail DEF Roaming, Take
    <2>3. CASE Dropped \/ GotIp
      BY <1>1, <2>3 DEF Dropped, GotIp
    <2>4. CASE Reconnect
      BY <1>1, <2>4 DEF Reconnect, IInv, Handlers
    <2>5. QED
      BY <1>6, <2>1, <2>2, <2>3, <2>4 DEF Event
  <1>7. ASSUME Scan
        PROVE  FirstOf(evq', sta')
    BY <1>1, <1>3, <1>7 DEF Scan, ScanDone, ScanResume, Resume
  <1>8. ASSUME FallbackDue \/ ScanBegin \/ Tick
        PROVE  FirstOf(evq', sta')
    BY <1>3, <1>8 DEF FallbackDue, ScanBegin, Tick
  <1>9. ASSUME NEW t \in Tasks, Continue(t) \/ ToggleOn(t) \/ ToggleOff(t)
        PROVE  FirstOf(evq', sta')
    BY <1>3, <1>9 DEF Continue, SetupSurveyed, SetupUp, Surveyed, BackupUp, ExitFlags,
                      ExitStore, ToggleOn, ToggleOff
  <1>10. CASE UNCHANGED vars
    BY <1>3, <1>10 DEF vars
  <1>11. QED
    BY <1>4, <1>5, <1>6, <1>7, <1>8, <1>9, <1>10 DEF Next

\* Every step keeps the modes, flags and timers in agreement.
LEMMA IStep == IInv /\ [Next]_vars => IInv'
  <1> SUFFICES ASSUME IInv, [Next]_vars PROVE IInv'
    OBVIOUS
  <1>0. TypeOK'
    BY TypeStep DEF IInv
  <1> DEFINE Rest == /\ BeforeStart /\ IdleIsAnnounced
                     /\ SetupIsQuiet /\ Handlers /\ NoLostReconnect
             Alone == ~s_ever_connected /\ evq # <<>> /\ Head(evq) \in {"START", "DISCONNECTED"}
                        => Len(evq) = 1 /\ sta = "idle" /\ Tail(evq) = <<>>
  <1>100. SUFFICES Rest'
    BY <1>0, FirstStep DEF IInv
  <1>101. Alone
    BY FirstHead DEF IInv, TypeOK, FirstConnection
  <1> USE <1>101
      DEF IInv, BeforeStart, IdleIsAnnounced, SetupIsQuiet, Handlers, NoLostReconnect, TypeOK,
          Tasks, PCs, Setup, Backup, Events, NoteOverlap, flagVars, connVars
  <1>1. ASSUME AttemptFails
        PROVE  Rest'
    BY <1>1, AppendFacts DEF AttemptFails, Post
  <1>2. ASSUME Associate
        PROVE  Rest'
    BY <1>2 DEF Associate
  <1>3. ASSUME Lease
        PROVE  Rest'
    BY <1>3, AppendFacts DEF Lease, Post
  <1>4. ASSUME LinkLost
        PROVE  Rest'
    BY <1>4, AppendFacts DEF LinkLost, Post
  <1>5. ASSUME Roam
        PROVE  Rest'
    BY <1>5, AppendFacts DEF Roam, Post
  <1>6. ASSUME StartSta
        PROVE  Rest'
    BY <1>6, StartFacts DEF StartSta, Goto
  <1>7. ASSUME StartBlank
        PROVE  Rest'
    BY <1>7, StartFacts DEF StartBlank, Goto
  <1>8. ASSUME MainStarted
        PROVE  Rest'
    BY <1>8 DEF MainStarted, Goto
  <1>9. ASSUME MainReady
        PROVE  Rest'
    BY <1>9 DEF MainReady
  <1>10. ASSUME MainCheck
         PROVE  Rest'
    BY <1>10 DEF MainCheck, Goto
  <1>11. ASSUME StaStart
         PROVE  Rest'
    BY <1>11, TailFacts DEF StaStart, Take, Connect
  <1>12. ASSUME Roaming
         PROVE  Rest'
    BY <1>12, TailFacts DEF Roaming, Take
  <1>13. ASSUME Dropped
         PROVE  Rest'
    BY <1>13, TailFacts DEF Dropped, Take, Goto
  <1>14. ASSUME Reconnect
         PROVE  Rest'
    BY <1>14 DEF Reconnect, Connect, Goto
  <1>15. ASSUME BootRetry
         PROVE  Rest'
    BY <1>15, TailFacts DEF BootRetry, Take, Connect, MoreRetries
  <1>16. ASSUME GiveUp
         PROVE  Rest'
    BY <1>16, TailFacts DEF GiveUp, Take, Goto, MoreRetries
  <1>17. ASSUME GotIp
         PROVE  Rest'
    BY <1>17, TailFacts DEF GotIp, Take, Goto
  <1>18. ASSUME FallbackDue
         PROVE  Rest'
    BY <1>18 DEF FallbackDue, Goto
  <1>19. ASSUME ScanBegin
         PROVE  Rest'
    BY <1>19 DEF ScanBegin, Goto
  <1>20. ASSUME ScanDone
         PROVE  Rest'
    BY <1>20 DEF ScanDone, Goto
  <1>21. ASSUME ScanResume
         PROVE  Rest'
    BY <1>21 DEF ScanResume, Goto, Connect, Resume
  <1>22. ASSUME Tick
         PROVE  Rest'
    BY <1>22 DEF Tick
  <1>23. ASSUME NEW t \in Tasks, SetupSurveyed(t)
         PROVE  Rest'
    BY <1>23, TogglersAssumption DEF SetupSurveyed, Goto
  <1>24. ASSUME NEW t \in Tasks, SetupUp(t)
         PROVE  Rest'
    BY <1>24, TogglersAssumption DEF SetupUp, Goto
  <1>25. ASSUME NEW t \in Tasks, Surveyed(t)
         PROVE  Rest'
    BY <1>25, TogglersAssumption DEF Surveyed, Goto
  <1>26. ASSUME NEW t \in Tasks, BackupUp(t)
         PROVE  Rest'
    BY <1>26, TogglersAssumption DEF BackupUp, Goto
  <1>27. ASSUME NEW t \in Tasks, ExitFlags(t)
         PROVE  Rest'
    BY <1>27, TogglersAssumption DEF ExitFlags, Goto
  <1>28. ASSUME NEW t \in Tasks, ExitStore(t)
         PROVE  Rest'
    BY <1>28, TogglersAssumption DEF ExitStore, Goto
  <1>29. ASSUME NEW t \in Tasks, ToggleOn(t)
         PROVE  Rest'
    BY <1>29, TogglersAssumption DEF ToggleOn, Goto, MayToggle
  <1>30. ASSUME NEW t \in Tasks, ToggleOff(t)
         PROVE  Rest'
    BY <1>30, TogglersAssumption DEF ToggleOff, Goto, MayToggle
  <1>31. CASE UNCHANGED vars
    BY <1>31 DEF vars
  <1>32. QED
    BY <1>1, <1>2, <1>3, <1>4, <1>5, <1>6, <1>7, <1>8, <1>9, <1>10,
       <1>11, <1>12, <1>13, <1>14, <1>15, <1>16, <1>17, <1>18, <1>19, <1>20,
       <1>21, <1>22, <1>23, <1>24, <1>25, <1>26, <1>27, <1>28, <1>29, <1>30,
       <1>31
    DEF Next, Driver, Main, Event, Scan, Continue

\* The inductive invariant holds in every reachable state.
LEMMA Always == Spec => []IInv
  <1>1. Init => IInv  BY IInit
  <1>2. IInv /\ [Next]_vars => IInv'  BY IStep
  <1>3. QED  BY <1>1, <1>2, PTL DEF Spec

\* A drop is always followed by a connection attempt that nobody else relies on
\* somebody else to make: event_handler's look at s_scan_suppress_connect and
\* wifi_manager_scan's look at s_sta_connected cannot both come too early.
THEOREM ReconnectNeverLost == Spec => []NoLostReconnect
  <1>1. IInv => NoLostReconnect  BY DEF IInv
  <1>2. QED  BY <1>1, Always, PTL

\* enter_ap_mode never runs, and its station never connects, on a device that
\* has joined its network.
THEOREM SetupApOnlyAsLastResort == Spec => []SetupApIsLastResort
  <1>1. IInv => SetupApIsLastResort  BY DEF IInv, SetupIsQuiet,
      SetupApIsLastResort
  <1>2. QED  BY <1>1, Always, PTL

-------------------------------------------------------------------------------
(* What keeps the device reachable.                                          *)

\* Only who wants the setup AP brings it up ...
SetupWanted ==
  \A t \in Tasks : pc[t] \in Setup => s_want_ap /\ t \in {"main", "event"}

\* ... and no backup AP takes it down, unless one was there before it was marked.
SetupStays ==
  s_want_ap /\ ~overlap =>
    /\ ~BackupAbout
    /\ s_ap_mode \/ SetupAbout
    /\ apOn \/ pc["main"] = "setup_survey" \/ pc["event"] = "setup_survey"

\* A station that never joined a network rests only for the setup AP's sake.
GaveUp ==
  ~s_ever_connected /\ sta = "idle" /\ evq = <<>> => s_want_ap

\* The radio is off at the start only.
Started == sta = "off" => pc["main"] = "init"

ReachInv == SetupWanted /\ SetupStays /\ GaveUp /\ Started

\* At boot no AP is up, wanted or on its way.
LEMMA ReachInit == Init => ReachInv
  BY DEF Init, ReachInv, SetupWanted, SetupStays, GaveUp, Started, Setup, Tasks

\* Every step keeps who may have an AP up.
LEMMA ReachStep == IInv /\ ReachInv /\ [Next]_vars => ReachInv'
  <1> SUFFICES ASSUME IInv, ReachInv, [Next]_vars PROVE ReachInv'
    OBVIOUS
  <1>0. ~s_ever_connected /\ evq # <<>> /\ Head(evq) \in {"START", "DISCONNECTED"}
          => Len(evq) = 1 /\ sta = "idle" /\ Tail(evq) = <<>>
    BY FirstHead DEF IInv, TypeOK, FirstConnection
  <1> USE <1>0, TogglersAssumption, CountsAssumption
      DEF IInv, BeforeStart, IdleIsAnnounced, SetupIsQuiet, Handlers,
          ReachInv, SetupWanted, SetupStays, GaveUp, Started, SetupAbout, BackupAbout,
          NoteOverlap, Setup, Backup, TypeOK, Tasks, PCs, Events, flagVars, connVars
  <1>1. ASSUME AttemptFails
        PROVE  ReachInv'
    BY <1>1, AppendFacts DEF AttemptFails, Post
  <1>2. ASSUME Associate
        PROVE  ReachInv'
    BY <1>2 DEF Associate
  <1>3. ASSUME Lease
        PROVE  ReachInv'
    BY <1>3, AppendFacts DEF Lease, Post
  <1>4. ASSUME LinkLost
        PROVE  ReachInv'
    BY <1>4, AppendFacts DEF LinkLost, Post
  <1>5. ASSUME Roam
        PROVE  ReachInv'
    BY <1>5, AppendFacts DEF Roam, Post
  <1>6. ASSUME StartSta
        PROVE  ReachInv'
    BY <1>6, StartFacts DEF StartSta, Goto
  <1>7. ASSUME StartBlank
        PROVE  ReachInv'
    BY <1>7, StartFacts DEF StartBlank, Goto
  <1>8. ASSUME MainStarted
        PROVE  ReachInv'
    BY <1>8 DEF MainStarted, Goto
  <1>9. ASSUME MainReady
        PROVE  ReachInv'
    BY <1>9 DEF MainReady
  <1>10. ASSUME MainCheck
         PROVE  ReachInv'
    BY <1>10 DEF MainCheck, Goto
  <1>11. ASSUME StaStart
         PROVE  ReachInv'
    BY <1>11, TailFacts DEF StaStart, Take, Connect
  <1>12. ASSUME Roaming
         PROVE  ReachInv'
    BY <1>12, TailFacts DEF Roaming, Take
  <1>13. ASSUME Dropped
         PROVE  ReachInv'
    BY <1>13, TailFacts DEF Dropped, Take, Goto
  <1>14. ASSUME Reconnect
         PROVE  ReachInv'
    BY <1>14 DEF Reconnect, Connect, Goto
  <1>15. ASSUME BootRetry
         PROVE  ReachInv'
    BY <1>15, TailFacts DEF BootRetry, Take, Connect, MoreRetries
  <1>16. ASSUME GiveUp
         PROVE  ReachInv'
    BY <1>16, TailFacts DEF GiveUp, Take, Goto, MoreRetries
  <1>17. ASSUME GotIp
         PROVE  ReachInv'
    BY <1>17, TailFacts DEF GotIp, Take, Goto
  <1>18. ASSUME FallbackDue
         PROVE  ReachInv'
    BY <1>18 DEF FallbackDue, Goto
  <1>19. ASSUME ScanBegin
         PROVE  ReachInv'
    BY <1>19 DEF ScanBegin, Goto
  <1>20. ASSUME ScanDone
         PROVE  ReachInv'
    BY <1>20 DEF ScanDone, Goto
  <1>21. ASSUME ScanResume
         PROVE  ReachInv'
    BY <1>21 DEF ScanResume, Goto, Connect, Resume
  <1>22. ASSUME Tick
         PROVE  ReachInv'
    BY <1>22 DEF Tick
  <1>23. ASSUME NEW t \in Tasks, SetupSurveyed(t)
         PROVE  ReachInv'
    BY <1>23 DEF SetupSurveyed, Goto
  <1>24. ASSUME NEW t \in Tasks, SetupUp(t)
         PROVE  ReachInv'
    BY <1>24 DEF SetupUp, Goto
  <1>25. ASSUME NEW t \in Tasks, Surveyed(t)
         PROVE  ReachInv'
    BY <1>25 DEF Surveyed, Goto
  <1>26. ASSUME NEW t \in Tasks, BackupUp(t)
         PROVE  ReachInv'
    BY <1>26 DEF BackupUp, Goto
  <1>27. ASSUME NEW t \in Tasks, ExitFlags(t)
         PROVE  ReachInv'
    BY <1>27 DEF ExitFlags, Goto
  <1>28. ASSUME NEW t \in Tasks, ExitStore(t)
         PROVE  ReachInv'
    BY <1>28 DEF ExitStore, Goto
  <1>29. ASSUME NEW t \in Tasks, ToggleOn(t)
         PROVE  ReachInv'
    BY <1>29 DEF ToggleOn, Goto, MayToggle
  <1>30. ASSUME NEW t \in Tasks, ToggleOff(t)
         PROVE  ReachInv'
    BY <1>30 DEF ToggleOff, Goto, MayToggle
  <1>31. CASE UNCHANGED vars
    BY <1>31 DEF vars
  <1>32. QED
    BY <1>1, <1>2, <1>3, <1>4, <1>5, <1>6, <1>7, <1>8, <1>9, <1>10,
       <1>11, <1>12, <1>13, <1>14, <1>15, <1>16, <1>17, <1>18, <1>19, <1>20,
       <1>21, <1>22, <1>23, <1>24, <1>25, <1>26, <1>27, <1>28, <1>29, <1>30,
       <1>31
    DEF Next, Driver, Main, Event, Scan, Continue


LEMMA ReachAlways == Spec => [](IInv /\ ReachInv)
  <1>1. Init => IInv /\ ReachInv
    BY IInit, ReachInit
  <1>2. IInv /\ ReachInv /\ [Next]_vars => (IInv /\ ReachInv)'
    BY IStep, ReachStep
  <1>3. QED
    BY <1>1, <1>2, PTL DEF Spec

\* A device at rest can be reached or is trying to be, for any timeout, number of retries
\* and togglers, with toggles from the first moment on: wifi_manager_toggle_fallback_ap and
\* wifi_fallback_task leave no lost station to itself, and take the setup AP down only where
\* a backup AP came up around it (287 and 266 look at flags that are set seconds later).
THEOREM AlwaysReachable == Spec => []NeverStranded
  <1>1. IInv /\ ReachInv => NeverStranded
    <2> SUFFICES ASSUME IInv, ReachInv, \A t \in Tasks : Resting(t), evq = <<>>, ~overlap,
                        sta \notin {"connecting", "associated", "up"}
                 PROVE  apOn
      BY DEF NeverStranded
    <2>1. /\ pc["main"] \in {"idle", "audio", "no_audio"}
          /\ pc["event"] \in {"idle", "audio", "no_audio"}
          /\ pc["httpd"] \in {"idle", "audio", "no_audio"}
      BY DEF Resting, Tasks
    <2>2. sta = "idle"
      BY <2>1 DEF IInv, TypeOK, ReachInv, Started
    <2>3. ~s_ever_connected
      BY <2>1, <2>2 DEF IInv, NoLostReconnect
    <2>4. QED
      BY <2>1, <2>2, <2>3 DEF ReachInv, SetupStays, GaveUp
  <1>2. QED
    BY ReachAlways, <1>1, PTL
===============================================================================
