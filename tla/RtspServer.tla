------------------------------ MODULE RtspServer ------------------------------
(***************************************************************************)
(* The RTSP server of src/src/rtsp_server.c together with the reader slots *)
(* of src/src/audio_pipeline.c it streams from and the browser preview of  *)
(* src/src/web_server.c that competes for them.                            *)
(*                                                                         *)
(* Actors: the listener task, one client task per slot (the control        *)
(* session), one RTP sender task per PLAY, the preview worker, and time.   *)
(* An action is a stretch of one task between two points where another     *)
(* task of this module can see it: a mutex, a semaphore, a blocking call,  *)
(* the creation of a task of higher priority, an update of a counter.      *)
(* led_refresh only recolours the LED, which is not modelled.              *)
(***************************************************************************)
EXTENDS Integers, FiniteSets

CONSTANTS
  Slots,         \* the entries of s_slots
  Senders,       \* identities for rtp_sender_task instances
  Readers,       \* the entries of audio_pipeline's s_readers
  ReadTimeout,   \* audio_pipeline_read's timeout in the sender (200 ms)
  SendBudget,    \* send_all's stall budget (1.5 s and one 20 ms SO_SNDTIMEO)
  StopWait,      \* stop_streaming's wait on rtp_stopped (2 s)
  TricklingPeer, \* may a peer take the bytes of one send a few at a time?
  MayFail,       \* the allocations that may fail, out of AllocSites
  MaxLeaving,    \* bound on client tasks between release and their last step
  MaxStreaming,  \* bound on s_streaming where creating a sender may fail
  None           \* NULL / -1

AllocSites == {"client_task", "sender_task", "pcm_buf", "ring_buf", "preview"}

ASSUME TimesAssumption ==
  ReadTimeout \in Nat \ {0} /\ SendBudget \in Nat \ {0} /\ StopWait \in Nat \ {0}

\* s_slots is an array.
ASSUME SlotsAssumption == IsFiniteSet(Slots)

ASSUME BoundsAssumption == MaxLeaving \in Nat \ {0} /\ MaxStreaming \in Nat \ {0}

ASSUME SetsAssumption ==
  /\ None \notin Slots \cup Senders \cup Readers \cup {"ctrl"}
  /\ "ctrl" \notin Senders
  /\ MayFail \subseteq AllocSites
  /\ TricklingPeer \in BOOLEAN

VARIABLES
  lslot,         \* listener: the slot it has claimed and not yet handed over
  leaving,       \* client tasks past "in_use = false" and not past s_connected
  s_connected, s_streaming,
  hpc,           \* client task of a slot ("free": in_use is false)
  req,           \* what it is handling; "GONE" once it left the request loop
  hTimer,        \* time left in its blocking send or its wait for the sender
  tcp, setup_done, reader, rtp_task, playing,  \* fields of the slot
  stopped,       \* the binary semaphore rtp_stopped
  txOwner,       \* who holds rtp.tx_mtx: None, "ctrl" or a sender
  spc, sslot, sread, sTimer,  \* sender: where it is, its slot, reader, time left
  active,        \* reader slots marked active
  pvpc, pvReader \* browser preview ("idle": s_preview_busy is false)

listenerVars == <<lslot, leaving, s_connected>>
senderVars   == <<spc, sslot, sread, sTimer>>
sessionVars  == <<tcp, setup_done, reader, rtp_task, playing, stopped, txOwner>>
poolVars     == <<active, pvpc, pvReader>>
vars == <<listenerVars, s_streaming, hpc, req, hTimer, sessionVars, senderVars,
          poolVars>>

HandlerPCs == {"free", "claimed", "counted", "recv", "play_count", "ctrl_lock",
               "ctrl_send", "stop", "stop_wait", "uncount", "unsub", "release"}

TypeOK ==
  /\ lslot \in Slots \cup {None}
  /\ leaving \in Nat /\ s_connected \in Int /\ s_streaming \in Int
  /\ hpc \in [Slots -> HandlerPCs]
  /\ req \in [Slots -> {"OTHER", "DESCRIBE", "SETUP", "TEARDOWN", "GONE"}]
  /\ hTimer \in [Slots -> Nat]
  /\ tcp \in [Slots -> BOOLEAN] /\ setup_done \in [Slots -> BOOLEAN]
  /\ reader \in [Slots -> Readers \cup {None}]
  /\ rtp_task \in [Slots -> Senders \cup {None}]
  /\ playing \in [Slots -> BOOLEAN] /\ stopped \in [Slots -> BOOLEAN]
  /\ txOwner \in [Slots -> Senders \cup {None, "ctrl"}]
  /\ spc \in [Senders -> {"idle", "top", "reading", "ready", "lock", "sending",
                        "exit"}]
  /\ sslot \in [Senders -> Slots \cup {None}]
  /\ sread \in [Senders -> Readers \cup {None}]
  /\ sTimer \in [Senders -> Nat]
  /\ active \subseteq Readers
  /\ pvpc \in {"idle", "busy", "stream", "finish"}
  /\ pvReader \in Readers \cup {None}

Init ==
  /\ lslot = None /\ leaving = 0 /\ s_connected = 0 /\ s_streaming = 0
  /\ hpc = [s \in Slots |-> "free"]
  /\ req = [s \in Slots |-> "OTHER"]
  /\ hTimer = [s \in Slots |-> 0]
  /\ tcp = [s \in Slots |-> FALSE] /\ setup_done = [s \in Slots |-> FALSE]
  /\ reader = [s \in Slots |-> None] /\ rtp_task = [s \in Slots |-> None]
  /\ playing = [s \in Slots |-> FALSE] /\ stopped = [s \in Slots |-> FALSE]
  /\ txOwner = [s \in Slots |-> None]
  /\ spc = [t \in Senders |-> "idle"] /\ sslot = [t \in Senders |-> None]
  /\ sread = [t \in Senders |-> None] /\ sTimer = [t \in Senders |-> 0]
  /\ active = {} /\ pvpc = "idle" /\ pvReader = None

-------------------------------------------------------------------------------
(* Listener task.  A connection that finds every slot in use is answered 453 *)
(* and closed at once, which changes nothing here.                           *)

\* in_use is raised under the mutex, and the slot's fields are cleared.  Any free
\* slot stands for the first one: slots differ in nothing else.
Claim(s) ==
  /\ lslot = None /\ hpc[s] = "free"
  /\ hpc' = [hpc EXCEPT ![s] = "claimed"]
  /\ reader' = [reader EXCEPT ![s] = None]
  /\ rtp_task' = [rtp_task EXCEPT ![s] = None]
  /\ setup_done' = [setup_done EXCEPT ![s] = FALSE]
  /\ lslot' = s
  /\ UNCHANGED <<leaving, s_connected, s_streaming, req, hTimer, tcp, playing,
                 stopped, txOwner, senderVars, poolVars>>

CountConnected ==
  /\ lslot # None /\ hpc[lslot] = "claimed"
  /\ hpc' = [hpc EXCEPT ![lslot] = "counted"]
  /\ s_connected' = s_connected + 1
  /\ UNCHANGED <<lslot, leaving, s_streaming, req, hTimer, sessionVars,
                 senderVars, poolVars>>

SpawnClient ==
  /\ lslot # None /\ hpc[lslot] = "counted"
  /\ hpc' = [hpc EXCEPT ![lslot] = "recv"]
  /\ lslot' = None
  /\ UNCHANGED <<leaving, s_connected, s_streaming, req, hTimer, sessionVars,
                 senderVars, poolVars>>

\* MUTANT: the failure path forgets s_connected.
SpawnClientFailsUncounted ==
  /\ lslot # None /\ hpc[lslot] = "counted" /\ "client_task" \in MayFail
  /\ hpc' = [hpc EXCEPT ![lslot] = "free"]
  /\ lslot' = None
  /\ UNCHANGED <<leaving, s_connected, s_streaming, req, hTimer, sessionVars,
                 senderVars, poolVars>>

\* "leaving" stands for the decrement of s_connected still to come, here too.
SpawnClientFails ==
  /\ lslot # None /\ hpc[lslot] = "counted"
  /\ "client_task" \in MayFail /\ leaving < MaxLeaving
  /\ hpc' = [hpc EXCEPT ![lslot] = "free"]
  /\ lslot' = None /\ leaving' = leaving + 1
  /\ UNCHANGED <<s_connected, s_streaming, req, hTimer, sessionVars,
                 senderVars, poolVars>>

-------------------------------------------------------------------------------
(* Client task: the requests.                                                *)

\* Go on to the locked response.
Respond(s, r) ==
  /\ hpc' = [hpc EXCEPT ![s] = "ctrl_lock"]
  /\ req' = [req EXCEPT ![s] = r]

\* OPTIONS, DESCRIBE, an unknown method, SETUP while playing (455), PLAY
\* without SETUP (455), PLAY while playing (200): a response and nothing else.
\* That to DESCRIBE is two sends, header and body, with a lock for each.
RecvPlain(s) ==
  /\ hpc[s] = "recv"
  /\ \E r \in {"OTHER", "DESCRIBE"} : Respond(s, r)
  /\ UNCHANGED <<listenerVars, s_streaming, hTimer, sessionVars, senderVars,
                 poolVars>>

RecvSetup(s) ==
  /\ hpc[s] = "recv" /\ rtp_task[s] = None
  /\ \E mode \in BOOLEAN : tcp' = [tcp EXCEPT ![s] = mode]
  /\ Respond(s, "SETUP")
  /\ UNCHANGED <<listenerVars, s_streaming, hTimer, setup_done, reader,
                 rtp_task, playing, stopped, txOwner, senderVars, poolVars>>

\* audio_pipeline_subscribe: the first reader slot that is not active, its ring
\* buffer allocated on first use.  r is what the caller receives.
Subscribe(r) ==
  \/ /\ r \in Readers \ active
     /\ active' = active \cup {r}
  \/ /\ r = None
     /\ active = Readers \/ "ring_buf" \in MayFail
     /\ UNCHANGED active

PlayReady(s) == hpc[s] = "recv" /\ setup_done[s] /\ rtp_task[s] = None

\* 453: no reader slot.
PlayRefused(s) ==
  /\ PlayReady(s)
  /\ Subscribe(None)
  /\ reader' = [reader EXCEPT ![s] = None]
  /\ Respond(s, "OTHER")
  /\ UNCHANGED <<listenerVars, s_streaming, hTimer, tcp, setup_done, rtp_task,
                 playing, stopped, txOwner, senderVars, pvpc, pvReader>>

\* Subscribe, drain a stale give, raise playing, create the sender, which preempts
\* its creator.  A sender whose malloc fails has left its loop before it starts.
PlayStarts(s) ==
  /\ PlayReady(s)
  /\ \E r \in Readers : Subscribe(r) /\ reader' = [reader EXCEPT ![s] = r]
  /\ stopped' = [stopped EXCEPT ![s] = FALSE]
  /\ playing' = [playing EXCEPT ![s] = TRUE]
  /\ \E t \in Senders, pc \in {"top", "exit"} :
       /\ spc[t] = "idle"
       /\ pc = "exit" => "pcm_buf" \in MayFail
       /\ spc' = [spc EXCEPT ![t] = pc]
       /\ sslot' = [sslot EXCEPT ![t] = s]
       /\ rtp_task' = [rtp_task EXCEPT ![s] = t]
  /\ hpc' = [hpc EXCEPT ![s] = "play_count"]
  /\ UNCHANGED <<listenerVars, s_streaming, req, hTimer, tcp, setup_done,
                 txOwner, sread, sTimer, pvpc, pvReader>>

\* The same with xTaskCreatePinnedToCore failing: its result is not looked at.
PlayWithoutSender(s) ==
  /\ PlayReady(s)
  /\ "sender_task" \in MayFail /\ s_streaming < MaxStreaming
  /\ \E r \in Readers : Subscribe(r) /\ reader' = [reader EXCEPT ![s] = r]
  /\ stopped' = [stopped EXCEPT ![s] = FALSE]
  /\ playing' = [playing EXCEPT ![s] = TRUE]
  /\ hpc' = [hpc EXCEPT ![s] = "play_count"]
  /\ UNCHANGED <<listenerVars, s_streaming, req, hTimer, tcp, setup_done,
                 rtp_task, txOwner, senderVars, pvpc, pvReader>>

\* Counted whether or not there is a sender, and answered.
PlayCounted(s) ==
  /\ hpc[s] = "play_count"
  /\ s_streaming' = s_streaming + 1
  /\ Respond(s, "OTHER")
  /\ UNCHANGED <<listenerVars, hTimer, sessionVars, senderVars, poolVars>>

\* TEARDOWN stops first and answers after; a closed connection only stops.
RecvEnd(s, r) ==
  /\ hpc[s] = "recv"
  /\ hpc' = [hpc EXCEPT ![s] = "stop"]
  /\ req' = [req EXCEPT ![s] = r]
  /\ UNCHANGED <<listenerVars, s_streaming, hTimer, sessionVars, senderVars,
                 poolVars>>

CtrlLock(s) ==
  /\ hpc[s] = "ctrl_lock" /\ txOwner[s] = None
  /\ txOwner' = [txOwner EXCEPT ![s] = "ctrl"]
  /\ hpc' = [hpc EXCEPT ![s] = "ctrl_send"]
  /\ hTimer' = [hTimer EXCEPT ![s] = SendBudget]
  /\ UNCHANGED <<listenerVars, s_streaming, req, tcp, setup_done, reader,
                 rtp_task, playing, stopped, senderVars, poolVars>>


\* The response is out (ok) or the send failed.  SETUP marks the slot ready
\* either way; a failure, and TEARDOWN, leave the request loop.  The header of a
\* description is followed by its body, and a sender may take the lock between.
CtrlDone(s, ok) ==
  /\ hpc[s] = "ctrl_send"
  /\ txOwner' = [txOwner EXCEPT ![s] = None]
  /\ hTimer' = [hTimer EXCEPT ![s] = 0]
  /\ setup_done' = [setup_done EXCEPT ![s] = @ \/ req[s] = "SETUP"]
  /\ LET again == ok /\ req[s] # "TEARDOWN"
         next  == IF req[s] = "DESCRIBE" THEN "ctrl_lock" ELSE "recv"
     IN  /\ hpc' = [hpc EXCEPT ![s] = IF again THEN next ELSE "stop"]
         /\ req' = [req EXCEPT ![s] = IF again THEN "OTHER" ELSE "GONE"]
  /\ UNCHANGED <<listenerVars, s_streaming, tcp, reader, rtp_task, playing,
                 stopped, senderVars, poolVars>>

-------------------------------------------------------------------------------
(* Client task: stop_streaming and the release of the slot.                  *)

\* MUTANT: a wait shorter than the sender's read and send together.
StopBudgetTooShort == 1
StopBudget == StopWait

\* MUTANT: the count goes down whether or not there was a sender.
StopBeginAlwaysUncounts(s) ==
  /\ hpc[s] = "stop"
  /\ \/ /\ rtp_task[s] = None
        /\ hpc' = [hpc EXCEPT ![s] = "uncount"]
        /\ UNCHANGED <<playing, hTimer>>
     \/ /\ rtp_task[s] # None
        /\ hpc' = [hpc EXCEPT ![s] = "stop_wait"]
        /\ playing' = [playing EXCEPT ![s] = FALSE]
        /\ hTimer' = [hTimer EXCEPT ![s] = StopBudget]
  /\ UNCHANGED <<listenerVars, s_streaming, req, tcp, setup_done, reader,
                 rtp_task, stopped, txOwner, senderVars, poolVars>>

StopBegin(s) ==
  /\ hpc[s] = "stop"
  /\ \/ /\ rtp_task[s] = None
        /\ hpc' = [hpc EXCEPT ![s] = "unsub"]
        /\ UNCHANGED <<playing, hTimer>>
     \/ /\ rtp_task[s] # None
        /\ hpc' = [hpc EXCEPT ![s] = "stop_wait"]
        /\ playing' = [playing EXCEPT ![s] = FALSE]
        /\ hTimer' = [hTimer EXCEPT ![s] = StopBudget]
  /\ UNCHANGED <<listenerVars, s_streaming, req, tcp, setup_done, reader,
                 rtp_task, stopped, txOwner, senderVars, poolVars>>

\* The wait ends with the sender's give or, unnoticed, with the timeout.  A
\* sender that ended long before gave it then.
StopWaitEnds(s) ==
  /\ hpc[s] = "stop_wait"
  /\ stopped[s] \/ hTimer[s] = 0
  /\ stopped' = [stopped EXCEPT ![s] = FALSE]
  /\ hTimer' = [hTimer EXCEPT ![s] = 0]
  /\ rtp_task' = [rtp_task EXCEPT ![s] = None]
  /\ hpc' = [hpc EXCEPT ![s] = "uncount"]
  /\ UNCHANGED <<listenerVars, s_streaming, req, tcp, setup_done, reader,
                 playing, txOwner, senderVars, poolVars>>

StopUncounted(s) ==
  /\ hpc[s] = "uncount"
  /\ s_streaming' = s_streaming - 1
  /\ hpc' = [hpc EXCEPT ![s] = "unsub"]
  /\ UNCHANGED <<listenerVars, req, hTimer, sessionVars, senderVars, poolVars>>

\* MUTANT: the slot keeps the handle it gave back.
UnsubscribeKeepsHandle(s) ==
  /\ hpc[s] = "unsub"
  /\ active' = active \ {reader[s]}
  /\ setup_done' = [setup_done EXCEPT ![s] = FALSE]
  /\ hpc' = [hpc EXCEPT ![s] = IF req[s] = "TEARDOWN" THEN "ctrl_lock" ELSE "release"]
  /\ UNCHANGED <<listenerVars, s_streaming, req, hTimer, tcp, reader,
                 rtp_task, playing, stopped, txOwner, senderVars, pvpc, pvReader>>

\* MUTANT: the handle is dropped and the reader slot stays active.
UnsubscribeLeaks(s) ==
  /\ hpc[s] = "unsub"
  /\ reader' = [reader EXCEPT ![s] = None]
  /\ setup_done' = [setup_done EXCEPT ![s] = FALSE]
  /\ hpc' = [hpc EXCEPT ![s] = IF req[s] = "TEARDOWN" THEN "ctrl_lock" ELSE "release"]
  /\ UNCHANGED <<listenerVars, s_streaming, req, hTimer, tcp, rtp_task,
                 playing, stopped, txOwner, senderVars, poolVars>>

Unsubscribe(s) ==
  /\ hpc[s] = "unsub"
  /\ active' = active \ {reader[s]}
  /\ reader' = [reader EXCEPT ![s] = None]
  /\ setup_done' = [setup_done EXCEPT ![s] = FALSE]
  /\ hpc' = [hpc EXCEPT ![s] = IF req[s] = "TEARDOWN" THEN "ctrl_lock" ELSE "release"]
  /\ UNCHANGED <<listenerVars, s_streaming, req, hTimer, tcp, rtp_task,
                 playing, stopped, txOwner, senderVars, pvpc, pvReader>>

\* The sockets are closed and in_use dropped.  The slot can be claimed again
\* before s_connected follows.
Release(s) ==
  /\ hpc[s] = "release" /\ leaving < MaxLeaving
  /\ hpc' = [hpc EXCEPT ![s] = "free"]
  /\ req' = [req EXCEPT ![s] = "OTHER"]
  /\ leaving' = leaving + 1
  /\ UNCHANGED <<lslot, s_connected, s_streaming, hTimer, sessionVars,
                 senderVars, poolVars>>

UncountConnected ==
  /\ leaving > 0
  /\ leaving' = leaving - 1 /\ s_connected' = s_connected - 1
  /\ UNCHANGED <<lslot, s_streaming, hpc, req, hTimer, sessionVars,
                 senderVars, poolVars>>

-------------------------------------------------------------------------------
(* RTP sender task.                                                          *)

\* A read waits for audio ("reading") or returns at once ("ready"): with the
\* backlog a slow TCP peer has left in the ring, or without a reader slot.  A UDP
\* sender waits again and again, since sendto never blocks and its ring drains.
SenderTop(t) ==
  /\ spc[t] = "top"
  /\ \/ /\ playing[sslot[t]]
        /\ sread' = [sread EXCEPT ![t] = reader[sslot[t]]]
        /\ \/ /\ reader[sslot[t]] # None
              /\ spc' = [spc EXCEPT ![t] = "reading"]
              /\ sTimer' = [sTimer EXCEPT ![t] = ReadTimeout]
           \/ /\ reader[sslot[t]] = None \/ tcp[sslot[t]]
              /\ spc' = [spc EXCEPT ![t] = "ready"]
              /\ UNCHANGED sTimer
     \/ /\ ~playing[sslot[t]]
        /\ spc' = [spc EXCEPT ![t] = "exit"]
        /\ UNCHANGED <<sread, sTimer>>
  /\ UNCHANGED <<listenerVars, s_streaming, hpc, req, hTimer, sessionVars,
                 sslot, poolVars>>

SenderStopsReading(t, next) ==
  /\ spc' = [spc EXCEPT ![t] = next]
  /\ sread' = [sread EXCEPT ![t] = None]
  /\ sTimer' = [sTimer EXCEPT ![t] = 0]
  /\ UNCHANGED <<listenerVars, s_streaming, hpc, req, hTimer, sessionVars,
                 sslot, poolVars>>

\* Nothing within the timeout, at once without a reader; or a packet that goes
\* out over UDP, where sendto never blocks.
SenderReadEmptyOrUdp(t) ==
  /\ spc[t] \in {"reading", "ready"}
  /\ \/ sread[t] = None \/ ~tcp[sslot[t]]
     \/ spc[t] = "reading" /\ sTimer[t] = 0
  /\ SenderStopsReading(t, "top")

\* A packet to be interleaved on the control connection.
SenderReadTcp(t) ==
  /\ spc[t] \in {"reading", "ready"} /\ sread[t] # None /\ tcp[sslot[t]]
  /\ SenderStopsReading(t, "lock")

SenderLock(t) ==
  /\ spc[t] = "lock" /\ txOwner[sslot[t]] = None
  /\ txOwner' = [txOwner EXCEPT ![sslot[t]] = t]
  /\ spc' = [spc EXCEPT ![t] = "sending"]
  /\ sTimer' = [sTimer EXCEPT ![t] = SendBudget]
  /\ UNCHANGED <<listenerVars, s_streaming, hpc, req, hTimer, tcp, setup_done,
                 reader, rtp_task, playing, stopped, sslot, sread, poolVars>>

\* MUTANT: a failed frame returns without giving tx_mtx back.
SenderSentKeepsLock(t, ok) ==
  /\ spc[t] = "sending"
  /\ txOwner' = [txOwner EXCEPT ![sslot[t]] = IF ok THEN None ELSE @]
  /\ playing' = [playing EXCEPT ![sslot[t]] = @ /\ ok]
  /\ spc' = [spc EXCEPT ![t] = "top"]
  /\ sTimer' = [sTimer EXCEPT ![t] = 0]
  /\ UNCHANGED <<listenerVars, s_streaming, hpc, req, hTimer, tcp, setup_done,
                 reader, rtp_task, stopped, sslot, sread, poolVars>>

SenderSent(t, ok) ==
  /\ spc[t] = "sending"
  /\ txOwner' = [txOwner EXCEPT ![sslot[t]] = None]
  /\ playing' = [playing EXCEPT ![sslot[t]] = @ /\ ok]
  /\ spc' = [spc EXCEPT ![t] = "top"]
  /\ sTimer' = [sTimer EXCEPT ![t] = 0]
  /\ UNCHANGED <<listenerVars, s_streaming, hpc, req, hTimer, tcp, setup_done,
                 reader, rtp_task, stopped, sslot, sread, poolVars>>

SenderExit(t) ==
  /\ spc[t] = "exit"
  /\ stopped' = [stopped EXCEPT ![sslot[t]] = TRUE]
  /\ spc' = [spc EXCEPT ![t] = "idle"]
  /\ sslot' = [sslot EXCEPT ![t] = None]
  /\ UNCHANGED <<listenerVars, s_streaming, hpc, req, hTimer, tcp, setup_done,
                 reader, rtp_task, playing, txOwner, sread, sTimer, poolVars>>

-------------------------------------------------------------------------------
(* Browser preview worker: the third user of the reader slots.               *)

PreviewOnly == UNCHANGED <<listenerVars, s_streaming, hpc, req, hTimer, sessionVars, senderVars>>

PreviewBegin ==
  /\ pvpc = "idle" /\ pvpc' = "busy"
  /\ UNCHANGED <<active, pvReader>> /\ PreviewOnly

PreviewFails ==
  /\ pvpc = "busy" /\ "preview" \in MayFail /\ pvpc' = "idle"
  /\ UNCHANGED <<active, pvReader>> /\ PreviewOnly

PreviewSubscribe ==
  /\ pvpc = "busy"
  /\ \E r \in Readers \cup {None} :
       /\ Subscribe(r)
       /\ pvReader' = r
       /\ pvpc' = IF r = None THEN "finish" ELSE "stream"
  /\ PreviewOnly

\* The browser is gone: a chunk could not be sent.
PreviewUnsubscribe ==
  /\ pvpc = "stream" /\ pvpc' = "finish"
  /\ active' = active \ {pvReader} /\ pvReader' = None
  /\ PreviewOnly

PreviewFinish ==
  /\ pvpc = "finish" /\ pvpc' = "idle"
  /\ UNCHANGED <<active, pvReader>> /\ PreviewOnly

-------------------------------------------------------------------------------
(* Time and priorities.  Senders run at priority 4 and client tasks at 3,    *)
(* both on core 0: a client task gets on only while every sender waits.      *)

SenderRuns(t) ==
  \/ spc[t] \in {"top", "ready", "exit"}
  \/ spc[t] = "lock" /\ txOwner[sslot[t]] = None

CoreFree == \A t \in Senders : ~SenderRuns(t)

\* A sender left playing by a session that has given the reader slot back: each
\* of its reads returns nothing at once, and it never waits.
Spins(t) ==
  /\ spc[t] \in {"top", "ready"} /\ sread[t] = None
  /\ playing[sslot[t]] /\ reader[sslot[t]] = None

\* A tick passes only when no running sender step and no expired deadline is
\* due, a spinning sender and those it keeps from running apart.  A trickling
\* peer keeps a send alive past its deadline, which send_all looks at only when
\* a send accepts nothing at all.
SenderDue(t) ==
  \/ SenderRuns(t)
  \/ spc[t] = "reading" /\ sTimer[t] = 0
  \/ spc[t] = "sending" /\ sTimer[t] = 0 /\ ~TricklingPeer

HandlerDue(s) ==
  \/ hpc[s] = "stop_wait" /\ hTimer[s] = 0
  \/ hpc[s] = "ctrl_send" /\ hTimer[s] = 0 /\ ~TricklingPeer

Less(timer) == IF timer > 0 THEN timer - 1 ELSE 0

Tick ==
  /\ \A t \in Senders : SenderDue(t) => Spins(t)
  /\ \A s \in Slots : HandlerDue(s) => \E t \in Senders : Spins(t)
  /\ hTimer' = [s \in Slots |-> Less(hTimer[s])]
  /\ sTimer' = [t \in Senders |-> Less(sTimer[t])]
  /\ UNCHANGED <<listenerVars, s_streaming, hpc, req, sessionVars, spc, sslot,
                 sread, poolVars>>

-------------------------------------------------------------------------------
Listener ==
  \/ CountConnected \/ SpawnClient \/ SpawnClientFails
  \/ \E s \in Slots : Claim(s)

Receive(s) ==
  \/ RecvPlain(s) \/ RecvSetup(s)
  \/ PlayRefused(s) \/ PlayStarts(s) \/ PlayWithoutSender(s)
  \/ \E r \in {"TEARDOWN", "GONE"} : RecvEnd(s, r)

\* What the client task does by itself, the peer's requests aside.
HandlerStep(s) ==
  \/ PlayCounted(s)
  \/ \E ok \in BOOLEAN : CtrlDone(s, ok)
  \/ StopBegin(s) \/ StopWaitEnds(s) \/ StopUncounted(s)
  \/ Unsubscribe(s) \/ Release(s)

SenderStep(t) ==
  \/ SenderTop(t) \/ SenderReadEmptyOrUdp(t) \/ SenderReadTcp(t) \/ SenderLock(t)
  \/ SenderExit(t)
  \/ \E ok \in BOOLEAN : SenderSent(t, ok)

Preview ==
  \/ PreviewBegin \/ PreviewFails \/ PreviewSubscribe \/ PreviewUnsubscribe
  \/ PreviewFinish

Next ==
  \/ Listener \/ UncountConnected \/ Preview \/ Tick
  \/ \E s \in Slots : Receive(s) \/ CtrlLock(s) \/ HandlerStep(s)
  \/ \E t \in Senders : SenderStep(t)

Spec == Init /\ [][Next]_vars

\* Senders keep being scheduled and time passes when nothing is due.  A client
\* task gets on if the senders leave it the core again and again: it becomes
\* ready meanwhile and runs the next time, and takes tx_mtx if it finds it free
\* then, which FreeRTOS does not keep for the task it wakes.  Nothing is assumed of
\* the peers, the listener or the browser.
FairSpec ==
  /\ Spec
  /\ SF_vars(Tick) /\ SF_vars(CoreFree /\ UncountConnected)
  /\ \A s \in Slots : SF_vars(CoreFree /\ HandlerStep(s)) /\ SF_vars(CoreFree /\ CtrlLock(s))
  /\ \A t \in Senders : WF_vars(SenderStep(t))

-------------------------------------------------------------------------------
(* Properties                                                                *)

\* A sender task that still runs is the one its slot's rtp_task names: while it
\* can touch the slot or its socket, stop_streaming has not gone past its wait,
\* so no unsubscribe, close, release or new session happens under it.
SenderWithinSession ==
  \A t \in Senders : spc[t] # "idle" => rtp_task[sslot[t]] = t

\* No running sender belongs to a slot whose sockets are closed (the comment in
\* stop_streaming: it waits "before the fd can be closed or reused").  It holds where
\* sends keep to their budget, and not with a peer that trickles.
SenderGoneBeforeClose ==
  \A t \in Senders : spc[t] # "idle" => hpc[sslot[t]] \notin {"free", "claimed"}

\* audio_pipeline_read takes no lock: a ring buffer is read by one task only,
\* that of the subscription that still holds it, so unsubscribe never drains a
\* buffer under a reader and no audio is shared between two clients.
RingHasOneConsumer ==
  /\ \A t \in Senders : sread[t] # None =>
       /\ sread[t] \in active
       /\ sread[t] = reader[sslot[t]]
       /\ sread[t] # pvReader
       /\ \A u \in Senders \ {t} : sread[u] # sread[t]
  /\ \A s \in Slots : reader[s] # None =>
       /\ reader[s] # pvReader
       /\ \A u \in Slots \ {s} : reader[u] # reader[s]

\* With one reader slot more than client slots, a PLAY always finds one, whatever
\* the preview and the other clients do: 453 never answers a PLAY for want of one.
PlayFindsReader ==
  \A s \in Slots : hpc[s] = "recv" /\ rtp_task[s] = None => active # Readers

\* Slots in use that the listener has counted.
InUse == {s \in Slots : hpc[s] \notin {"free", "claimed"}}

\* Sessions between the count that follows the creation of their sender and the one
\* that follows the wait for it, be the sender still running or ended by itself.
Playing == {s \in Slots : \/ rtp_task[s] # None /\ hpc[s] # "play_count"
                          \/ hpc[s] = "uncount"}

\* /status: the streaming count never falls short of the sessions that play, and
\* where senders can be created it is their number.
StreamingExact ==
  /\ s_streaming >= Cardinality(Playing)
  /\ "sender_task" \notin MayFail => s_streaming = Cardinality(Playing)

\* /status: the connected count is the number of slots in use that have been
\* counted, and of client tasks that have released theirs and not counted
\* themselves off.
ConnectedExact == s_connected = Cardinality(InUse) + leaving

\* Both counts of /status stay with the slots over every ending and every failed
\* allocation, a step behind at most: no session is missed, and none is counted
\* that has stopped.  A sender that failed by itself is counted until its client
\* task stops the session, and one that was never created for good.
CountsExact == StreamingExact /\ ConnectedExact

\* A session that begins to end, by TEARDOWN, a closed connection or a failed
\* response, gives its slot back, even when its sender outlives the wait, as long as
\* the senders leave the core to the client tasks again and again.  (A sender that
\* waits for audio, tx_mtx or its peer does; one that spins does not.)
EndingReleasesSlot ==
  \A s \in Slots : []<>CoreFree => (hpc[s] = "stop" ~> hpc[s] = "free")

\* The senders of a slot that are left all wait for audio: the peer keeps up.
CaughtUp(s) == \A t \in Senders : sslot[t] = s => spc[t] = "reading"


\* The sessions and the preview implement the pool of reader slots: the handles they
\* keep are all that anybody holds.
Handles == {<<s, reader[s]>> : s \in {u \in Slots : reader[u] # None}}
Pool == INSTANCE ReaderPool WITH
  Clients <- Slots, streams <- Handles, preview <- {pvReader} \ {None}
===============================================================================
