------------------------------ MODULE WifiManager ------------------------------
(***************************************************************************)
(* The connection logic of src/src/wifi_manager.c: the boot connection     *)
(* with its setup AP, the endless reconnect afterwards, the backup AP of a *)
(* long outage, its manual toggle, and the network scan that holds the     *)
(* reconnect back.                                                         *)
(*                                                                         *)
(* Tasks: "main" (app_main), "event" (the event loop that runs             *)
(* event_handler), "fallback" (wifi_fallback_task), "button" (boot_button) *)
(* and "httpd", which serves both the toggle and the scan.  No lock covers *)
(* the flags: a task's stretch ends where it blocks in the driver, and     *)
(* where a flag it has read may be stale when it acts on it.               *)
(*                                                                         *)
(* Not here: the LED, mDNS and power save calls, which none of this reads, *)
(* and the AP's channel.                                                   *)
(***************************************************************************)
EXTENDS Integers, Sequences

CONSTANTS
  WIFI_MAX_RETRIES,  \* boot-time connection attempts before the setup AP
  Timeout,           \* g_config.wifi_fallback_timeout_min
  FallbackEnabled,   \* g_config.wifi_fallback_enabled
  Togglers,          \* tasks that toggle the backup AP: "button", "httpd"
  MaxEvents          \* bound on the events queued for the event task

ASSUME CountsAssumption ==
  WIFI_MAX_RETRIES \in Nat /\ Timeout \in Nat \ {0} /\ MaxEvents \in Nat \ {0}

ASSUME TogglersAssumption ==
  /\ Togglers \subseteq {"button", "httpd"}
  /\ FallbackEnabled \in BOOLEAN

VARIABLES
  sta,                      \* the driver's station: no, one or a made attempt
  evq,                      \* events the driver has posted, oldest first
  apOn,                     \* is the radio in APSTA mode?
  pc,                       \* where each task is
  ready,                    \* WIFI_READY_BIT
  s_retry_count, s_ap_mode, s_want_ap, s_ever_connected, s_fallback_mode,
  s_sta_connected, s_scan_suppress_connect,
  outage,                   \* time since s_disconnected_since_us; None if it is 0
  overlap                   \* auxiliary: has a backup AP met the setup AP?

flagVars == <<s_ap_mode, s_fallback_mode>>
connVars == <<s_retry_count, s_want_ap, s_ever_connected, s_sta_connected>>
vars == <<sta, evq, apOn, pc, ready, flagVars, connVars,
          s_scan_suppress_connect, outage, overlap>>

None == -1
Events == {"START", "DISCONNECTED", "ROAMING", "GOT_IP"}
Tasks == {"main", "event", "fallback", "button", "httpd"}
Setup == {"setup_survey", "setup_apsta"}
Backup == {"survey", "apsta", "exit", "store_zero", "store_now"}
PCs == {"idle", "init", "started", "wait", "check", "audio", "no_audio", "drop",
        "setup_survey", "setup_apsta", "survey", "apsta", "exit", "store_zero",
        "store_now", "scan", "scan_end"}
Booted == pc["main"] \in {"audio", "no_audio"}

TypeOK ==
  /\ sta \in {"off", "idle", "connecting", "associated", "up"}
  /\ evq \in Seq(Events)
  /\ apOn \in BOOLEAN /\ ready \in BOOLEAN
  /\ pc \in [Tasks -> PCs]
  /\ s_retry_count \in 0 .. WIFI_MAX_RETRIES
  /\ s_ap_mode \in BOOLEAN /\ s_want_ap \in BOOLEAN
  /\ s_ever_connected \in BOOLEAN /\ s_fallback_mode \in BOOLEAN
  /\ s_sta_connected \in BOOLEAN /\ s_scan_suppress_connect \in BOOLEAN
  /\ outage \in {None} \cup 0 .. Timeout /\ overlap \in BOOLEAN

Init ==
  /\ sta = "off" /\ evq = <<>> /\ apOn = FALSE /\ ready = FALSE
  /\ pc = [t \in Tasks |-> IF t \in {"main", "fallback"} THEN "init" ELSE "idle"]
  /\ s_retry_count = 0
  /\ s_ap_mode = FALSE /\ s_want_ap = FALSE /\ s_ever_connected = FALSE
  /\ s_fallback_mode = FALSE /\ s_sta_connected = FALSE
  /\ s_scan_suppress_connect = FALSE
  /\ outage = None /\ overlap = FALSE

Goto(t, l) == pc' = [pc EXCEPT ![t] = l]

\* A toggle during the survey of the setup AP, or the other way round, or an outage
\* timed on a device that has given up.
SetupAbout == \E t \in Tasks : pc[t] \in Setup
BackupAbout == s_fallback_mode \/ \E t \in Tasks : pc[t] \in Backup
NoteOverlap(met) == overlap' = (overlap \/ met)

-------------------------------------------------------------------------------
(* The driver.                                                               *)

\* esp_wifi_connect(): no effect on a station connecting, associated or connected.
Connect == sta' = IF sta = "idle" THEN "connecting" ELSE sta

Post(e) == Len(evq) < MaxEvents /\ evq' = Append(evq, e)

AttemptFails ==
  /\ sta = "connecting" /\ sta' = "idle" /\ Post("DISCONNECTED")
  /\ UNCHANGED <<apOn, pc, ready, flagVars, connVars, s_scan_suppress_connect,
                 outage, overlap>>

\* The association alone is no event that event_handler looks at ...
Associate ==
  /\ sta = "connecting" /\ sta' = "associated"
  /\ UNCHANGED <<evq, apOn, pc, ready, flagVars, connVars,
                 s_scan_suppress_connect, outage, overlap>>

\* ... the lease is, and DHCP may wait for it for ever.
Lease ==
  /\ sta = "associated" /\ sta' = "up" /\ Post("GOT_IP")
  /\ UNCHANGED <<apOn, pc, ready, flagVars, connVars, s_scan_suppress_connect,
                 outage, overlap>>

LinkLost ==
  /\ sta \in {"associated", "up"} /\ sta' = "idle" /\ Post("DISCONNECTED")
  /\ UNCHANGED <<apOn, pc, ready, flagVars, connVars, s_scan_suppress_connect,
                 outage, overlap>>

\* The roaming app leaves one AP and connects to a stronger one by itself.
Roam ==
  /\ sta \in {"associated", "up"} /\ sta' = "connecting" /\ Post("ROAMING")
  /\ UNCHANGED <<apOn, pc, ready, flagVars, connVars, s_scan_suppress_connect,
                 outage, overlap>>

-------------------------------------------------------------------------------
(* app_main and wifi_manager_start.                                          *)

StartSta ==
  /\ pc["main"] = "init" /\ Goto("main", "started")
  /\ sta' = "idle" /\ evq' = <<"START">>
  /\ UNCHANGED <<apOn, ready, flagVars, connVars, s_scan_suppress_connect, outage, overlap>>

\* enter_ap_mode with no network saved: started to survey, not to connect.
StartBlank ==
  /\ pc["main"] = "init" /\ Goto("main", "setup_survey")
  /\ s_want_ap' = TRUE
  /\ sta' = "idle" /\ evq' = <<"START">>
  /\ NoteOverlap(BackupAbout)
  /\ UNCHANGED <<apOn, ready, flagVars, s_retry_count, s_ever_connected,
                 s_sta_connected, s_scan_suppress_connect, outage>>

\* The setup AP is ready at once; so is a backup AP that was tapped up by now.
MainStarted ==
  /\ pc["main"] = "started" /\ Goto("main", "wait")
  /\ ready' = (ready \/ s_ap_mode)
  /\ UNCHANGED <<sta, evq, apOn, flagVars, connVars, s_scan_suppress_connect,
                 outage, overlap>>

MainReady ==
  /\ pc["main"] = "wait" /\ ready
  /\ pc' = [pc EXCEPT !["main"] = "check", !["fallback"] = "idle"]
  /\ UNCHANGED <<sta, evq, apOn, ready, flagVars, connVars,
                 s_scan_suppress_connect, outage, overlap>>

MainCheck ==
  /\ pc["main"] = "check"
  /\ \/ s_ap_mode /\ Goto("main", "no_audio")
     \/ ~s_ap_mode /\ Goto("main", "audio")
  /\ UNCHANGED <<sta, evq, apOn, ready, flagVars, connVars,
                 s_scan_suppress_connect, outage, overlap>>

\* The rest of enter_ap_mode, in app_main or in the event task.
SetupSurveyed(t) ==
  /\ t \in {"main", "event"} /\ pc[t] = "setup_survey" /\ Goto(t, "setup_apsta")
  /\ apOn' = TRUE
  /\ UNCHANGED <<sta, evq, ready, flagVars, connVars, s_scan_suppress_connect,
                 outage, overlap>>

\* MUTANT: the event task's setup AP does not set WIFI_READY_BIT.
SetupUpUnready(t) ==
  /\ t \in {"main", "event"} /\ pc[t] = "setup_apsta"
  /\ Goto(t, IF t = "main" THEN "started" ELSE "idle")
  /\ s_ap_mode' = TRUE /\ ready' = ready
  /\ UNCHANGED <<sta, evq, apOn, s_fallback_mode, connVars,
                 s_scan_suppress_connect, outage, overlap>>

SetupUp(t) ==
  /\ t \in {"main", "event"} /\ pc[t] = "setup_apsta"
  /\ Goto(t, IF t = "main" THEN "started" ELSE "idle")
  /\ s_ap_mode' = TRUE /\ ready' = (ready \/ t = "event")
  /\ UNCHANGED <<sta, evq, apOn, s_fallback_mode, connVars,
                 s_scan_suppress_connect, outage, overlap>>

-------------------------------------------------------------------------------
(* event_handler.                                                            *)

Take(e) ==
  /\ pc["event"] = "idle" /\ evq # <<>>
  /\ Head(evq) = e /\ evq' = Tail(evq)

\* MUTANT: connects although the station was only started to survey.
StaStartAlways ==
  /\ Take("START") /\ Connect
  /\ UNCHANGED <<apOn, pc, ready, flagVars, connVars, s_scan_suppress_connect,
                 outage, overlap>>

StaStart ==
  /\ Take("START")
  /\ \/ ~s_want_ap /\ Connect
     \/ s_want_ap /\ UNCHANGED sta
  /\ UNCHANGED <<apOn, pc, ready, flagVars, connVars, s_scan_suppress_connect,
                 outage, overlap>>

Roaming ==
  /\ Take("ROAMING")
  /\ UNCHANGED <<sta, apOn, pc, ready, flagVars, connVars,
                 s_scan_suppress_connect, outage, overlap>>

\* A drop after the first connection: the flags and the outage clock ...
Dropped ==
  /\ Take("DISCONNECTED") /\ s_ever_connected
  /\ s_sta_connected' = FALSE
  /\ outage' = IF outage = None THEN 0 ELSE outage
  /\ Goto("event", "drop")
  /\ UNCHANGED <<sta, apOn, ready, flagVars, s_retry_count, s_want_ap,
                 s_ever_connected, s_scan_suppress_connect, overlap>>

\* ... and the reconnect, unless a scan is in flight.
Reconnect ==
  /\ pc["event"] = "drop" /\ Goto("event", "idle")
  /\ \/ ~s_scan_suppress_connect /\ Connect
     \/ s_scan_suppress_connect /\ UNCHANGED sta
  /\ UNCHANGED <<evq, apOn, ready, flagVars, connVars, s_scan_suppress_connect,
                 outage, overlap>>

MoreRetries == s_retry_count < WIFI_MAX_RETRIES

BootRetry ==
  /\ Take("DISCONNECTED") /\ ~s_ever_connected /\ MoreRetries
  /\ Connect
  /\ s_retry_count' = s_retry_count + 1
  /\ UNCHANGED <<apOn, pc, ready, flagVars, s_want_ap, s_ever_connected,
                 s_sta_connected, s_scan_suppress_connect, outage, overlap>>

\* enter_ap_mode begins: the event task blocks in the survey.
GiveUp ==
  /\ Take("DISCONNECTED") /\ ~s_ever_connected /\ ~MoreRetries
  /\ s_want_ap' = TRUE /\ apOn' = FALSE
  /\ Goto("event", "setup_survey")
  /\ NoteOverlap(BackupAbout)
  /\ UNCHANGED <<sta, ready, flagVars, s_retry_count, s_ever_connected,
                 s_sta_connected, s_scan_suppress_connect, outage>>

GotIp ==
  /\ Take("GOT_IP")
  /\ s_retry_count' = 0 /\ s_ever_connected' = TRUE /\ s_sta_connected' = TRUE
  /\ outage' = None
  /\ \/ s_fallback_mode /\ apOn' = FALSE /\ Goto("event", "exit") /\ UNCHANGED ready
     \/ ~s_fallback_mode /\ ready' = TRUE /\ UNCHANGED <<apOn, pc>>
  /\ UNCHANGED <<sta, flagVars, s_want_ap, s_scan_suppress_connect, overlap>>

-------------------------------------------------------------------------------
(* The backup AP.                                                            *)

FallbackDue ==
  /\ pc["fallback"] = "idle" /\ Goto("fallback", "survey")
  /\ FallbackEnabled /\ ~s_fallback_mode /\ outage >= Timeout
  /\ NoteOverlap(s_want_ap)
  /\ UNCHANGED <<sta, evq, apOn, ready, flagVars, connVars,
                 s_scan_suppress_connect, outage>>

\* The button runs before wifi_manager_start, the web server after it.
Serving(t) == t = "button" \/ pc["main"] \in {"check", "audio", "no_audio"}
MayToggle(t) == t \in Togglers /\ pc[t] = "idle" /\ Serving(t)

\* MUTANT: does not look whether an AP is up already.
ToggleOnAlways(t) ==
  /\ MayToggle(t) /\ ~s_fallback_mode
  /\ Goto(t, "survey")
  /\ NoteOverlap(SetupAbout)
  /\ UNCHANGED <<sta, evq, apOn, ready, flagVars, connVars,
                 s_scan_suppress_connect, outage>>

\* With the setup AP up the toggle does nothing.
ToggleOn(t) ==
  /\ MayToggle(t) /\ ~s_fallback_mode /\ ~s_ap_mode
  /\ Goto(t, "survey")
  /\ NoteOverlap(SetupAbout)
  /\ UNCHANGED <<sta, evq, apOn, ready, flagVars, connVars,
                 s_scan_suppress_connect, outage>>

ToggleOff(t) ==
  /\ MayToggle(t) /\ s_fallback_mode
  /\ apOn' = FALSE /\ Goto(t, "exit")
  /\ UNCHANGED <<sta, evq, ready, flagVars, connVars, s_scan_suppress_connect,
                 outage, overlap>>

\* enter_fallback_ap_mode after its survey: the radio, where it has been started,
\* then the flags.
Surveyed(t) ==
  /\ t \in Togglers \cup {"fallback"} /\ pc[t] = "survey" /\ Goto(t, "apsta")
  /\ apOn' = (sta # "off")
  /\ UNCHANGED <<sta, evq, ready, flagVars, connVars, s_scan_suppress_connect,
                 outage, overlap>>

BackupUp(t) ==
  /\ t \in Togglers \cup {"fallback"} /\ pc[t] = "apsta" /\ Goto(t, "idle")
  /\ s_ap_mode' = TRUE /\ s_fallback_mode' = TRUE
  /\ UNCHANGED <<sta, evq, apOn, ready, connVars, s_scan_suppress_connect, outage, overlap>>

\* exit_fallback_ap_mode after the radio: the flags, then the outage clock, by
\* what s_sta_connected said in between.
ExitFlags(t) ==
  /\ t \in Togglers \cup {"event"} /\ pc[t] = "exit"
  /\ s_ap_mode' = FALSE /\ s_fallback_mode' = FALSE
  /\ \/ s_sta_connected /\ Goto(t, "store_zero")
     \/ ~s_sta_connected /\ Goto(t, "store_now")
  /\ UNCHANGED <<sta, evq, apOn, ready, connVars, s_scan_suppress_connect, outage, overlap>>

\* For the event task this ends GOT_IP, with WIFI_READY_BIT.
ExitStore(t) ==
  /\ t \in Togglers \cup {"event"}
  /\ \/ pc[t] = "store_zero" /\ outage' = None
     \/ pc[t] = "store_now" /\ outage' = 0
  /\ ready' = (ready \/ t = "event")
  /\ Goto(t, "idle")
  /\ UNCHANGED <<sta, evq, apOn, flagVars, connVars, s_scan_suppress_connect, overlap>>

\* Time passes; app_main's start-up is over long before an outage is long.
Tick ==
  /\ Booted /\ outage \in 0 .. Timeout - 1
  /\ outage' = outage + 1
  /\ UNCHANGED <<sta, evq, apOn, pc, ready, flagVars, connVars,
                 s_scan_suppress_connect, overlap>>

-------------------------------------------------------------------------------
(* wifi_manager_scan, in the web server's task.                              *)

ScanBegin ==
  /\ pc["httpd"] = "idle" /\ Serving("httpd") /\ Goto("httpd", "scan")
  /\ s_scan_suppress_connect' = TRUE
  /\ UNCHANGED <<sta, evq, apOn, ready, flagVars, connVars, outage, overlap>>

Resume == s_ever_connected /\ ~s_sta_connected

\* MUTANT: looks for an outage before it lets the event task reconnect again.
ScanDoneLooksFirst ==
  /\ pc["httpd"] = "scan" /\ Goto("httpd", "scan_end")
  /\ \/ Resume /\ Connect
     \/ ~Resume /\ UNCHANGED sta
  /\ UNCHANGED <<evq, apOn, ready, flagVars, connVars, s_scan_suppress_connect,
                 outage, overlap>>

ScanDone ==
  /\ pc["httpd"] = "scan" /\ Goto("httpd", "scan_end")
  /\ s_scan_suppress_connect' = FALSE
  /\ UNCHANGED <<sta, evq, apOn, ready, flagVars, connVars, outage, overlap>>

\* MUTANT: leaves the reconnect to the event task.
ScanResumeNot ==
  /\ pc["httpd"] = "scan_end" /\ Goto("httpd", "idle")
  /\ UNCHANGED <<sta, evq, apOn, ready, flagVars, connVars,
                 s_scan_suppress_connect, outage, overlap>>

ScanResume ==
  /\ pc["httpd"] = "scan_end" /\ Goto("httpd", "idle")
  /\ \/ Resume /\ Connect
     \/ ~Resume /\ UNCHANGED sta
  /\ UNCHANGED <<evq, apOn, ready, flagVars, connVars, s_scan_suppress_connect,
                 outage, overlap>>

-------------------------------------------------------------------------------
Driver == AttemptFails \/ Associate \/ Lease \/ LinkLost \/ Roam
Main   == StartSta \/ StartBlank \/ MainStarted \/ MainReady \/ MainCheck
Event  == StaStart \/ Roaming \/ Dropped \/ Reconnect \/ BootRetry \/ GiveUp \/ GotIp
Scan   == ScanDone \/ ScanResume

\* What a task that has begun to bring an AP up or down goes on to do.
Continue(t) ==
  SetupSurveyed(t) \/ SetupUp(t) \/ Surveyed(t) \/ BackupUp(t) \/ ExitFlags(t)
  \/ ExitStore(t)

Next ==
  \/ Driver \/ Main \/ Event \/ FallbackDue \/ ScanBegin \/ Scan \/ Tick
  \/ \E t \in Tasks : Continue(t) \/ ToggleOn(t) \/ ToggleOff(t)

Spec == Init /\ [][Next]_vars

\* The scheduler runs every task that can go on, surveys and scans end (the
\* driver bounds them), and so does an attempt to associate, one way or the other.
\* Nobody promises a lease.
FairSpec ==
  /\ Spec
  /\ WF_vars(Main) /\ WF_vars(Event) /\ WF_vars(FallbackDue) /\ WF_vars(Scan)
  /\ \A t \in Tasks : WF_vars(Continue(t))
  /\ WF_vars(AttemptFails \/ Associate)

-------------------------------------------------------------------------------
(* Properties.                                                               *)

\* No outage is forgotten: when the station is idle after it has once been
\* connected, with no event waiting, somebody is about to call
\* esp_wifi_connect: the event task between lines 433 and 438, or a scan that
\* has yet to look at s_sta_connected and will find it false.
NoLostReconnect ==
  s_ever_connected /\ sta = "idle" /\ evq = <<>> =>
    \/ pc["event"] = "drop"
    \/ pc["httpd"] \in {"scan", "scan_end"} /\ ~s_sta_connected

\* Once the setup AP is wanted the station stays idle and no network was ever
\* joined: it never costs a running stream its connection (423-429).
SetupApIsLastResort ==
  s_want_ap => ~s_ever_connected /\ sta = "idle"

\* With every task at rest the device can be reached or is trying to be: an AP
\* is up, or the station is connected, connecting or waiting for its lease.  Not so
\* once a backup AP and the setup AP have met, which marks the only AP of a device
\* without a network as one that a toggle takes down.
Resting(t) == pc[t] \in {"idle", "audio", "no_audio"}
NeverStranded ==
  (\A t \in Tasks : Resting(t)) /\ evq = <<>> /\ ~overlap =>
    apOn \/ sta \in {"connecting", "associated", "up"}

\* The backup AP that a timeout brought up goes when the network is back:
\* with every task at rest it is not up on a connected device.  Does not hold:
\* the network may be back before the survey ends, and then nothing takes it down.
BackupApDropsOnReconnect ==
  (\A t \in Tasks : Resting(t)) /\ evq = <<>> /\ s_fallback_mode => ~s_sta_connected

\* wifi_manager_start returns: by the connection or by an AP.  It waits for ever
\* only for a station that gets associated and no lease, or where a backup AP has
\* met the setup AP: a toggle may take that down before line 554 looks for it.
BootEnds == <>(Booted \/ overlap) \/ []<>(sta = "associated")

\* A network once joined is tried again after every drop, whatever scans and
\* toggles happen meanwhile.
KeepsTrying == s_ever_connected /\ sta = "idle" ~> sta # "idle"
===============================================================================
