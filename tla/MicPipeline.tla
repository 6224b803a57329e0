------------------------------ MODULE MicPipeline ------------------------------
(***************************************************************************)
(* How the microphone is found, watched and recovered: mic start-up and    *)
(* its retry task, the capture task, the USB disconnect callback and the   *)
(* reboot it schedules (src/src/audio_pipeline.c, usb_mic.c, i2s_mic.c),   *)
(* and the stall watchdog (pipeline_watchdog.c).                           *)
(*                                                                         *)
(* Tasks: app_main, then mic_retry, run the start-up (pc); the capture     *)
(* task (rd); the UAC driver's task, which runs device_event_cb (cb); the  *)
(* reboot task (rebooter); the watchdog; and the web server, which writes  *)
(* g_config.  No lock covers s_dev and the flags.                          *)
(*                                                                         *)
(* External: the mic that people plug and unplug, the connect event the    *)
(* driver sends for it, and the driver calls, each of which may fail.  A   *)
(* mic gets a new number each time it is plugged in, which also names the  *)
(* driver's handle for it; 0 is no mic and the null handle.                *)
(*                                                                         *)
(* Not here: the samples and the reader slots they go to (RtspServer).     *)
(***************************************************************************)
EXTENDS Integers

CONSTANTS
  MaxPlugs,           \* bound on the times a mic is plugged in per boot
  STALL_CHECKS,       \* PIPELINE_WATCHDOG_STALL_CHECKS
  CountWrap,          \* values of s_chunk_count, 2^32 in the code
  ChunksPerInterval   \* most chunks a mic gives between two watchdog checks

ASSUME CountsAssumption ==
  MaxPlugs \in Nat \ {0} /\ STALL_CHECKS \in Nat \ {0}

\* A chunk is at least a millisecond of sound and the checks are 15 s apart.
ASSUME WrapAssumption ==
  CountWrap \in Nat /\ ChunksPerInterval \in Nat /\ ChunksPerInterval < CountWrap

VARIABLES
  conn,                \* the mic that is plugged in
  plugs,               \* mics plugged in since boot
  heard,               \* has the driver reported conn?
  s_connect_q,         \* does the queue of one hold a connect event?
  open,                \* handles the driver has open, unplugged ones included
  gone,                \* open handles with a DISCONNECTED event to deliver
  source,              \* g_config.audio_source
  watchdog_enabled,    \* g_config.watchdog_enabled
  main,                \* app_main: in audio_pipeline_start, after it, or done
  pc,                  \* mic_start_and_spawn_reader, in app_main or mic_retry
  dev,                 \* usb_mic_init's local handle until it is in s_dev
  err,                 \* the error to return once the device is closed
  s_host_ready, s_dev, s_active,
  rd, rh,              \* the capture task, and the handle it reads from
  s_chunk_count,
  cb,                  \* device_event_cb: what DISCONNECTED does next
  s_usb_reboot_pending,
  rebooter,            \* does usb_disconnect_reboot_task wait?
  last_count, baselined, stalled_checks,
  fresh,               \* chunks since the last check
  quiet                \* checks in a row, since the last chunk, that found the
                       \* watchdog enabled and the pipeline active

usbVars == <<conn, plugs, heard, s_connect_q, open, gone>>
configVars == <<source, watchdog_enabled>>
startVars == <<main, pc, dev, err, s_host_ready>>
readVars == <<rd, rh, s_chunk_count, fresh>>
recoverVars == <<cb, s_usb_reboot_pending, rebooter>>
checkVars == <<last_count, baselined, stalled_checks>>
vars == <<usbVars, configVars, startVars, s_dev, s_active, readVars, recoverVars,
          checkVars, quiet>>

Sources == {"USB", "I2S"}
Retried == {"NOT_FOUND", "NOT_SUPPORTED"}
Errors == Retried \cup {"FAIL"}

UsbTypes ==
  /\ conn \in 0 .. MaxPlugs /\ plugs \in 0 .. MaxPlugs /\ conn <= plugs
  /\ heard \in BOOLEAN /\ s_connect_q \in BOOLEAN
  /\ open \subseteq 1 .. plugs /\ gone \subseteq open
  /\ dev \in {0} \cup open /\ s_dev \in {0} \cup open /\ rh \in 0 .. plugs

TaskTypes ==
  /\ source \in Sources /\ watchdog_enabled \in BOOLEAN
  /\ main \in {"audio", "later", "done"}
  /\ pc \in {"install", "wait", "open", "store", "negotiate", "start", "close",
             "spawn", "activate", "pause", "done"}
  /\ err \in Errors /\ s_host_ready \in BOOLEAN /\ s_active \in BOOLEAN
  /\ rd \in {"none", "top", "reading", "stuck"}
  /\ cb \in {"idle", "mark", "reboot"}
  /\ s_usb_reboot_pending \in BOOLEAN /\ rebooter \in BOOLEAN /\ baselined \in BOOLEAN

CheckTypes ==
  /\ s_chunk_count \in 0 .. CountWrap - 1 /\ fresh \in 0 .. ChunksPerInterval
  /\ last_count \in 0 .. CountWrap - 1
  /\ stalled_checks \in 0 .. STALL_CHECKS - 1 /\ quiet \in 0 .. STALL_CHECKS

TypeOK == UsbTypes /\ TaskTypes /\ CheckTypes

Init ==
  /\ conn \in {0, 1} /\ plugs = conn /\ heard = FALSE /\ s_connect_q = FALSE
  /\ open = {} /\ gone = {}
  /\ source \in Sources /\ watchdog_enabled \in BOOLEAN
  /\ main = "audio" /\ pc = "install" /\ dev = 0 /\ err = "FAIL"
  /\ s_host_ready = FALSE /\ s_dev = 0 /\ s_active = FALSE
  /\ rd = "none" /\ rh = 0 /\ s_chunk_count = 0 /\ fresh = 0
  /\ cb = "idle" /\ s_usb_reboot_pending = FALSE /\ rebooter = FALSE
  /\ last_count = 0 /\ baselined = FALSE /\ stalled_checks = 0 /\ quiet = 0

\* esp_restart, a panic or a failed ESP_ERROR_CHECK: everything in memory is
\* new, a mic that is plugged in stays so.
Restart ==
  /\ conn' = (IF conn = 0 THEN 0 ELSE 1) /\ plugs' = conn'
  /\ heard' = FALSE /\ s_connect_q' = FALSE /\ open' = {} /\ gone' = {}
  /\ main' = "audio" /\ pc' = "install" /\ dev' = 0 /\ err' = "FAIL"
  /\ s_host_ready' = FALSE /\ s_dev' = 0 /\ s_active' = FALSE
  /\ rd' = "none" /\ rh' = 0 /\ s_chunk_count' = 0 /\ fresh' = 0
  /\ cb' = "idle" /\ s_usb_reboot_pending' = FALSE /\ rebooter' = FALSE
  /\ last_count' = 0 /\ baselined' = FALSE /\ stalled_checks' = 0 /\ quiet' = 0

-------------------------------------------------------------------------------
(* The mic and the driver's connect event.                                   *)

Plug ==
  /\ conn = 0 /\ plugs < MaxPlugs
  /\ plugs' = plugs + 1 /\ conn' = plugs + 1 /\ heard' = FALSE
  /\ UNCHANGED <<s_connect_q, open, gone, configVars, startVars, s_dev, s_active,
                 readVars, recoverVars, checkVars, quiet>>

Unplug ==
  /\ conn # 0 /\ conn' = 0
  /\ gone' = gone \cup (open \cap {conn})
  /\ UNCHANGED <<plugs, heard, s_connect_q, open, configVars, startVars, s_dev,
                 s_active, readVars, recoverVars, checkVars, quiet>>

\* driver_event_cb: with an event in the queue already, this one is dropped.
Connected ==
  /\ s_host_ready /\ conn # 0 /\ ~heard
  /\ heard' = TRUE /\ s_connect_q' = TRUE
  /\ UNCHANGED <<conn, plugs, open, gone, configVars, startVars, s_dev, s_active,
                 readVars, recoverVars, checkVars, quiet>>

-------------------------------------------------------------------------------
(* Start-up.  No step of it touches the reader's state before SpawnReader,   *)
(* nor the watchdog's.                                                       *)

StartUpOnly ==
  UNCHANGED <<conn, plugs, heard, configVars, cb, s_usb_reboot_pending, rebooter,
              rh, s_chunk_count, fresh, checkVars, quiet>>

Proceed(l) == pc' = l /\ UNCHANGED main

\* mic_start_and_spawn_reader returns e.  In mic_retry that is another pause;
\* in audio_pipeline_start an absent or unfit mic is left to mic_retry, which
\* may not be created, and any other error is fatal to app_main.
Fails(e) ==
  \/ main # "audio" /\ pc' = "pause" /\ UNCHANGED main
  \/ main = "audio" /\ e \in Retried /\ pc' \in {"pause", "done"} /\ main' = "later"

\* A driver call fails, or the capture task cannot be created.
StartFails ==
  /\ \/ pc \in {"install", "open"} /\ \E e \in Errors : Fails(e)
     \/ pc = "spawn" /\ Fails("FAIL")
  /\ UNCHANGED <<s_connect_q, open, gone, dev, err, s_host_ready, s_dev, s_active, rd>>
  /\ StartUpOnly

\* The same in app_main, where any error but an absent or unfit mic is fatal.
BootAborts ==
  /\ main = "audio" /\ pc \in {"install", "open", "spawn"}
  /\ Restart /\ UNCHANGED configVars

\* The USB host is installed once per boot, the I2S channel at every attempt.
Install ==
  /\ pc = "install"
  /\ IF source = "USB"
       THEN s_host_ready' = TRUE /\ Proceed("wait")
       ELSE UNCHANGED s_host_ready /\ Proceed("spawn")
  /\ UNCHANGED <<s_connect_q, open, gone, dev, err, s_dev, s_active, rd>>
  /\ StartUpOnly

WaitEnds ==
  /\ pc = "wait" /\ s_connect_q /\ s_connect_q' = FALSE /\ Proceed("open")
  /\ UNCHANGED <<open, gone, dev, err, s_host_ready, s_dev, s_active, rd>>
  /\ StartUpOnly

WaitTimesOut ==
  /\ pc = "wait" /\ ~s_connect_q /\ Fails("NOT_FOUND")
  /\ UNCHANGED <<s_connect_q, open, gone, dev, err, s_host_ready, s_dev, s_active, rd>>
  /\ StartUpOnly

OpenDevice ==
  /\ pc = "open" /\ conn # 0 /\ conn \notin open
  /\ open' = open \cup {conn} /\ dev' = conn /\ Proceed("store")
  /\ UNCHANGED <<s_connect_q, gone, err, s_host_ready, s_dev, s_active, rd>>
  /\ StartUpOnly

StoreDevice ==
  /\ pc = "store" /\ s_dev' = dev /\ dev' = 0 /\ Proceed("negotiate")
  /\ UNCHANGED <<s_connect_q, open, gone, err, s_host_ready, s_active, rd>>
  /\ StartUpOnly

\* find_alt_setting reads the descriptors the driver keeps; of a null handle,
\* and of some mics, it finds no setting.
Negotiate ==
  /\ pc = "negotiate"
  /\ \/ s_dev # 0 /\ Proceed("start") /\ UNCHANGED err
     \/ err' = "NOT_SUPPORTED" /\ Proceed("close")
  /\ UNCHANGED <<s_connect_q, open, gone, dev, s_host_ready, s_dev, s_active, rd>>
  /\ StartUpOnly

\* The volume it then asks for may be refused without consequence.
StartDevice ==
  /\ pc = "start"
  /\ \/ s_dev # 0 /\ s_dev = conn /\ Proceed("spawn") /\ UNCHANGED err
     \/ err' \in Errors /\ Proceed("close")
  /\ UNCHANGED <<s_connect_q, open, gone, dev, s_host_ready, s_dev, s_active, rd>>
  /\ StartUpOnly

\* Closing the null handle does nothing.
CloseDevice ==
  /\ pc = "close" /\ Fails(err)
  /\ open' = open \ {s_dev} /\ gone' = gone \ {s_dev} /\ s_dev' = 0 /\ err' = "FAIL"
  /\ UNCHANGED <<s_connect_q, dev, s_host_ready, s_active, rd>>
  /\ StartUpOnly

\* Either the error is fatal to app_main, or the driver panics: it cannot
\* close a device that has been unplugged (usb_mic.c:53-60).
CloseRestarts ==
  /\ pc = "close"
  /\ \/ main = "audio" /\ err \notin Retried
     \/ s_dev # 0 /\ s_dev # conn
  /\ Restart /\ UNCHANGED configVars

SpawnReader ==
  /\ pc = "spawn" /\ rd' = "top" /\ Proceed("activate")
  /\ UNCHANGED <<s_connect_q, open, gone, dev, err, s_host_ready, s_dev, s_active>>
  /\ StartUpOnly

\* The end of the start-up, and of mic_retry.
Activate ==
  /\ pc = "activate" /\ s_active' = TRUE
  /\ pc' = "done" /\ main' = (IF main = "audio" THEN "later" ELSE main)
  /\ UNCHANGED <<s_connect_q, open, gone, dev, err, s_host_ready, s_dev, rd>>
  /\ StartUpOnly

RetryPauseEnds ==
  /\ pc = "pause"
  /\ Proceed(IF s_host_ready THEN "wait" ELSE "install")
  /\ UNCHANGED <<s_connect_q, open, gone, dev, err, s_host_ready, s_dev, s_active, rd>>
  /\ StartUpOnly

\* app_main starts the RTSP server and the watchdog; a failure restarts.
MainEnds ==
  /\ main = "later" /\ main' = "done"
  /\ UNCHANGED <<usbVars, configVars, pc, dev, err, s_host_ready, s_dev, s_active,
                 readVars, recoverVars, checkVars, quiet>>

MainAborts == main = "later" /\ Restart /\ UNCHANGED configVars

StartUp ==
  \/ StartFails \/ BootAborts \/ Install \/ WaitEnds \/ WaitTimesOut \/ OpenDevice
  \/ StoreDevice \/ Negotiate \/ StartDevice \/ CloseDevice \/ CloseRestarts
  \/ SpawnReader \/ Activate \/ RetryPauseEnds

-------------------------------------------------------------------------------
(* The capture task.                                                         *)

ReaderOnly ==
  UNCHANGED <<usbVars, configVars, startVars, s_dev, s_active, recoverVars, checkVars>>

\* usb_mic_read takes s_dev once; with none it returns 0 and the task pauses.
ReadBegins ==
  /\ rd = "top" /\ (source = "I2S" \/ s_dev # 0)
  /\ rd' = "reading" /\ rh' = s_dev
  /\ UNCHANGED <<s_chunk_count, fresh, quiet>> /\ ReaderOnly

ReadEmpty ==
  /\ rd = "reading" /\ rd' = "top" /\ rh' = 0
  /\ UNCHANGED <<s_chunk_count, fresh, quiet>> /\ ReaderOnly

\* usb_mic_read: a mic that is not plugged in has no samples to give.  A stereo mic is
\* mixed down, and a chunk may be shorter than what was asked for.
MicGives == source = "I2S" \/ rh = conn

ReadChunk ==
  /\ rd = "reading" /\ MicGives
  /\ fresh < ChunksPerInterval /\ fresh' = fresh + 1
  /\ s_chunk_count' = (IF s_chunk_count = CountWrap - 1 THEN 0 ELSE s_chunk_count + 1)
  /\ rd' = "top" /\ rh' = 0 /\ quiet' = 0
  /\ ReaderOnly

\* A driver call that never returns.
ReadWedges ==
  /\ rd = "reading" /\ rd' = "stuck"
  /\ UNCHANGED <<rh, s_chunk_count, fresh, quiet>> /\ ReaderOnly

-------------------------------------------------------------------------------
(* The disconnect callback and the reboot task.                              *)

RecoverOnly == UNCHANGED <<configVars, startVars, readVars, checkVars, quiet>>

\* MUTANT: the callback closes the device, as an earlier version did.
CallbackCloses ==
  /\ cb = "idle" /\ \E h \in gone : gone' = gone \ {h} /\ open' = open \ {h}
  /\ s_dev' = 0 /\ cb' = "mark"
  /\ UNCHANGED <<conn, plugs, heard, s_connect_q, s_active, s_usb_reboot_pending,
                 rebooter>>
  /\ RecoverOnly

\* device_event_cb; of a transfer error it only writes to the log.
CallbackBegins ==
  /\ cb = "idle" /\ \E h \in gone : gone' = gone \ {h}
  /\ s_dev' = 0 /\ cb' = "mark"
  /\ UNCHANGED <<conn, plugs, heard, s_connect_q, open, s_active, s_usb_reboot_pending,
                 rebooter>>
  /\ RecoverOnly

\* MUTANT: an inactive pipeline is taken to have nothing to recover.
CallbackMarksIfActive ==
  /\ cb = "mark" /\ s_active' = FALSE
  /\ cb' = (IF s_active THEN "reboot" ELSE "idle")
  /\ UNCHANGED <<usbVars, s_dev, s_usb_reboot_pending, rebooter>>
  /\ RecoverOnly

\* MUTANT: the flag is cleared and no reboot scheduled.
CallbackMarksOnly ==
  /\ cb = "mark" /\ s_active' = FALSE /\ cb' = "idle"
  /\ UNCHANGED <<usbVars, s_dev, s_usb_reboot_pending, rebooter>>
  /\ RecoverOnly

CallbackMarks ==
  /\ cb = "mark" /\ s_active' = FALSE /\ cb' = "reboot"
  /\ UNCHANGED <<usbVars, s_dev, s_usb_reboot_pending, rebooter>>
  /\ RecoverOnly

\* audio_pipeline_retry_usb_mic, which does not look whether the task it
\* creates exists.
CallbackSchedules ==
  /\ cb = "reboot" /\ cb' = "idle"
  /\ s_usb_reboot_pending' = TRUE
  /\ IF s_usb_reboot_pending THEN UNCHANGED rebooter ELSE rebooter' \in BOOLEAN
  /\ UNCHANGED <<usbVars, s_dev, s_active>>
  /\ RecoverOnly

RebootDue == rebooter /\ Restart /\ UNCHANGED configVars

-------------------------------------------------------------------------------
(* The watchdog and the configuration.                                       *)

Watched == watchdog_enabled /\ s_active

WatchdogOnly ==
  UNCHANGED <<usbVars, configVars, startVars, s_dev, s_active, rd, rh, s_chunk_count,
              recoverVars>>

\* MUTANT: the baseline outlives a pause of the watchdog.
CheckIdleKeepsBaseline ==
  /\ main = "done" /\ ~Watched
  /\ stalled_checks' = 0 /\ fresh' = 0 /\ quiet' = 0
  /\ UNCHANGED <<last_count, baselined>> /\ WatchdogOnly

CheckIdle ==
  /\ main = "done" /\ ~Watched
  /\ stalled_checks' = 0 /\ baselined' = FALSE /\ fresh' = 0 /\ quiet' = 0
  /\ UNCHANGED last_count /\ WatchdogOnly

CountCheck ==
  /\ fresh' = 0
  /\ quiet' = (IF quiet < STALL_CHECKS THEN quiet + 1 ELSE quiet)

\* MUTANT: every check takes a new baseline.
CheckBaselineAgain ==
  /\ main = "done" /\ Watched /\ ~baselined
  /\ last_count' = s_chunk_count
  /\ CountCheck /\ UNCHANGED <<baselined, stalled_checks>> /\ WatchdogOnly

\* The first check of a streak records the counter and judges nothing.
CheckBaseline ==
  /\ main = "done" /\ Watched /\ ~baselined
  /\ last_count' = s_chunk_count /\ baselined' = TRUE
  /\ CountCheck /\ UNCHANGED stalled_checks /\ WatchdogOnly

CheckProgress ==
  /\ main = "done" /\ Watched /\ baselined /\ s_chunk_count # last_count
  /\ stalled_checks' = 0 /\ last_count' = s_chunk_count
  /\ CountCheck /\ UNCHANGED baselined /\ WatchdogOnly

CheckStalled ==
  /\ main = "done" /\ Watched /\ baselined /\ s_chunk_count = last_count
  /\ stalled_checks + 1 < STALL_CHECKS
  /\ stalled_checks' = stalled_checks + 1
  /\ CountCheck /\ UNCHANGED <<last_count, baselined>> /\ WatchdogOnly

CheckRestarts ==
  /\ main = "done" /\ Watched /\ baselined /\ s_chunk_count = last_count
  /\ stalled_checks + 1 >= STALL_CHECKS
  /\ Restart /\ UNCHANGED configVars

Check == CheckIdle \/ CheckBaseline \/ CheckProgress \/ CheckStalled \/ CheckRestarts

\* config_post_handler: the switch counts at once, the source after a restart.
SaveSwitch ==
  /\ watchdog_enabled' = ~watchdog_enabled
  /\ UNCHANGED <<usbVars, source, startVars, s_dev, s_active, readVars, recoverVars,
                 checkVars, quiet>>

SaveSource == Restart /\ source' \in Sources /\ UNCHANGED watchdog_enabled

-------------------------------------------------------------------------------

Driver == Plug \/ Unplug \/ Connected
Reader == ReadBegins \/ ReadEmpty \/ ReadChunk \/ ReadWedges
Callback == CallbackBegins \/ CallbackMarks \/ CallbackSchedules

Next ==
  \/ Driver \/ StartUp \/ MainEnds \/ MainAborts \/ Reader \/ Callback \/ RebootDue
  \/ Check \/ SaveSwitch \/ SaveSource

Spec == Init /\ [][Next]_vars

\* The scheduler runs every task that is not blocked and its delays end.  Of
\* people, mics and reads nothing is assumed.
FairSpec ==
  /\ Spec
  /\ WF_vars(StartUp) /\ WF_vars(MainEnds \/ MainAborts)
  /\ WF_vars(Callback) /\ WF_vars(RebootDue) /\ WF_vars(Check)

-------------------------------------------------------------------------------
(* Properties.                                                               *)

\* One capture task: while start-up runs or is still to be retried there is
\* none (the buffer pcm and the filter state s_dsp are static).
OneReader == pc \notin {"activate", "done"} => rd = "none"

\* A handle is never closed while a read of it runs.
ReadsOpenHandle == rd \in {"reading", "stuck"} /\ source = "USB" => rh \in open

\* Retries, callbacks and restarts leave one capture task, on a handle that is open.
ReaderIsSound == OneReader /\ ReadsOpenHandle

\* The pipeline is active only with a capture task, and a USB pipeline is shown
\* active without its mic only until the callback for the mic it had has
\* scheduled the reboot, however start-up and the callback interleave.
ActiveMeansMic ==
  s_active =>
    /\ rd # "none"
    /\ source = "USB" /\ (s_dev = 0 \/ s_dev # conn) =>
         gone # {} \/ cb # "idle" \/ s_usb_reboot_pending

\* The watchdog restarts the device only after STALL_CHECKS checks in a row, and
\* so as many whole intervals, without a chunk of audio, all of which found it
\* enabled and the pipeline active.
WatchdogPatient == [][CheckRestarts => quiet >= STALL_CHECKS]_vars

\* A disconnect is followed by a restart, by the reboot task or, where that
\* could not be created but the pipeline is shown active, by the watchdog;
\* unless start-up was still running and has a mic again.
RebootLost == s_usb_reboot_pending /\ ~rebooter /\ cb = "idle"
DisconnectRestarts ==
  cb # "idle" ~> \/ ~s_host_ready
                 \/ RebootLost /\ (~s_active \/ ~watchdog_enabled)
                 \/ s_active /\ conn # 0 /\ s_dev = conn

\* A capture task that hangs in the driver costs the device a restart, unless
\* the watchdog is switched off or the pipeline marked inactive meanwhile.
WedgeRestarts ==
  rd = "stuck" /\ s_active /\ watchdog_enabled ~>
    rd = "none" \/ ~s_active \/ ~watchdog_enabled
===============================================================================
