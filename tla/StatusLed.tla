------------------------------- MODULE StatusLed -------------------------------
(***************************************************************************)
(* What a person at the device sees and does: the BOOT button's gestures   *)
(* (src/src/boot_button.c), the LED (src/src/status_led.c) and the         *)
(* dead-microphone detector that overrides it (src/src/mic_health.c).      *)
(*                                                                         *)
(* s_state is written by four tasks: the WiFi event task, the backup AP's, *)
(* an RTSP client's and the button's, which puts back at the release what  *)
(* it found at the press.  The button is polled every 20 ms; its times are *)
(* counted in polls.                                                       *)
(***************************************************************************)
EXTENDS Integers

CONSTANTS
  HoldPolls,    \* FACTORY_RESET_HOLD_MS, in polls
  WindowPolls,  \* DOUBLE_TAP_WINDOW_MS, in polls
  FlashTicks,   \* white flashes of an acknowledgement: 6
  Timeout,      \* MIC_HEALTH_TIMEOUT_MS, in ticks of a clock
  MaxStreams    \* RTSP_MAX_CLIENTS

ASSUME PollsAssumption ==
  HoldPolls \in Nat \ {0} /\ WindowPolls \in Nat \ {0} /\ FlashTicks \in Nat \ {0}
ASSUME TimeoutAssumption == Timeout \in Nat \ {0} /\ MaxStreams \in Nat

VARIABLES
  pressed, pc, polls, prev_led,  \* GPIO 0; monitor_task and its locals
  led, flash,                    \* s_state and s_flash_ticks
  task, state, shown,            \* led_task: where it is, its copy of s_state, what
                                 \* the pixel shows
  net, ever, ap, streams,        \* s_sta_connected, s_ever_connected, the AP that is
                                 \* up, s_streaming
  mic, started, age, active,     \* i2s_reader_task in mic_health_report, s_started, the
                                 \* age of s_last_live_us, the pipeline's s_active
  \* "none" stands for a local that is out of scope.  History, for the properties:
  last, stale,                   \* the last state set by WiFi or RTSP; has a release
                                 \* put back an older one over it?
  silent,                        \* time since the mic last moved, or since it started
  acked                          \* flashes shown since the last acknowledgement

buttonVars == <<pressed, pc, polls, prev_led>>
netVars    == <<net, ever, ap, streams>>
micVars    == <<mic, started, age, active, silent>>
taskVars   == <<task, state, shown>>
ownerVars  == <<last, stale>>
vars == <<buttonVars, led, flash, taskVars, netVars, micVars, ownerVars, acked>>

States  == {"connecting", "connected", "streaming", "error", "setup"}
Owned   == States \ {"error"}
Colours == {"off", "blue", "green", "green blink", "orange", "red", "magenta", "white"}

\* The button's task between the look at the LED and its restoration.
InPress == pc \in {"register", "held", "reset"}

TypeOK ==
  /\ pressed \in BOOLEAN
  /\ pc \in {"poll", "register", "held", "reset", "window", "second", "double",
             "survey", "flash"}
  /\ polls \in 0 .. HoldPolls + WindowPolls
  /\ prev_led \in States \cup {"none"} /\ led \in States
  /\ flash \in 0 .. FlashTicks /\ acked \in 0 .. FlashTicks
  /\ task \in {"look", "flash", "started", "age", "active"} /\ shown \in Colours
  /\ state \in States \cup {"none"}
  /\ net \in BOOLEAN /\ ever \in BOOLEAN
  /\ ap \in {"none", "backup", "setup"} /\ streams \in 0 .. MaxStreams
  /\ mic \in {"idle", "mark", "live", "flat"} /\ started \in BOOLEAN
  /\ age \in 0 .. Timeout /\ silent \in 0 .. Timeout /\ active \in BOOLEAN
  /\ last \in Owned /\ stale \in BOOLEAN

Init ==
  /\ pressed = FALSE /\ pc = "poll" /\ polls = 0 /\ prev_led = "none"
  /\ led = "connecting" /\ flash = 0
  /\ task = "look" /\ state = "none" /\ shown = "off"
  /\ net = FALSE /\ ever = FALSE /\ ap = "none" /\ streams = 0
  /\ mic = "idle" /\ started = FALSE /\ age = 0 /\ active = FALSE
  /\ last = "connecting" /\ stale = FALSE /\ silent = 0 /\ acked = FlashTicks

\* esp_restart, for whatever reason.
Restart ==
  /\ pressed' \in BOOLEAN /\ pc' = "poll" /\ polls' = 0 /\ prev_led' = "none"
  /\ led' = "connecting" /\ flash' = 0
  /\ task' = "look" /\ state' = "none" /\ shown' = "off"
  /\ net' = FALSE /\ ever' = FALSE /\ ap' = "none" /\ streams' = 0
  /\ mic' = "idle" /\ started' = FALSE /\ age' = 0 /\ active' = FALSE
  /\ last' = "connecting" /\ stale' = FALSE /\ silent' = 0 /\ acked' = FlashTicks

------------------------------------------------------------------------------
(* The owners of the LED's state: wifi_manager.c and rtsp_server.c.  What   *)
(* an owner looks at and its write are one step here.                       *)

OwnerSets(s) ==
  /\ led' = s /\ last' = s
  /\ stale' = InPress

\* IP_EVENT_STA_GOT_IP, also after roaming; a backup AP goes down with it.
GotIp ==
  /\ ap # "setup"
  /\ net' = TRUE /\ ever' = TRUE /\ ap' = "none"
  /\ OwnerSets("connected")
  /\ UNCHANGED <<buttonVars, flash, taskVars, streams, micVars, acked>>

\* A drop, or another attempt that fails: under a backup AP the LED stays.
StaDisconnected ==
  /\ ever
  /\ net' = FALSE
  /\ IF ap = "backup" THEN UNCHANGED <<led, ownerVars>> ELSE OwnerSets("connecting")
  /\ UNCHANGED <<buttonVars, flash, taskVars, ever, ap, streams, micVars, acked>>

\* enter_ap_mode: no network to join.  Over a backup AP it leaves s_fallback_mode set.
EnterApMode ==
  /\ ~ever /\ ap # "setup"
  /\ ap' = IF ap = "backup" THEN "backup" ELSE "setup"
  /\ OwnerSets("setup")
  /\ UNCHANGED <<buttonVars, flash, taskVars, net, ever, streams, micVars, acked>>

\* enter_fallback_ap_mode by wifi_fallback_task: its survey takes seconds, and WiFi may
\* be back or the AP up by its end.
FallbackTask ==
  /\ ever
  /\ ap' = "backup"
  /\ OwnerSets("setup")
  /\ UNCHANGED <<buttonVars, flash, taskVars, net, ever, streams, micVars, acked>>

\* led_refresh, which does not ask about WiFi.
LedRefresh == OwnerSets(IF streams' > 0 THEN "streaming" ELSE "connected")

Play ==
  /\ ever /\ streams < MaxStreams
  /\ streams' = streams + 1
  /\ LedRefresh
  /\ UNCHANGED <<buttonVars, flash, taskVars, net, ever, ap, micVars, acked>>

\* stop_streaming, of a client that streams or of one that never did.
StopStreaming ==
  /\ ever
  /\ \/ streams > 0 /\ streams' = streams - 1
     \/ UNCHANGED streams
  /\ LedRefresh
  /\ UNCHANGED <<buttonVars, flash, taskVars, net, ever, ap, micVars, acked>>

------------------------------------------------------------------------------
(* monitor_task.                                                            *)

\* The finger comes down or goes up at any time.
Finger ==
  /\ pressed' = ~pressed
  /\ UNCHANGED <<pc, polls, prev_led, led, flash, taskVars, netVars, micVars,
                 ownerVars, acked>>

PressSeen ==
  /\ pc = "poll" /\ pressed
  /\ prev_led' = led /\ pc' = "register"
  /\ UNCHANGED <<pressed, polls, led, flash, taskVars, netVars, micVars, ownerVars,
                 acked>>

\* A write of an owner since the look is lost with this one.
PressRegisters ==
  /\ pc = "register"
  /\ led' = "error" /\ polls' = 0 /\ pc' = "held"
  /\ UNCHANGED <<pressed, prev_led, flash, taskVars, netVars, micVars, ownerVars,
                 acked>>

HeldPoll ==
  /\ pc = "held" /\ pressed
  /\ \/ polls >= HoldPolls /\ pc' = "reset" /\ UNCHANGED polls
     \/ polls < HoldPolls /\ polls' = polls + 1 /\ UNCHANGED pc
  /\ UNCHANGED <<pressed, prev_led, led, flash, taskVars, netVars, micVars,
                 ownerVars, acked>>

\* The configuration is erased, and after 200 ms the device restarts.
HoldResets == pc = "reset" /\ Restart

\* MUTANT: the state found at the press is not put back.
ReleasedKeepsError ==
  /\ pc = "held" /\ ~pressed
  /\ polls' = 0 /\ pc' = "window" /\ prev_led' = "none"
  /\ UNCHANGED <<pressed, led, flash, taskVars, netVars, micVars, ownerVars, acked>>

Released ==
  /\ pc = "held" /\ ~pressed
  /\ led' = prev_led /\ prev_led' = "none"
  /\ polls' = 0 /\ pc' = "window"
  /\ UNCHANGED <<pressed, flash, taskVars, netVars, micVars, ownerVars,
                 acked>>

\* wait_for_second_tap: poll after poll, until the window is over.
WindowPoll ==
  /\ pc = "window"
  /\ \/ polls < WindowPolls /\ pressed /\ pc' = "second" /\ polls' = 0
     \/ polls < WindowPolls /\ ~pressed /\ polls' = polls + 1 /\ UNCHANGED pc
     \/ polls >= WindowPolls /\ ap # "none" /\ pc' = "flash" /\ polls' = 0
     \/ polls >= WindowPolls /\ ap = "none" /\ pc' = "poll" /\ polls' = 0
  /\ UNCHANGED <<pressed, prev_led, led, flash, taskVars, netVars, micVars,
                 ownerVars, acked>>

\* However long the second press lasts, its release ends it.
SecondReleased ==
  /\ pc = "second" /\ ~pressed /\ pc' = "double"
  /\ UNCHANGED <<pressed, polls, prev_led, led, flash, taskVars, netVars, micVars,
                 ownerVars, acked>>

\* wifi_manager_toggle_fallback_ap: off at once, on after a survey, nothing in the
\* setup AP.
ToggleOff ==
  /\ pc = "double" /\ ap = "backup" /\ pc' = "flash"
  /\ ap' = "none"
  /\ OwnerSets(IF net THEN "connected" ELSE "connecting")
  /\ UNCHANGED <<pressed, polls, prev_led, flash, taskVars, net, ever, streams,
                 micVars, acked>>

ToggleElse ==
  /\ pc = "double" /\ ap # "backup"
  /\ pc' = IF ap = "none" THEN "survey" ELSE "flash"
  /\ UNCHANGED <<pressed, polls, prev_led, led, flash, taskVars, netVars, micVars,
                 ownerVars, acked>>

ToggleSurveyed ==
  /\ pc = "survey" /\ pc' = "flash"
  /\ ap' = IF ap = "setup" THEN "setup" ELSE "backup"
  /\ OwnerSets("setup")
  /\ UNCHANGED <<pressed, polls, prev_led, flash, taskVars, net, ever, streams,
                 micVars, acked>>

\* status_led_flash; a single tap has also moved the AP to its next channel.
Flash ==
  /\ pc = "flash" /\ pc' = "poll"
  /\ flash' = FlashTicks /\ acked' = 0
  /\ UNCHANGED <<pressed, polls, prev_led, led, taskVars, netVars, micVars,
                 ownerVars>>

------------------------------------------------------------------------------
(* mic_health_report, by the capture task, and time.                        *)

PipelineActive ==
  /\ mic = "idle"
  /\ active' = ~active
  /\ UNCHANGED <<buttonVars, led, flash, taskVars, netVars, mic, started, age,
                 silent, ownerVars, acked>>

\* MUTANT: s_started is set before there is a time in s_last_live_us.
FirstChunkMarksFirst ==
  /\ mic = "idle" /\ active /\ ~started
  /\ started' = TRUE /\ silent' = 0 /\ mic' = "live"
  /\ UNCHANGED <<buttonVars, led, flash, taskVars, netVars, age, active, ownerVars,
                 acked>>

FirstChunk ==
  /\ mic = "idle" /\ active /\ ~started
  /\ age' = 0 /\ silent' = 0 /\ mic' = "mark"
  /\ UNCHANGED <<buttonVars, led, flash, taskVars, netVars, started, active,
                 ownerVars, acked>>

FirstChunkMarks ==
  /\ mic = "mark"
  /\ started' = TRUE /\ mic' \in {"live", "flat"}
  /\ UNCHANGED <<buttonVars, led, flash, taskVars, netVars, age, active, silent,
                 ownerVars, acked>>

Chunk ==
  /\ mic = "idle" /\ active /\ started
  /\ mic' \in {"live", "flat"}
  /\ UNCHANGED <<buttonVars, led, flash, taskVars, netVars, started, age, active,
                 silent, ownerVars, acked>>

Reported ==
  /\ \/ mic = "live" /\ age' = 0 /\ silent' = 0
     \/ mic = "flat" /\ UNCHANGED <<age, silent>>
  /\ mic' = "idle"
  /\ UNCHANGED <<buttonVars, led, flash, taskVars, netVars, started, active,
                 ownerVars, acked>>

\* Times beyond Timeout need not be told apart.
Tick ==
  /\ age' = IF age < Timeout THEN age + 1 ELSE age
  /\ silent' = IF silent < Timeout THEN silent + 1 ELSE silent
  /\ UNCHANGED <<buttonVars, led, flash, taskVars, netVars, mic, started, active,
                 ownerVars, acked>>

------------------------------------------------------------------------------
(* led_task.                                                                *)

Pattern(s) ==
  CASE s = "connecting" -> "blue"
    [] s = "connected"  -> "green"
    [] s = "streaming"  -> "green blink"
    [] s = "error"      -> "orange"
    [] s = "setup"      -> "red"

Show(c) == shown' = c /\ task' = "look" /\ state' = "none"

\* A blink lights the pixel, or darkens it, every tenth pass.
Blink(c) == shown' \in {c, "off", shown} /\ task' = "look" /\ state' = "none"

Render(s) == IF s = "connected" THEN Show("green") ELSE Blink(Pattern(s))

\* s_flash_ticks, then s_state: only "all is well" asks about the mic.
Look ==
  /\ task = "look"
  /\ \/ flash > 0 /\ shown' = "white" /\ task' = "flash" /\ UNCHANGED state
     \/ flash = 0 /\ led \in {"connected", "streaming"}
        /\ state' = led /\ task' = "started" /\ UNCHANGED shown
     \/ flash = 0 /\ led \notin {"connected", "streaming"}
        /\ Render(led)
  /\ UNCHANGED <<buttonVars, led, flash, netVars, micVars, ownerVars, acked>>

\* MUTANT: what was left when the flash began is stored.
FlashDoneStores ==
  /\ task = "flash" /\ Show("off")
  /\ flash' = 0 /\ acked' = acked + 1
  /\ UNCHANGED <<buttonVars, led, netVars, micVars, ownerVars>>

\* The decrement is of what the counter is by then.
FlashDone ==
  /\ task = "flash" /\ Show("off")
  /\ flash' = flash - 1 /\ acked' = acked + 1
  /\ UNCHANGED <<buttonVars, led, netVars, micVars, ownerVars>>

\* mic_health_ok: s_started, then the age of s_last_live_us.
AskStarted ==
  /\ task = "started"
  /\ task' = IF started THEN "age" ELSE "active"
  /\ UNCHANGED <<buttonVars, led, flash, state, shown, netVars, micVars, ownerVars,
                 acked>>

AskAge ==
  /\ task = "age"
  /\ \/ age >= Timeout /\ Blink("magenta")
     \/ age < Timeout /\ task' = "active" /\ UNCHANGED <<state, shown>>
  /\ UNCHANGED <<buttonVars, led, flash, netVars, micVars, ownerVars, acked>>

\* audio_pipeline_is_active.
AskActive ==
  /\ task = "active" /\ IF active THEN Render(state) ELSE Blink("magenta")
  /\ UNCHANGED <<buttonVars, led, flash, netVars, micVars, ownerVars, acked>>

Button ==
  \/ PressSeen \/ PressRegisters \/ HeldPoll \/ HoldResets \/ Released
  \/ WindowPoll \/ SecondReleased \/ ToggleOff \/ ToggleElse \/ ToggleSurveyed \/ Flash
LedTask == Look \/ FlashDone \/ AskStarted \/ AskAge \/ AskActive
Owners ==
  \/ GotIp \/ StaDisconnected \/ EnterApMode \/ FallbackTask \/ Play \/ StopStreaming
Mic == PipelineActive \/ FirstChunk \/ FirstChunkMarks \/ Chunk \/ Reported

Next == Finger \/ Button \/ LedTask \/ Owners \/ Mic \/ Tick \/ Restart

Spec == Init /\ [][Next]_vars

------------------------------------------------------------------------------
(* Properties.                                                              *)

\* Orange is only ever the acknowledgement of a press that is still going on: no
\* interleaving of a press with the owners' writes leaves it behind, and a press
\* never takes another's orange for the state to put back.
ErrorIsAPress ==
  /\ led = "error" => pc \in {"held", "reset"}
  /\ pc \in {"register", "held"} => prev_led # "error"

\* Outside a press the LED has the state last set by WiFi or RTSP, but where that was
\* set during a press: then the release has put back an older one, and the LED is
\* wrong until the next write of an owner (boot_button.c:35).
LastWriteShows == ~InPress /\ ~stale => led = last

\* A press takes the LED and gives it back.
PressBorrowsLed == ErrorIsAPress /\ LastWriteShows

\* Magenta begins only where the mic has been flat for the whole timeout, or there is
\* no running pipeline, whatever the first chunk after a late start, its two stores
\* and the LED task's two loads do to each other.
MagentaMeansSilent ==
  [][shown' = "magenta" /\ shown # "magenta" => silent >= Timeout \/ ~active]_vars

\* A gesture is acknowledged: the flashes shown since and those yet to come are all it
\* asked for, the one on show when it comes counted, and the counter never drops
\* below 0, also when it comes while an earlier acknowledgement is still shown.
FlashAcknowledged == flash + acked = FlashTicks /\ flash >= 0
===============================================================================
