---------------------------- MODULE ScheduledReboot ----------------------------
(***************************************************************************)
(* The daily reboot (src/src/auto_reboot.c) and the clock it goes by       *)
(* (src/src/time_sync.c): a task that sleeps a minute and then compares    *)
(* the local minute of the day with the configured one.                    *)
(*                                                                         *)
(* The system clock is right once SNTP has answered, and means nothing     *)
(* before; esp_restart may or may not keep it.  now is the true time of    *)
(* day.  The sleep is relative to the check before it, and the check may   *)
(* be late: others run, or its own loop took a while.                      *)
(***************************************************************************)
EXTENDS Integers

CONSTANTS
  MinuteTicks,  \* ticks of now in a minute
  DayMinutes,   \* minutes of a day: 1440
  Offsets       \* utc_offset_min, as a form may set it

\* A day of one minute would have it follow itself.
ASSUME ClockAssumption ==
  MinuteTicks \in Nat \ {0} /\ DayMinutes \in Nat /\ DayMinutes > 1 /\ Offsets \subseteq Int

VARIABLES
  now,                      \* UTC, in ticks since midnight
  sane,                     \* the system clock is past TIME_SYNC_SANE_YEAR
  sntp,                     \* time_sync_start was called: not in the setup AP
  web,                      \* httpd in ntp_sync_post_handler
  enabled, target, offset,  \* g_config.auto_reboot_enabled, auto_reboot_time_min,
                            \* utc_offset_min
  up, sleep,                \* auto_reboot_task runs; what is left of its delay: at 0
                            \* the check is due
  fired,                    \* history: its reboots in this minute
  armed                     \* history: for all of this minute it has run, with its
                            \* settings as they are and a clock

confVars == <<enabled, target, offset>>
taskVars == <<up, sleep>>
rebootVars == <<now, sane, sntp, web, confVars, taskVars, fired, armed>>

Minute      == now \div MinuteTicks
LocalMinute == (Minute + offset) % DayMinutes

RebootTypeOK ==
  /\ now \in 0 .. MinuteTicks * DayMinutes - 1
  /\ sane \in BOOLEAN /\ sntp \in BOOLEAN /\ web \in {"idle", "sync"}
  /\ enabled \in BOOLEAN /\ target \in 0 .. DayMinutes - 1 /\ offset \in Offsets
  /\ up \in BOOLEAN /\ sleep \in 0 .. MinuteTicks
  /\ fired \in 0 .. 2 /\ armed \in BOOLEAN

RebootInit ==
  /\ now \in 0 .. MinuteTicks * DayMinutes - 1
  /\ sane = FALSE /\ sntp = FALSE /\ web = "idle"
  /\ enabled \in BOOLEAN /\ target \in 0 .. DayMinutes - 1 /\ offset \in Offsets
  /\ up = FALSE /\ sleep = 0 /\ fired = 0 /\ armed = FALSE

\* A check that is due may be passed over, for any time.
Tick ==
  /\ now' = (now + 1) % (MinuteTicks * DayMinutes)
  /\ sleep' = IF up /\ sleep > 0 THEN sleep - 1 ELSE sleep
  /\ IF Minute' = Minute THEN UNCHANGED <<fired, armed>>
                         ELSE fired' = 0 /\ armed' = (up /\ sane /\ enabled)
  /\ UNCHANGED <<sane, sntp, web, confVars, up>>

\* MUTANT: the first look comes before the first sleep.
StartedLooks ==
  /\ ~up
  /\ up' = TRUE /\ sleep' = 0
  /\ UNCHANGED <<now, sane, sntp, web, confVars, fired, armed>>

\* auto_reboot_start, however long or short the start-up was.
Started ==
  /\ ~up
  /\ up' = TRUE /\ sleep' = MinuteTicks
  /\ UNCHANGED <<now, sane, sntp, web, confVars, fired, armed>>

\* app_main, next, unless it broadcasts the setup AP.
TimeSyncStart ==
  /\ up /\ ~sntp
  /\ sntp' = TRUE
  /\ UNCHANGED <<now, sane, web, confVars, taskVars, fired, armed>>

SntpReply ==
  /\ sntp
  /\ sane' = TRUE /\ web' = "idle"
  /\ UNCHANGED <<now, sntp, confVars, taskVars, fired, armed>>

\* Sync Now waits for a reply, or 5 s; without a client it fails at once.
SyncNow ==
  /\ up /\ web = "idle" /\ sntp
  /\ web' = "sync"
  /\ UNCHANGED <<now, sane, sntp, confVars, taskVars, fired, armed>>

SyncTimesOut ==
  /\ web = "sync"
  /\ web' = "idle"
  /\ UNCHANGED <<now, sane, sntp, confVars, taskVars, fired, armed>>

\* A form of the settings page; the one web task is not waiting for a reply.
Configure(e, t, o) ==
  /\ up /\ web = "idle"
  /\ enabled' = e /\ target' = t /\ offset' = o
  /\ armed' = (armed /\ UNCHANGED confVars)
  /\ UNCHANGED <<now, sane, sntp, web, taskVars, fired>>

DeviceRestarted ==
  /\ up' = FALSE /\ sleep' = 0 /\ sntp' = FALSE /\ web' = "idle" /\ armed' = FALSE
  /\ sane' \in {sane, FALSE}
  /\ UNCHANGED <<now, confVars>>

\* MUTANT: utc_offset_min is forgotten.
UtcMinuteIsIt == enabled /\ sane /\ Minute = target

IsIt == enabled /\ sane /\ LocalMinute = target

CheckPasses ==
  /\ up /\ sleep = 0 /\ ~IsIt
  /\ sleep' = MinuteTicks
  /\ UNCHANGED <<now, sane, sntp, web, confVars, up, fired, armed>>

CheckReboots ==
  /\ up /\ sleep = 0 /\ IsIt
  /\ fired' = IF fired < 2 THEN fired + 1 ELSE fired
  /\ DeviceRestarted

\* Any other restart.
Restart == DeviceRestarted /\ UNCHANGED fired

RebootNext ==
  \/ Tick \/ Started \/ TimeSyncStart \/ SntpReply \/ SyncNow \/ SyncTimesOut
  \/ \E e \in BOOLEAN, t \in 0 .. DayMinutes - 1, o \in Offsets : Configure(e, t, o)
  \/ CheckPasses \/ CheckReboots \/ Restart

RebootSpec == RebootInit /\ [][RebootNext]_rebootVars

------------------------------------------------------------------------------
(* Properties.                                                              *)

\* No reboot loop: however fast the device is back, however late its checks, and if its
\* clock is kept or at once set again, the minute it rebooted in does not reboot it again.
RebootsOnce == fired <= 1

\* The configured minute is missed in one way only, by a device that was up with its
\* settings, and a clock, for all of it: with a check due in it that was not run before
\* its end.  So wherever in the minute the checks fall, and however far late ones have
\* moved them, each minute has a check, and no other delay than that one's loses it.
MinuteKept ==
  [][Minute' # Minute /\ armed /\ LocalMinute = target => up /\ sleep = 0]_rebootVars
===============================================================================
