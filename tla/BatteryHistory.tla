---------------------------- MODULE BatteryHistory ----------------------------
(***************************************************************************)
(* The two optional power monitors (src/src/battery_monitor.c,             *)
(* src/src/mppt_monitor.c), the rolling history of what they report        *)
(* (src/src/battery_history.c) and the web task that shows both            *)
(* (GET /status and GET /battery/history in src/src/web_server.c).         *)
(*                                                                         *)
(* The monitors hand values over in atomics, one store each: every load    *)
(* and every store is a step.  The ring keeps its samples under a mutex;   *)
(* it never looks at their charge, so here a sample in it is its time.     *)
(* app_main starts the tasks one after the other, while those it has       *)
(* started run.                                                            *)
(***************************************************************************)
EXTENDS Integers, Sequences

CONSTANTS
  MaxSamples,  \* BATT_HISTORY_MAX_SAMPLES
  Reports,     \* what the solar controller sends: records of pct and charging
  Voltages,    \* what the INA219 measures, in mV
  Levels,      \* batt_low_mv and batt_full_mv, as a form may set them
  MaxUptime    \* bound: seconds of a session

ASSUME SizesAssumption == MaxSamples \in Nat \ {0} /\ MaxUptime \in Nat
\* 0 is what the atomics hold before a report; without a report of 0, a 0 that is shown
\* or recorded was never reported.
ASSUME ReportsAssumption ==
  /\ \A r \in Reports : r.pct \in 1 .. 100 /\ r.charging \in BOOLEAN
  /\ Voltages \subseteq Nat \ {0} /\ Levels \subseteq Nat

VARIABLES
  main,                                    \* app_main: what it starts next, or "up"
  uptime,                                  \* esp_timer_get_time, in seconds
  mppt, report,                            \* mppt_task: where it is, its line
  mpptPresent, percent, charging,          \* its atomics
  batt, mv,                                \* battery_task: where it is, its reading
  battPresent, voltage,                    \* its atomics
  low, full,                               \* g_config.batt_low_mv, batt_full_mv
  hist, pct, span, stamp,                  \* history_task and its locals
  buf, head, count,                        \* the ring
  web, seen, val, points,                  \* httpd: its request, locals and answer
  log                                      \* history: all samples, the last ones of them

mpptVars == <<mppt, report, mpptPresent, percent, charging>>
battVars == <<batt, mv, battPresent, voltage>>
confVars == <<low, full>>
histVars == <<hist, pct, span, stamp>>
ringVars == <<buf, head, count, log>>
webVars  == <<web, seen, val, points>>
powerVars == <<main, uptime, mpptVars, battVars, confVars, histVars, ringVars, webVars>>

Slots    == 0 .. MaxSamples - 1
Percents == {r.pct : r \in Reports}

PowerTypeOK ==
  /\ main \in {"battery", "mppt", "history", "web", "up"}
  /\ uptime \in 0 .. MaxUptime
  /\ mppt \in {"read", "charging", "present"} /\ report \in Reports \cup {<<>>}
  /\ mpptPresent \in BOOLEAN /\ percent \in {0} \cup Percents /\ charging \in BOOLEAN
  /\ batt \in {"poll", "present"} /\ mv \in {0} \cup Voltages
  /\ battPresent \in BOOLEAN /\ voltage \in {0} \cup Voltages
  /\ low \in Levels /\ full \in Levels
  /\ hist \in {"look", "percent", "charging", "battery", "voltage", "span", "estimate",
               "now", "record"}
  /\ pct \in Int /\ span \in Int /\ stamp \in 0 .. MaxUptime
  /\ buf \in [Slots -> 0 .. MaxUptime] /\ head \in Slots /\ count \in 0 .. MaxSamples
  /\ web \in {"idle", "voltage", "power", "solar", "percent", "told", "copy", "points"}
  /\ seen \in BOOLEAN /\ val \in Nat
  /\ points \in Seq(Nat) /\ log \in Seq(0 .. MaxUptime) /\ Len(log) <= MaxSamples

PowerInit ==
  /\ main = "battery" /\ uptime = 0
  /\ mppt = "read" /\ report = <<>>
  /\ mpptPresent = FALSE /\ percent = 0 /\ charging = FALSE
  /\ batt = "poll" /\ mv = 0 /\ battPresent = FALSE /\ voltage = 0
  /\ low \in Levels /\ full \in Levels
  /\ hist = "look" /\ pct = 0 /\ span = 0 /\ stamp = 0
  /\ buf = [s \in Slots |-> 0] /\ head = 0 /\ count = 0
  /\ web = "idle" /\ seen = FALSE /\ val = 0 /\ points = <<>>
  /\ log = <<>>

Tick ==
  /\ uptime < MaxUptime /\ uptime' = uptime + 1
  /\ UNCHANGED <<main, mpptVars, battVars, confVars, histVars, ringVars, webVars>>

------------------------------------------------------------------------------
(* app_main.                                                                *)

Creates(task, next) ==
  /\ main = task /\ main' = next
  /\ UNCHANGED <<uptime, mpptVars, battVars, confVars, histVars, ringVars, webVars>>

\* Each sets its driver up and creates its task, whether or not there is hardware.
BatteryMonitorInit == Creates("battery", "mppt")
MpptMonitorInit    == Creates("mppt", "history")

\* The ring and its mutex are there before the task, and that before the web server.
BatteryHistoryInit == Creates("history", "web")
WebServerStart     == Creates("web", "up")

\* A restart, also by ESP_ERROR_CHECK where one of the four fails.  The history is lost.
Restarted ==
  /\ main' = "battery" /\ uptime' = 0
  /\ mppt' = "read" /\ report' = <<>>
  /\ mpptPresent' = FALSE /\ percent' = 0 /\ charging' = FALSE
  /\ batt' = "poll" /\ mv' = 0 /\ battPresent' = FALSE /\ voltage' = 0
  /\ low' \in Levels /\ full' \in Levels
  /\ hist' = "look" /\ pct' = 0 /\ span' = 0 /\ stamp' = 0
  /\ buf' = [s \in Slots |-> 0] /\ head' = 0 /\ count' = 0 /\ log' = <<>>
  /\ web' = "idle" /\ seen' = FALSE /\ val' = 0 /\ points' = <<>>

------------------------------------------------------------------------------
(* mppt_task: a line that parses.  Others, and lines too long, change       *)
(* nothing.  The controller never becomes absent again.                     *)

\* MUTANT: present is stored before there is a percent.
ReportPresentFirst(r) ==
  /\ mppt = "read" /\ main \in {"history", "web", "up"}
  /\ mpptPresent' = TRUE /\ report' = r /\ mppt' = "charging"
  /\ UNCHANGED <<main, uptime, percent, charging, battVars, confVars, histVars, ringVars,
                 webVars>>

Report(r) ==
  /\ mppt = "read" /\ main \in {"history", "web", "up"}
  /\ percent' = r.pct /\ report' = r /\ mppt' = "charging"
  /\ UNCHANGED <<main, uptime, mpptPresent, charging, battVars, confVars, histVars, ringVars,
                 webVars>>

ReportCharging ==
  /\ mppt = "charging"
  /\ charging' = report.charging /\ mppt' = "present"
  /\ UNCHANGED <<main, uptime, report, mpptPresent, percent, battVars, confVars, histVars,
                 ringVars, webVars>>

ReportPresent ==
  /\ mppt = "present"
  /\ mpptPresent' = TRUE /\ report' = <<>> /\ mppt' = "read"
  /\ UNCHANGED <<main, uptime, percent, charging, battVars, confVars, histVars, ringVars,
                 webVars>>

------------------------------------------------------------------------------
(* battery_task: a poll that is answered, or not.                           *)

Polled(v) ==
  /\ batt = "poll" /\ main # "battery"
  /\ voltage' = v /\ mv' = v /\ batt' = "present"
  /\ UNCHANGED <<main, uptime, mpptVars, battPresent, confVars, histVars, ringVars, webVars>>

PollPresent ==
  /\ batt = "present"
  /\ battPresent' = TRUE /\ mv' = 0 /\ batt' = "poll"
  /\ UNCHANGED <<main, uptime, mpptVars, voltage, confVars, histVars, ringVars, webVars>>

PollFails ==
  /\ batt = "poll" /\ battPresent
  /\ battPresent' = FALSE
  /\ UNCHANGED <<main, uptime, mpptVars, batt, mv, voltage, confVars, histVars, ringVars,
                 webVars>>

------------------------------------------------------------------------------
(* history_task: once a minute, the solar controller or else the battery.   *)

LookMppt ==
  /\ hist = "look" /\ main \in {"web", "up"}
  /\ hist' = IF mpptPresent THEN "percent" ELSE "battery"
  /\ UNCHANGED <<main, uptime, mpptVars, battVars, confVars, pct, span, stamp, ringVars,
                 webVars>>

LoadPercent ==
  /\ hist = "percent"
  /\ pct' = percent /\ hist' = "charging"
  /\ UNCHANGED <<main, uptime, mpptVars, battVars, confVars, span, stamp, ringVars, webVars>>

\* The flag goes into the sample unread, also where it is another report's.
LoadCharging ==
  /\ hist = "charging" /\ hist' = "now"
  /\ UNCHANGED <<main, uptime, mpptVars, battVars, confVars, pct, span, stamp, ringVars,
                 webVars>>

LookBattery ==
  /\ hist = "battery"
  /\ hist' = IF battPresent THEN "voltage" ELSE "look"
  /\ UNCHANGED <<main, uptime, mpptVars, battVars, confVars, pct, span, stamp, ringVars,
                 webVars>>

LoadVoltage ==
  /\ hist = "voltage"
  /\ pct' = voltage /\ hist' = "span"
  /\ UNCHANGED <<main, uptime, mpptVars, battVars, confVars, span, stamp, ringVars, webVars>>

\* The levels belong to the web task, which may save a form between the reads.
ReadSpan ==
  /\ hist = "span"
  /\ span' = full - low /\ hist' = "estimate"
  /\ UNCHANGED <<main, uptime, mpptVars, battVars, confVars, pct, stamp, ringVars, webVars>>

\* Rounding is C's for what is not clamped anyway.
Charge(v, lo, s) ==
  LET p == ((v - lo) * 100) \div s
  IN IF s <= 0 \/ p < 0 THEN 0 ELSE IF p > 100 THEN 100 ELSE p

Estimate ==
  /\ hist = "estimate"
  /\ pct' = Charge(pct, low, span) /\ span' = 0 /\ hist' = "now"
  /\ UNCHANGED <<main, uptime, mpptVars, battVars, confVars, stamp, ringVars, webVars>>

\* record: the time, and then the mutex.
RecordStamp ==
  /\ hist = "now"
  /\ stamp' = uptime /\ hist' = "record"
  /\ UNCHANGED <<main, uptime, mpptVars, battVars, confVars, pct, span, ringVars, webVars>>

LastOf(s, n) == SubSeq(s, IF Len(s) > n THEN Len(s) - n + 1 ELSE 1, Len(s))

Record ==
  /\ hist = "record"
  /\ buf' = [buf EXCEPT ![head] = stamp]
  /\ head' = (head + 1) % MaxSamples
  /\ count' = IF count < MaxSamples THEN count + 1 ELSE count
  /\ log' = LastOf(Append(log, stamp), MaxSamples)
  /\ hist' = "look" /\ pct' = 0 /\ stamp' = 0
  /\ UNCHANGED <<main, uptime, mpptVars, battVars, confVars, span, webVars>>

------------------------------------------------------------------------------
(* The web task serves one request at a time.                               *)

WebIdle == web = "idle" /\ main = "up"

\* save_post_handler writes its fields one by one.
SaveLow(level) ==
  /\ WebIdle
  /\ low' = level
  /\ UNCHANGED <<main, uptime, mpptVars, battVars, full, histVars, ringVars, webVars>>

SaveFull(level) ==
  /\ WebIdle
  /\ full' = level
  /\ UNCHANGED <<main, uptime, mpptVars, battVars, low, histVars, ringVars, webVars>>

\* status_get_handler, load by load.
StatusBattery ==
  /\ WebIdle
  /\ seen' = battPresent /\ web' = "voltage"
  /\ UNCHANGED <<main, uptime, mpptVars, battVars, confVars, histVars, ringVars, val, points>>

StatusVoltage ==
  /\ web = "voltage"
  /\ val' = voltage /\ web' = "power"
  /\ UNCHANGED <<main, uptime, mpptVars, battVars, confVars, histVars, ringVars, seen, points>>

StatusMppt ==
  /\ web = "power"
  /\ seen' = mpptPresent /\ val' = 0 /\ web' = "percent"
  /\ UNCHANGED <<main, uptime, mpptVars, battVars, confVars, histVars, ringVars, points>>

StatusPercent ==
  /\ web = "percent"
  /\ val' = percent /\ web' = "told"
  /\ UNCHANGED <<main, uptime, mpptVars, battVars, confVars, histVars, ringVars, seen, points>>

StatusTold ==
  /\ web = "told"
  /\ web' = "idle" /\ seen' = FALSE /\ val' = 0
  /\ UNCHANGED <<main, uptime, mpptVars, battVars, confVars, histVars, ringVars, points>>

\* battery_history_copy: the time, and then the mutex.
HistoryAsked ==
  /\ WebIdle
  /\ val' = uptime /\ web' = "copy"
  /\ UNCHANGED <<main, uptime, mpptVars, battVars, confVars, histVars, ringVars, seen, points>>

\* MUTANT: the next slot to write is taken for the oldest, also before it was written.
OldestIsHead == head

Oldest == IF count < MaxSamples THEN 0 ELSE head

\* The latest max samples, oldest first.
Latest(max) ==
  LET n == IF count > max THEN max ELSE count
      start == (Oldest + (count - n)) % MaxSamples
  IN [i \in 1 .. n |-> buf[(start + i - 1) % MaxSamples]]

Age(now, t) == IF now >= t THEN now - t ELSE 0

HistoryCopied ==
  /\ web = "copy"
  /\ LET latest == Latest(MaxSamples)
     IN  points' = [i \in DOMAIN latest |-> Age(val, latest[i])]
  /\ val' = 0 /\ web' = "points"
  /\ UNCHANGED <<main, uptime, mpptVars, battVars, confVars, histVars, ringVars, seen>>

HistoryTold ==
  /\ web = "points"
  /\ web' = "idle" /\ points' = <<>>
  /\ UNCHANGED <<main, uptime, mpptVars, battVars, confVars, histVars, ringVars, seen, val>>

Boot ==
  BatteryMonitorInit \/ MpptMonitorInit \/ BatteryHistoryInit \/ WebServerStart \/ Restarted
Monitors ==
  \/ \E r \in Reports : Report(r)
  \/ ReportCharging \/ ReportPresent
  \/ \E v \in Voltages : Polled(v)
  \/ PollPresent \/ PollFails
History ==
  \/ LookMppt \/ LoadPercent \/ LoadCharging \/ LookBattery \/ LoadVoltage
  \/ ReadSpan \/ Estimate \/ RecordStamp \/ Record
Web ==
  \/ \E level \in Levels : SaveLow(level) \/ SaveFull(level)
  \/ StatusBattery \/ StatusVoltage \/ StatusMppt \/ StatusPercent \/ StatusTold
  \/ HistoryAsked \/ HistoryCopied \/ HistoryTold

PowerNext == Tick \/ Boot \/ Monitors \/ History \/ Web

PowerSpec == PowerInit /\ [][PowerNext]_powerVars

------------------------------------------------------------------------------
(* Properties.                                                              *)

\* What is shown or recorded as measured was measured: nobody takes what an atomic held
\* before its first report for a report, however the loads fall between the stores.
\* And an estimate is a percentage, also between two fields of a form that is saved, or
\* with an empty level above the full one.
ReadingsAreReports ==
  /\ hist = "charging" => pct \in Percents
  /\ hist = "span" => pct \in Voltages
  /\ hist \in {"now", "record"} => pct \in 0 .. 100
  /\ web = "power" /\ seen => val \in Voltages
  /\ web = "told" /\ seen => val \in Percents

\* What may be asked of the ring is the end of the log, in order: before it is full, as
\* it wraps, and for fewer samples than it has.
RingIsLog == \A max \in 1 .. MaxSamples : Latest(max) = LastOf(log, max)

\* battery_history.h:26: oldest first, the first with the largest age, also with a sample
\* that was recorded while the copy waited for the mutex with its now in hand.
OldestFirst == \A i, j \in DOMAIN points : i <= j => points[i] >= points[j]

\* The graph is the end of the log, drawn from its oldest sample to its latest.
GraphIsLog == RingIsLog /\ OldestFirst
===============================================================================
