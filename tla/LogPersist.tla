------------------------------- MODULE LogPersist -------------------------------
(***************************************************************************)
(* src/src/log_persist.c: the live log mirrored to flash, its two callers  *)
(* (app_main at boot, the web server's toggle), the task that writes the   *)
(* file, and the /logs tabs of src/src/web_server.c that compete with it   *)
(* for the reader slots.  The log itself is LogTail, which LogStream       *)
(* implements; power may go between any two steps.                         *)
(*                                                                         *)
(* A session is what one flush task mirrors, a log file is known by the    *)
(* session it belongs to.  remove and rename may be refused, and nobody    *)
(* looks.  NVS writes succeed (the result of app_config_save is ignored),  *)
(* and the file system is not corrupted (a corrupted one is formatted, and *)
(* both files are gone).                                                   *)
(***************************************************************************)
EXTENDS LogTail

CONSTANTS
  LOG_PERSIST_MAX_BYTES,
  MaxRead,        \* sizeof(buf) in flush_task
  MaxTotal,       \* BOUND: bytes logged between two boots
  MaxSessions     \* BOUND: sessions

ASSUME ReadersAssumption == Readers \subseteq Nat
ASSUME BoundsAssumption == MaxTotal \in Nat /\ MaxSessions \in Nat
ASSUME CapAssumption == LOG_PERSIST_MAX_BYTES \in Nat \ {0}
ASSUME ReadAssumption == MaxRead \in Nat \ {0}

VARIABLES
  cfg, nvs,                    \* log_persist_enabled, in g_config and in flash
  s_active, s_stop_requested, s_reader, s_written,
  s_fp, mounted,               \* is the file open, is SPIFFS mounted?
  s_stopped_sem,               \* has flush_task given it?
  current, previous,           \* the log files
  set,                         \* where log_persist_set_enabled is, or "idle"
  booting,                     \* is its caller app_main?
  flush, got,                  \* where flush_task is, what it has read
  tab,                         \* of each reader slot: the /logs tab that has it
  session, tries,              \* auxiliary: sessions so far, attempts to begin
                               \* another since the last one began, and has
  refused                      \* flash refused one of them a remove or rename?

logVars   == <<total, next>>
fileVars  == <<s_fp, mounted, current, previous>>
flagVars  == <<cfg, nvs, s_active>>
flushVars == <<flush, got, s_stop_requested, s_written, s_stopped_sem>>
ghosts    == <<session, tries, refused>>
vars == <<logVars, fileVars, flagVars, flushVars, s_reader, set, booting, tab, ghosts>>

NoReader == -1
NoFile == -1
Blank == 0               \* a new file of no session yet
Files == {NoFile, Blank} \cup 1 .. MaxSessions

\* "orphan": the browser is gone, and the task has not noticed.
TabStates == {"none", "open", "orphan"}

SetPCs == {"boot", "idle", "mount", "remove", "rename", "open", "subscribe",
           "spawn", "spawned", "failed", "wait", "save"}
FlushPCs == {"none", "top", "write", "unsubscribe", "close", "give"}

\* The file outgrows its limit by less than one read.
TypeOK ==
  /\ total \in 0 .. MaxTotal /\ next \in [Readers -> {NoPos} \cup 0 .. MaxTotal]
  /\ {cfg, nvs, s_active, s_stop_requested, s_fp, mounted, s_stopped_sem,
      booting, refused} \subseteq BOOLEAN
  /\ s_reader \in {NoReader} \cup Readers
  /\ s_written \in 0 .. LOG_PERSIST_MAX_BYTES + MaxRead - 1
  /\ current \in Files /\ previous \in Files
  /\ set \in SetPCs /\ flush \in FlushPCs /\ got \in 0 .. MaxRead
  /\ tab \in [Readers -> TabStates]
  /\ session \in 0 .. MaxSessions /\ tries \in 0 .. 2

\* What a restart leaves: flash, and a configuration read from it.
Fresh ==
  /\ total' = 0 /\ next' = [r \in Readers |-> NoPos]
  /\ cfg' = nvs /\ s_active' = FALSE /\ s_stop_requested' = FALSE
  /\ s_reader' = NoReader /\ s_written' = 0 /\ s_fp' = FALSE /\ mounted' = FALSE
  /\ s_stopped_sem' = FALSE /\ set' = "boot" /\ booting' = TRUE
  /\ flush' = "none" /\ got' = 0 /\ tab' = [r \in Readers |-> "none"]

Init ==
  /\ TailInit
  /\ cfg = FALSE /\ nvs = FALSE /\ s_active = FALSE /\ s_stop_requested = FALSE
  /\ s_reader = NoReader /\ s_written = 0 /\ s_fp = FALSE /\ mounted = FALSE
  /\ s_stopped_sem = FALSE /\ set = "boot" /\ booting = TRUE
  /\ flush = "none" /\ got = 0 /\ tab = [r \in Readers |-> "none"]
  /\ current = NoFile /\ previous = NoFile
  /\ session = 0 /\ tries = 0 /\ refused = FALSE

Restart == Fresh /\ UNCHANGED <<nvs, current, previous, ghosts>>

-------------------------------------------------------------------------------
(* log_persist_set_enabled and its callers.                                  *)

At(l) == set = l
Goto(l) == set' = l

\* log_persist_init.
BootBegins ==
  /\ At("boot")
  /\ \/ cfg /\ Goto("mount") /\ UNCHANGED booting
     \/ ~cfg /\ Goto("idle") /\ booting' = FALSE
  /\ UNCHANGED <<logVars, fileVars, flagVars, flushVars, s_reader, tab, ghosts>>

\* logs_persist_toggle_post_handler.  StateSaved is why enabling never finds
\* s_active set, nor disabling unset.
ToggleOn ==
  /\ At("idle") /\ ~cfg /\ ~s_active /\ Goto("mount")
  /\ UNCHANGED <<logVars, fileVars, flagVars, flushVars, s_reader, booting, tab,
                 ghosts>>

ToggleOff ==
  /\ At("idle") /\ cfg /\ s_active /\ Goto("wait")
  /\ s_stop_requested' = TRUE
  /\ UNCHANGED <<logVars, fileVars, flagVars, flush, got, s_written, s_stopped_sem,
                 s_reader, booting, tab, ghosts>>

Mount ==
  /\ At("mount")
  /\ \/ mounted' = TRUE /\ Goto("remove")
     \/ UNCHANGED mounted /\ Goto("failed")
  /\ UNCHANGED <<logVars, s_fp, current, previous, flagVars, flushVars, s_reader,
                 booting, tab, ghosts>>

\* MUTANT: the older log is left to rename to replace.
NotRemoved(p) == p

Removed(p) == NoFile

\* The result of remove is ignored: nothing is there, or flash refuses.
Remove ==
  /\ At("remove") /\ Goto("rename")
  /\ \/ previous' = Removed(previous) /\ UNCHANGED refused
     \/ previous # NoFile /\ refused' = TRUE /\ UNCHANGED previous
  /\ tries' = IF tries < 2 THEN tries + 1 ELSE 2
  /\ UNCHANGED <<logVars, s_fp, mounted, current, flagVars, flushVars, s_reader,
                 booting, tab, session>>

\* SPIFFS does not rename to a name in use.
Rename(c, p) ==
  \/ /\ c = NoFile \/ p # NoFile
     /\ UNCHANGED <<current, previous, refused>>
  \/ /\ c # NoFile /\ p = NoFile
     /\ previous' = c /\ current' = NoFile /\ UNCHANGED refused
  \/ /\ c # NoFile /\ p = NoFile
     /\ refused' = TRUE /\ UNCHANGED <<current, previous>>

\* The result of rename is ignored too.
RenameStep ==
  /\ At("rename") /\ Goto("open")
  /\ Rename(current, previous)
  /\ UNCHANGED <<logVars, s_fp, mounted, flagVars, flushVars, s_reader, booting,
                 tab, session, tries>>

\* MUTANT: the error path leaves SPIFFS mounted.
UndoKeepsMount == s_fp' = FALSE /\ UNCHANGED mounted

\* How an error path gives back the file and the file system.
Undo == s_fp' = FALSE /\ mounted' = FALSE

Open ==
  /\ At("open")
  /\ \/ /\ current' = Blank /\ s_fp' = TRUE /\ s_written' = 0
        /\ Goto("subscribe") /\ UNCHANGED mounted
     \/ /\ Undo /\ Goto("failed") /\ UNCHANGED <<current, s_written>>
  /\ UNCHANGED <<logVars, previous, flagVars, flush, got, s_stop_requested,
                 s_stopped_sem, s_reader, booting, tab, ghosts>>

\* log_stream_subscribe takes the first free slot.
FirstFree(r) == next[r] = NoPos /\ \A q \in Readers : q < r => next[q] # NoPos

SubscribeStep ==
  /\ At("subscribe")
  /\ \/ \E r \in Readers :
          /\ FirstFree(r) /\ Subscribe(r) /\ s_reader' = r
          /\ s_stop_requested' = FALSE
          /\ Goto("spawn") /\ UNCHANGED <<s_fp, mounted>>
     \/ /\ \A r \in Readers : ~FirstFree(r)
        /\ Undo /\ Goto("failed") /\ UNCHANGED <<logVars, s_reader, s_stop_requested>>
  /\ UNCHANGED <<current, previous, flagVars, flush, got, s_written, s_stopped_sem,
                 booting, tab, ghosts>>

Spawn ==
  /\ At("spawn") /\ session < MaxSessions
  /\ flush' = "top" /\ Goto("spawned")
  /\ session' = session + 1 /\ current' = session + 1
  /\ tries' = 0 /\ refused' = FALSE
  /\ UNCHANGED <<logVars, s_fp, mounted, previous, flagVars, got, s_stop_requested,
                 s_written, s_stopped_sem, s_reader, booting, tab>>

SpawnFails ==
  /\ At("spawn")
  /\ Unsubscribe(s_reader) /\ s_reader' = NoReader
  /\ Undo /\ Goto("failed")
  /\ UNCHANGED <<current, previous, flagVars, flushVars, booting, tab, ghosts>>

Spawned ==
  /\ At("spawned") /\ Goto("save")
  /\ s_active' = TRUE /\ cfg' = TRUE
  /\ UNCHANGED <<logVars, fileVars, nvs, flushVars, s_reader, booting, tab, ghosts>>

\* MUTANT: what the boot has given up stays enabled in flash.
BootGivesUpUnsaved == cfg' = FALSE /\ Goto("idle") /\ booting' = FALSE

BootGivesUp == cfg' = FALSE /\ Goto("save") /\ UNCHANGED booting

Failed ==
  /\ At("failed")
  /\ \/ booting /\ BootGivesUp
     \/ ~booting /\ Goto("idle") /\ UNCHANGED <<cfg, booting>>
  /\ UNCHANGED <<logVars, fileVars, nvs, s_active, flushVars, s_reader, tab, ghosts>>

\* MUTANT: does not wait for the flush task.
MayGoOnAlways == TRUE

MayGoOn == s_stopped_sem

Stopped ==
  /\ At("wait") /\ MayGoOn /\ Goto("save")
  /\ s_stopped_sem' = FALSE
  /\ s_active' = FALSE /\ cfg' = FALSE
  /\ UNCHANGED <<logVars, fileVars, nvs, flush, got, s_stop_requested, s_written,
                 s_reader, booting, tab, ghosts>>

Save ==
  /\ At("save") /\ Goto("idle")
  /\ nvs' = cfg /\ booting' = FALSE
  /\ UNCHANGED <<logVars, fileVars, cfg, s_active, flushVars, s_reader, tab, ghosts>>

Setter ==
  \/ BootBegins \/ Mount \/ Remove \/ RenameStep \/ Open \/ SubscribeStep
  \/ Spawn \/ SpawnFails \/ Spawned \/ Failed \/ Stopped \/ Save

-------------------------------------------------------------------------------
(* flush_task.                                                               *)

\* MUTANT: looks for a stop request only while there is room in the file.
FlushStopsAtCapNot == s_stop_requested /\ s_written < LOG_PERSIST_MAX_BYTES

FlushStops == s_stop_requested

Room == s_written < LOG_PERSIST_MAX_BYTES

FlushEnds ==
  /\ flush = "top" /\ FlushStops /\ flush' = "unsubscribe"
  /\ UNCHANGED <<logVars, fileVars, flagVars, got, s_stop_requested, s_written,
                 s_stopped_sem, s_reader, set, booting, tab, ghosts>>

\* log_stream_read, overtaken or not.
FlushReads ==
  /\ flush = "top" /\ ~s_stop_requested /\ Room
  /\ \/ Skip(s_reader) /\ UNCHANGED <<flush, got>>
     \/ \E k \in 1 .. MaxRead :
          Deliver(s_reader, k) /\ got' = k /\ flush' = "write"
  /\ UNCHANGED <<fileVars, flagVars, s_stop_requested, s_written, s_stopped_sem,
                 s_reader, set, booting, tab, ghosts>>

FlushWrites ==
  /\ flush = "write" /\ flush' = "top"
  /\ s_written' = s_written + got /\ got' = 0
  /\ UNCHANGED <<logVars, fileVars, flagVars, s_stop_requested, s_stopped_sem,
                 s_reader, set, booting, tab, ghosts>>

FlushUnsubscribes ==
  /\ flush = "unsubscribe" /\ flush' = "close"
  /\ Unsubscribe(s_reader) /\ s_reader' = NoReader
  /\ UNCHANGED <<fileVars, flagVars, got, s_stop_requested, s_written, s_stopped_sem,
                 set, booting, tab, ghosts>>

FlushCloses ==
  /\ flush = "close" /\ flush' = "give"
  /\ s_fp' = FALSE /\ mounted' = FALSE
  /\ UNCHANGED <<logVars, current, previous, flagVars, got, s_stop_requested,
                 s_written, s_stopped_sem, s_reader, set, booting, tab, ghosts>>

FlushGives ==
  /\ flush = "give" /\ flush' = "none"
  /\ s_stopped_sem' = TRUE
  /\ UNCHANGED <<logVars, fileVars, flagVars, got, s_stop_requested, s_written,
                 s_reader, set, booting, tab, ghosts>>

Flusher ==
  \/ FlushEnds \/ FlushReads \/ FlushWrites \/ FlushUnsubscribes \/ FlushCloses
  \/ FlushGives

-------------------------------------------------------------------------------
(* Everybody else: tasks that log, and the /logs tabs.                       *)

Others ==
  UNCHANGED <<fileVars, flagVars, flushVars, s_reader, set, booting, ghosts>>

Logged ==
  /\ total < MaxTotal /\ total' = total + 1
  /\ UNCHANGED next
  /\ UNCHANGED tab /\ Others

\* logs_stream_task; the web server is started after log_persist_init.
TabOpens(r) ==
  /\ ~booting /\ FirstFree(r) /\ Subscribe(r)
  /\ tab' = [tab EXCEPT ![r] = "open"]
  /\ Others

BrowserLeaves(r) ==
  /\ tab[r] = "open" /\ tab' = [tab EXCEPT ![r] = "orphan"]
  /\ UNCHANGED logVars /\ Others

\* MUTANT: no heartbeat in silence.
HeartbeatNever(r) == FALSE

\* After 2 s of silence a space is sent.
Heartbeat(r) == next[r] = total

TabReads(r) ==
  /\ tab[r] # "none"
  /\ Skip(r) \/ \E k \in 1 .. MaxRead : Deliver(r, k)
  /\ UNCHANGED tab /\ Others

\* A send fails, of what was just read or of a heartbeat: the browser is gone,
\* or does not take it within 500 ms.
TabSendFails(r) ==
  /\ tab[r] # "none" /\ (next[r] < total \/ Heartbeat(r))
  /\ Unsubscribe(r)
  /\ tab' = [tab EXCEPT ![r] = "none"]
  /\ Others

Next ==
  \/ Restart \/ ToggleOn \/ ToggleOff \/ Setter \/ Flusher \/ Logged
  \/ \E r \in Readers :
       TabOpens(r) \/ BrowserLeaves(r) \/ TabReads(r) \/ TabSendFails(r)

Spec == Init /\ [][Next]_vars

\* Tasks run; a send to a browser that is gone fails in the end.
Fairness ==
  /\ WF_vars(Setter) /\ WF_vars(Flusher)
  /\ \A r \in Readers : WF_vars(tab[r] = "orphan" /\ TabSendFails(r))

FairSpec == Spec /\ Fairness

-------------------------------------------------------------------------------
(* What is to hold.                                                          *)

\* "This subsystem touches nothing at all while disabled" (log_persist.h):
\* whichever way it was left, error paths included.
DisabledTouchesNothing ==
  At("idle") /\ ~s_active =>
    /\ flush = "none" /\ s_reader = NoReader
    /\ ~s_fp /\ ~mounted /\ ~s_stopped_sem

\* As long as flush_task may write, the file is open, its reader slot is
\* subscribed and no tab has the same slot.
FlushOwnsItsFile ==
  flush \in {"top", "write", "unsubscribe"} =>
    /\ s_fp /\ mounted /\ s_reader # NoReader
    /\ next[s_reader] # NoPos /\ tab[s_reader] = "none"

\* One attempt to begin a new session, failed or cut off by a restart at any
\* step, loses the log of the last one only if flash refused it the remove or
\* the rename: fopen (log_persist.c:111) then truncates what was not moved.
LastLogSurvivesOneTry ==
  session > 0 /\ tries <= 1 /\ ~refused => session \in {current, previous}

\* Between calls what runs, what the page shows and what flash says agree.
StateSaved == At("idle") => s_active = cfg /\ nvs = cfg

\* "There's always exactly one prior session's log available regardless of how
\* this one ends" (log_persist.c:106-107).  Does not hold: a failed attempt has
\* already thrown the older log away, and a second one throws away the last.
PriorLogAvailable ==
  s_active /\ session > 1 => previous = session - 1

\* Disabling does not wait for ever, also not when the file is full or nothing is
\* logged.
DisableReturns == At("wait") ~> ~At("wait")

\* "A client that vanished mid-quiet-period" does not keep its slot
\* (web_server.c:1836-1843).
VanishedTabReleased == \A r \in Readers : tab[r] = "orphan" ~> tab[r] = "none"
===============================================================================
