------------------------------- MODULE OtaUpdate -------------------------------
(***************************************************************************)
(* Firmware updates: the OTA engine of src/src/ota_update.c, its two users *)
(* (the GitHub installer's task and the upload handler of                  *)
(* src/src/web_server.c), the confirmation in src/src/main.cpp, and the    *)
(* restarts, planned or not, that may come between any two steps.          *)
(*                                                                         *)
(* Flash has two slots.  What a slot holds is the sequence of the chunks   *)
(* written to it, each known by who wrote it; an image is whole when it is *)
(* made of all the chunks of one sender.  The first chunk completes        *)
(* s_eng.prefix.  Nothing but "busy" orders the two tasks, so a feed and a *)
(* finish take a step for every blocking flash operation.                  *)
(***************************************************************************)
EXTENDS Integers, Sequences

CONSTANTS
  ImageChunks,      \* chunks of an image: s_eng.total
  OTA_GH_ATTEMPTS   \* download attempts of an install

ASSUME ChunksAssumption == ImageChunks \in Nat \ {0}
ASSUME AttemptsAssumption == OTA_GH_ATTEMPTS \in Nat \ {0}

Users == {"gh", "upload"}
Slots == {0, 1}
Other(s) == 1 - s

VARIABLES
  running, pending, boot,  \* otadata: the slot that runs, whether it is yet to be
                           \* confirmed, the slot for the next boot
  img,                     \* what each slot holds
  spoiled,                 \* auxiliary: users whose image was erased after its check
  busy, flashing, written, \* fields of s_eng
  open,                    \* is s_eng.handle a live esp_ota handle?
  pc, left,                \* of each user: where it is, chunks it has yet to feed
  attempt, prog,           \* installer: attempt number, s_prog.state
  s_update_available, asset, \* cached by the check; asset: s_asset_url is set
  checking                 \* is the web server's task in ota_github_check?

flashVars  == <<running, pending, boot, img, spoiled>>
engineVars == <<busy, flashing, written, open>>
ghVars     == <<attempt, prog, s_update_available, asset>>
vars == <<flashVars, engineVars, pc, left, ghVars, checking>>

\* "rejected": about to call ota_fail; "done": about to restart.
PCs == {"idle", "begin", "rejected", "feed", "erase", "write", "verify",
        "select", "commit", "done"}

\* A user for whom ota_engine_begin has succeeded and that has not ended.
Engaged(u) == pc[u] \in {"feed", "erase", "write", "verify", "select", "commit"}

TypeOK ==
  /\ running \in Slots /\ boot \in Slots /\ pending \in BOOLEAN
  /\ img \in [Slots -> Seq(Users)] /\ spoiled \subseteq Users
  /\ busy \in BOOLEAN /\ flashing \in BOOLEAN /\ open \in BOOLEAN
  /\ written \in 0 .. ImageChunks
  /\ pc \in [Users -> PCs] /\ left \in [Users -> 0 .. ImageChunks]
  /\ attempt \in 0 .. OTA_GH_ATTEMPTS
  /\ prog \in {"idle", "downloading", "verifying", "rebooting", "error"}
  /\ s_update_available \in BOOLEAN /\ asset \in BOOLEAN /\ checking \in BOOLEAN

Whole(c) == \E u \in Users : c = [i \in 1 .. ImageChunks |-> u]

Fresh ==
  /\ spoiled' = {} /\ busy' = FALSE /\ flashing' = FALSE /\ written' = 0 /\ open' = FALSE
  /\ pc' = [u \in Users |-> "idle"] /\ left' = [u \in Users |-> 0]
  /\ attempt' = 0 /\ prog' = "idle"
  /\ s_update_available' = FALSE /\ asset' = FALSE /\ checking' = FALSE

Init ==
  /\ running = 0 /\ boot = 0 /\ pending = FALSE
  /\ img = [s \in Slots |->
              IF s = 0 THEN [i \in 1 .. ImageChunks |-> "upload"] ELSE <<>>]
  /\ spoiled = {}
  /\ busy = FALSE /\ flashing = FALSE /\ written = 0 /\ open = FALSE
  /\ pc = [u \in Users |-> "idle"] /\ left = [u \in Users |-> 0]
  /\ attempt = 0 /\ prog = "idle"
  /\ s_update_available = FALSE /\ asset = FALSE /\ checking = FALSE

Goto(u, l) == pc' = [pc EXCEPT ![u] = l]

-------------------------------------------------------------------------------
(* Restarts.                                                                 *)

\* The bootloader runs the selected image; a slot without one, or one that was
\* not confirmed last time, makes it fall back.
Restart ==
  /\ \/ /\ pending /\ running' = Other(running) /\ pending' = FALSE
     \/ /\ ~pending /\ boot # running /\ Whole(img[boot])
        /\ running' = boot /\ pending' = TRUE
     \/ /\ ~pending /\ ~(boot # running /\ Whole(img[boot]))
        /\ UNCHANGED <<running, pending>>
  /\ boot' = running'
  /\ UNCHANGED img
  /\ Fresh

\* app_main has come to its end.
Confirm ==
  /\ pending /\ pending' = FALSE
  /\ UNCHANGED <<running, boot, img, spoiled, engineVars, pc, left, ghVars, checking>>

-------------------------------------------------------------------------------
(* The engine.                                                               *)

BeginOk(u) ==
  /\ ~busy /\ busy' = TRUE
  /\ flashing' = FALSE /\ open' = FALSE /\ written' = 0
  /\ left' = [left EXCEPT ![u] = ImageChunks]
  /\ Goto(u, "feed")

\* ota_engine_abort, by whoever calls it.
Abort ==
  \/ /\ busy /\ busy' = FALSE /\ flashing' = FALSE
     /\ open' = (open /\ ~flashing)
  \/ ~busy /\ UNCHANGED <<busy, flashing, open>>

\* MUTANT: an error of feed leaves the engine as it is.
FeedAbortsNot == UNCHANGED <<busy, flashing, open>>

\* What feed does on an error.
FeedAborts == Abort

\* MUTANT: the installer's task ends without a word.
GiveUpSilently(u) == Goto(u, "idle") /\ UNCHANGED prog

\* The upload handler answers, and is done with it.
UploadAnswered == Goto("upload", "idle") /\ UNCHANGED prog

\* The installer's task ends with gh_fail.
GhEnds == Goto("gh", "idle") /\ prog' = "error"

\* How a failed update ends for its user.
GiveUp(u) == (u = "gh" /\ GhEnds) \/ (u = "upload" /\ UploadAnswered)

Rest == UNCHANGED <<attempt, s_update_available, asset, checking>>

\* Feed finds no update in progress, whose engine this may once have been.
FeedRefused(u) ==
  /\ pc[u] = "feed" /\ left[u] > 0 /\ ~busy
  /\ GiveUp(u)
  /\ UNCHANGED <<flashVars, engineVars, left>> /\ Rest

FeedTooMuch(u) ==
  /\ pc[u] = "feed" /\ left[u] > 0 /\ busy /\ written = ImageChunks
  /\ FeedAborts /\ GiveUp(u)
  /\ UNCHANGED <<flashVars, written, left>> /\ Rest

FeedTakes(u) ==
  /\ pc[u] = "feed" /\ left[u] > 0 /\ busy /\ written < ImageChunks
  /\ written' = written + 1
  /\ \/ flashing /\ Goto(u, "write")
     \/ ~flashing /\ Goto(u, "erase")
  /\ UNCHANGED <<flashVars, busy, flashing, open, left, prog>> /\ Rest

\* engine_start_flash: a bad prefix or a failing erase ...
StartFails(u) ==
  /\ pc[u] = "erase"
  /\ FeedAborts /\ GiveUp(u)
  /\ UNCHANGED <<flashVars, written, left>> /\ Rest

\* MUTANT: erases although the running image is on trial.
MayEraseAlways == TRUE

\* esp_ota_begin refuses while the running image is not confirmed.
MayErase == ~pending

\* ... or esp_ota_begin erases the slot that is not running.
Started(u) ==
  /\ pc[u] = "erase" /\ MayErase
  /\ img' = [img EXCEPT ![Other(running)] = <<>>]
  /\ spoiled' = spoiled \cup {v \in Users : pc[v] = "commit"}
  /\ open' = TRUE /\ flashing' = TRUE
  /\ Goto(u, "write")
  /\ UNCHANGED <<running, pending, boot, busy, written, left, prog>> /\ Rest

Wrote(u) ==
  /\ pc[u] = "write" /\ open
  /\ img' = [img EXCEPT ![Other(running)] = Append(@, u)]
  /\ left' = [left EXCEPT ![u] = @ - 1]
  /\ Goto(u, "feed")
  /\ UNCHANGED <<running, pending, boot, spoiled, engineVars, prog>> /\ Rest

\* esp_ota_write fails, as it must on a handle that was aborted.
WriteFails(u) ==
  /\ pc[u] = "write"
  /\ FeedAborts /\ GiveUp(u)
  /\ UNCHANGED <<flashVars, written, left>> /\ Rest

\* All chunks are in: the installer says so, and both call ota_engine_finish.
FinishAccepts(u) ==
  /\ pc[u] = "feed" /\ left[u] = 0
  /\ busy /\ flashing /\ written = ImageChunks
  /\ flashing' = FALSE
  /\ Goto(u, "verify")
  /\ \/ u = "gh" /\ prog' = "verifying"
     \/ u # "gh" /\ UNCHANGED prog
  /\ UNCHANGED <<flashVars, busy, written, open, left>> /\ Rest

FinishRefuses(u) ==
  /\ pc[u] = "feed" /\ left[u] = 0
  /\ ~(busy /\ flashing /\ written = ImageChunks)
  /\ Abort /\ GiveUp(u)
  /\ UNCHANGED <<flashVars, written, left>> /\ Rest

Passes == open /\ Whole(img[Other(running)])

\* esp_ota_end passes a whole image only; the handle is gone either way.
Verified(u) ==
  /\ pc[u] = "verify" /\ Passes
  /\ open' = FALSE /\ Goto(u, "select")
  /\ UNCHANGED <<flashVars, busy, flashing, written, left, prog>> /\ Rest

VerifyFails(u) ==
  /\ pc[u] = "verify"
  /\ open' = FALSE /\ busy' = FALSE /\ GiveUp(u)
  /\ UNCHANGED <<flashVars, flashing, written, left>> /\ Rest

\* MUTANT: does not look at the image again.
SelectableAny == TRUE

\* esp_ota_set_boot_partition reads the image once more, for as long ...
Selectable == Whole(img[Other(running)])

Checked(u) ==
  /\ pc[u] = "select" /\ Selectable
  /\ spoiled' = spoiled \ {u} /\ Goto(u, "commit")
  /\ UNCHANGED <<running, pending, boot, img, engineVars, left, prog>> /\ Rest

\* What is left of gh_install_task is the wait for its restart.
GhSucceeds == Goto("gh", "done") /\ prog' = "rebooting"

\* ... and then writes otadata, without another look.
Selected(u) ==
  /\ pc[u] = "commit"
  /\ boot' = Other(running) /\ busy' = FALSE
  /\ (u = "gh" /\ GhSucceeds) \/ (u = "upload" /\ UploadAnswered)
  /\ UNCHANGED <<running, pending, img, spoiled, flashing, written, open, left>> /\ Rest

SelectFails(u) ==
  /\ pc[u] \in {"select", "commit"}
  /\ busy' = FALSE /\ GiveUp(u)
  /\ UNCHANGED <<flashVars, flashing, written, open, left>> /\ Rest

Engine(u) ==
  FeedRefused(u) \/ FeedTooMuch(u) \/ FeedTakes(u) \/ StartFails(u) \/ Started(u)
  \/ Wrote(u) \/ WriteFails(u) \/ FinishAccepts(u) \/ FinishRefuses(u)
  \/ Verified(u) \/ VerifyFails(u) \/ Checked(u) \/ Selected(u)
  \/ SelectFails(u)

-------------------------------------------------------------------------------
(* ota_post_handler.  After a success it is idle again: the restart it asks  *)
(* for comes later, and until then the web server takes other requests.      *)

WebIdle == pc["upload"] = "idle" /\ ~checking

UploadBegins ==
  /\ WebIdle /\ BeginOk("upload")
  /\ UNCHANGED <<flashVars, prog>> /\ Rest

\* No buffer, a bad size, or another update: ota_fail, which also aborts.
UploadRejected ==
  /\ WebIdle /\ Goto("upload", "rejected")
  /\ UNCHANGED <<flashVars, engineVars, left, prog>> /\ Rest

UploadFails ==
  /\ pc["upload"] = "rejected" /\ Goto("upload", "idle")
  /\ Abort
  /\ UNCHANGED <<flashVars, written, left, prog>> /\ Rest

\* The browser goes away or stalls for five timeouts.
UploadInterrupted ==
  /\ pc["upload"] = "feed" /\ left["upload"] > 0
  /\ Abort /\ Goto("upload", "idle")
  /\ UNCHANGED <<flashVars, written, left, prog>> /\ Rest

-------------------------------------------------------------------------------
(* The GitHub check and the installer's task.                                *)

CheckBegins ==
  /\ WebIdle /\ checking' = TRUE /\ s_update_available' = FALSE
  /\ UNCHANGED <<flashVars, engineVars, pc, left, attempt, prog, asset>>

\* update_check_post_handler has told the page what came of it.
CheckAnswered == checking /\ checking' = FALSE

\* No answer; an answer without an asset for this board; or with one, which may
\* be the version that runs.
CheckEnds ==
  /\ CheckAnswered
  /\ \/ UNCHANGED <<s_update_available, asset>>
     \/ asset' = FALSE /\ UNCHANGED s_update_available
     \/ asset' = TRUE /\ s_update_available' \in BOOLEAN
  /\ UNCHANGED <<flashVars, engineVars, pc, left, attempt, prog>>

MayInstall == prog \notin {"downloading", "verifying", "rebooting"}

Install ==
  /\ WebIdle /\ MayInstall /\ s_update_available /\ asset
  /\ \/ prog' = "downloading" /\ attempt' = 1 /\ Goto("gh", "begin")
     \/ prog' = "error" /\ UNCHANGED <<attempt, pc>>
  /\ UNCHANGED <<flashVars, engineVars, left, s_update_available, asset, checking>>

GhBegins ==
  /\ pc["gh"] = "begin" /\ asset /\ BeginOk("gh")
  /\ UNCHANGED <<flashVars, prog>> /\ Rest

\* No memory, no URL any more, or the engine is busy: not worth another attempt.
GhCannotBegin ==
  /\ pc["gh"] = "begin" /\ GiveUp("gh")
  /\ UNCHANGED <<flashVars, engineVars, left>> /\ Rest

LastAttempt == attempt = OTA_GH_ATTEMPTS

\* A network failure before the engine has begun, or after: then it is aborted.
GhNetworkFails ==
  /\ \/ pc["gh"] = "begin" /\ UNCHANGED engineVars
     \/ pc["gh"] = "feed" /\ left["gh"] > 0 /\ Abort /\ UNCHANGED written
  /\ \/ LastAttempt /\ GiveUp("gh") /\ UNCHANGED attempt
     \/ /\ ~LastAttempt /\ attempt' = attempt + 1
        /\ prog' = "downloading" /\ Goto("gh", "begin")
  /\ UNCHANGED <<flashVars, left, s_update_available, asset, checking>>

-------------------------------------------------------------------------------
Upload == UploadBegins \/ UploadRejected \/ UploadFails \/ UploadInterrupted
Github ==
  CheckBegins \/ CheckEnds \/ Install \/ GhBegins \/ GhCannotBegin \/ GhNetworkFails

Next ==
  \/ Restart \/ Confirm \/ Upload \/ Github
  \/ \E u \in Users : Engine(u)

Spec == Init /\ [][Next]_vars

\* The installer's task runs, and its network operations have timeouts; an
\* upload has them too, and the web server's task runs.
FairSpec ==
  /\ Spec
  /\ WF_vars(GhBegins \/ GhCannotBegin \/ GhNetworkFails) /\ WF_vars(Engine("gh"))
  /\ WF_vars(UploadFails) /\ WF_vars(CheckEnds)
  /\ WF_vars(UploadInterrupted \/ Engine("upload"))

-------------------------------------------------------------------------------
(* Properties.                                                               *)

\* Whatever two updates do to each other and wherever a restart or a loss of
\* power hits, there is an image to run: the running one is whole, and so is
\* the one to fall back to while the running one is on trial (main.cpp 109-118).
AlwaysBootable ==
  /\ Whole(img[running])
  /\ pending => Whole(img[Other(running)])

\* A slot is selected for the next boot only when it holds the whole image of
\* one sender, even if two updates have written to it (ota_engine_finish): but for
\* an image that another update erases while esp_ota_set_boot_partition, having
\* read it, is yet to write otadata.
Spoiled(u) == pc[u] = "commit" /\ u \in spoiled
OnlyWholeImageSelected ==
  [][boot' # boot /\ boot' # running' =>
       Whole(img'[boot']) \/ \E u \in Users : Spoiled(u) /\ pc'[u] # "commit"]_vars

\* The engine is never left busy with nobody to release it: that would refuse
\* every update until a restart (ota_engine_begin's "already in progress").
EngineHasUser == busy => \E u \in Users : Engaged(u)

\* "Rebooting" is reported only when the next boot is from the new image.
RebootingMeansSelected == prog = "rebooting" => boot # running

\* An install comes to a reported end; a state stuck at "downloading" would
\* refuse every later install (ota_github_install).
InstallEnds ==
  prog \in {"downloading", "verifying"} ~> prog \notin {"downloading", "verifying"}

\* One update at a time: ota_engine_begin fails while another is in progress.  Does
\* not hold: the upload it refuses aborts the engine, and a third may begin.
OneUpdateAtATime == ~(Engaged("gh") /\ Engaged("upload"))
===============================================================================
