------------------------------- MODULE ReaderPool -------------------------------
(***************************************************************************)
(* What audio_pipeline_subscribe and audio_pipeline_unsubscribe of         *)
(* src/src/audio_pipeline.c promise to the tasks that stream: a reader     *)
(* slot is handed to a client that has none while nobody else has it, and  *)
(* only the one who has it gives it back.  RtspServer says when clients    *)
(* come and go, AudioFanout what the slots carry; both implement this.     *)
(***************************************************************************)
CONSTANTS
  Readers,   \* the entries of s_readers
  Clients    \* who may stream over RTP

VARIABLES
  streams,   \* pairs <<c, r>>: client c streams from slot r
  preview    \* the slot of the browser preview, of which there is one at a time

Streaming == {p[1] : p \in streams}
Taken     == {p[2] : p \in streams} \cup preview

PoolInit == streams = {} /\ preview = {}

StreamTakes(c, r) ==
  /\ c \notin Streaming /\ r \notin Taken
  /\ streams' = streams \cup {<<c, r>>}
  /\ UNCHANGED preview

StreamGivesBack(c, r) ==
  /\ <<c, r>> \in streams
  /\ streams' = streams \ {<<c, r>>}
  /\ UNCHANGED preview

PreviewTakes(r) ==
  /\ preview = {} /\ r \notin Taken
  /\ preview' = {r}
  /\ UNCHANGED streams

PreviewGivesBack ==
  /\ preview # {} /\ preview' = {}
  /\ UNCHANGED streams

PoolNext ==
  \/ \E c \in Clients, r \in Readers : StreamTakes(c, r) \/ StreamGivesBack(c, r)
  \/ \E r \in Readers : PreviewTakes(r)
  \/ PreviewGivesBack

PoolSpec == PoolInit /\ [][PoolNext]_<<streams, preview>>

\* Nobody shares a slot and nobody has two.
Exclusive ==
  /\ \A p, q \in streams : p[1] = q[1] \/ p[2] = q[2] => p = q
  /\ \A p \in streams : p[2] \notin preview
  /\ \A r, q \in preview : r = q
===============================================================================
