------------------------------ MODULE AudioFanout ------------------------------
(***************************************************************************)
(* What the reader slots of src/src/audio_pipeline.c carry: the capture    *)
(* task copies every chunk into the ring buffer of each subscribed reader, *)
(* RTP senders (src/src/rtsp_server.c) and the browser preview             *)
(* (src/src/web_server.c) take it out again, packet by packet.             *)
(*                                                                         *)
(* s_readers_mtx covers subscribing, unsubscribing and the copying, which  *)
(* is why each is one step; audio_pipeline_read takes no lock.  A sample   *)
(* is its position in what the mic gives, modulo Wrap; its value is left   *)
(* out.  Who gets a slot and when sessions end is RtspServer's.            *)
(***************************************************************************)
EXTENDS Integers, Sequences, FiniteSets

CONSTANTS
  Readers,      \* the entries of s_readers
  RingSamples,  \* PIPELINE_BUF_BYTES, in samples
  Packet,       \* RTP_SAMPLES_PER_PACKET, of a read of a sender or the preview
  Chunks,       \* what a read of the mic may give, in samples
  Wrap          \* bound: positions are counted modulo this

ASSUME SizesAssumption ==
  /\ Packet \in Nat \ {0} /\ RingSamples \in Nat \ {0}
  /\ Chunks \subseteq 1 .. Packet
\* All that is on its way to a reader has different positions.
ASSUME PositionsAssumption == Wrap \in Nat /\ Wrap > RingSamples + 2 * Packet

VARIABLES
  mic,       \* the mic has samples to give
  next,      \* position of the sample it gives next
  pcm,       \* i2s_reader_task: the chunk it has to copy
  active,    \* s_readers[].active
  user,      \* of a slot: "rtp" and "preview" where a task reads from it
  rb,        \* s_readers[].rb
  pkt,       \* what a read has taken out and its task has yet to send
  stamp,     \* rtp_session_t.timestamp, which starts at random: here where the
             \* positions are at the first sample
  vanished,  \* the preview whose browser has vanished
  lost       \* history: readers that a chunk was dropped for

slotVars == <<active, user, lost>>
fanVars == <<mic, next, pcm, slotVars, rb, pkt, stamp, vanished>>

Positions == 0 .. Wrap - 1
Plus(p, n) == (p + n) % Wrap

FanTypeOK ==
  /\ mic \in BOOLEAN /\ next \in Positions
  /\ pcm \in Seq(Positions) /\ Len(pcm) <= Packet
  /\ active \subseteq Readers
  /\ user \in [Readers -> {"none", "rtp", "preview"}]
  /\ rb \in [Readers -> Seq(Positions)] /\ pkt \in [Readers -> Seq(Positions)]
  /\ \A r \in Readers : Len(rb[r]) <= RingSamples /\ Len(pkt[r]) <= Packet
  /\ stamp \in [Readers -> Positions]
  /\ vanished \subseteq Readers /\ lost \subseteq Readers

FanInit ==
  /\ mic = TRUE /\ next = 0 /\ pcm = <<>>
  /\ active = {} /\ user = [r \in Readers |-> "none"]
  /\ rb = [r \in Readers |-> <<>>] /\ pkt = [r \in Readers |-> <<>>]
  /\ stamp = [r \in Readers |-> 0] /\ vanished = {}
  /\ lost = {}

------------------------------------------------------------------------------
(* The capture task.                                                        *)

\* A chunk from the mic; its peak and its byte order are left out.
Capture ==
  /\ mic /\ pcm = <<>>
  /\ \E n \in Chunks : /\ pcm' = [i \in 1 .. n |-> Plus(next, i - 1)]
                       /\ next' = Plus(next, n)
  /\ UNCHANGED <<mic, slotVars, rb, pkt, stamp, vanished>>

Fits(r) == Len(rb[r]) + Len(pcm) <= RingSamples

\* The samples of readers that have lost a chunk are not followed further.
Blank(queue, who) ==
  [r \in Readers |-> IF r \in who THEN [i \in DOMAIN queue[r] |-> 0] ELSE queue[r]]

\* To every reader without waiting: a buffer that is full loses the whole chunk.
FanOut ==
  LET full   == {r \in active : ~Fits(r)}
      copied == [r \in Readers |-> IF r \in active \ full THEN rb[r] \o pcm ELSE rb[r]]
  IN  /\ pcm # <<>> /\ pcm' = <<>>
      /\ lost' = lost \cup full
      /\ rb' = Blank(copied, lost') /\ pkt' = Blank(pkt, lost')
      /\ stamp' = [r \in Readers |-> IF r \in lost' THEN 0 ELSE stamp[r]]
      /\ UNCHANGED <<mic, next, active, user, vanished>>

\* The USB mic is unplugged, or a read hangs.
MicGone ==
  /\ mic /\ mic' = FALSE
  /\ UNCHANGED <<next, pcm, slotVars, rb, pkt, stamp, vanished>>

------------------------------------------------------------------------------
(* Senders and the preview.                                                 *)

\* The position of what FanOut copies next.
Upcoming == IF pcm = <<>> THEN next ELSE Head(pcm)

\* A chunk that waits to be copied goes to who subscribes before that.
Subscribe(r, who) ==
  /\ r \notin active /\ user[r] = "none"
  /\ who = "preview" => \A q \in Readers : user[q] # "preview"
  /\ active' = active \cup {r}
  /\ user' = [user EXCEPT ![r] = who]
  /\ stamp' = [stamp EXCEPT ![r] = IF who = "rtp" THEN Upcoming ELSE 0]
  /\ UNCHANGED <<mic, next, pcm, rb, pkt, vanished, lost>>

\* audio_pipeline_read: wait for something, and take what there is.
Grab(r) ==
  /\ user[r] # "none" /\ r \in active
  /\ rb[r] # <<>> /\ Len(pkt[r]) < Packet
  /\ LET room == Packet - Len(pkt[r])
         n    == IF Len(rb[r]) < room THEN Len(rb[r]) ELSE room
     IN  /\ pkt' = [pkt EXCEPT ![r] = @ \o SubSeq(rb[r], 1, n)]
         /\ rb'  = [rb EXCEPT ![r] = SubSeq(@, n + 1, Len(@))]
  /\ UNCHANGED <<mic, next, pcm, slotVars, stamp, vanished>>

\* The read returned: the packet is full, or there was no more at a look.
ReadDone(r) == pkt[r] # <<>> /\ (Len(pkt[r]) = Packet \/ rb[r] = <<>>)

\* rtp_send_packet stamps the packet, and advances by the samples in it.
RtpSent(r) ==
  /\ user[r] = "rtp" /\ ReadDone(r)
  /\ stamp' = [stamp EXCEPT ![r] = IF r \in lost THEN 0 ELSE Plus(@, Len(pkt[r]))]
  /\ pkt' = [pkt EXCEPT ![r] = <<>>]
  /\ UNCHANGED <<mic, next, pcm, slotVars, rb, vanished>>

PreviewSent(r) ==
  /\ user[r] = "preview" /\ ReadDone(r) /\ r \notin vanished
  /\ pkt' = [pkt EXCEPT ![r] = <<>>]
  /\ UNCHANGED <<mic, next, pcm, slotVars, rb, stamp, vanished>>

\* MUTANT: what is left in the buffer stays there.
UnsubscribeKeeps(r) ==
  /\ active' = active \ {r}
  /\ user' = [user EXCEPT ![r] = "none"]
  /\ pkt' = [pkt EXCEPT ![r] = <<>>]
  /\ vanished' = vanished \ {r} /\ lost' = lost \ {r}
  /\ stamp' = [stamp EXCEPT ![r] = 0]
  /\ UNCHANGED <<mic, next, pcm, rb>>

\* The buffer is drained and kept for the next subscriber.
Unsubscribe(r) ==
  /\ active' = active \ {r}
  /\ user' = [user EXCEPT ![r] = "none"]
  /\ rb' = [rb EXCEPT ![r] = <<>>]
  /\ pkt' = [pkt EXCEPT ![r] = <<>>]
  /\ vanished' = vanished \ {r} /\ lost' = lost \ {r}
  /\ stamp' = [stamp EXCEPT ![r] = 0]
  /\ UNCHANGED <<mic, next, pcm>>

\* stop_streaming, for a sender that has stopped between two reads or at a send.
RtpStops(r) ==
  /\ user[r] = "rtp" /\ (pkt[r] = <<>> \/ ReadDone(r))
  /\ Unsubscribe(r)

BrowserVanishes(r) ==
  /\ user[r] = "preview" /\ r \notin vanished
  /\ vanished' = vanished \cup {r}
  /\ UNCHANGED <<mic, next, pcm, slotVars, rb, pkt, stamp>>

\* MUTANT: a chunk that could not be sent is skipped.
PreviewStopsNever(r) ==
  /\ user[r] = "preview" /\ ReadDone(r)
  /\ pkt' = [pkt EXCEPT ![r] = <<>>]
  /\ UNCHANGED <<mic, next, pcm, slotVars, rb, stamp, vanished>>

\* A chunk cannot be sent: nobody is there, or not for 500 ms.
PreviewStops(r) ==
  /\ user[r] = "preview" /\ ReadDone(r)
  /\ Unsubscribe(r)

Feed == Capture \/ FanOut
Preview(r) == PreviewSent(r) \/ PreviewStops(r)

FanNext ==
  \/ Feed \/ MicGone
  \/ \E r \in Readers :
       \/ \E who \in {"rtp", "preview"} : Subscribe(r, who)
       \/ Grab(r) \/ RtpSent(r) \/ RtpStops(r)
       \/ BrowserVanishes(r) \/ Preview(r)

FanSpec == FanInit /\ [][FanNext]_fanVars

\* The capture task and the preview keep running.  Of RTP clients nothing is assumed.
FairFanSpec ==
  /\ FanSpec
  /\ WF_fanVars(Feed)
  /\ \A r \in Readers : WF_fanVars(Grab(r) /\ user[r] = "preview") /\ WF_fanVars(Preview(r))

------------------------------------------------------------------------------
(* Properties.                                                              *)

\* What a reader gets: from the first chunk after it subscribed every sample, once, in
\* order, whatever other readers do and whatever the slot's last user left behind; and
\* an RTP packet is stamped with the position of its first sample (rtp_send_packet, "the
\* real audio position").  Only a reader whose own buffer was full is excepted.
StreamIntact ==
  \A r \in active \ lost :
    LET coming == Append(pkt[r] \o rb[r], Upcoming)
    IN  /\ \A i \in 1 .. Len(coming) - 1 : coming[i + 1] = Plus(coming[i], 1)
        /\ user[r] = "rtp" => Head(coming) = stamp[r]

\* While the mic has samples to give, a preview whose browser has vanished is noticed and
\* gives its reader slot back; it only ever finds out by sending.
VanishedPreviewReleased == \A r \in Readers : r \in vanished ~> r \notin vanished \/ ~mic

\* The slots implement the pool that RtspServer implements from the other side, with
\* RTP clients known by the slot they have.
Pool == INSTANCE ReaderPool WITH
  Clients <- Readers,
  streams <- {<<r, r>> : r \in {q \in Readers : user[q] = "rtp"}},
  preview <- {r \in Readers : user[r] = "preview"}
===============================================================================
