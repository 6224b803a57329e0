----------------------------- MODULE MCRtspServer -----------------------------
(* Instances of RtspServer for TLC.                                          *)
EXTENDS RtspServer, TLC
CONSTANTS s1, s2, t1, t2, t3, r1, r2, r3

\* Slots, sender identities and reader slots are interchangeable: the code
\* only ever takes the first free one.
Symmetry == Permutations(Slots) \cup Permutations(Senders) \cup Permutations(Readers)
===============================================================================
