----------------------------- MODULE MCMicPipeline -----------------------------
(* Instances of MicPipeline for TLC: the constants are given in the cfgs.    *)
EXTENDS MicPipeline
===============================================================================
