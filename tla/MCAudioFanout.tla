----------------------------- MODULE MCAudioFanout -----------------------------
(* Instances of AudioFanout for TLC: the constants are given in the cfg.     *)
EXTENDS AudioFanout
===============================================================================
