----------------------------- MODULE MCStatusLed -----------------------------
(* Instances of StatusLed for TLC: the constants are given in the cfg.      *)
EXTENDS StatusLed
===============================================================================
