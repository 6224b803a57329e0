------------------------------ MODULE MCSettings ------------------------------
(* Instances of Settings for TLC: the constants are given in the cfgs.       *)
EXTENDS Settings
===============================================================================
