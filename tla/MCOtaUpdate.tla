------------------------------ MODULE MCOtaUpdate ------------------------------
(* Instances of OtaUpdate for TLC: the constants are given in the cfgs.      *)
EXTENDS OtaUpdate
===============================================================================
