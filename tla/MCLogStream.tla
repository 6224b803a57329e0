------------------------------ MODULE MCLogStream ------------------------------
(* Instances of LogStream for TLC: the constants are given in the cfgs.      *)
EXTENDS LogStream
===============================================================================
