-------------------------- MODULE MCScheduledReboot --------------------------
(* Instances of ScheduledReboot for TLC: the constants are given in the cfg. *)
EXTENDS ScheduledReboot
===============================================================================
