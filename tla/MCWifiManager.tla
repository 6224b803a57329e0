----------------------------- MODULE MCWifiManager -----------------------------
(* Instances of WifiManager for TLC: the constants are given in the cfgs.    *)
EXTENDS WifiManager
===============================================================================
