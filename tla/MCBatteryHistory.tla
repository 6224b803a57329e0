--------------------------- MODULE MCBatteryHistory ---------------------------
(* Instances of BatteryHistory for TLC: a controller's report, a charge, and *)
(* levels between which, above and below which the battery is measured.      *)
EXTENDS BatteryHistory

MCReports == {[pct |-> 60, charging |-> TRUE]}
===============================================================================
