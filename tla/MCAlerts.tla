------------------------------ MODULE MCAlerts -------------------------------
(* Small instances of Alerts for TLC. *)
EXTENDS Alerts, TLC

CONSTANTS m1, u1, u2
=============================================================================
