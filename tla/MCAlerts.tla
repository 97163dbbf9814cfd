------------------------------- MODULE MCAlerts ------------------------------
(* Alerts for TLC.                                                           *)
EXTENDS Alerts
=============================================================================
