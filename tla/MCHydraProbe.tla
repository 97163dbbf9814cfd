---------------------------- MODULE MCHydraProbe -----------------------------
(* Model-checking instances of HydraProbe.                                   *)
EXTENDS HydraProbe
=============================================================================
