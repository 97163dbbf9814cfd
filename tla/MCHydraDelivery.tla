-------------------------- MODULE MCHydraDelivery ----------------------------
(* Model-checking instance of HydraDelivery.                                 *)
EXTENDS HydraDelivery

MCData == (0 .. MaxEpoch) \X (1 .. MaxSeq)
MCFrames == {Frame(d[1], d[2]) : d \in MCData}
=============================================================================
