---------------------------- MODULE MCHydraWeave -----------------------------
(* Model-checking instances of HydraWeave.                                   *)
EXTENDS HydraWeave, TLC

MCData == (0 .. MaxEpoch) \X (1 .. MaxSeq)
MCFrames == {Frame(d[1], d[2]) : d \in MCData}
MCSymmetry == Permutations(Threads)
(* The types of both ends of the weave; no transmit queue exceeds its        *)
(* capacity.                                                                 *)
TypeOK == SenderTypeOK /\ ReceiverTypeOK
=============================================================================
