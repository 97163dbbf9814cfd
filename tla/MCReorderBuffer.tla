--------------------------- MODULE MCReorderBuffer ---------------------------
(* Model-checking instance of ReorderBuffer: a window of three, seven        *)
(* sequence numbers (two of them beyond the first window, and 0, which no    *)
(* sender uses but a header can carry), re-alignment after two stale packets.*)
EXTENDS ReorderBuffer

MCSeqs == 0 .. 6
=============================================================================
