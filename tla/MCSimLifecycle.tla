---------------------------- MODULE MCSimLifecycle ---------------------------
(* SimLifecycle for TLC.                                                     *)
EXTENDS SimLifecycle

MCAllOps == RestOps \cup BackgroundOps
=============================================================================
