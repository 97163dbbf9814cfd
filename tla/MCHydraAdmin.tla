---------------------------- MODULE MCHydraAdmin -----------------------------
(* HydraAdmin for TLC: a thread works, has no rate, or is down with a delay  *)
(* that is not valid.                                                        *)
EXTENDS HydraAdmin, TLC

MCLinks == {[service |-> 1, delay |-> 0, up |-> TRUE],
            [service |-> 0, delay |-> 0, up |-> TRUE],
            [service |-> 1, delay |-> -1, up |-> FALSE]}

\* The first thread was declared in an earlier run, and maybe a weave over both
\* threads, the second of which is gone.
MCInit ==
    /\ Init
    /\ thread = [t \in Threads |->
                    IF t = 1 THEN Declared([service |-> 1, delay |-> 0, up |-> TRUE], 0) ELSE None]
    /\ \A w \in Weaves : weaveFile[w] \in {None, Threads}

MCSpec == MCInit /\ [][Next]_vars

ClientSymmetry == Permutations(Clients)
=============================================================================
