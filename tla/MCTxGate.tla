------------------------------ MODULE MCTxGate -------------------------------
(* TxGate for TLC: an archive was taken of an armed server with one node.    *)
EXTENDS TxGate, TLC

MCArchives == {[tx |-> TRUE, nodes |-> [n \in Nodes |->
                  IF n = CHOOSE m \in Nodes : TRUE THEN [phase |-> "on-air", tx |-> TRUE] ELSE NoNode]]}

ClientSymmetry == Permutations(Clients)
=============================================================================
