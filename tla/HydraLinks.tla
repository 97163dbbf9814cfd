----------------------------- MODULE HydraLinks ------------------------------
(***************************************************************************)
(* The network under a weave: one UDP path per thread, which may lose,      *)
(* duplicate, delay and reorder datagrams.  It is outside the repository;   *)
(* core/hydra/transport hands it frames with WriteToUDP and takes them back *)
(* with ReadFromUDP.                                                        *)
(***************************************************************************)
EXTENDS Integers, Sequences, FiniteSets

CONSTANTS
    Threads,    \* the threads of the weave
    MaxLost,    \* bound: datagrams the paths lose in a behaviour
    MaxDup      \* bound: datagrams they deliver more than once

ASSUME LinksAssumption == MaxLost \in Nat /\ MaxDup \in Nat

VARIABLES
    wire,    \* wire[t]: the frames in flight on thread t
    lost,    \* datagrams lost so far
    duped    \* datagrams delivered again so far

linkVars == <<wire, lost, duped>>

LinksInit ==
    /\ wire = [t \in Threads |-> {}]
    /\ lost = 0
    /\ duped = 0

\* The effect of WriteToUDP: the frame is on its path.
Transmit(t, f) ==
    /\ wire' = [wire EXCEPT ![t] = @ \cup {f}]
    /\ UNCHANGED <<lost, duped>>

\* The path drops a datagram (or the endpoint's synthetic loss roll does).
Lose(t, f) ==
    /\ f \in wire[t]
    /\ lost < MaxLost
    /\ wire' = [wire EXCEPT ![t] = @ \ {f}]
    /\ lost' = lost + 1
    /\ UNCHANGED duped

\* ReadFromUDP returns f; the path may still hold a second copy of it.
Arrive(t, f) ==
    /\ f \in wire[t]
    /\ \/ wire' = [wire EXCEPT ![t] = @ \ {f}] /\ UNCHANGED <<lost, duped>>
       \/ duped < MaxDup /\ duped' = duped + 1 /\ UNCHANGED <<wire, lost>>
=============================================================================
