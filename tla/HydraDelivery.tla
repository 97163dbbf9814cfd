--------------------------- MODULE HydraDelivery -----------------------------
(***************************************************************************)
(* What a weave delivers when its paths are good: nothing is lost on the    *)
(* wire, no send fails, no process dies and no frame lags by more than the  *)
(* gap timeout.  The code still drops in two places, a full transmit queue  *)
(* and a full reassembly window; this module records those drops beside     *)
(* HydraWeave, so that what else may be lost can be asked.                  *)
(***************************************************************************)
EXTENDS HydraWeave

VARIABLE
    givenUp    \* history: payloads dropped at a full queue or a full window

deliveryVars == <<vars, givenUp>>

\* The payload whose enqueue finds the thread's queue full (node.go:383-385).
TailDropped(t) ==
    {f.data : f \in {stripped[t][i] : i \in 1 .. Len(stripped[t])}}

QueueOverflows(t) ==
    /\ Len(txq[t]) = QueueFrames
    /\ stripped[t] # <<>> /\ stripped'[t] = <<>>

\* The payload a reader pushes Window or more ahead of the expected number.
WindowOverflows(r) ==
    /\ pc[r] = "ingest" /\ pc'[r] # "ingest"
    /\ inHand[r].seq >= NextAfterGap + Window

DeliveryInit == Init /\ givenUp = {}

DeliveryNext ==
    /\ Next
    /\ givenUp' = givenUp
          \cup UNION {TailDropped(t) : t \in {u \in Threads : QueueOverflows(u)}}
          \cup {inHand[r].data : r \in {s \in Readers : WindowOverflows(s)}}

DeliverySpec ==
    /\ DeliveryInit
    /\ [][DeliveryNext]_deliveryVars
    /\ Fairness

-----------------------------------------------------------------------------
Delivered == {egress[i].data : i \in 1 .. Len(egress)}

\* Held by the reassembler until later traffic releases it: the expected number
\* was given up, or the gap was skipped by a Push that returned before its drain
\* loop (a stale or a refused packet), which leaves the expected number buffered.
Waiting(p) ==
    /\ p[2] \in Buffered
    /\ next \in Buffered \/ <<p[1], next>> \in givenUp

(* On good paths a payload given to a thread is lost only to a full transmit *)
(* queue (node.go:383-385) or a full window (reorder.go:140): in the end it  *)
(* was sent to the anchor, was dropped at one of the two, or waits in the    *)
(* reassembler behind one that was.  Neither the scheduler's choices nor the *)
(* arrival order, copies, gap skips or concurrent readers lose another one.  *)
LostOnlyWhenFull ==
    \A p \in Data :
        p \in offered ~> [](p \in Delivered \cup givenUp \/ Waiting(p))
=============================================================================
