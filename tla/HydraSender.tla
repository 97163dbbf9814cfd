----------------------------- MODULE HydraSender -----------------------------
(***************************************************************************)
(* The sending half of a Hydra node: ingressLoop strips payloads onto       *)
(* threads (Engine.Strip) and hands them to per-thread queues; one writeLoop*)
(* goroutine per thread sends them.                                         *)
(*                                                                          *)
(* Abstractions.  All frames have one size, so QueueBytes counts frames.    *)
(* sched.Pick may return any candidate with a positive rate: rates, RTTs and*)
(* losses are left open here (the ranking itself is not modelled).  A       *)
(* payload is named <<epoch, seq>>, the run of the process that numbered it *)
(* and the number it got.                                                   *)
(***************************************************************************)
EXTENDS HydraLinks

CONSTANTS
    QueueFrames,   \* Config.QueueFrames: capacity of a thread's txq
    MaxSeq         \* bound: payloads striped by one run of the node

ASSUME SenderAssumption == QueueFrames \in Nat \ {0} /\ MaxSeq \in Nat

VARIABLES
    epoch,        \* how often the node was restarted
    seq,          \* ws.seq: the last sequence number given out
    up,           \* the threads the registry has marked up
    rated,        \* the threads with Mbps > 0
    queueBytes,   \* queueBytes[t]: the registry's QueueBytes, in frames
    offered,      \* history: the payloads Strip gave to a thread
    stripped,     \* stripped[t]: frames given to t by Strip, not yet enqueued
    txq,          \* txq[t]: frames queued for t's writer
    writer        \* writer[t]: what t's writeLoop is doing, and with which frame

engineVars == <<epoch, seq, up, rated, queueBytes, offered>>
pipeVars == <<stripped, txq, writer>>
senderVars == <<engineVars, pipeVars>>

Frame(e, n) == [seq |-> n, data |-> <<e, n>>]

Idle == [doing |-> "idle", frame |-> <<>>]

SenderInit ==
    /\ epoch = 0
    /\ seq = 0
    /\ up = Threads
    /\ rated = Threads
    /\ queueBytes = [t \in Threads |-> 0]
    /\ offered = {}
    /\ stripped = [t \in Threads |-> <<>>]
    /\ txq = [t \in Threads |-> <<>>]
    /\ writer = [t \in Threads |-> Idle]

-----------------------------------------------------------------------------
\* Registry.Candidates: the weave's threads that are up.
Candidates == up

AddQueue(t) == queueBytes' = [queueBytes EXCEPT ![t] = @ + 1]

\* SubQueue floors at zero.
SubQueue(t) == queueBytes' = [queueBytes EXCEPT ![t] = IF @ <= 1 THEN 0 ELSE @ - 1]

\* ingressLoop is between two payloads.
IngressReady == \A t \in Threads : stripped[t] = <<>>

\* A payload arrives and Strip assigns it to a candidate.
Strip ==
    /\ IngressReady
    /\ seq < MaxSeq
    /\ seq' = seq + 1
    /\ \E t \in Candidates \cap rated :
          /\ AddQueue(t)
          /\ offered' = offered \cup {<<epoch, seq + 1>>}
          /\ stripped' = [stripped EXCEPT ![t] = <<Frame(epoch, seq + 1)>>]
    /\ UNCHANGED <<epoch, up, rated, txq, writer>>

\* Candidates exist but none has capacity: sched.Pick fails after the sequence
\* number was taken, and the payload is dropped.
StripUnpicked ==
    /\ IngressReady
    /\ seq < MaxSeq
    /\ Candidates # {} /\ Candidates \cap rated = {}
    /\ seq' = seq + 1
    /\ UNCHANGED <<epoch, up, rated, queueBytes, offered, pipeVars>>

\* Mutant: a tail drop leaves the bytes on the thread.
EnqueueForgetsDrop(t) ==
    /\ stripped[t] # <<>>
    /\ stripped' = [stripped EXCEPT ![t] = <<>>]
    /\ txq' = IF Len(txq[t]) < QueueFrames THEN [txq EXCEPT ![t] = Append(@, stripped[t][1])]
              ELSE txq
    /\ UNCHANGED <<epoch, seq, up, rated, queueBytes, offered, writer>>

\* enqueue: to the thread's writer, or a tail drop that undoes the accounting.
Enqueue(t) ==
    /\ stripped[t] # <<>>
    /\ stripped' = [stripped EXCEPT ![t] = <<>>]
    /\ \/ /\ Len(txq[t]) < QueueFrames
          /\ txq' = [txq EXCEPT ![t] = Append(@, stripped[t][1])]
          /\ UNCHANGED queueBytes
       \/ /\ Len(txq[t]) >= QueueFrames
          /\ SubQueue(t)
          /\ UNCHANGED txq
    /\ UNCHANGED <<epoch, seq, up, rated, offered, writer>>

-----------------------------------------------------------------------------
\* writeLoop takes the next frame of its queue.
WriterTake(t) ==
    /\ writer[t].doing = "idle"
    /\ txq[t] # <<>>
    /\ writer' = [writer EXCEPT ![t] = [doing |-> "sending", frame |-> Head(txq[t])]]
    /\ txq' = [txq EXCEPT ![t] = Tail(@)]
    /\ UNCHANGED <<engineVars, stripped>>

Sent(t) == writer' = [writer EXCEPT ![t] = [doing |-> "completing", frame |-> <<>>]]

\* ep.Send succeeds: the frame is on the wire.
WriterSend(t) ==
    /\ writer[t].doing = "sending"
    /\ Sent(t)
    /\ UNCHANGED <<engineVars, stripped, txq>>

\* ep.Send fails: the frame is dropped and the thread is marked down.
WriterFails(t) ==
    /\ writer[t].doing = "sending"
    /\ Sent(t)
    /\ up' = up \ {t}
    /\ UNCHANGED <<epoch, seq, rated, queueBytes, offered, stripped, txq>>

\* engine.Complete, on either path.
WriterComplete(t) ==
    /\ writer[t].doing = "completing"
    /\ writer' = [writer EXCEPT ![t] = Idle]
    /\ SubQueue(t)
    /\ UNCHANGED <<epoch, seq, up, rated, offered, stripped, txq>>

-----------------------------------------------------------------------------
\* SetThreadHealth, called by probing (HydraProbe says when).
ProbeVerdict(t, alive) ==
    /\ up' = IF alive THEN up \cup {t} ELSE up \ {t}
    /\ UNCHANGED <<epoch, seq, rated, queueBytes, offered, pipeVars>>

\* SetThreadRate with a positive or a zero capacity.
SetThreadRate(t, positive) ==
    /\ rated' = IF positive THEN rated \cup {t} ELSE rated \ {t}
    /\ UNCHANGED <<epoch, seq, up, queueBytes, offered, pipeVars>>

\* The node process is killed and started again: New builds it from its config.
SenderRestart ==
    /\ epoch' = epoch + 1
    /\ seq' = 0
    /\ up' = Threads
    /\ rated' = Threads
    /\ queueBytes' = [t \in Threads |-> 0]
    /\ stripped' = [t \in Threads |-> <<>>]
    /\ txq' = [t \in Threads |-> <<>>]
    /\ writer' = [t \in Threads |-> Idle]
    /\ UNCHANGED offered

-----------------------------------------------------------------------------
(* The types of the engine and of the per-thread pipes; no queue ever holds  *)
(* more than QueueFrames.                                                 *)
SenderTypeOK ==
    /\ epoch \in Nat
    /\ seq \in 0 .. MaxSeq
    /\ up \subseteq Threads
    /\ rated \subseteq Threads
    /\ queueBytes \in [Threads -> Nat]
    /\ DOMAIN stripped = Threads /\ DOMAIN txq = Threads /\ DOMAIN writer = Threads
    /\ \A t \in Threads :
          /\ Len(stripped[t]) \in 0 .. 1
          /\ Len(txq[t]) \in 0 .. QueueFrames
          /\ writer[t].doing \in {"idle", "sending", "completing"}

InPipe(t) ==
    Len(stripped[t]) + Len(txq[t]) + (IF writer[t].doing = "idle" THEN 0 ELSE 1)

(* "the engine's queue accounting is undone so the scheduler sees the true   *)
(* backlog" (node.go:371-373): at every moment QueueBytes is exactly the     *)
(* backlog between Strip and the end of the transmission, over tail drops,   *)
(* failed sends and every interleaving of ingress and writers.               *)
QueueBytesIsBacklog == \A t \in Threads : queueBytes[t] = InPipe(t)
=============================================================================
