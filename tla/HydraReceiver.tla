---------------------------- MODULE HydraReceiver ----------------------------
(***************************************************************************)
(* The receiving half of a Hydra node: one readLoop goroutine per thread,   *)
(* all feeding the weave's single reassembler through Engine.Ingest and     *)
(* sending what it releases to the anchor's egress.                         *)
(*                                                                          *)
(* A reader's step is cut where other goroutines can run: after Recv, after *)
(* the Push made under sendMu, and after each egress.Send.  Frames that do  *)
(* not decode, or carry another weave's hash, change nothing and are left   *)
(* out; probe frames are the subject of HydraProbe.                         *)
(***************************************************************************)
EXTENDS Reorder

CONSTANTS
    Readers,    \* the reader goroutines, one per thread of the weave
    Frames,     \* data frames a reader may receive
    NoFrame     \* what a reader holds between two frames

ASSUME FramesAssumption ==
    /\ Frames \subseteq [seq : Nat, data : Data]
    /\ NoFrame \notin Frames

VARIABLES
    pc,        \* pc[r]: where reader r is: "recv", "ingest" or "egress"
    inHand,    \* inHand[r]: the frame Recv returned to reader r
    batch,     \* batch[r]: released payloads r has still to send
    sendMu,    \* the readers that hold ws.sendMu
    egress     \* what this run of the node sent to the anchor's egress

readerVars == <<pc, inHand, batch, sendMu, egress>>
receiverVars == <<bufferVars, readerVars>>

ReadersInit ==
    /\ pc = [r \in Readers |-> "recv"]
    /\ inHand = [r \in Readers |-> NoFrame]
    /\ batch = [r \in Readers |-> <<>>]
    /\ sendMu = {}
    /\ egress = <<>>

ReceiverInit == BufferInit /\ ReadersInit

-----------------------------------------------------------------------------
\* readLoop: Recv returns a data frame.
Recv(r, f) ==
    /\ pc[r] = "recv"
    /\ pc' = [pc EXCEPT ![r] = "ingest"]
    /\ inHand' = [inHand EXCEPT ![r] = f]
    /\ UNCHANGED <<batch, sendMu, egress, bufferVars>>

\* Mutant: Ingest without its lock.
NeverLocked == TRUE

\* ws.sendMu can be taken.
Unlocked == sendMu = {}

\* Mutant: the lock covers Push only.
IngestUnlocksEarly(r) ==
    /\ pc[r] = "ingest"
    /\ Unlocked
    /\ LET f == inHand[r]
           out == PushOut(f.seq, f.data)
       IN /\ BufferPush(f.seq, f.data)
          /\ batch' = [batch EXCEPT ![r] = out]
          /\ pc' = [pc EXCEPT ![r] = IF out = <<>> THEN "recv" ELSE "egress"]
    /\ inHand' = [inHand EXCEPT ![r] = NoFrame]
    /\ UNCHANGED <<sendMu, egress>>

\* Ingest takes ws.sendMu, pushes the frame, and keeps the lock while released
\* payloads remain to be sent; a Push that releases nothing returns at once.
Ingest(r) ==
    /\ pc[r] = "ingest"
    /\ Unlocked
    /\ LET f == inHand[r]
           out == PushOut(f.seq, f.data)
       IN /\ BufferPush(f.seq, f.data)
          /\ batch' = [batch EXCEPT ![r] = out]
          /\ sendMu' = IF out = <<>> THEN sendMu ELSE sendMu \cup {r}
          /\ pc' = [pc EXCEPT ![r] = IF out = <<>> THEN "recv" ELSE "egress"]
    /\ inHand' = [inHand EXCEPT ![r] = NoFrame]
    /\ UNCHANGED egress

\* Ingest returns: the deferred Unlock.
Return(r) ==
    /\ pc' = [pc EXCEPT ![r] = "recv"]
    /\ sendMu' = sendMu \ {r}

\* One egress.Send of the loop in Ingest succeeds.
EgressSend(r) ==
    /\ pc[r] = "egress"
    /\ egress' = Append(egress, Head(batch[r]))
    /\ batch' = [batch EXCEPT ![r] = Tail(@)]
    /\ IF Tail(batch[r]) = <<>> THEN Return(r) ELSE UNCHANGED <<pc, sendMu>>
    /\ UNCHANGED <<inHand, bufferVars>>

\* egress.Send fails: Ingest returns, and the rest of the batch is gone.
EgressFails(r) ==
    /\ pc[r] = "egress"
    /\ batch' = [batch EXCEPT ![r] = <<>>]
    /\ Return(r)
    /\ UNCHANGED <<inHand, egress, bufferVars>>

GapTimer == GapElapses /\ UNCHANGED readerVars

\* The node process is killed and started again.
ReceiverRestart ==
    /\ BufferReset
    /\ pc' = [r \in Readers |-> "recv"]
    /\ inHand' = [r \in Readers |-> NoFrame]
    /\ batch' = [r \in Readers |-> <<>>]
    /\ sendMu' = {}
    /\ egress' = <<>>

ReaderStep(r) == Ingest(r) \/ EgressSend(r) \/ EgressFails(r)

(* The receiver against every network: any frame of Frames may reach any     *)
(* reader at any time.  HydraWeave restricts Recv to frames that are really  *)
(* in flight; what holds here holds there.                                   *)
ReceiverNext ==
    \/ \E r \in Readers : ReaderStep(r) \/ \E f \in Frames : Recv(r, f)
    \/ GapTimer
    \/ ReceiverRestart

ReceiverSpec == ReceiverInit /\ [][ReceiverNext]_receiverVars

-----------------------------------------------------------------------------
(* The types of the buffer and of the readers' places, frames and batches.   *)
ReceiverTypeOK ==
    /\ BufferTypeOK
    /\ pc \in [Readers -> {"recv", "ingest", "egress"}]
    /\ inHand \in [Readers -> Frames \cup {NoFrame}]
    /\ batch \in [Readers -> Seq(Packets)]
    /\ sendMu \subseteq Readers
    /\ egress \in Seq(Packets)

(* Egress ordering (fabric.go:320-325, hydra.md "Egress ordering"): although *)
(* one reader per thread runs concurrently, the anchor sees payloads in      *)
(* strictly increasing sequence order, none twice, between re-alignments,    *)
(* even when a send fails and the rest of its batch is dropped.              *)
EgressInOrder ==
    \A i, j \in 1 .. Len(egress) : i < j => Precedes(egress[i], egress[j])

(* What the lock buys: at most one reader has released payloads in hand, so  *)
(* no second reader can push, release and send past them.                    *)
OneSender == \A r, s \in Readers : (batch[r] # <<>> /\ batch[s] # <<>>) => r = s

(* What was sent or is about to be sent lies behind the position of the      *)
(* buffer: a payload that left is never expected, buffered or released again *)
(* in its era, however readers interleave.                                   *)
SentIsBehind ==
    /\ \A i \in 1 .. Len(egress) : BehindBuffer(egress[i])
    /\ \A r \in Readers : \A i \in 1 .. Len(batch[r]) :
          /\ BehindBuffer(batch[r][i])
          /\ \A j \in 1 .. Len(egress) : Precedes(egress[j], batch[r][i])
=============================================================================
