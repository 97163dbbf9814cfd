-------------------------- MODULE HydraWeaveProofs ---------------------------
(***************************************************************************)
(* The weave, for any number of threads, readers and payloads, any window   *)
(* and any queue length.                                                    *)
(*                                                                          *)
(* First the receiving node alone, against a network that may hand any      *)
(* frame to any reader at any time (ReceiverSpec): payloads leave in order. *)
(* Then end to end: the scheduler's backlog figures are exact, and two      *)
(* nodes joined by paths that lose, repeat and reorder are an ordered       *)
(* datagram channel (WeaveChannel).  What the channel needs beyond the      *)
(* receiver's invariant is where a frame can come from: every frame in a    *)
(* queue, on a path, in a reader's hand or in the buffer carries a payload  *)
(* Strip accepted, under the number Strip gave it (CarriedInv).             *)
(***************************************************************************)
EXTENDS HydraWeave, ReorderBufferProofs

(* Who holds ws.sendMu: exactly the reader with payloads still to send, and  *)
(* at most one.                                                              *)
LockInv ==
    /\ \A r \in Readers : r \in sendMu <=> batch[r] # <<>>
    /\ \A r \in Readers : pc[r] = "egress" <=> batch[r] # <<>>
    /\ \A r, s \in Readers : (r \in sendMu /\ s \in sendMu) => r = s
    /\ \A r \in Readers : pc[r] = "ingest" => inHand[r] \in Frames

(* The payloads of a batch are themselves in order.                          *)
BatchInOrder ==
    \A r \in Readers : \A i, j \in 1 .. Len(batch[r]) :
        i < j => Precedes(batch[r][i], batch[r][j])

(* EgressInOrder is not inductive.  A send keeps it when what is being sent  *)
(* follows all that was sent (SentIsBehind), which the next Push keeps only  *)
(* if no other reader still has payloads in hand (LockInv) and what it       *)
(* releases is ahead of the buffer's old position (BufferInv).               *)
Inv ==
    /\ BufferInv
    /\ ReceiverTypeOK
    /\ LockInv
    /\ BatchInOrder
    /\ SentIsBehind
    /\ EgressInOrder

-----------------------------------------------------------------------------
\* Frames carry a sequence number and a payload.
LEMMA FrameTyped ==
    ASSUME NEW f \in Frames
    PROVE  f.seq \in Nat /\ f.data \in Data
  BY FramesAssumption

\* A released packet stays behind the buffer when a Push moves it on.
LEMMA StaysBehind ==
    ASSUME BufferInv, NEW s \in Nat, NEW d \in Data, BufferPush(s, d),
           NEW p \in Packets, BehindBuffer(p)
    PROVE  p.era < resyncs' \/ (p.era = resyncs' /\ p.seq < next')
<1>1. /\ resyncs' \in Nat /\ next' \in Nat
      /\ resyncs' > resyncs \/ (resyncs' = resyncs /\ next' >= next)
  BY PositionAdvances
<1>2. resyncs \in Nat /\ next \in Nat /\ p.era \in Nat /\ p.seq \in Nat
  BY DEF BufferInv, BufferTypeOK, Packets
<1> QED BY <1>1, <1>2 DEF BehindBuffer

\* What a Push releases follows everything that lay behind the buffer.
LEMMA BehindPrecedes ==
    ASSUME BufferInv, NEW p \in Packets, NEW q \in Packets, NEW era \in Nat,
           BehindBuffer(p), ~BehindBuffer(q), q.era = era, era >= resyncs
    PROVE  Precedes(p, q)
  BY DEF BehindBuffer, Precedes, Packets, BufferInv, BufferTypeOK

-----------------------------------------------------------------------------
LEMMA RecvInv ==
    ASSUME Inv, NEW r \in Readers, NEW f \in Frames, Recv(r, f)
    PROVE  Inv'
<1>1. UNCHANGED <<batch, sendMu, egress, next, slots, gapSince, staleRun, resyncs>>
  BY DEF Recv, bufferVars
<1>2. BufferInv' /\ BatchInOrder' /\ SentIsBehind' /\ EgressInOrder'
  BY <1>1 DEF Inv, BufferInv, BufferTypeOK, WithinWindow, TimerHasWaiter, Buffered,
              BatchInOrder, SentIsBehind, EgressInOrder, BehindBuffer
<1>3. /\ pc[r] = "recv"
      /\ pc' = [pc EXCEPT ![r] = "ingest"]
      /\ inHand' = [inHand EXCEPT ![r] = f]
  BY DEF Recv
<1>4. ReceiverTypeOK'
  BY <1>1, <1>2, <1>3 DEF Inv, ReceiverTypeOK, BufferInv
<1>5. LockInv'
  BY <1>1, <1>3 DEF Inv, ReceiverTypeOK, LockInv
<1> QED BY <1>2, <1>4, <1>5 DEF Inv

LEMMA IngestInv ==
    ASSUME Inv, NEW r \in Readers, Ingest(r)
    PROVE  Inv'
<1> DEFINE f == inHand[r]
           out == PushOut(f.seq, f.data)
<1>1. /\ pc[r] = "ingest" /\ sendMu = {}
      /\ BufferPush(f.seq, f.data)
      /\ batch' = [batch EXCEPT ![r] = out]
      /\ sendMu' = IF out = <<>> THEN sendMu ELSE sendMu \cup {r}
      /\ pc' = [pc EXCEPT ![r] = IF out = <<>> THEN "recv" ELSE "egress"]
      /\ inHand' = [inHand EXCEPT ![r] = NoFrame]
      /\ egress' = egress
  BY DEF Ingest, Unlocked
<1>2. f.seq \in Nat /\ f.data \in Data
  BY <1>1, FrameTyped DEF Inv, LockInv
<1>3. BufferInv'
  BY <1>1, <1>2, BufferPushInv DEF Inv
<1>4. /\ out \in Seq(Packets)
      /\ \A i \in 1 .. Len(out) :
            /\ out[i].era = resyncs' /\ out[i].seq < next'
            /\ ~BehindBuffer(out[i])
            /\ \A j \in 1 .. Len(out) : i < j => Precedes(out[i], out[j])
  BY <1>1, <1>2, PushOutRun DEF Inv
<1>5. /\ resyncs' \in Nat /\ next' \in Nat /\ resyncs \in Nat
      /\ resyncs' >= resyncs
  BY <1>1, <1>2, PositionAdvances DEF Inv, BufferInv, BufferTypeOK
<1>6. \A p \in Packets : BehindBuffer(p) =>
          p.era < resyncs' \/ (p.era = resyncs' /\ p.seq < next')
  BY <1>1, <1>2, StaysBehind DEF Inv
<1> HIDE DEF f, out
<1>7. \A i \in 1 .. Len(out) : out[i] \in Packets
  BY <1>4
<1>8. ReceiverTypeOK'
  BY <1>1, <1>3, <1>4 DEF Inv, ReceiverTypeOK, BufferInv
<1>9. \A s \in Readers : batch[s] = <<>>
  BY <1>1 DEF Inv, LockInv
<1>10. batch'[r] = out /\ \A s \in Readers : s # r => batch'[s] = <<>>
  BY <1>1, <1>9 DEF Inv, ReceiverTypeOK
<1>11. LockInv'
  BY <1>1, <1>9, <1>10 DEF Inv, ReceiverTypeOK, LockInv
<1>12. BatchInOrder'
  BY <1>4, <1>10 DEF BatchInOrder
<1>13. EgressInOrder'
  BY <1>1 DEF Inv, EgressInOrder
<1>14. \A i \in 1 .. Len(egress) : egress[i] \in Packets /\ BehindBuffer(egress[i])
  BY DEF Inv, ReceiverTypeOK, SentIsBehind
<1>15. \A i \in 1 .. Len(egress') :
           egress'[i].era < resyncs' \/ (egress'[i].era = resyncs' /\ egress'[i].seq < next')
  BY <1>1, <1>6, <1>14
<1>16. ASSUME NEW s \in Readers, NEW i \in 1 .. Len(batch'[s])
       PROVE  /\ batch'[s][i].era = resyncs' /\ batch'[s][i].seq < next'
              /\ \A j \in 1 .. Len(egress') : Precedes(egress'[j], batch'[s][i])
  <2>1. s = r /\ batch'[s] = out
    BY <1>10
  <2>2. \A j \in 1 .. Len(egress) : Precedes(egress[j], out[i])
    BY <1>4, <1>5, <1>7, <1>14, <2>1, BehindPrecedes DEF Inv
  <2> QED BY <1>1, <1>4, <2>1, <2>2
<1>17. SentIsBehind'
  BY <1>15, <1>16 DEF SentIsBehind, BehindBuffer
<1> QED BY <1>3, <1>8, <1>11, <1>12, <1>13, <1>17 DEF Inv

\* A batch loses its head, or all of it, and what is left keeps its order.
LEMMA EgressSendInv ==
    ASSUME Inv, NEW r \in Readers, EgressSend(r)
    PROVE  Inv'
<1> DEFINE b == batch[r]
<1>1. /\ pc[r] = "egress"
      /\ egress' = Append(egress, Head(b))
      /\ batch' = [batch EXCEPT ![r] = Tail(b)]
      /\ inHand' = inHand
      /\ UNCHANGED <<next, slots, gapSince, staleRun, resyncs>>
  BY DEF EgressSend, bufferVars
<1>2. b \in Seq(Packets) /\ b # <<>> /\ egress \in Seq(Packets)
  BY <1>1 DEF Inv, LockInv, ReceiverTypeOK
<1>3. /\ Len(b) \in Nat /\ Len(b) >= 1 /\ Head(b) = b[1] /\ Head(b) \in Packets
      /\ Tail(b) \in Seq(Packets) /\ Len(Tail(b)) = Len(b) - 1
      /\ \A i \in 1 .. Len(Tail(b)) : Tail(b)[i] = b[i + 1] /\ i + 1 \in 1 .. Len(b)
  BY <1>2
<1>4. /\ egress' \in Seq(Packets) /\ Len(egress') = Len(egress) + 1 /\ Len(egress) \in Nat
      /\ \A i \in 1 .. Len(egress) : egress'[i] = egress[i]
      /\ egress'[Len(egress) + 1] = b[1]
  BY <1>1, <1>2, <1>3
<1>5. BufferInv'
  BY <1>1 DEF Inv, BufferInv, BufferTypeOK, WithinWindow, TimerHasWaiter, Buffered
<1>6. /\ batch'[r] = Tail(b)
      /\ \A s \in Readers : s # r => batch'[s] = batch[s] /\ batch[s] = <<>>
  BY <1>1, <1>2 DEF Inv, ReceiverTypeOK, LockInv
<1>7. /\ \A i \in 1 .. Len(egress) : Precedes(egress[i], b[1])
      /\ \A i \in 1 .. Len(b) : BehindBuffer(b[i])
      /\ \A i \in 1 .. Len(b) : \A j \in 1 .. Len(egress) : Precedes(egress[j], b[i])
      /\ \A i, j \in 1 .. Len(b) : i < j => Precedes(b[i], b[j])
      /\ \A i \in 1 .. Len(egress) : BehindBuffer(egress[i])
      /\ \A i, j \in 1 .. Len(egress) : i < j => Precedes(egress[i], egress[j])
  <2>1. 1 \in 1 .. Len(b)
    BY <1>3
  <2>2. /\ \A i \in 1 .. Len(b) : BehindBuffer(b[i])
        /\ \A i \in 1 .. Len(b) : \A j \in 1 .. Len(egress) : Precedes(egress[j], b[i])
        /\ \A i \in 1 .. Len(egress) : BehindBuffer(egress[i])
    BY <1>2, Zenon DEF Inv, SentIsBehind
  <2>3. \A i, j \in 1 .. Len(b) : i < j => Precedes(b[i], b[j])
    BY <1>2, Zenon DEF Inv, BatchInOrder
  <2>4. \A i, j \in 1 .. Len(egress) : i < j => Precedes(egress[i], egress[j])
    BY Zenon DEF Inv, EgressInOrder
  <2> QED
    BY <2>1, <2>2, <2>3, <2>4, Zenon
<1>8. \A p : BehindBuffer(p) => (p.era < resyncs' \/ (p.era = resyncs' /\ p.seq < next'))
  BY <1>1 DEF BehindBuffer
<1>9. \/ Tail(b) = <<>> /\ pc' = [pc EXCEPT ![r] = "recv"] /\ sendMu' = sendMu \ {r}
      \/ Tail(b) # <<>> /\ pc' = pc /\ sendMu' = sendMu
  BY DEF EgressSend, Return
<1> HIDE DEF b
<1>10. ReceiverTypeOK'
  BY <1>1, <1>3, <1>4, <1>5, <1>9 DEF Inv, ReceiverTypeOK, BufferInv
<1>11. LockInv'
  <2>1. r \in sendMu /\ \A s \in Readers : s # r => s \notin sendMu /\ pc[s] # "egress"
    BY <1>1, <1>6 DEF Inv, LockInv, ReceiverTypeOK
  <2> QED BY <1>1, <1>6, <1>9, <2>1 DEF Inv, ReceiverTypeOK, LockInv
<1>12. EgressInOrder'
  <2> SUFFICES ASSUME NEW i \in 1 .. Len(egress'), NEW j \in 1 .. Len(egress'), i < j
               PROVE  Precedes(egress'[i], egress'[j])
    BY DEF EgressInOrder
  <2> QED BY <1>4, <1>7
<1>13. BatchInOrder'
  <2> SUFFICES ASSUME NEW s \in Readers, NEW i \in 1 .. Len(batch'[s]),
                      NEW j \in 1 .. Len(batch'[s]), i < j
               PROVE  Precedes(batch'[s][i], batch'[s][j])
    BY DEF BatchInOrder
  <2>1. s = r
    BY <1>6
  <2> QED BY <2>1, <1>3, <1>6, <1>7
<1>14. \A i \in 1 .. Len(egress') :
           egress'[i].era < resyncs' \/ (egress'[i].era = resyncs' /\ egress'[i].seq < next')
  BY <1>3, <1>4, <1>7, <1>8
<1>15. ASSUME NEW s \in Readers, NEW i \in 1 .. Len(batch'[s])
       PROVE  /\ batch'[s][i].era < resyncs'
                    \/ (batch'[s][i].era = resyncs' /\ batch'[s][i].seq < next')
              /\ \A j \in 1 .. Len(egress') : Precedes(egress'[j], batch'[s][i])
  <2>1. s = r
    BY <1>6
  <2>2. batch'[s][i] = b[i + 1] /\ i + 1 \in 1 .. Len(b) /\ i \in Nat /\ i >= 1
    BY <2>1, <1>3, <1>6
  <2>3. Precedes(b[1], b[i + 1])
    BY <2>2, <1>3, <1>7
  <2> QED BY <2>2, <2>3, <1>4, <1>7, <1>8
<1>16. SentIsBehind'
  BY <1>14, <1>15 DEF SentIsBehind, BehindBuffer
<1> QED BY <1>5, <1>10, <1>11, <1>12, <1>13, <1>16 DEF Inv

LEMMA EgressFailsInv ==
    ASSUME Inv, NEW r \in Readers, EgressFails(r)
    PROVE  Inv'
<1>1. /\ pc[r] = "egress"
      /\ batch' = [batch EXCEPT ![r] = <<>>]
      /\ pc' = [pc EXCEPT ![r] = "recv"] /\ sendMu' = sendMu \ {r}
      /\ UNCHANGED <<inHand, egress, next, slots, gapSince, staleRun, resyncs>>
  BY DEF EgressFails, Return, bufferVars
<1>2. BufferInv'
  BY <1>1 DEF Inv, BufferInv, BufferTypeOK, WithinWindow, TimerHasWaiter, Buffered
<1>3. ReceiverTypeOK'
  BY <1>1, <1>2 DEF Inv, ReceiverTypeOK, BufferInv
<1>4. LockInv'
  BY <1>1 DEF Inv, ReceiverTypeOK, LockInv
<1>5. \A s \in Readers : batch'[s] = <<>> \/ batch'[s] = batch[s]
  BY <1>1 DEF Inv, ReceiverTypeOK
<1>6. EgressInOrder' /\ BatchInOrder'
  BY <1>1, <1>5 DEF Inv, EgressInOrder, BatchInOrder
<1>7. SentIsBehind'
  BY <1>1, <1>5 DEF Inv, SentIsBehind, BehindBuffer
<1> QED BY <1>2, <1>3, <1>4, <1>6, <1>7 DEF Inv

LEMMA GapTimerInv == Inv /\ GapTimer => Inv'
<1> SUFFICES ASSUME Inv, GapTimer PROVE Inv'
  OBVIOUS
<1>1. BufferInv'
  BY GapElapsesInv DEF Inv, GapTimer
<1>2. UNCHANGED <<pc, inHand, batch, sendMu, egress, next, resyncs>>
  BY DEF GapTimer, GapElapses, readerVars
<1> QED BY <1>1, <1>2 DEF Inv, ReceiverTypeOK, BufferInv, LockInv, BatchInOrder, SentIsBehind,
                          EgressInOrder, BehindBuffer

\* A node that starts, for the first time or again, is in order trivially.
LEMMA StartInv ==
    /\ ReceiverInit => Inv
    /\ ReceiverRestart => Inv'
<1>1. ASSUME ReceiverInit PROVE Inv
  <2>1. BufferInv
    BY <1>1, BufferInitInv DEF ReceiverInit
  <2> QED BY <1>1, <2>1 DEF ReceiverInit, ReadersInit, Inv, ReceiverTypeOK, BufferInv, LockInv,
                            BatchInOrder, SentIsBehind, EgressInOrder
<1>2. ASSUME ReceiverRestart PROVE Inv'
  <2>1. BufferInv'
    BY <1>2, BufferResetInv DEF ReceiverRestart
  <2> QED BY <1>2, <2>1 DEF ReceiverRestart, Inv, ReceiverTypeOK, BufferInv, LockInv,
                            BatchInOrder, SentIsBehind, EgressInOrder
<1> QED BY <1>1, <1>2

LEMMA InvNext == Inv /\ [ReceiverNext]_receiverVars => Inv'
<1> SUFFICES ASSUME Inv, [ReceiverNext]_receiverVars PROVE Inv'
  OBVIOUS
<1>1. ASSUME NEW r \in Readers, NEW f \in Frames, Recv(r, f) PROVE Inv'
  BY <1>1, RecvInv
<1>2. ASSUME NEW r \in Readers, ReaderStep(r) PROVE Inv'
  BY <1>2, IngestInv, EgressSendInv, EgressFailsInv DEF ReaderStep
<1>3. CASE GapTimer
  BY <1>3, GapTimerInv
<1>4. CASE ReceiverRestart
  BY <1>4, StartInv
<1>5. CASE UNCHANGED receiverVars
  BY <1>5 DEF receiverVars, bufferVars, readerVars, Inv, BufferInv, BufferTypeOK, WithinWindow,
              TimerHasWaiter, Buffered, ReceiverTypeOK, LockInv, BatchInOrder, SentIsBehind,
              EgressInOrder, BehindBuffer
<1> QED BY <1>1, <1>2, <1>3, <1>4, <1>5 DEF ReceiverNext

LEMMA InvHolds == ReceiverSpec => []Inv
<1>1. ReceiverInit => Inv
  BY StartInv
<1> QED BY <1>1, InvNext, PTL DEF ReceiverSpec

(* The receiver's variables keep their types on every network.               *)
THEOREM ReceiverTypeCorrect == ReceiverSpec => []ReceiverTypeOK
<1>1. Inv => ReceiverTypeOK
  BY DEF Inv
<1> QED BY <1>1, InvHolds, PTL

(* Ingest's lock leaves at most one reader with payloads to send.            *)
THEOREM LockExcludes == ReceiverSpec => []OneSender
<1>1. Inv => OneSender
  BY DEF Inv, LockInv, OneSender
<1> QED BY <1>1, InvHolds, PTL

(* The anchor sees payloads in order, each at most once, between             *)
(* re-alignments.                                                            *)
THEOREM EgressOrder == ReceiverSpec => []EgressInOrder
<1>1. Inv => EgressInOrder
  BY DEF Inv
<1> QED BY <1>1, InvHolds, PTL

(* What was sent, or is about to be, is never released again in its era.     *)
THEOREM NothingSentTwice == ReceiverSpec => []SentIsBehind
<1>1. Inv => SentIsBehind
  BY DEF Inv
<1> QED BY <1>1, InvHolds, PTL

-----------------------------------------------------------------------------
(* The weave end to end.                                                     *)

\* The frames of the payloads in o.
FramesOf(o) == {Frame(d[1], d[2]) : d \in o}

\* The writer's states, with a frame while it is sending.
Writing(o) == {Idle, [doing |-> "completing", frame |-> <<>>]}
                  \cup {[doing |-> "sending", frame |-> f] : f \in FramesOf(o)}

\* The sender's state.
SenderInv ==
    /\ SenderTypeOK
    /\ epoch \in 0 .. MaxEpoch
    /\ offered \subseteq Data
    /\ stripped \in [Threads -> Seq(FramesOf(offered))]
    /\ txq \in [Threads -> Seq(FramesOf(offered))]
    /\ writer \in [Threads -> Writing(offered)]
    /\ wire \in [Threads -> SUBSET FramesOf(offered)]

\* A packet of an accepted payload, with its number.
Accepted(p) == p.data \in offered /\ p.seq = p.data[2]

CarriedInv ==
    /\ \A r \in Readers : inHand[r] \in FramesOf(offered) \cup {NoFrame}
    /\ \A n \in Buffered : slots[n] \in offered /\ n = slots[n][2]
    /\ \A r \in Readers : \A i \in 1 .. Len(batch[r]) : Accepted(batch[r][i])
    /\ \A i \in 1 .. Len(egress) : Accepted(egress[i])

WeaveInv == Inv /\ SenderInv /\ QueueBytesIsBacklog /\ CarriedInv

-----------------------------------------------------------------------------
\* More payloads, more frames.
LEMMA FramesGrow ==
    ASSUME NEW o, NEW q, o \subseteq q
    PROVE  FramesOf(o) \subseteq FramesOf(q) /\ Writing(o) \subseteq Writing(q)
<1>1. FramesOf(o) \subseteq FramesOf(q)
  BY DEF FramesOf
<1> QED
  BY <1>1 DEF Writing

\* A frame of accepted payloads is one of the weave's, and carries its number.
LEMMA FrameCarries ==
    ASSUME NEW o, o \subseteq Data, NEW f \in FramesOf(o)
    PROVE  f \in Frames /\ f.data \in o /\ f.seq = f.data[2]
<1>1. PICK d \in o : f = Frame(d[1], d[2])
  BY DEF FramesOf
<1>2. d \in Data /\ d = <<d[1], d[2]>>
  BY WeaveAssumption
<1> QED
  BY <1>1, <1>2, WeaveAssumption DEF Frame

-----------------------------------------------------------------------------
(* The sending node.                                                         *)

\* Steps that leave the receiving node alone and take back no payload.
LEMMA ReceiverKept ==
    ASSUME WeaveInv, UNCHANGED receiverVars, offered \subseteq offered'
    PROVE  Inv' /\ CarriedInv'
<1>1. Inv'
  BY InvNext DEF WeaveInv
<1>2. UNCHANGED <<inHand, slots, batch, egress>>
  BY DEF receiverVars, bufferVars, readerVars
<1>3. FramesOf(offered) \subseteq FramesOf(offered')
  BY FramesGrow
<1>4. CarriedInv'
  BY <1>2, <1>3 DEF WeaveInv, CarriedInv, Accepted, Buffered
<1> QED
  BY <1>1, <1>4

LEMMA StripStep ==
    ASSUME WeaveInv, StripPayload
    PROVE  WeaveInv'
<1> USE DEF WeaveInv
<1>0. UNCHANGED <<wire, epoch, up, rated, txq, writer>> /\ UNCHANGED receiverVars
  BY DEF StripPayload, SenderAlone, Strip, StripUnpicked, linkVars, pipeVars
<1>1. seq' \in 0 .. MaxSeq /\ seq < MaxSeq /\ seq' = seq + 1 /\ \A t \in Threads : stripped[t] = <<>>
  BY SenderAssumption DEF StripPayload, Strip, StripUnpicked, IngressReady, SenderInv, SenderTypeOK
<1>2. CASE UNCHANGED <<queueBytes, offered, stripped>>
  <2>1. Inv' /\ CarriedInv'
    BY <1>0, <1>2, ReceiverKept
  <2>2. SenderInv' /\ QueueBytesIsBacklog'
    BY <1>0, <1>1, <1>2 DEF SenderInv, SenderTypeOK, QueueBytesIsBacklog, InPipe
  <2> QED
    BY <2>1, <2>2
<1>3. CASE Strip
  <2>1. PICK t \in Candidates \cap rated :
           /\ AddQueue(t)
           /\ offered' = offered \cup {<<epoch, seq + 1>>}
           /\ stripped' = [stripped EXCEPT ![t] = <<Frame(epoch, seq + 1)>>]
    BY <1>3 DEF Strip
  <2>2. t \in Threads /\ <<epoch, seq + 1>> \in Data
    BY <1>1, WeaveAssumption, SenderAssumption DEF Candidates, SenderInv, SenderTypeOK
  <2>3. Inv' /\ CarriedInv'
    BY <1>0, <2>1, ReceiverKept
  <2>4. /\ offered' \subseteq Data /\ Frame(epoch, seq + 1) \in FramesOf(offered')
        /\ FramesOf(offered) \subseteq FramesOf(offered') /\ Writing(offered) \subseteq Writing(offered')
    <3>1. offered' \subseteq Data /\ offered \subseteq offered' /\ <<epoch, seq + 1>> \in offered'
      BY <2>1, <2>2 DEF SenderInv
    <3>2. Frame(epoch, seq + 1) \in FramesOf(offered')
      BY <3>1 DEF FramesOf
    <3> QED
      BY <3>1, <3>2, FramesGrow
  <2> DEFINE x == <<Frame(epoch, seq + 1)>>
  <2>5. x \in Seq(FramesOf(offered')) /\ Len(x) = 1
    BY <2>4
  <2> HIDE DEF x
  <2>6. /\ stripped' \in [Threads -> Seq(FramesOf(offered'))]
        /\ \A u \in Threads : stripped'[u] = IF u = t THEN x ELSE <<>>
    BY <1>1, <2>1, <2>2, <2>5 DEF SenderInv, x
  <2>7. /\ queueBytes' \in [Threads -> Nat]
        /\ \A u \in Threads : queueBytes'[u] = IF u = t THEN queueBytes[u] + 1 ELSE queueBytes[u]
    BY <2>1, <2>2 DEF AddQueue, SenderInv, SenderTypeOK
  <2>8. /\ txq' \in [Threads -> Seq(FramesOf(offered'))] /\ writer' \in [Threads -> Writing(offered')]
        /\ wire' \in [Threads -> SUBSET FramesOf(offered')]
    BY <1>0, <2>4 DEF SenderInv
  <2>9. SenderInv'
    BY <1>0, <1>1, <2>4, <2>5, <2>6, <2>7, <2>8 DEF SenderInv, SenderTypeOK
  <2>10. QueueBytesIsBacklog'
    <3> SUFFICES ASSUME NEW u \in Threads PROVE queueBytes'[u] = InPipe(u)'
      BY DEF QueueBytesIsBacklog
    <3>1. queueBytes[u] = InPipe(u) /\ Len(txq[u]) \in Nat /\ Len(stripped[u]) = 0
      BY <1>1 DEF QueueBytesIsBacklog, SenderInv, SenderTypeOK
    <3>2. Len(stripped'[u]) = IF u = t THEN 1 ELSE 0
      <4>1. CASE u = t
        BY <2>5, <2>6, <4>1
      <4>2. CASE u # t
        BY <2>6, <4>2
      <4> QED
        BY <4>1, <4>2
    <3>3. queueBytes'[u] = IF u = t THEN queueBytes[u] + 1 ELSE queueBytes[u]
      BY <2>7
    <3>4. PICK w \in Nat : w = IF writer[u].doing = "idle" THEN 0 ELSE 1
      OBVIOUS
    <3>5. InPipe(u) = Len(stripped[u]) + Len(txq[u]) + w /\ InPipe(u)' = Len(stripped'[u]) + Len(txq[u]) + w
      BY <1>0, <3>4 DEF InPipe
    <3> QED
      <4> HIDE DEF WeaveInv
      <4>1. PICK a, b, c, e, s, q : a = queueBytes'[u] /\ b = InPipe(u)' /\ c = queueBytes[u] /\ e = InPipe(u)
              /\ s = Len(stripped'[u]) /\ q = Len(txq[u])
        OBVIOUS
      <4>2. c = e /\ e = 0 + q + w /\ b = s + q + w
        BY <3>1, <3>5, <4>1
      <4>3. q \in Nat /\ w \in Nat
        BY <3>1, <3>4, <4>1
      <4>4. s = IF u = t THEN 1 ELSE 0
        BY <3>2, <4>1
      <4>5. a = IF u = t THEN c + 1 ELSE c
        BY <3>3, <4>1
      <4>6. a = b
        BY <4>2, <4>3, <4>4, <4>5
      <4> QED
        BY <4>1, <4>6
  <2> QED
    BY <2>3, <2>9, <2>10
<1> QED
  BY <1>2, <1>3 DEF StripPayload, StripUnpicked, pipeVars

\* Complete and a tail drop take a frame off the backlog that was in it.
LEMMA SubQueueStep ==
    ASSUME WeaveInv, NEW t \in Threads, SubQueue(t), InPipe(t) >= 1
    PROVE  /\ queueBytes' \in [Threads -> Nat]
           /\ \A u \in Threads : queueBytes'[u] = IF u = t THEN queueBytes[u] - 1 ELSE queueBytes[u]
<1>1. queueBytes \in [Threads -> Nat] /\ queueBytes[t] = InPipe(t)
  BY DEF WeaveInv, SenderInv, SenderTypeOK, QueueBytesIsBacklog
<1> QED
  BY <1>1 DEF SubQueue

\* What a step of the pipe does to the backlog of thread u.
LEMMA BacklogMoves ==
    ASSUME WeaveInv, NEW u \in Threads, NEW k \in Int, queueBytes'[u] = queueBytes[u] + k,
           NEW s \in Nat, NEW q \in Nat, NEW w \in Nat,
           s = Len(stripped'[u]), q = Len(txq'[u]), w = IF writer'[u].doing = "idle" THEN 0 ELSE 1,
           s + q + w = InPipe(u) + k
    PROVE  queueBytes'[u] = InPipe(u)'
<1>1. queueBytes[u] = InPipe(u)
  BY DEF WeaveInv, QueueBytesIsBacklog
<1>2. InPipe(u)' = s + q + w
  BY DEF InPipe
<1> QED
  BY <1>1, <1>2

LEMMA BacklogStays ==
    ASSUME WeaveInv, NEW u \in Threads, queueBytes'[u] = queueBytes[u], stripped'[u] = stripped[u],
           txq'[u] = txq[u], writer'[u].doing = "idle" <=> writer[u].doing = "idle"
    PROVE  queueBytes'[u] = InPipe(u)'
BY DEF WeaveInv, QueueBytesIsBacklog, InPipe

LEMMA PipeTypes ==
    ASSUME WeaveInv, NEW t \in Threads
    PROVE  /\ stripped[t] \in Seq(FramesOf(offered)) /\ Len(stripped[t]) \in 0 .. 1
           /\ txq[t] \in Seq(FramesOf(offered)) /\ Len(txq[t]) \in 0 .. QueueFrames
           /\ Len(txq[t]) \in Nat /\ Len(stripped[t]) \in Nat
           /\ writer[t] \in Writing(offered) /\ queueBytes[t] \in Nat
           /\ InPipe(t) = Len(stripped[t]) + Len(txq[t]) + (IF writer[t].doing = "idle" THEN 0 ELSE 1)
BY SenderAssumption DEF WeaveInv, SenderInv, SenderTypeOK, InPipe

\* A frame moves from ingress to the queue, or is dropped at its end.
LEMMA EnqueueStep ==
    ASSUME WeaveInv, NEW t \in Threads, Enqueue(t), SenderAlone
    PROVE  WeaveInv'
<1>0. /\ UNCHANGED <<wire, epoch, seq, up, rated, offered, writer>> /\ UNCHANGED receiverVars
      /\ stripped[t] # <<>> /\ stripped' = [stripped EXCEPT ![t] = <<>>]
  BY DEF Enqueue, SenderAlone, linkVars
<1>1. Inv' /\ CarriedInv'
  BY <1>0, ReceiverKept
<1>2. /\ stripped[t] \in Seq(FramesOf(offered)) /\ Len(stripped[t]) = 1
      /\ stripped[t][1] \in FramesOf(offered)
      /\ txq[t] \in Seq(FramesOf(offered)) /\ Len(txq[t]) \in 0 .. QueueFrames
      /\ Len(txq[t]) \in Nat /\ InPipe(t) = queueBytes[t] /\ queueBytes[t] \in Nat
  <2>1. stripped[t] \in Seq(FramesOf(offered)) /\ Len(stripped[t]) \in 0 .. 1
    BY PipeTypes
  <2>2. Len(stripped[t]) = 1
    BY <1>0, <2>1
  <2>3. stripped[t][1] \in FramesOf(offered)
    BY <2>1, <2>2
  <2>4. InPipe(t) = queueBytes[t]
    BY DEF WeaveInv, QueueBytesIsBacklog
  <2> QED
    BY <2>1, <2>2, <2>3, <2>4, PipeTypes
<1>3. /\ stripped' \in [Threads -> Seq(FramesOf(offered))] /\ stripped'[t] = <<>>
      /\ \A u \in Threads \ {t} : stripped'[u] = stripped[u]
  BY <1>0 DEF WeaveInv, SenderInv
<1>4. PICK w \in Nat, n \in Nat : w = (IF writer[t].doing = "idle" THEN 0 ELSE 1) /\ n = Len(txq[t])
  BY <1>2
<1>5. InPipe(t) = 1 + n + w
  BY <1>2, <1>4, PipeTypes
<1>n. n \in Nat /\ w \in Nat
  BY <1>4
<1>6. CASE /\ Len(txq[t]) < QueueFrames
           /\ txq' = [txq EXCEPT ![t] = Append(txq[t], stripped[t][1])]
           /\ queueBytes' = queueBytes
  <2> DEFINE x == Append(txq[t], stripped[t][1])
  <2>1. x \in Seq(FramesOf(offered)) /\ Len(x) = Len(txq[t]) + 1 /\ Len(x) \in 0 .. QueueFrames
    BY <1>2, <1>6, SenderAssumption
  <2>2. txq' = [txq EXCEPT ![t] = x]
    BY <1>6
  <2> HIDE DEF x
  <2>3. /\ txq' \in [Threads -> Seq(FramesOf(offered))] /\ txq'[t] = x
        /\ \A u \in Threads \ {t} : txq'[u] = txq[u]
    BY <2>1, <2>2 DEF WeaveInv, SenderInv
  <2>4. \A u \in Threads : Len(stripped'[u]) \in 0 .. 1 /\ Len(txq'[u]) \in 0 .. QueueFrames
    <3> SUFFICES ASSUME NEW u \in Threads
                 PROVE  Len(stripped'[u]) \in 0 .. 1 /\ Len(txq'[u]) \in 0 .. QueueFrames
      OBVIOUS
    <3>1. CASE u = t
      BY <1>3, <2>1, <2>3, <3>1
    <3>2. CASE u # t
      BY <1>3, <2>3, <3>2, PipeTypes
    <3> QED
      BY <3>1, <3>2
  <2>5. SenderInv'
    BY <1>0, <1>3, <1>6, <2>3, <2>4 DEF WeaveInv, SenderInv, SenderTypeOK
  <2>6. QueueBytesIsBacklog'
    <3> SUFFICES ASSUME NEW u \in Threads PROVE queueBytes'[u] = InPipe(u)'
      BY DEF QueueBytesIsBacklog
    <3>1. CASE u # t
      BY <1>0, <1>3, <1>6, <2>3, <3>1, BacklogStays
    <3>2. CASE u = t
      <4>1. PICK s \in Nat, q \in Nat : s = 0 /\ q = n + 1
        BY <1>4
      <4>2. s = Len(stripped'[t]) /\ q = Len(txq'[t]) /\ w = IF writer'[t].doing = "idle" THEN 0 ELSE 1
        BY <1>0, <1>3, <1>4, <2>1, <2>3, <4>1
      <4>3. s + q + w = InPipe(t) + 0 /\ queueBytes'[t] = queueBytes[t] + 0
        <5>1. PICK a, b, c : a = InPipe(t) /\ b = queueBytes[t] /\ c = queueBytes'[t]
          OBVIOUS
        <5>2. b \in Nat /\ c = b /\ a = 1 + n + w
          BY <1>2, <1>5, <1>6, <5>1
        <5>3. s = 0 /\ q = n + 1
          BY <4>1
        <5>4. s + q + w = a + 0 /\ c = b + 0
          BY <1>n, <5>2, <5>3
        <5> QED
          BY <5>1, <5>4
      <4>4. 0 \in Int
        OBVIOUS
      <4> QED
        BY <1>4, <3>2, <4>1, <4>2, <4>3, <4>4, BacklogMoves
    <3> QED
      BY <3>1, <3>2
  <2> QED
    BY <1>1, <2>5, <2>6 DEF WeaveInv
<1>7. CASE SubQueue(t) /\ txq' = txq
  <2>0. InPipe(t) >= 1
    BY <1>n, <1>5
  <2>1. /\ queueBytes' \in [Threads -> Nat]
        /\ \A u \in Threads : queueBytes'[u] = IF u = t THEN queueBytes[u] - 1 ELSE queueBytes[u]
    BY <1>7, <2>0, SubQueueStep
  <2>4. \A u \in Threads : Len(stripped'[u]) \in 0 .. 1
    <3> SUFFICES ASSUME NEW u \in Threads PROVE  Len(stripped'[u]) \in 0 .. 1
      OBVIOUS
    <3>1. CASE u = t
      BY <1>3, <3>1
    <3>2. CASE u # t
      BY <1>3, <3>2, PipeTypes
    <3> QED
      BY <3>1, <3>2
  <2>5. SenderInv'
    BY <1>0, <1>3, <1>7, <2>1, <2>4 DEF WeaveInv, SenderInv, SenderTypeOK
  <2>6. QueueBytesIsBacklog'
    <3> SUFFICES ASSUME NEW u \in Threads PROVE queueBytes'[u] = InPipe(u)'
      BY DEF QueueBytesIsBacklog
    <3>1. CASE u # t
      BY <1>0, <1>3, <1>7, <2>1, <3>1, BacklogStays
    <3>2. CASE u = t
      <4>1. PICK s \in Nat, q \in Nat, k \in Int : s = 0 /\ q = n /\ k = -1
        BY <1>4
      <4>2. s = Len(stripped'[t]) /\ q = Len(txq'[t]) /\ w = IF writer'[t].doing = "idle" THEN 0 ELSE 1
        BY <1>0, <1>3, <1>4, <1>7, <4>1
      <4>3. s + q + w = InPipe(t) + k /\ queueBytes'[t] = queueBytes[t] + k
        <5>1. PICK a, b, c : a = InPipe(t) /\ b = queueBytes[t] /\ c = queueBytes'[t]
          OBVIOUS
        <5>2. b \in Nat /\ a = 1 + n + w
          BY <1>2, <1>5, <5>1
        <5>3. c = b - 1
          BY <2>1, <5>1
        <5>4. s = 0 /\ q = n /\ k = -1
          BY <4>1
        <5>5. s + q + w = a + k /\ c = b + k
          BY <1>n, <5>2, <5>3, <5>4
        <5> QED
          BY <5>1, <5>5
      <4> QED
        BY <1>4, <3>2, <4>1, <4>2, <4>3, BacklogMoves
    <3> QED
      BY <3>1, <3>2
  <2> QED
    BY <1>1, <2>5, <2>6 DEF WeaveInv
<1> QED
  BY <1>6, <1>7 DEF Enqueue

\* The writer takes the head of its queue.
LEMMA WriterTakeStep ==
    ASSUME WeaveInv, NEW t \in Threads, WriterTake(t), SenderAlone
    PROVE  WeaveInv'
<1>0. /\ UNCHANGED <<wire, epoch, seq, up, rated, queueBytes, offered, stripped>> /\ UNCHANGED receiverVars
      /\ writer[t].doing = "idle" /\ txq[t] # <<>>
      /\ writer' = [writer EXCEPT ![t] = [doing |-> "sending", frame |-> Head(txq[t])]]
      /\ txq' = [txq EXCEPT ![t] = Tail(txq[t])]
  BY DEF WriterTake, SenderAlone, linkVars, engineVars
<1>1. Inv' /\ CarriedInv'
  BY <1>0, ReceiverKept
<1>2. txq[t] \in Seq(FramesOf(offered)) /\ Len(txq[t]) \in 0 .. QueueFrames
  BY PipeTypes
<1> DEFINE f == Head(txq[t])
           x == Tail(txq[t])
           v == [doing |-> "sending", frame |-> f]
<1>3. /\ f \in FramesOf(offered) /\ x \in Seq(FramesOf(offered))
      /\ Len(x) = Len(txq[t]) - 1 /\ Len(x) \in 0 .. QueueFrames
  BY <1>0, <1>2, SenderAssumption
<1>4. v \in Writing(offered) /\ v.doing = "sending"
  BY <1>3 DEF Writing
<1>5. writer' = [writer EXCEPT ![t] = v] /\ txq' = [txq EXCEPT ![t] = x]
  BY <1>0
<1> HIDE DEF v, x, f
<1>6. /\ txq' \in [Threads -> Seq(FramesOf(offered))] /\ txq'[t] = x
      /\ \A u \in Threads \ {t} : txq'[u] = txq[u]
  BY <1>3, <1>5 DEF WeaveInv, SenderInv
<1>7. /\ writer' \in [Threads -> Writing(offered)] /\ writer'[t] = v
      /\ \A u \in Threads \ {t} : writer'[u] = writer[u]
  BY <1>4, <1>5 DEF WeaveInv, SenderInv
<1>8. \A u \in Threads : /\ Len(txq'[u]) \in 0 .. QueueFrames
                         /\ writer'[u].doing \in {"idle", "sending", "completing"}
  <2> SUFFICES ASSUME NEW u \in Threads
               PROVE  /\ Len(txq'[u]) \in 0 .. QueueFrames
                      /\ writer'[u].doing \in {"idle", "sending", "completing"}
    OBVIOUS
  <2>1. CASE u = t
    BY <1>3, <1>4, <1>6, <1>7, <2>1
  <2>2. CASE u # t
    BY <1>6, <1>7, <2>2, PipeTypes DEF WeaveInv, SenderInv, SenderTypeOK
  <2> QED
    BY <2>1, <2>2
<1>9. SenderInv'
  BY <1>0, <1>6, <1>7, <1>8 DEF WeaveInv, SenderInv, SenderTypeOK
<1>10. QueueBytesIsBacklog'
  <2> SUFFICES ASSUME NEW u \in Threads PROVE queueBytes'[u] = InPipe(u)'
    BY DEF QueueBytesIsBacklog
  <2>1. CASE u # t
    BY <1>0, <1>6, <1>7, <2>1, BacklogStays
  <2>2. CASE u = t
    <3>1. PICK s \in Nat, q \in Nat, w \in Nat :
             s = Len(stripped[t]) /\ q = Len(x) /\ w = 1
      <4>1. Len(x) \in Nat /\ Len(stripped[t]) \in Nat
        BY <1>3, PipeTypes, SenderAssumption
      <4> QED
        BY <4>1
    <3>2. s = Len(stripped'[t]) /\ q = Len(txq'[t]) /\ w = IF writer'[t].doing = "idle" THEN 0 ELSE 1
      BY <1>0, <1>4, <1>6, <1>7, <3>1
    <3>3. PICK a, b, n : a = InPipe(t) /\ b = queueBytes[t] /\ n = Len(txq[t])
      OBVIOUS
    <3>4. q = n - 1 /\ n \in Nat /\ s \in Nat /\ q \in Nat
      BY <1>3, <3>1, <3>3, PipeTypes
    <3>5. a = s + n + 0
      BY <1>0, <3>1, <3>3, PipeTypes
    <3>6. b \in Nat
      BY <3>3, PipeTypes
    <3>7. s + q + w = a + 0 /\ b = b + 0
      BY <3>1, <3>4, <3>5, <3>6
    <3>8. s + q + w = InPipe(t) + 0 /\ queueBytes'[t] = queueBytes[t] + 0
      BY <1>0, <3>3, <3>7
    <3>9. 0 \in Int
      OBVIOUS
    <3> QED
      BY <2>2, <3>1, <3>2, <3>8, <3>9, BacklogMoves
  <2> QED
    BY <2>1, <2>2
<1> QED
  BY <1>1, <1>9, <1>10 DEF WeaveInv

\* The frame is on the wire, or dropped with its thread marked down: the writer
\* still owes the accounting either way.
LEMMA WriterSentStep ==
    ASSUME WeaveInv, NEW t \in Threads, writer[t].doing = "sending", Sent(t),
           UNCHANGED <<epoch, seq, rated, queueBytes, offered, stripped, txq>>,
           up' \subseteq Threads, wire' \in [Threads -> SUBSET FramesOf(offered)],
           UNCHANGED receiverVars
    PROVE  WeaveInv'
<1>1. Inv' /\ CarriedInv'
  BY ReceiverKept
<1> DEFINE v == [doing |-> "completing", frame |-> <<>>]
<1>2. v \in Writing(offered) /\ v.doing = "completing"
  BY DEF Writing
<1>3. writer' = [writer EXCEPT ![t] = v]
  BY DEF Sent
<1> HIDE DEF v
<1>4. /\ writer' \in [Threads -> Writing(offered)] /\ writer'[t] = v
      /\ \A u \in Threads \ {t} : writer'[u] = writer[u]
  BY <1>2, <1>3 DEF WeaveInv, SenderInv
<1>5. \A u \in Threads : /\ writer'[u].doing \in {"idle", "sending", "completing"}
                         /\ writer'[u].doing = "idle" <=> writer[u].doing = "idle"
  <2> SUFFICES ASSUME NEW u \in Threads
               PROVE  /\ writer'[u].doing \in {"idle", "sending", "completing"}
                      /\ writer'[u].doing = "idle" <=> writer[u].doing = "idle"
    OBVIOUS
  <2>1. CASE u = t
    BY <1>2, <1>4, <2>1
  <2>2. CASE u # t
    BY <1>4, <2>2 DEF WeaveInv, SenderInv, SenderTypeOK
  <2> QED
    BY <2>1, <2>2
<1>6. SenderInv'
  BY <1>4, <1>5 DEF WeaveInv, SenderInv, SenderTypeOK
<1>7. QueueBytesIsBacklog'
  BY <1>5, BacklogStays DEF QueueBytesIsBacklog
<1> QED
  BY <1>1, <1>6, <1>7 DEF WeaveInv

\* The writer has a frame of the weave in hand while it is sending.
LEMMA SendingFrame ==
    ASSUME WeaveInv, NEW t \in Threads, writer[t].doing = "sending"
    PROVE  writer[t].frame \in FramesOf(offered)
<1>1. writer[t] \in Writing(offered)
  BY PipeTypes
<1>2. PICK f \in FramesOf(offered) : writer[t] = [doing |-> "sending", frame |-> f]
  BY <1>1 DEF Writing, Idle
<1> QED
  BY <1>2

LEMMA SendOnWireStep ==
    ASSUME WeaveInv, NEW t \in Threads, SendOnWire(t)
    PROVE  WeaveInv'
<1>0. /\ writer[t].doing = "sending" /\ Sent(t)
      /\ UNCHANGED <<epoch, seq, up, rated, queueBytes, offered, stripped, txq>> /\ UNCHANGED receiverVars
      /\ wire' = [wire EXCEPT ![t] = wire[t] \cup {writer[t].frame}]
  BY DEF SendOnWire, WriterSend, Transmit, engineVars
<1>1. wire' \in [Threads -> SUBSET FramesOf(offered)]
  BY <1>0, SendingFrame DEF WeaveInv, SenderInv
<1>2. up' \subseteq Threads
  BY <1>0 DEF WeaveInv, SenderInv, SenderTypeOK
<1> QED
  BY <1>0, <1>1, <1>2, WriterSentStep

LEMMA SendFailsStep ==
    ASSUME WeaveInv, NEW t \in Threads, SendFails(t)
    PROVE  WeaveInv'
<1>0. /\ writer[t].doing = "sending" /\ Sent(t) /\ up' = up \ {t}
      /\ UNCHANGED <<wire, epoch, seq, rated, queueBytes, offered, stripped, txq>> /\ UNCHANGED receiverVars
  BY DEF SendFails, WriterFails, SenderAlone, linkVars
<1>1. wire' \in [Threads -> SUBSET FramesOf(offered)] /\ up' \subseteq Threads
  BY <1>0 DEF WeaveInv, SenderInv, SenderTypeOK
<1> QED
  BY <1>0, <1>1, WriterSentStep

\* Complete takes the frame off the backlog it was in since Strip.
LEMMA WriterCompleteStep ==
    ASSUME WeaveInv, NEW t \in Threads, WriterComplete(t), SenderAlone
    PROVE  WeaveInv'
<1>0. /\ UNCHANGED <<wire, epoch, seq, up, rated, offered, stripped, txq>> /\ UNCHANGED receiverVars
      /\ writer[t].doing = "completing" /\ SubQueue(t)
      /\ writer' = [writer EXCEPT ![t] = Idle]
  BY DEF WriterComplete, SenderAlone, linkVars
<1>1. Inv' /\ CarriedInv'
  BY <1>0, ReceiverKept
<1>2. Idle \in Writing(offered) /\ Idle.doing = "idle"
  BY DEF Writing, Idle
<1>3. /\ writer' \in [Threads -> Writing(offered)] /\ writer'[t] = Idle
      /\ \A u \in Threads \ {t} : writer'[u] = writer[u]
  BY <1>0, <1>2 DEF WeaveInv, SenderInv
<1>4. PICK s \in Nat, q \in Nat : s = Len(stripped[t]) /\ q = Len(txq[t])
  BY PipeTypes
<1>5. InPipe(t) = s + q + 1
  BY <1>0, <1>4, PipeTypes
<1>6. s \in Nat /\ q \in Nat
  OBVIOUS
<1>7. InPipe(t) >= 1
  BY <1>5, <1>6
<1>8. /\ queueBytes' \in [Threads -> Nat]
      /\ \A u \in Threads : queueBytes'[u] = IF u = t THEN queueBytes[u] - 1 ELSE queueBytes[u]
  BY <1>0, <1>7, SubQueueStep
<1>9. \A u \in Threads : writer'[u].doing \in {"idle", "sending", "completing"}
  BY <1>2, <1>3 DEF WeaveInv, SenderInv, SenderTypeOK
<1>10. SenderInv'
  BY <1>0, <1>3, <1>8, <1>9 DEF WeaveInv, SenderInv, SenderTypeOK
<1>11. QueueBytesIsBacklog'
  <2> SUFFICES ASSUME NEW u \in Threads PROVE queueBytes'[u] = InPipe(u)'
    BY DEF QueueBytesIsBacklog
  <2>1. CASE u # t
    BY <1>0, <1>3, <1>8, <2>1, BacklogStays
  <2>2. CASE u = t
    <3>1. PICK w \in Nat, k \in Int : w = 0 /\ k = -1
      OBVIOUS
    <3>2. s = Len(stripped'[t]) /\ q = Len(txq'[t]) /\ w = IF writer'[t].doing = "idle" THEN 0 ELSE 1
      BY <1>0, <1>2, <1>3, <1>4, <3>1
    <3>3. PICK a, b, c : a = InPipe(t) /\ b = queueBytes[t] /\ c = queueBytes'[t]
      OBVIOUS
    <3>4. a = s + q + 1 /\ b \in Nat
      BY <1>5, <3>3, PipeTypes
    <3>5. c = b - 1
      BY <1>8, <3>3
    <3>6. s + q + w = a + k /\ c = b + k
      BY <1>6, <3>1, <3>4, <3>5
    <3>7. s + q + w = InPipe(t) + k /\ queueBytes'[t] = queueBytes[t] + k
      BY <3>3, <3>6
    <3> QED
      BY <1>6, <2>2, <3>1, <3>2, <3>7, BacklogMoves
  <2> QED
    BY <2>1, <2>2
<1> QED
  BY <1>1, <1>10, <1>11 DEF WeaveInv

\* Probing and rate changes touch only which threads Strip may choose.
LEMMA HealthChangeStep ==
    ASSUME WeaveInv, NEW t \in Threads, HealthChange(t)
    PROVE  WeaveInv'
<1>0. /\ UNCHANGED <<wire, epoch, seq, queueBytes, offered, stripped, txq, writer>>
      /\ UNCHANGED receiverVars
      /\ up' \subseteq Threads /\ rated' \subseteq Threads
  BY DEF HealthChange, ProbeVerdict, SetThreadRate, SenderAlone, linkVars, pipeVars,
         WeaveInv, SenderInv, SenderTypeOK
<1>1. Inv' /\ CarriedInv'
  BY <1>0, ReceiverKept
<1>2. SenderInv' /\ QueueBytesIsBacklog'
  BY <1>0 DEF WeaveInv, SenderInv, SenderTypeOK, QueueBytesIsBacklog, InPipe
<1> QED
  BY <1>1, <1>2 DEF WeaveInv

\* Empty queues, idle writers and no backlog: a node that starts.
LEMMA EmptyPipe ==
    ASSUME NEW o
    PROVE  /\ [u \in Threads |-> <<>>] \in [Threads -> Seq(FramesOf(o))]
           /\ [u \in Threads |-> Idle] \in [Threads -> Writing(o)]
           /\ Idle.doing = "idle" /\ Len(<<>>) = 0
BY DEF Writing, Idle

\* A restarted node begins with nothing in its queues; what it gave to the
\* paths before stays there.
LEMMA RestartSenderStep ==
    ASSUME WeaveInv, RestartSender
    PROVE  WeaveInv'
<1>0. /\ UNCHANGED <<wire, offered>> /\ UNCHANGED receiverVars
      /\ epoch < MaxEpoch /\ epoch' = epoch + 1 /\ seq' = 0 /\ up' = Threads /\ rated' = Threads
      /\ queueBytes' = [u \in Threads |-> 0]
      /\ stripped' = [u \in Threads |-> <<>>]
      /\ txq' = [u \in Threads |-> <<>>]
      /\ writer' = [u \in Threads |-> Idle]
  BY DEF RestartSender, SenderRestart, SenderAlone, linkVars
<1>1. Inv' /\ CarriedInv'
  BY <1>0, ReceiverKept
<1>2. epoch' \in 0 .. MaxEpoch /\ epoch' \in Nat
  BY <1>0, WeaveAssumption DEF WeaveInv, SenderInv
<1>3. /\ stripped' \in [Threads -> Seq(FramesOf(offered))]
      /\ txq' \in [Threads -> Seq(FramesOf(offered))]
      /\ writer' \in [Threads -> Writing(offered)]
      /\ queueBytes' \in [Threads -> Nat]
  BY <1>0, EmptyPipe
<1>4. \A u \in Threads : /\ queueBytes'[u] = 0
                         /\ Len(stripped'[u]) = 0 /\ Len(txq'[u]) = 0 /\ writer'[u].doing = "idle"
  BY <1>0, EmptyPipe
<1>5. SenderInv'
  BY <1>0, <1>2, <1>3, <1>4, SenderAssumption DEF WeaveInv, SenderInv, SenderTypeOK
<1>6. QueueBytesIsBacklog'
  <2> SUFFICES ASSUME NEW u \in Threads PROVE queueBytes'[u] = InPipe(u)'
    BY DEF QueueBytesIsBacklog
  <2>1. InPipe(u)' = 0 + 0 + 0
    BY <1>4 DEF InPipe
  <2> QED
    BY <1>4, <2>1
<1> QED
  BY <1>1, <1>5, <1>6 DEF WeaveInv

-----------------------------------------------------------------------------
(* The paths.                                                                *)

\* Steps that leave the sending node alone and put nothing new on a path.
LEMMA SenderKept ==
    ASSUME WeaveInv, UNCHANGED senderVars, wire' \in [Threads -> SUBSET FramesOf(offered)]
    PROVE  SenderInv' /\ QueueBytesIsBacklog' /\ offered' = offered
<1>1. UNCHANGED <<epoch, seq, up, rated, queueBytes, offered, stripped, txq, writer>>
  BY DEF senderVars, engineVars, pipeVars
<1> QED
  BY <1>1 DEF WeaveInv, SenderInv, SenderTypeOK, QueueBytesIsBacklog, InPipe

LEMMA LossStep ==
    ASSUME WeaveInv, NEW t \in Threads, Loss(t)
    PROVE  WeaveInv'
<1>1. PICK f \in wire[t] : Lose(t, f)
  BY DEF Loss
<1>2. wire' \in [Threads -> SUBSET FramesOf(offered)]
  BY <1>1 DEF Lose, WeaveInv, SenderInv
<1>3. UNCHANGED senderVars /\ UNCHANGED receiverVars
  BY DEF Loss
<1>4. SenderInv' /\ QueueBytesIsBacklog' /\ offered' = offered
  BY <1>2, <1>3, SenderKept
<1>5. Inv' /\ CarriedInv'
  BY <1>3, <1>4, ReceiverKept
<1> QED
  BY <1>4, <1>5 DEF WeaveInv

LEMMA RecvStep ==
    ASSUME WeaveInv, NEW t \in Threads, RecvFromWire(t)
    PROVE  WeaveInv'
<1>1. PICK f \in wire[t] : Arrive(t, f) /\ Recv(t, f)
  BY DEF RecvFromWire
<1>2. wire' \in [Threads -> SUBSET FramesOf(offered)]
  BY <1>1 DEF Arrive, WeaveInv, SenderInv
<1>3. f \in FramesOf(offered) /\ offered \subseteq Data
  BY <1>1 DEF WeaveInv, SenderInv
<1>4. f \in Frames /\ t \in Readers
  BY <1>3, FrameCarries, WeaveAssumption
<1>5. Inv'
  BY <1>1, <1>4, RecvInv DEF WeaveInv
<1>6. SenderInv' /\ QueueBytesIsBacklog' /\ offered' = offered
  BY <1>2, SenderKept DEF RecvFromWire
<1>7. UNCHANGED <<batch, egress, slots>> /\ inHand' = [inHand EXCEPT ![t] = f]
  BY <1>1 DEF Recv, bufferVars
<1>8. \A r \in Readers : inHand'[r] \in FramesOf(offered) \cup {NoFrame}
  BY <1>3, <1>4, <1>7 DEF WeaveInv, CarriedInv, Inv, ReceiverTypeOK
<1>9. CarriedInv'
  BY <1>6, <1>7, <1>8 DEF WeaveInv, CarriedInv, Accepted, Buffered
<1> QED
  BY <1>5, <1>6, <1>9 DEF WeaveInv

-----------------------------------------------------------------------------
(* The receiving node.                                                       *)

\* Steps of the receiving node leave sender and paths as they are.
LEMMA ReceiverAloneKeeps ==
    ASSUME WeaveInv, ReceiverAlone
    PROVE  SenderInv' /\ QueueBytesIsBacklog' /\ offered' = offered
<1>1. UNCHANGED senderVars /\ wire' = wire
  BY DEF ReceiverAlone, linkVars
<1>2. wire' \in [Threads -> SUBSET FramesOf(offered)]
  BY <1>1 DEF WeaveInv, SenderInv
<1> QED
  BY <1>1, <1>2, SenderKept

\* Whatever a Push keeps or releases is an accepted payload under its number:
\* slots are keyed by the number the payload was given.
LEMMA PushCarries ==
    ASSUME BufferInv, \A n \in Buffered : slots[n] \in offered /\ n = slots[n][2],
           NEW s \in Nat, NEW d \in offered, s = d[2], BufferPush(s, d)
    PROVE  /\ \A n \in Buffered' : slots'[n] \in offered /\ n = slots'[n][2]
           /\ \A i \in 1 .. Len(PushOut(s, d)) : Accepted(PushOut(s, d)[i])
<1> DEFINE W == WithSlot(s, d)
<1>1. \A n \in Buffered \cup {s} : W[n] \in offered /\ n = W[n][2]
  BY DEF WithSlot
<1> HIDE DEF W
<1>2. \A n \in Buffered' : slots'[n] \in offered /\ n = slots'[n][2]
  <2>1. CASE UNCHANGED slots
    BY <2>1 DEF Buffered
  <2>2. CASE PushAccepted(s, d)
    <3>1. slots' = [n \in {m \in Buffered \cup {s} : m >= DrainedTo(s)} |-> W[n]]
      BY <2>2 DEF PushAccepted, W
    <3>2. Buffered' \subseteq Buffered \cup {s} /\ \A n \in Buffered' : slots'[n] = W[n]
      BY <3>1 DEF Buffered
    <3> QED
      BY <1>1, <3>2
  <2> QED
    BY <2>1, <2>2 DEF BufferPush, PushStale, PushRefused
<1>3. CASE ~Accepts(s)
  <2>1. PushOut(s, d) = <<>>
    BY <1>3 DEF PushOut
  <2> QED
    BY <1>2, <2>1
<1>4. CASE Accepts(s)
  <2> DEFINE from == Expected(s)
             to == DrainedTo(s)
             out == PushOut(s, d)
             era == resyncs + IF Realigns(s) THEN 1 ELSE 0
  <2>1. /\ from \in Nat /\ to \in from .. (from + Window)
        /\ from .. (to - 1) \subseteq Buffered \cup {s}
    BY <1>4, AcceptedDrains
  <2>2. to \in Nat /\ to - from \in Nat
    BY <2>1, WindowAssumption
  <2>3. out = [i \in 1 .. (to - from) |->
                  [seq |-> from + i - 1, data |-> W[from + i - 1], era |-> era]]
    BY <1>4 DEF PushOut, W
  <2>4. Len(out) = to - from
    BY <2>2, <2>3
  <2> HIDE DEF out, from, to, era
  <2>5. ASSUME NEW i \in 1 .. Len(out)
        PROVE  Accepted(out[i])
    <3>1. i \in 1 .. (to - from)
      BY <2>4
    <3>2. from + i - 1 \in Buffered \cup {s}
      <4>1. from + i - 1 \in from .. (to - 1)
        BY <2>1, <2>2, <3>1
      <4> QED
        BY <2>1, <4>1
    <3>3. out[i].seq = from + i - 1 /\ out[i].data = W[from + i - 1]
      BY <2>3, <3>1
    <3>4. W[from + i - 1] \in offered /\ from + i - 1 = W[from + i - 1][2]
      BY <1>1, <3>2
    <3> QED
      BY <3>3, <3>4 DEF Accepted
  <2> QED
    BY <1>2, <2>5 DEF out
<1> QED
  BY <1>3, <1>4

LEMMA IngestStep ==
    ASSUME WeaveInv, NEW t \in Threads, Ingest(t), ReceiverAlone
    PROVE  WeaveInv'
<1>0. t \in Readers
  BY WeaveAssumption
<1>1. Inv'
  BY <1>0, IngestInv DEF WeaveInv
<1>2. SenderInv' /\ QueueBytesIsBacklog' /\ offered' = offered
  BY ReceiverAloneKeeps
<1> DEFINE f == inHand[t]
           out == PushOut(f.seq, f.data)
<1>3. /\ pc[t] = "ingest" /\ BufferPush(f.seq, f.data)
      /\ batch' = [batch EXCEPT ![t] = out]
      /\ inHand' = [inHand EXCEPT ![t] = NoFrame]
      /\ egress' = egress
  BY DEF Ingest
<1>4. f \in FramesOf(offered)
  BY <1>0, <1>3, FramesAssumption DEF WeaveInv, CarriedInv, Inv, LockInv
<1>5. f \in Frames /\ f.data \in offered /\ f.seq = f.data[2]
  BY <1>4, FrameCarries DEF WeaveInv, SenderInv
<1>6. f.seq \in Nat
  BY <1>5, FrameTyped
<1>7. /\ \A n \in Buffered' : slots'[n] \in offered /\ n = slots'[n][2]
      /\ \A i \in 1 .. Len(out) : Accepted(out[i])
  BY <1>3, <1>5, <1>6, PushCarries DEF WeaveInv, Inv, CarriedInv
<1> HIDE DEF f, out
<1>8. \A r \in Readers : inHand'[r] \in FramesOf(offered) \cup {NoFrame}
  BY <1>3 DEF WeaveInv, CarriedInv, Inv, ReceiverTypeOK
<1>9. \A r \in Readers : batch'[r] = out \/ batch'[r] = batch[r]
  BY <1>3 DEF WeaveInv, Inv, ReceiverTypeOK
<1>10. \A r \in Readers : \A i \in 1 .. Len(batch'[r]) : Accepted(batch'[r][i])
  BY <1>7, <1>9 DEF WeaveInv, CarriedInv
<1>11. CarriedInv'
  BY <1>2, <1>3, <1>7, <1>8, <1>10 DEF WeaveInv, CarriedInv, Accepted
<1> QED
  BY <1>1, <1>2, <1>11 DEF WeaveInv

LEMMA EgressSendStep ==
    ASSUME WeaveInv, NEW t \in Threads, EgressSend(t), ReceiverAlone
    PROVE  WeaveInv'
<1>0. t \in Readers
  BY WeaveAssumption
<1>1. Inv'
  BY <1>0, EgressSendInv DEF WeaveInv
<1>2. SenderInv' /\ QueueBytesIsBacklog' /\ offered' = offered
  BY ReceiverAloneKeeps
<1> DEFINE b == batch[t]
<1>3. /\ egress' = Append(egress, Head(b))
      /\ batch' = [batch EXCEPT ![t] = Tail(b)]
      /\ UNCHANGED <<inHand, slots>>
  BY DEF EgressSend, bufferVars
<1>4. b \in Seq(Packets) /\ b # <<>> /\ egress \in Seq(Packets)
  BY <1>0 DEF EgressSend, WeaveInv, Inv, LockInv, ReceiverTypeOK
<1>5. /\ Len(b) \in Nat /\ Len(b) >= 1 /\ Head(b) = b[1]
      /\ \A i \in 1 .. Len(Tail(b)) : Tail(b)[i] = b[i + 1] /\ i + 1 \in 1 .. Len(b)
  BY <1>4
<1>6. \A i \in 1 .. Len(b) : Accepted(b[i])
  BY <1>0 DEF WeaveInv, CarriedInv
<1>7. /\ Len(egress') = Len(egress) + 1 /\ Len(egress) \in Nat
      /\ \A i \in 1 .. Len(egress) : egress'[i] = egress[i]
      /\ egress'[Len(egress) + 1] = b[1]
  BY <1>3, <1>4, <1>5
<1>8. \A i \in 1 .. Len(egress') : Accepted(egress'[i])
  <2> SUFFICES ASSUME NEW i \in 1 .. Len(egress') PROVE Accepted(egress'[i])
    OBVIOUS
  <2>1. CASE i \in 1 .. Len(egress)
    BY <1>7, <2>1 DEF WeaveInv, CarriedInv
  <2>2. CASE i = Len(egress) + 1
    BY <1>5, <1>6, <1>7, <2>2
  <2> QED
    BY <1>7, <2>1, <2>2
<1> HIDE DEF b
<1>9. \A r \in Readers : batch'[r] = Tail(b) \/ batch'[r] = batch[r]
  BY <1>3 DEF WeaveInv, Inv, ReceiverTypeOK
<1>10. \A r \in Readers : \A i \in 1 .. Len(batch'[r]) : Accepted(batch'[r][i])
  <2> SUFFICES ASSUME NEW r \in Readers, NEW i \in 1 .. Len(batch'[r])
               PROVE  Accepted(batch'[r][i])
    OBVIOUS
  <2>1. CASE batch'[r] = Tail(b)
    BY <1>5, <1>6, <2>1
  <2>2. CASE batch'[r] = batch[r]
    BY <2>2 DEF WeaveInv, CarriedInv
  <2> QED
    BY <1>9, <2>1, <2>2
<1>11. CarriedInv'
  BY <1>2, <1>3, <1>8, <1>10 DEF WeaveInv, CarriedInv, Accepted, Buffered
<1> QED
  BY <1>1, <1>2, <1>11 DEF WeaveInv

\* A failed send drops a batch; time and restarts release nothing.
LEMMA QuietReceiverStep ==
    ASSUME WeaveInv,
           \/ \E t \in Threads : EgressError(t)
           \/ TimePasses
           \/ RestartReceiver
    PROVE  WeaveInv'
<1>1. ReceiverAlone
  BY DEF EgressError, TimePasses, RestartReceiver
<1>2. SenderInv' /\ QueueBytesIsBacklog' /\ offered' = offered
  BY <1>1, ReceiverAloneKeeps
<1>3. ASSUME NEW t \in Threads, EgressError(t) PROVE Inv' /\ CarriedInv'
  <2>0. t \in Readers
    BY WeaveAssumption
  <2>1. Inv'
    BY <1>3, <2>0, EgressFailsInv DEF EgressError, WeaveInv
  <2>2. batch' = [batch EXCEPT ![t] = <<>>] /\ UNCHANGED <<inHand, egress, slots>>
    BY <1>3 DEF EgressError, EgressFails, bufferVars
  <2>3. \A r \in Readers : batch'[r] = <<>> \/ batch'[r] = batch[r]
    BY <2>2 DEF WeaveInv, Inv, ReceiverTypeOK
  <2> QED
    BY <1>2, <2>1, <2>2, <2>3 DEF WeaveInv, CarriedInv, Accepted, Buffered
<1>4. ASSUME TimePasses PROVE Inv' /\ CarriedInv'
  <2>1. Inv'
    BY <1>4, GapTimerInv DEF TimePasses, WeaveInv
  <2>2. UNCHANGED <<inHand, batch, egress, slots>>
    BY <1>4 DEF TimePasses, GapTimer, GapElapses, readerVars
  <2> QED
    BY <1>2, <2>1, <2>2 DEF WeaveInv, CarriedInv, Accepted, Buffered
<1>5. ASSUME RestartReceiver PROVE Inv' /\ CarriedInv'
  <2>1. Inv'
    BY <1>5, StartInv DEF RestartReceiver
  <2> QED
    BY <1>5, <2>1 DEF RestartReceiver, ReceiverRestart, BufferReset, CarriedInv, Buffered
<1> QED
  BY <1>2, <1>3, <1>4, <1>5 DEF WeaveInv

-----------------------------------------------------------------------------
LEMMA WeaveInit == Init => WeaveInv
<1> SUFFICES ASSUME Init PROVE WeaveInv
  OBVIOUS
<1>1. Inv
  BY StartInv DEF Init
<1>2. /\ wire = [u \in Threads |-> {}] /\ offered = {}
      /\ epoch = 0 /\ seq = 0 /\ up = Threads /\ rated = Threads
      /\ queueBytes = [u \in Threads |-> 0]
      /\ stripped = [u \in Threads |-> <<>>]
      /\ txq = [u \in Threads |-> <<>>]
      /\ writer = [u \in Threads |-> Idle]
  BY DEF Init, LinksInit, SenderInit
<1>3. /\ stripped \in [Threads -> Seq(FramesOf(offered))]
      /\ txq \in [Threads -> Seq(FramesOf(offered))]
      /\ writer \in [Threads -> Writing(offered)]
      /\ queueBytes \in [Threads -> Nat]
      /\ wire \in [Threads -> SUBSET FramesOf(offered)]
  BY <1>2, EmptyPipe
<1>4. \A u \in Threads : /\ queueBytes[u] = 0
                         /\ Len(stripped[u]) = 0 /\ Len(txq[u]) = 0 /\ writer[u].doing = "idle"
  BY <1>2, EmptyPipe
<1>5. SenderInv
  BY <1>2, <1>3, <1>4, SenderAssumption, WeaveAssumption DEF SenderInv, SenderTypeOK
<1>6. QueueBytesIsBacklog
  <2> SUFFICES ASSUME NEW u \in Threads PROVE queueBytes[u] = InPipe(u)
    BY DEF QueueBytesIsBacklog
  <2>1. InPipe(u) = 0 + 0 + 0
    BY <1>4 DEF InPipe
  <2> QED
    BY <1>4, <2>1
<1>7. CarriedInv
  BY DEF Init, ReceiverInit, BufferInit, ReadersInit, CarriedInv, Buffered
<1> QED
  BY <1>1, <1>5, <1>6, <1>7 DEF WeaveInv

LEMMA WeaveNext == WeaveInv /\ [Next]_vars => WeaveInv'
<1> SUFFICES ASSUME WeaveInv, [Next]_vars PROVE WeaveInv'
  OBVIOUS
<1>1. CASE StripPayload
  BY <1>1, StripStep
<1>2. ASSUME NEW t \in Threads, QueueAndComplete(t) PROVE WeaveInv'
  BY <1>2, EnqueueStep, WriterTakeStep, WriterCompleteStep DEF QueueAndComplete
<1>3. ASSUME NEW t \in Threads, SendOnWire(t) PROVE WeaveInv'
  BY <1>3, SendOnWireStep
<1>4. ASSUME NEW t \in Threads, SendFails(t) PROVE WeaveInv'
  BY <1>4, SendFailsStep
<1>5. ASSUME NEW t \in Threads, HealthChange(t) PROVE WeaveInv'
  BY <1>5, HealthChangeStep
<1>6. ASSUME NEW t \in Threads, Loss(t) PROVE WeaveInv'
  BY <1>6, LossStep
<1>7. ASSUME NEW t \in Threads, RecvFromWire(t) PROVE WeaveInv'
  BY <1>7, RecvStep
<1>8. ASSUME NEW t \in Threads, IngestAndSend(t) PROVE WeaveInv'
  BY <1>8, IngestStep, EgressSendStep DEF IngestAndSend
<1>9. CASE (\E t \in Threads : EgressError(t)) \/ TimePasses \/ RestartReceiver
  BY <1>9, QuietReceiverStep
<1>10. CASE RestartSender
  BY <1>10, RestartSenderStep
<1>11. CASE UNCHANGED vars
  <2>1. UNCHANGED senderVars /\ UNCHANGED receiverVars /\ wire' = wire
    BY <1>11 DEF vars, linkVars
  <2>2. wire' \in [Threads -> SUBSET FramesOf(offered)]
    BY <2>1 DEF WeaveInv, SenderInv
  <2>3. SenderInv' /\ QueueBytesIsBacklog' /\ offered' = offered
    BY <2>1, <2>2, SenderKept
  <2>4. Inv' /\ CarriedInv'
    BY <2>1, <2>3, ReceiverKept
  <2> QED
    BY <2>3, <2>4 DEF WeaveInv
<1> QED
  BY <1>1, <1>2, <1>3, <1>4, <1>5, <1>6, <1>7, <1>8, <1>9, <1>10, <1>11 DEF Next

(* The invariant of the weave: types, the readers' lock and order, exact     *)
(* backlogs, and only accepted payloads anywhere between the two ends.       *)
THEOREM WeaveInvariant == Spec => []WeaveInv
BY WeaveInit, WeaveNext, PTL DEF Spec

(* QueueBytes is the true backlog of every thread (node.go:371-373), over    *)
(* tail drops, failed sends, restarts and every interleaving of ingress and  *)
(* writers, for any number of threads and any queue capacity.  SubQueue's    *)
(* floor at zero never hides a byte: it is never called on an empty backlog. *)
THEOREM BacklogIsExact == Spec => []QueueBytesIsBacklog
<1>1. WeaveInv => QueueBytesIsBacklog
  BY DEF WeaveInv
<1> QED
  BY <1>1, WeaveInvariant, PTL

(* In the weave, too, the anchor sees payloads in order, one reader sends at *)
(* a time, and what was sent is never released again in its era.             *)
THEOREM WeaveKeepsOrder == Spec => [](EgressInOrder /\ OneSender /\ SentIsBehind)
<1>1. WeaveInv => EgressInOrder /\ OneSender /\ SentIsBehind
  BY DEF WeaveInv, Inv, LockInv, OneSender
<1> QED
  BY <1>1, WeaveInvariant, PTL

-----------------------------------------------------------------------------
(* The weave implements WeaveChannel.                                        *)

\* Steps that neither accept nor deliver are invisible to the channel.
LEMMA InvisibleSteps ==
    ASSUME UNCHANGED offered, UNCHANGED egress
    PROVE  UNCHANGED Channel!channelVars
BY DEF Channel!channelVars

\* Strip accepts the payload it numbers (or drops it, which is invisible).
LEMMA StripAccepts ==
    ASSUME WeaveInv, StripPayload
    PROVE  [Channel!ChannelNext]_(Channel!channelVars)
<1>1. egress' = egress
  BY DEF StripPayload, SenderAlone, receiverVars, readerVars
<1>2. offered' = offered \/ \E p : offered' = offered \cup {p}
  BY DEF StripPayload, Strip, StripUnpicked
<1>3. CASE offered' = offered
  BY <1>1, <1>3, InvisibleSteps
<1>4. CASE offered' # offered
  <2>1. PICK p : offered' = offered \cup {p}
    BY <1>2, <1>4
  <2>2. p \in offered' \ offered
    BY <1>4, <2>1
  <2>3. Channel!Accept
    BY <1>1, <2>1, <2>2 DEF Channel!Accept
  <2> QED
    BY <2>3 DEF Channel!ChannelNext
<1> QED
  BY <1>3, <1>4

\* A send to the egress delivers one accepted payload, after the last one.
LEMMA EgressDelivers ==
    ASSUME WeaveInv, NEW t \in Threads, EgressSend(t), ReceiverAlone
    PROVE  Channel!Deliver
<1>0. t \in Readers
  BY WeaveAssumption
<1> DEFINE b == batch[t]
<1>1. egress' = Append(egress, Head(b)) /\ offered' = offered
  BY DEF EgressSend, ReceiverAlone, senderVars, engineVars
<1>2. b \in Seq(Packets) /\ b # <<>> /\ egress \in Seq(Packets)
  BY <1>0 DEF EgressSend, WeaveInv, Inv, LockInv, ReceiverTypeOK
<1>3. Len(b) \in Nat /\ Len(b) >= 1 /\ Head(b) = b[1] /\ 1 \in 1 .. Len(b)
  BY <1>2
<1>4. Accepted(b[1]) /\ \A j \in 1 .. Len(egress) : Precedes(egress[j], b[1])
  BY <1>0, <1>3 DEF WeaveInv, CarriedInv, Inv, SentIsBehind
<1> HIDE DEF b
<1>5. /\ Len(egress') = Len(egress) + 1 /\ SubSeq(egress', 1, Len(egress)) = egress
      /\ egress'[Len(egress')] = b[1] /\ Len(egress) \in Nat
  <2>1. egress' \in Seq(Packets) /\ Len(egress') = Len(egress) + 1 /\ Len(egress) \in Nat
    BY <1>1, <1>2, <1>3
  <2>2. egress'[Len(egress')] = b[1] /\ \A i \in 1 .. Len(egress) : egress'[i] = egress[i]
    BY <1>1, <1>2, <1>3
  <2>3. SubSeq(egress', 1, Len(egress)) = egress
    BY <1>2, <2>1, <2>2
  <2> QED
    BY <2>1, <2>2, <2>3
<1>6. egress # <<>> => Channel!After(b[1], egress[Len(egress)])
  <2>1. egress # <<>> => Len(egress) \in 1 .. Len(egress)
    BY <1>2
  <2> QED
    BY <1>4, <2>1 DEF Channel!After, Precedes
<1> QED
  BY <1>1, <1>4, <1>5, <1>6 DEF Channel!Deliver, Accepted

LEMMA WeaveStepsAreChannelSteps ==
    WeaveInv /\ [Next]_vars => [Channel!ChannelNext]_(Channel!channelVars)
<1> SUFFICES ASSUME WeaveInv, [Next]_vars
             PROVE  [Channel!ChannelNext]_(Channel!channelVars)
  OBVIOUS
<1> USE InvisibleSteps
<1>1. CASE StripPayload
  BY <1>1, StripAccepts
<1>2. ASSUME NEW t \in Threads, QueueAndComplete(t) PROVE UNCHANGED <<offered, egress>>
  BY <1>2 DEF QueueAndComplete, Enqueue, WriterTake, WriterComplete, SenderAlone, engineVars,
              receiverVars, readerVars
<1>3. ASSUME NEW t \in Threads, SendOnWire(t) PROVE UNCHANGED <<offered, egress>>
  BY <1>3 DEF SendOnWire, WriterSend, engineVars, receiverVars, readerVars
<1>4. ASSUME NEW t \in Threads, SendFails(t) PROVE UNCHANGED <<offered, egress>>
  BY <1>4 DEF SendFails, WriterFails, SenderAlone, receiverVars, readerVars
<1>5. ASSUME NEW t \in Threads, HealthChange(t) PROVE UNCHANGED <<offered, egress>>
  BY <1>5 DEF HealthChange, ProbeVerdict, SetThreadRate, SenderAlone, receiverVars, readerVars
<1>6. ASSUME NEW t \in Threads, Loss(t) PROVE UNCHANGED <<offered, egress>>
  BY <1>6 DEF Loss, senderVars, engineVars, receiverVars, readerVars
<1>7. ASSUME NEW t \in Threads, RecvFromWire(t) PROVE UNCHANGED <<offered, egress>>
  BY <1>7 DEF RecvFromWire, Recv, senderVars, engineVars
<1>8. ASSUME NEW t \in Threads, EgressError(t) PROVE UNCHANGED <<offered, egress>>
  BY <1>8 DEF EgressError, EgressFails, ReceiverAlone, senderVars, engineVars
<1>9. ASSUME TimePasses PROVE UNCHANGED <<offered, egress>>
  BY <1>9 DEF TimePasses, GapTimer, readerVars, ReceiverAlone, senderVars, engineVars
<1>10. ASSUME RestartSender PROVE UNCHANGED <<offered, egress>>
  BY <1>10 DEF RestartSender, SenderRestart, SenderAlone, receiverVars, readerVars
<1>11. ASSUME UNCHANGED vars PROVE UNCHANGED <<offered, egress>>
  BY <1>11 DEF vars, senderVars, engineVars, receiverVars, readerVars
<1>12. ASSUME NEW t \in Threads, IngestAndSend(t)
       PROVE  Channel!Deliver \/ UNCHANGED <<offered, egress>>
  <2>1. CASE EgressSend(t)
    BY <1>12, <2>1, EgressDelivers DEF IngestAndSend
  <2>2. CASE Ingest(t)
    BY <1>12, <2>2 DEF IngestAndSend, Ingest, ReceiverAlone, senderVars, engineVars
  <2> QED
    BY <1>12, <2>1, <2>2 DEF IngestAndSend
<1>13. ASSUME RestartReceiver PROVE Channel!FarEndRestarts
  BY <1>13 DEF RestartReceiver, ReceiverRestart, ReceiverAlone, senderVars, engineVars,
               Channel!FarEndRestarts
<1>14. CASE UNCHANGED <<offered, egress>>
  BY <1>14
<1>15. CASE Channel!Deliver \/ Channel!FarEndRestarts
  BY <1>15 DEF Channel!ChannelNext
<1> QED
  BY <1>1, <1>2, <1>3, <1>4, <1>5, <1>6, <1>7, <1>8, <1>9, <1>10, <1>11, <1>12, <1>13, <1>14, <1>15
     DEF Next

(* The weave is the ordered datagram channel its documentation promises      *)
(* ("it preserves boundaries and order but not delivery"): only payloads     *)
(* Strip accepted come out, unchanged, under the number they were given and  *)
(* after everything delivered before them, for any number of threads and     *)
(* payloads, any window, loss, duplication, failed sends and restarts.       *)
THEOREM WeaveImplementsChannel == Spec => IsOrderedChannel
<1>1. Init => Channel!ChannelInit
  BY DEF Init, SenderInit, ReceiverInit, ReadersInit, Channel!ChannelInit
<1> QED
  BY <1>1, WeaveInvariant, WeaveStepsAreChannelSteps, PTL
     DEF Spec, IsOrderedChannel, Channel!ChannelSpec
=============================================================================
