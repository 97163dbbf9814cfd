------------------------- MODULE ReorderBufferProofs -------------------------
(***************************************************************************)
(* What Push does to the buffer, proved once for every window, re-alignment *)
(* threshold and payload set, and used here and by the proofs about the     *)
(* receiving node.  Then the reassembler's invariants, for every set of     *)
(* sequence numbers as well.                                                *)
(***************************************************************************)
EXTENDS ReorderBuffer, FiniteSetTheorems, WellFoundedInduction, TLAPS

(* The inductive invariant of the buffer.  WithinWindow is needed for the    *)
(* drain loop to have an end inside the window, and the type of staleRun     *)
(* needs the re-alignment threshold.                                         *)
BufferInv == BufferTypeOK /\ WithinWindow /\ TimerHasWaiter

-----------------------------------------------------------------------------
\* A nonempty set of natural numbers has a least element.
LEMMA LeastNatural ==
    ASSUME NEW S \in SUBSET Nat, S # {}
    PROVE  \E n \in S : \A m \in S : n <= m
<1>1. PICK n \in S : \A m \in S : ~(<<m, n>> \in OpToRel(<, Nat))
  BY NatLessThanWellFounded, WFMin
<1>2. ASSUME NEW m \in S PROVE n <= m
  <2>1. ~(<<m, n>> \in OpToRel(<, Nat))
    BY <1>1
  <2>2. m \in Nat /\ n \in Nat
    OBVIOUS
  <2>3. ~(m < n)
    BY <2>1, <2>2 DEF OpToRel
  <2> QED BY <2>2, <2>3
<1> QED BY <1>2

\* minBuffered is the lowest buffered sequence number.
LEMMA MinBufferedIsLeast ==
    ASSUME Buffered \subseteq Nat, Buffered # {}
    PROVE  minBuffered \in Buffered /\ \A m \in Buffered : minBuffered <= m
<1>1. \E n \in Buffered : \A m \in Buffered : n <= m
  BY LeastNatural
<1> QED BY <1>1 DEF minBuffered

\* The drain loop ends inside the window, at a number that is missing, and
\* everything it passed was present.
LEMMA FirstMissingIsFirst ==
    ASSUME NEW n \in Nat, NEW S, S \subseteq n .. (n + Window - 1)
    PROVE  /\ FirstMissing(S, n) \in n .. (n + Window)
           /\ FirstMissing(S, n) \notin S
           /\ n .. (FirstMissing(S, n) - 1) \subseteq S
<1> DEFINE T == {k \in n .. (n + Window) : k \notin S}
<1>1. T \in SUBSET Nat
  BY WindowAssumption
<1>2. n + Window \in T
  BY WindowAssumption
<1>3. PICK k \in T : \A m \in T : k <= m
  BY <1>1, <1>2, LeastNatural
<1>4. n .. (k - 1) \subseteq S
  <2> SUFFICES ASSUME NEW j \in n .. (k - 1), j \notin S PROVE FALSE
    OBVIOUS
  <2>1. j \in T
    BY WindowAssumption
  <2> QED BY <2>1, <1>3, WindowAssumption
<1>5. \E i \in n .. (n + Window) : i \notin S /\ (n .. (i - 1)) \subseteq S
  BY <1>3, <1>4
<1> QED BY <1>5 DEF FirstMissing

\* The gap check moves the expected number forward only, and never past a
\* buffered packet: the window still holds around where it lands.
LEMMA AfterGapInWindow ==
    ASSUME BufferInv
    PROVE  /\ NextAfterGap \in Nat
           /\ NextAfterGap >= next
           /\ Buffered \subseteq NextAfterGap .. (NextAfterGap + Window - 1)
           /\ GapAfterGap \in {"zero", "running", "overdue"}
           /\ GapAfterGap # "zero" => Buffered # {}
<1>1. CASE GapExpired /\ minBuffered > next
  <2>1. minBuffered \in Buffered /\ \A m \in Buffered : minBuffered <= m
    BY <1>1, MinBufferedIsLeast DEF BufferInv, BufferTypeOK, GapExpired
  <2> QED BY <1>1, <2>1, WindowAssumption
          DEF NextAfterGap, GapAfterGap, BufferInv, BufferTypeOK, WithinWindow, TimerHasWaiter
<1>2. CASE ~(GapExpired /\ minBuffered > next)
  BY <1>2, WindowAssumption
     DEF NextAfterGap, GapAfterGap, BufferInv, BufferTypeOK, WithinWindow, TimerHasWaiter
<1> QED BY <1>1, <1>2

\* Where an accepted packet is placed, and where the drain loop ends.
LEMMA AcceptedDrains ==
    ASSUME BufferInv, NEW s \in Nat, Accepts(s)
    PROVE  /\ Expected(s) \in Nat
           /\ Buffered \cup {s} \subseteq Expected(s) .. (Expected(s) + Window - 1)
           /\ DrainedTo(s) \in Expected(s) .. (Expected(s) + Window)
           /\ DrainedTo(s) \notin Buffered \cup {s}
           /\ Expected(s) .. (DrainedTo(s) - 1) \subseteq Buffered \cup {s}
<1>1. /\ Expected(s) \in Nat
      /\ Buffered \cup {s} \subseteq Expected(s) .. (Expected(s) + Window - 1)
  BY AfterGapInWindow, WindowAssumption DEF Expected, Accepts, Realigns, Stale, TooFar
<1> QED BY <1>1, FirstMissingIsFirst DEF DrainedTo

-----------------------------------------------------------------------------
\* The buffer starts inside its invariant.
LEMMA BufferInitInv == BufferInit => BufferInv
  BY WindowAssumption, ResyncAssumption
     DEF BufferInit, BufferInv, BufferTypeOK, WithinWindow, TimerHasWaiter, Buffered

\* A restarted process starts inside it again.
LEMMA BufferResetInv == BufferReset => BufferInv'
  BY WindowAssumption, ResyncAssumption
     DEF BufferReset, BufferInv, BufferTypeOK, WithinWindow, TimerHasWaiter, Buffered

\* The passage of time keeps it.
LEMMA GapElapsesInv == BufferInv /\ GapElapses => BufferInv'
  BY DEF GapElapses, BufferInv, BufferTypeOK, WithinWindow, TimerHasWaiter, Buffered

\* Push keeps it, whatever sequence number and payload arrive.
LEMMA BufferPushInv ==
    ASSUME BufferInv, NEW s \in Nat, NEW d \in Data, BufferPush(s, d)
    PROVE  BufferInv'
<1>g. /\ NextAfterGap \in Nat
      /\ NextAfterGap >= next
      /\ Buffered \subseteq NextAfterGap .. (NextAfterGap + Window - 1)
      /\ GapAfterGap \in {"zero", "running", "overdue"}
      /\ GapAfterGap # "zero" => Buffered # {}
  BY AfterGapInWindow
<1>1. CASE PushStale(s, d)
  <2>1. staleRun' \in 0 .. (ResyncAfter - 1)
    BY <1>1, ResyncAssumption DEF PushStale, Realigns, BufferInv, BufferTypeOK
  <2> QED BY <1>1, <2>1, <1>g
          DEF PushStale, BufferInv, BufferTypeOK, WithinWindow, TimerHasWaiter, Buffered
<1>2. CASE PushRefused(s, d)
  BY <1>2, <1>g
     DEF PushRefused, BufferInv, BufferTypeOK, WithinWindow, TimerHasWaiter, Buffered
<1>3. CASE PushAccepted(s, d)
  <2> DEFINE to == DrainedTo(s)
  <2>a. Accepts(s)
    BY <1>3 DEF PushAccepted
  <2>d. /\ Expected(s) \in Nat
        /\ Buffered \cup {s} \subseteq Expected(s) .. (Expected(s) + Window - 1)
        /\ to \in Expected(s) .. (Expected(s) + Window)
        /\ to \notin Buffered \cup {s}
    BY <2>a, AcceptedDrains
  <2>s. slots' = [n \in {m \in Buffered \cup {s} : m >= to} |-> WithSlot(s, d)[n]]
    BY <1>3 DEF PushAccepted
  <2>b. Buffered' = {m \in Buffered \cup {s} : m >= to}
    BY <2>s DEF Buffered
  <2>1. next' = to /\ next' \in Nat
    BY <1>3, <2>d, WindowAssumption DEF PushAccepted
  <2>2. Buffered' \subseteq Nat
    BY <2>b DEF BufferInv, BufferTypeOK
  <2>3. \A n \in Buffered' : slots'[n] \in Data
    BY <2>s, <2>b DEF WithSlot, BufferInv, BufferTypeOK
  <2>4. WithinWindow'
    BY <2>b, <2>d, <2>1, WindowAssumption DEF WithinWindow
  <2>5. gapSince' \in {"zero", "running", "overdue"}
    BY <1>3, <1>g DEF PushAccepted
  <2>6. TimerHasWaiter'
    <3> SUFFICES ASSUME gapSince' # "zero" PROVE Buffered' # {}
      BY DEF TimerHasWaiter
    <3>1. ~(to > Expected(s))
      BY <1>3 DEF PushAccepted
    <3>2. s >= to
      BY <3>1, <2>d, WindowAssumption
    <3> QED BY <3>2, <2>b
  <2>7. staleRun' \in 0 .. (ResyncAfter - 1) /\ resyncs' \in Nat
    BY <1>3, ResyncAssumption DEF PushAccepted, BufferInv, BufferTypeOK
  <2> QED BY <2>1, <2>2, <2>3, <2>4, <2>5, <2>6, <2>7 DEF BufferInv, BufferTypeOK
<1> QED BY <1>1, <1>2, <1>3 DEF BufferPush

-----------------------------------------------------------------------------
\* A Push never moves the position of the buffer back, except by starting a
\* new era.
LEMMA PositionAdvances ==
    ASSUME BufferInv, NEW s \in Nat, NEW d \in Data, BufferPush(s, d)
    PROVE  /\ resyncs' \in Nat /\ next' \in Nat
           /\ resyncs' > resyncs \/ (resyncs' = resyncs /\ next' >= next)
<1>1. NextAfterGap \in Nat /\ NextAfterGap >= next
  BY AfterGapInWindow
<1>2. next \in Nat /\ resyncs \in Nat
  BY DEF BufferInv, BufferTypeOK
<1>3. CASE PushStale(s, d)
  BY <1>1, <1>2, <1>3 DEF PushStale
<1>4. CASE PushRefused(s, d)
  BY <1>1, <1>2, <1>4 DEF PushRefused
<1>5. CASE PushAccepted(s, d)
  <2>1. Accepts(s)
    BY <1>5 DEF PushAccepted
  <2>2. Expected(s) \in Nat /\ DrainedTo(s) \in Expected(s) .. (Expected(s) + Window)
    BY <2>1, AcceptedDrains
  <2>3. DrainedTo(s) \in Nat /\ DrainedTo(s) >= Expected(s)
    BY <2>2, WindowAssumption
  <2>4. CASE Realigns(s)
    BY <1>5, <1>2, <2>3, <2>4 DEF PushAccepted
  <2>5. CASE ~Realigns(s)
    BY <1>5, <1>1, <1>2, <2>3, <2>5 DEF PushAccepted, Expected
  <2> QED BY <2>4, <2>5
<1> QED BY <1>3, <1>4, <1>5 DEF BufferPush

\* What Push returns: a run of increasing numbers in the era the Push leaves,
\* ahead of the old position and behind the new one.
LEMMA PushOutRun ==
    ASSUME BufferInv, NEW s \in Nat, NEW d \in Data, BufferPush(s, d)
    PROVE  /\ PushOut(s, d) \in Seq(Packets)
           /\ \A i \in 1 .. Len(PushOut(s, d)) :
                 /\ PushOut(s, d)[i].era = resyncs'
                 /\ PushOut(s, d)[i].seq < next'
                 /\ ~BehindBuffer(PushOut(s, d)[i])
                 /\ \A j \in 1 .. Len(PushOut(s, d)) :
                       i < j => Precedes(PushOut(s, d)[i], PushOut(s, d)[j])
<1>1. CASE ~Accepts(s)
  <2>1. PushOut(s, d) = <<>>
    BY <1>1 DEF PushOut
  <2> QED BY <2>1
<1>2. CASE Accepts(s)
  <2> DEFINE from == Expected(s)
             to == DrainedTo(s)
             out == PushOut(s, d)
             era == resyncs + IF Realigns(s) THEN 1 ELSE 0
  <2>1. /\ from \in Nat
        /\ Buffered \cup {s} \subseteq from .. (from + Window - 1)
        /\ to \in from .. (from + Window)
        /\ from .. (to - 1) \subseteq Buffered \cup {s}
    BY <1>2, AcceptedDrains
  <2>2. to \in Nat /\ to - from \in Nat
    BY <2>1, WindowAssumption
  <2>3. resyncs \in Nat /\ next \in Nat /\ era \in Nat
    BY DEF BufferInv, BufferTypeOK
  <2>4. out = [i \in 1 .. (to - from) |->
                  [seq |-> from + i - 1, data |-> WithSlot(s, d)[from + i - 1], era |-> era]]
    BY <1>2 DEF PushOut
  <2>5. ASSUME NEW i \in 1 .. (to - from)
        PROVE  /\ from + i - 1 \in Nat
               /\ from + i - 1 >= from
               /\ from + i - 1 < to
               /\ WithSlot(s, d)[from + i - 1] \in Data
    <3>1. from + i - 1 \in from .. (to - 1)
      BY <2>1, <2>2
    <3>2. from + i - 1 \in Buffered \cup {s}
      BY <3>1, <2>1
    <3>3. \A n \in Buffered : slots[n] \in Data
      BY DEF BufferInv, BufferTypeOK
    <3> QED BY <3>1, <3>2, <3>3, <2>1, <2>2 DEF WithSlot
  <2>6. \A i \in 1 .. (to - from) : out[i] \in Packets
    BY <2>4, <2>5, <2>3 DEF Packets
  <2>7. out \in Seq(Packets) /\ Len(out) = to - from
    BY <2>2, <2>4, <2>6
  <2>8. PushAccepted(s, d)
    BY <1>2 DEF BufferPush, PushStale, PushRefused, Accepts, Realigns, Stale, TooFar
  <2>9. next' = to /\ resyncs' = era
    BY <2>8 DEF PushAccepted
  <2>10. Realigns(s) \/ from >= next
    BY AfterGapInWindow DEF Expected
  <2>11. ASSUME NEW i \in 1 .. Len(out)
         PROVE  out[i].era = resyncs' /\ out[i].seq < next' /\ ~BehindBuffer(out[i])
    <3> HIDE DEF from, to, out, era
    <3>0. i \in 1 .. (to - from)
      BY <2>7
    <3>1. out[i].seq = from + i - 1 /\ out[i].era = era
      BY <2>4, <3>0
    <3>2. out[i].era = resyncs' /\ out[i].seq < next'
      BY <3>0, <3>1, <2>5, <2>9
    <3>3. CASE Realigns(s)
      BY <3>1, <3>2, <3>3, <2>3 DEF BehindBuffer, era
    <3>4. CASE ~Realigns(s)
      BY <3>0, <3>1, <3>2, <3>4, <2>1, <2>3, <2>5, <2>10 DEF BehindBuffer, era
    <3> QED BY <3>3, <3>4
  <2>12. ASSUME NEW i \in 1 .. Len(out), NEW j \in 1 .. Len(out), i < j
         PROVE  Precedes(out[i], out[j])
    BY <2>1, <2>2, <2>3, <2>4, <2>7, <2>12 DEF Precedes
  <2> QED BY <2>7, <2>11, <2>12
<1> QED BY <1>1, <1>2

-----------------------------------------------------------------------------
(* The reassembler under any arrivals.                                       *)

(* ReleasedInOrder is not inductive: that the next packet released follows   *)
(* the earlier ones needs those to lie behind the buffer's position          *)
(* (ReleasedIsBehind), and that the drain loop ends needs the window         *)
(* (BufferInv).                                                              *)
ReorderInv ==
    /\ BufferInv
    /\ ReorderTypeOK
    /\ ReleasedIsBehind
    /\ ReleasedInOrder
    /\ EveryPacketCounted
    /\ EverySequenceExplained

-----------------------------------------------------------------------------
\* What is buffered is finite, so it can be counted.
LEMMA BufferedIsFinite ==
    ASSUME BufferInv
    PROVE  IsFiniteSet(Buffered) /\ Cardinality(Buffered) \in Nat
<1>1. next \in Int /\ next + Window - 1 \in Int
  BY WindowAssumption DEF BufferInv, BufferTypeOK
<1>2. IsFiniteSet(next .. (next + Window - 1))
  BY <1>1, FS_Interval
<1>3. Buffered \in SUBSET (next .. (next + Window - 1))
  BY DEF BufferInv, WithinWindow
<1> QED BY <1>2, <1>3, FS_Subset, FS_CardinalityType

\* How many sequence numbers there are from a up to, and without, b.
LEMMA RunLength ==
    ASSUME NEW a \in Int, NEW b \in Int, a <= b
    PROVE  IsFiniteSet(a .. (b - 1)) /\ Cardinality(a .. (b - 1)) = b - a
<1>1. b - 1 \in Int
  OBVIOUS
<1>2. /\ IsFiniteSet(a .. (b - 1))
      /\ Cardinality(a .. (b - 1)) = IF a > b - 1 THEN 0 ELSE (b - 1) - a + 1
  BY <1>1, FS_Interval
<1>3. (IF a > b - 1 THEN 0 ELSE (b - 1) - a + 1) = b - a
  OBVIOUS
<1> QED BY <1>2, <1>3

\* An accepting Push adds one packet and releases a run: the two sides of
\* the count move together.
LEMMA AcceptedCount ==
    ASSUME BufferInv, NEW s \in Nat, NEW d \in Data, PushAccepted(s, d)
    PROVE  /\ DrainedTo(s) - Expected(s) \in Nat
           /\ Cardinality(Buffered') \in Nat
           /\ Cardinality(Buffered') + (DrainedTo(s) - Expected(s)) = Cardinality(Buffered) + 1
<1> DEFINE all == Buffered \cup {s}
           from == Expected(s)
           to == DrainedTo(s)
           run == from .. (to - 1)
<1>1. Accepts(s)
  BY DEF PushAccepted
<1>2. /\ from \in Nat
      /\ all \subseteq from .. (from + Window - 1)
      /\ to \in from .. (from + Window)
      /\ run \subseteq all
  BY <1>1, AcceptedDrains
<1>3. to \in Nat /\ to - from \in Nat /\ from <= to
  BY <1>2, WindowAssumption
<1>4. IsFiniteSet(Buffered) /\ Cardinality(Buffered) \in Nat
  BY BufferedIsFinite
<1>5. s \notin Buffered
  BY <1>1 DEF Accepts, Realigns
<1>6. IsFiniteSet(all) /\ Cardinality(all) = Cardinality(Buffered) + 1
  BY <1>4, <1>5, FS_AddElement
<1>7. Buffered' = all \ run
  <2>1. Buffered' = {m \in all : m >= to}
    BY DEF PushAccepted, Buffered
  <2>2. \A m \in all : m >= to <=> m \notin run
    BY <1>2, <1>3
  <2> QED BY <2>1, <2>2
<1> HIDE DEF all, from, to
<1>8. IsFiniteSet(run) /\ Cardinality(run) = to - from
  <2>1. from \in Int /\ to \in Int
    BY <1>2, <1>3
  <2> QED BY <2>1, <1>3, RunLength
<1> HIDE DEF run
<1>9. all \cap run = run
  BY <1>2
<1>10. IsFiniteSet(all \ run) /\ Cardinality(all \ run) = Cardinality(all) - Cardinality(run)
  BY <1>6, <1>9, FS_Difference
<1>11. Cardinality(all \ run) \in Nat
  BY <1>10, FS_CardinalityType
<1>12. Cardinality(Buffered') \in Nat /\ Cardinality(Buffered') + (to - from) = Cardinality(Buffered) + 1
  BY <1>2, <1>3, <1>4, <1>6, <1>7, <1>8, <1>10, <1>11
<1> QED BY <1>3, <1>12 DEF from, to

\* Push keeps the counters typed and the two counting invariants.
LEMMA PushCounts ==
    ASSUME ReorderInv, NEW s \in Seqs, NEW d \in Data, Push(s, d)
    PROVE  stats' \in Stats /\ EveryPacketCounted' /\ EverySequenceExplained'
<1>1. s \in Nat
  BY SeqsAssumption
<1>2. BufferInv /\ stats \in Stats /\ next \in Nat /\ resyncs \in Nat
  BY DEF ReorderInv, ReorderTypeOK, BufferInv, BufferTypeOK
<1>3. NextAfterGap \in Nat /\ NextAfterGap >= next
  BY <1>2, AfterGapInWindow
<1>4. stats' = StatsAfter(s)
  BY DEF Push
<1>5. IsFiniteSet(Buffered \cup {s}) /\ Cardinality(Buffered \cup {s}) \in Nat
  BY <1>2, BufferedIsFinite, FS_AddElement, FS_CardinalityType
<1>6. Cardinality(Buffered) \in Nat
  BY <1>2, BufferedIsFinite
<1>7. CASE PushAccepted(s, d)
  <2>1. Accepts(s) /\ ~TooFar(s)
    BY <1>7 DEF PushAccepted, Accepts, Realigns, Stale, TooFar
  <2>2. /\ DrainedTo(s) - Expected(s) \in Nat
        /\ Cardinality(Buffered') \in Nat
        /\ Cardinality(Buffered') + (DrainedTo(s) - Expected(s)) = Cardinality(Buffered) + 1
    BY <1>1, <1>2, <1>7, AcceptedCount
  <2>3. Expected(s) \in Nat /\ DrainedTo(s) \in Int
    BY <1>1, <1>2, <2>1, AcceptedDrains, WindowAssumption
  <2>4. stats' \in Stats
    BY <1>2, <1>3, <1>4, <1>5, <2>1, <2>2 DEF StatsAfter, Stats, One
  <2>6. EveryPacketCounted'
    BY <1>2, <1>4, <1>6, <2>1, <2>2
       DEF ReorderInv, EveryPacketCounted, StatsAfter, Stats, One
  <2>7. EverySequenceExplained'
    <3> SUFFICES ASSUME resyncs' = 0
                 PROVE  next' - 1 = stats'.delivered + stats'.skipped
      BY DEF EverySequenceExplained
    <3>1. ~Realigns(s) /\ resyncs = 0
      BY <1>2, <1>7 DEF PushAccepted
    <3>2. Expected(s) = NextAfterGap /\ next' = DrainedTo(s)
      BY <1>7, <3>1 DEF PushAccepted, Expected
    <3>3. /\ stats'.delivered = stats.delivered + (DrainedTo(s) - Expected(s))
          /\ stats'.skipped = stats.skipped + (NextAfterGap - next)
      BY <1>4, <2>1 DEF StatsAfter
    <3>4. next - 1 = stats.delivered + stats.skipped
      BY <3>1 DEF ReorderInv, EverySequenceExplained
    <3>5. stats.delivered \in Nat /\ stats.skipped \in Nat
      BY <1>2 DEF Stats
    <3> QED BY <1>2, <1>3, <2>3, <3>2, <3>3, <3>4, <3>5
  <2> QED BY <2>4, <2>6, <2>7
<1>8. CASE PushStale(s, d) \/ PushRefused(s, d)
  <2>1. ~Accepts(s)
    BY <1>8 DEF PushStale, PushRefused, Accepts, Realigns, Stale, TooFar
  <2>2. Buffered' = Buffered /\ next' = NextAfterGap /\ resyncs' = resyncs
    BY <1>8 DEF PushStale, PushRefused, Buffered
  <2>3. stats' \in Stats
    BY <1>2, <1>3, <1>4, <2>1 DEF StatsAfter, Stats, One
  <2>4. Cardinality(Buffered)' = Cardinality(Buffered)
    BY <2>2
  <2>5. EveryPacketCounted'
    BY <1>2, <1>4, <1>6, <2>1, <2>4 DEF ReorderInv, EveryPacketCounted, StatsAfter, Stats, One
  <2>6. EverySequenceExplained'
    BY <1>2, <1>3, <1>4, <2>1, <2>2 DEF ReorderInv, EverySequenceExplained, StatsAfter, Stats, One
  <2> QED BY <2>3, <2>5, <2>6
<1> QED BY <1>7, <1>8 DEF Push, BufferPush

\* Push keeps what was released in order and behind the buffer.
LEMMA PushOrders ==
    ASSUME ReorderInv, NEW s \in Seqs, NEW d \in Data, Push(s, d)
    PROVE  released' \in Seq(Packets) /\ ReleasedIsBehind' /\ ReleasedInOrder'
<1> DEFINE out == PushOut(s, d)
<1>1. s \in Nat /\ BufferInv /\ BufferPush(s, d) /\ released \in Seq(Packets)
  BY SeqsAssumption DEF ReorderInv, ReorderTypeOK, Push
<1>2. /\ out \in Seq(Packets)
      /\ \A i \in 1 .. Len(out) :
            /\ out[i].era = resyncs' /\ out[i].seq < next'
            /\ ~BehindBuffer(out[i])
            /\ \A j \in 1 .. Len(out) : i < j => Precedes(out[i], out[j])
  BY <1>1, PushOutRun
<1>3. /\ resyncs' \in Nat /\ next' \in Nat
      /\ resyncs' > resyncs \/ (resyncs' = resyncs /\ next' >= next)
      /\ resyncs \in Nat /\ next \in Nat
  BY <1>1, PositionAdvances DEF BufferInv, BufferTypeOK
<1>4. released' = released \o out
  BY DEF Push
<1> HIDE DEF out
<1>5. /\ released' \in Seq(Packets)
      /\ Len(released') = Len(released) + Len(out)
      /\ \A i \in 1 .. Len(released) : released'[i] = released[i]
      /\ \A i \in 1 .. Len(released') : i > Len(released) =>
            /\ released'[i] = out[i - Len(released)]
            /\ i - Len(released) \in 1 .. Len(out)
  BY <1>1, <1>2, <1>4
<1>6. \A i \in 1 .. Len(released) : released[i] \in Packets /\ BehindBuffer(released[i])
  BY <1>1 DEF ReorderInv, ReleasedIsBehind
<1>7. \A i \in 1 .. Len(out) : out[i] \in Packets
  BY <1>2
<1>8. Len(released) \in Nat /\ Len(out) \in Nat
  BY <1>1, <1>2
<1>9. ASSUME NEW i \in 1 .. Len(released')
      PROVE  released'[i].era < resyncs'
                \/ (released'[i].era = resyncs' /\ released'[i].seq < next')
  <2>1. CASE i <= Len(released)
    <3>1. /\ released'[i] = released[i] /\ released[i] \in Packets
          /\ released[i].era < resyncs \/ (released[i].era = resyncs /\ released[i].seq < next)
      BY <1>5, <1>6, <1>8, <2>1 DEF BehindBuffer
    <3> QED BY <3>1, <1>3 DEF Packets
  <2>2. CASE i > Len(released)
    BY <1>2, <1>5, <1>8, <2>2
  <2> QED BY <2>1, <2>2, <1>5, <1>8
<1>10. ReleasedIsBehind'
  BY <1>9 DEF ReleasedIsBehind, BehindBuffer
<1>11. ASSUME NEW i \in 1 .. Len(released'), NEW j \in 1 .. Len(released'), i < j
       PROVE  Precedes(released'[i], released'[j])
  <2>1. CASE j <= Len(released)
    BY <1>5, <1>8, <1>11, <2>1 DEF ReorderInv, ReleasedInOrder
  <2>2. CASE i > Len(released)
    <3>1. /\ i - Len(released) \in 1 .. Len(out) /\ j - Len(released) \in 1 .. Len(out)
          /\ released'[i] = out[i - Len(released)] /\ released'[j] = out[j - Len(released)]
      BY <1>5, <1>8, <1>11, <2>2
    <3> QED BY <3>1, <1>2, <1>8, <1>11
  <2>3. CASE i <= Len(released) /\ j > Len(released)
    <3>1. released'[i] \in Packets /\ BehindBuffer(released[i]) /\ released'[i] = released[i]
      BY <1>5, <1>6, <1>8, <2>3
    <3>2. PICK k \in 1 .. Len(out) : released'[j] = out[k]
      BY <1>5, <1>8, <2>3
    <3>3. out[k] \in Packets /\ ~BehindBuffer(out[k]) /\ out[k].era = resyncs'
      BY <1>2, <1>7
    <3> QED BY <3>1, <3>2, <3>3, <1>3 DEF Precedes, BehindBuffer, Packets
  <2> QED BY <2>1, <2>2, <2>3, <1>5, <1>8
<1>12. ReleasedInOrder'
  BY <1>11 DEF ReleasedInOrder
<1> QED BY <1>5, <1>10, <1>12

-----------------------------------------------------------------------------
LEMMA ReorderInvInit == ReorderInit => ReorderInv
<1> SUFFICES ASSUME ReorderInit PROVE ReorderInv
  OBVIOUS
<1>1. BufferInv /\ Buffered = {} /\ next = 1 /\ resyncs = 0
  BY BufferInitInv DEF ReorderInit, BufferInit, Buffered
<1>2. Cardinality(Buffered) = 0
  BY <1>1, FS_EmptySet
<1>3. ReorderTypeOK
  BY <1>1 DEF ReorderInit, ReorderTypeOK, BufferInv, Stats
<1> QED BY <1>1, <1>2, <1>3
        DEF ReorderInit, ReorderInv, ReleasedIsBehind, ReleasedInOrder, EveryPacketCounted,
            EverySequenceExplained

LEMMA ReorderInvNext == ReorderInv /\ [ReorderNext]_reorderVars => ReorderInv'
<1> SUFFICES ASSUME ReorderInv, [ReorderNext]_reorderVars PROVE ReorderInv'
  OBVIOUS
<1>1. ASSUME NEW s \in Seqs, NEW d \in Data, Push(s, d)
      PROVE  ReorderInv'
  <2>1. BufferInv'
    BY <1>1, SeqsAssumption, BufferPushInv DEF ReorderInv, Push
  <2>2. stats' \in Stats /\ EveryPacketCounted' /\ EverySequenceExplained'
    BY <1>1, PushCounts
  <2>3. released' \in Seq(Packets) /\ ReleasedIsBehind' /\ ReleasedInOrder'
    BY <1>1, PushOrders
  <2>4. staleRow' \in Nat
    BY <1>1 DEF Push, ReorderInv, ReorderTypeOK
  <2> QED BY <2>1, <2>2, <2>3, <2>4 DEF ReorderInv, ReorderTypeOK, BufferInv
<1>2. CASE Tick
  <2>1. BufferInv'
    BY <1>2, GapElapsesInv DEF Tick, ReorderInv
  <2> QED BY <1>2, <2>1
          DEF Tick, GapElapses, ReorderInv, ReorderTypeOK, BufferInv, ReleasedIsBehind, ReleasedInOrder,
              BehindBuffer, EveryPacketCounted, EverySequenceExplained, Buffered
<1>3. CASE UNCHANGED reorderVars
  BY <1>3
     DEF reorderVars, bufferVars, ReorderInv, ReorderTypeOK, BufferInv, BufferTypeOK, WithinWindow, TimerHasWaiter,
         ReleasedIsBehind, ReleasedInOrder, BehindBuffer, EveryPacketCounted,
         EverySequenceExplained, Buffered
<1> QED BY <1>1, <1>2, <1>3 DEF ReorderNext

\* The inductive invariant holds in every reachable state.
LEMMA ReorderInvHolds == ReorderSpec => []ReorderInv
  BY ReorderInvInit, ReorderInvNext, PTL DEF ReorderSpec

(* The variables keep their types under any packets in any order.            *)
THEOREM TypeCorrect == ReorderSpec => []ReorderTypeOK
<1>1. ReorderInv => ReorderTypeOK
  BY DEF ReorderInv
<1> QED BY <1>1, ReorderInvHolds, PTL

(* The buffer never holds a packet outside its window.                       *)
THEOREM WindowBounded == ReorderSpec => []WithinWindow
<1>1. ReorderInv => WithinWindow
  BY DEF ReorderInv, BufferInv
<1> QED BY <1>1, ReorderInvHolds, PTL

(* Packets are released in increasing order, each at most once, in every era.*)
THEOREM ReleaseOrder == ReorderSpec => []ReleasedInOrder
<1>1. ReorderInv => ReleasedInOrder
  BY DEF ReorderInv
<1> QED BY <1>1, ReorderInvHolds, PTL

(* The counters account for every packet that was ever pushed.               *)
THEOREM PacketAccounting == ReorderSpec => []EveryPacketCounted
<1>1. ReorderInv => EveryPacketCounted
  BY DEF ReorderInv
<1> QED BY <1>1, ReorderInvHolds, PTL

(* Delivered plus Skipped is exactly the distance the stream has moved.      *)
THEOREM SequenceAccounting == ReorderSpec => []EverySequenceExplained
<1>1. ReorderInv => EverySequenceExplained
  BY DEF ReorderInv
<1> QED BY <1>1, ReorderInvHolds, PTL
=============================================================================
