---------------------------- MODULE ReorderBuffer ----------------------------
(***************************************************************************)
(* One reorder.Buffer with its counters, driven by any packets in any       *)
(* order: every sequence number of Seqs may be pushed at any time, any      *)
(* number of times, with any payload, and the gap timeout may pass between  *)
(* any two pushes.  This is the reassembler under the worst network.        *)
(***************************************************************************)
EXTENDS Reorder

CONSTANTS
    Seqs,          \* sequence numbers a header may carry
    MaxReceived    \* bound: packets pushed in a behaviour

ASSUME SeqsAssumption == Seqs \subseteq Nat /\ MaxReceived \in Nat

VARIABLES
    stats,      \* b.stats, without Resyncs (the variable resyncs)
    released,   \* history: every packet Push returned, in order
    staleRow    \* history: stale packets in a row discarded while no gap is timed

reorderVars == <<bufferVars, stats, released, staleRow>>

Stats == [received : Nat, delivered : Nat, duplicates : Nat, tooFar : Nat,
          skipped : Nat, reordered : Nat, maxDepth : Nat]

ReorderInit ==
    /\ BufferInit
    /\ stats = [received |-> 0, delivered |-> 0, duplicates |-> 0, tooFar |-> 0,
                skipped |-> 0, reordered |-> 0, maxDepth |-> 0]
    /\ released = <<>>
    /\ staleRow = 0

One(condition) == IF condition THEN 1 ELSE 0

\* Mutants: a buffered duplicate is not counted; a skip counts one number
\* however wide the gap.
StatsMissDuplicates(seq) ==
    [stats EXCEPT !.received = @ + 1,
                  !.delivered = @ + IF Accepts(seq) THEN DrainedTo(seq) - Expected(seq) ELSE 0,
                  !.duplicates = @ + One(Stale(seq) /\ ~Realigns(seq)),
                  !.tooFar = @ + One(TooFar(seq)),
                  !.skipped = @ + (NextAfterGap - next)]
StatsSkipOne(seq) ==
    [stats EXCEPT !.received = @ + 1,
                  !.delivered = @ + IF Accepts(seq) THEN DrainedTo(seq) - Expected(seq) ELSE 0,
                  !.duplicates = @ + One(~Accepts(seq) /\ ~TooFar(seq)),
                  !.tooFar = @ + One(TooFar(seq)),
                  !.skipped = @ + One(GapExpired)]

\* The counters Push updates, from the state before it.
StatsAfter(seq) ==
    LET inserted == Cardinality(Buffered \cup {seq})
    IN [received   |-> stats.received + 1,
        delivered  |-> stats.delivered
                          + IF Accepts(seq) THEN DrainedTo(seq) - Expected(seq) ELSE 0,
        duplicates |-> stats.duplicates
                          + One(~Accepts(seq) /\ ~TooFar(seq)),
        tooFar     |-> stats.tooFar + One(TooFar(seq)),
        skipped    |-> stats.skipped + (NextAfterGap - next),
        reordered  |-> stats.reordered + One(Accepts(seq) /\ seq > Expected(seq)),
        maxDepth   |-> IF Accepts(seq) /\ inserted > stats.maxDepth
                       THEN inserted ELSE stats.maxDepth]

Push(seq, data) ==
    /\ stats.received < MaxReceived
    /\ BufferPush(seq, data)
    /\ stats' = StatsAfter(seq)
    /\ released' = released \o PushOut(seq, data)
    /\ staleRow' = IF Stale(seq) /\ ~Realigns(seq) /\ gapSince = "zero"
                   THEN staleRow + 1 ELSE 0

Tick == GapElapses /\ UNCHANGED <<stats, released, staleRow>>

ReorderNext ==
    \/ \E seq \in Seqs, data \in Data : Push(seq, data)
    \/ Tick

ReorderSpec == ReorderInit /\ [][ReorderNext]_reorderVars

-----------------------------------------------------------------------------
(* The types of the Buffer, its Stats and what Push has returned.            *)
ReorderTypeOK ==
    /\ BufferTypeOK
    /\ stats \in Stats
    /\ released \in Seq(Packets)
    /\ staleRow \in Nat

(* Nothing is lost inside the buffer and nothing is counted twice: every     *)
(* packet pushed was released, dropped as a duplicate or stale, dropped as   *)
(* too far, or is still buffered, on every path through Push including gap   *)
(* skips and re-alignments.                                                  *)
EveryPacketCounted ==
    stats.received =
        stats.delivered + stats.duplicates + stats.tooFar + Cardinality(Buffered)

(* Until the first re-alignment the expected sequence number is exactly      *)
(* explained: every number below it was either released or abandoned by the  *)
(* gap timeout, so Skipped is an honest count of what the stream lost here.  *)
EverySequenceExplained ==
    resyncs = 0 => next - 1 = stats.delivered + stats.skipped

(* The promise of the package (reorder.go:3-5): packets are released in      *)
(* increasing sequence order, each at most once, whatever the arrival order, *)
(* until a re-alignment starts a new era; eras themselves only move forward. *)
ReleasedInOrder ==
    \A i, j \in 1 .. Len(released) : i < j => Precedes(released[i], released[j])

(* A packet that was released is never expected, buffered or released again  *)
(* in its era: neither a gap skip nor a duplicate moves the expected number  *)
(* back.                                                                     *)
ReleasedIsBehind == \A i \in 1 .. Len(released) : BehindBuffer(released[i])

(* The comment on Push (reorder.go:103-104): "Push inserts a packet and      *)
(* returns every payload that is now deliverable in order".  So after any    *)
(* Push the packet expected next is not sitting in the buffer.  The code     *)
(* breaks it: the gap check moves next onto a buffered packet, and the stale,*)
(* too-far and duplicate paths then return before the drain loop.            *)
NothingDeliverableLeft == next \notin Buffered

(* The package comment (reorder.go:16-19): "when the expected sequence has   *)
(* not arrived within GapTimeout while later packets are waiting, the gap is *)
(* skipped".  So whenever later packets wait, the gap is being timed.  The   *)
(* code breaks it: a drain that stops at a second gap clears gapSince        *)
(* (lines 174-177) with packets still waiting.                               *)
WaitersAreTimed == (Buffered # {} /\ next \notin Buffered) => gapSince # "zero"

(* "It recovers a weave after the far end restarted and its sequence reset   *)
(* to 1" (reorder.go:72-75).  Every packet of a far end that restarted is    *)
(* stale.  Where no gap is being timed nothing but these packets can move the*)
(* window, so ResyncAfter of them in a row must re-align it.  The code breaks*)
(* it: a packet of the old stream can stay buffered with the timer cleared   *)
(* (see the two properties above), and while it does stale packets are not   *)
(* counted ("with nothing buffered") and none of them drains it.             *)
StaleRowRealigns == staleRow < ResyncAfter
=============================================================================
