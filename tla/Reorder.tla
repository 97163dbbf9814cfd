------------------------------- MODULE Reorder -------------------------------
(***************************************************************************)
(* The Hydra reassembler (core/hydra/reorder): a bounded sliding window of  *)
(* packets that arrived ahead of the next expected sequence number.         *)
(*                                                                          *)
(* The module holds the state of one reorder.Buffer and the body of Push as *)
(* one action per outcome.  Push runs under b.mu, so it is one atomic step; *)
(* the value it returns is the state function PushOut(seq, data), evaluated *)
(* in the state before the step.  ReorderBuffer closes the module into a    *)
(* specification of its own; HydraReceiver runs it behind the readers.      *)
(*                                                                          *)
(* Time.  Push compares now() - gapSince with the gap timeout and uses the  *)
(* clock for nothing else, so gapSince is kept as what that comparison can  *)
(* tell apart: "zero" (no gap is timed), "running" (set, timeout not yet    *)
(* passed) and "overdue".  GapElapses is the passage of time.               *)
(***************************************************************************)
EXTENDS Integers, Sequences, FiniteSets

CONSTANTS
    Data,          \* payloads, told apart only by identity
    Window,        \* the reassembly window (DefaultWindow = 4096)
    ResyncAfter    \* consecutive stale packets that trigger a re-alignment (64)

ASSUME WindowAssumption == Window \in Nat \ {0}
ASSUME ResyncAssumption == ResyncAfter \in Nat \ {0}

VARIABLES
    next,      \* b.next: the next expected sequence number
    slots,     \* b.slots: buffered sequence number -> payload
    gapSince,  \* b.gapSince, as "zero", "running" or "overdue"
    staleRun,  \* b.staleRun: consecutive stale packets seen with nothing buffered
    resyncs    \* b.stats.Resyncs: re-alignments so far

bufferVars == <<next, slots, gapSince, staleRun, resyncs>>

Buffered == DOMAIN slots

-----------------------------------------------------------------------------
(* NewAt(window, 1) and SetGapTimeout(DefaultGapTimeout), as newWeaveState   *)
(* calls them: the buffer starts at sequence 1 and its gap timeout is on.    *)
BufferInit ==
    /\ next = 1
    /\ slots = <<>>
    /\ gapSince = "zero"
    /\ staleRun = 0
    /\ resyncs = 0

\* The same when a process restarts and builds its weave again.
BufferReset ==
    /\ next' = 1
    /\ slots' = <<>>
    /\ gapSince' = "zero"
    /\ staleRun' = 0
    /\ resyncs' = 0

\* The timeout of the gap being timed passes.
GapElapses ==
    /\ gapSince = "running"
    /\ gapSince' = "overdue"
    /\ UNCHANGED <<next, slots, staleRun, resyncs>>

-----------------------------------------------------------------------------
minBuffered == CHOOSE n \in Buffered : \A m \in Buffered : n <= m

\* The gap check at the top of Push: a gap that timed out while later packets
\* wait is abandoned, and the stream resumes at the lowest buffered packet.
GapExpired == Buffered # {} /\ gapSince = "overdue"

NextAfterGap == IF GapExpired /\ minBuffered > next THEN minBuffered ELSE next

GapAfterGap == IF GapExpired THEN "zero" ELSE gapSince

-----------------------------------------------------------------------------
(* The verdict of Push on sequence number seq, after the gap check.          *)

Stale(seq) == seq < NextAfterGap

\* Mutant: one stale packet too many.
RealignsLate(seq) == Stale(seq) /\ Buffered = {} /\ staleRun + 1 > ResyncAfter

Realigns(seq) == Stale(seq) /\ Buffered = {} /\ staleRun + 1 >= ResyncAfter

\* Mutants: the window check off by one, either way.
TooFarLate(seq) == ~Stale(seq) /\ seq > NextAfterGap + Window
TooFarEarly(seq) == ~Stale(seq) /\ seq >= NextAfterGap + Window - 1

TooFar(seq) == ~Stale(seq) /\ seq >= NextAfterGap + Window

Accepts(seq) == Realigns(seq) \/ (~Stale(seq) /\ ~TooFar(seq) /\ seq \notin Buffered)

\* The expected sequence number against which an accepted packet is placed.
Expected(seq) == IF Realigns(seq) THEN seq ELSE NextAfterGap

WithSlot(seq, data) ==
    [n \in Buffered \cup {seq} |-> IF n = seq THEN data ELSE slots[n]]

\* The drain loop stops at the first sequence number from n on that S lacks.
FirstMissing(S, n) ==
    CHOOSE k \in n .. (n + Window) : k \notin S /\ (n .. (k - 1)) \subseteq S

\* Where the drain loop of an accepting Push leaves the expected number.
DrainedTo(seq) == FirstMissing(Buffered \cup {seq}, Expected(seq))

\* What Push returns: the contiguous run it released, in order.
PushOut(seq, data) ==
    IF Accepts(seq)
    THEN LET from == Expected(seq)
         IN [i \in 1 .. (DrainedTo(seq) - from) |->
                [seq  |-> from + i - 1,
                 data |-> WithSlot(seq, data)[from + i - 1],
                 era  |-> resyncs + IF Realigns(seq) THEN 1 ELSE 0]]
    ELSE <<>>

-----------------------------------------------------------------------------
(* Push, one action per way out of the function.                             *)

\* A stale packet is discarded; it counts towards a re-alignment only while
\* nothing is buffered.
PushStale(seq, data) ==
    /\ Stale(seq) /\ ~Realigns(seq)
    /\ next' = NextAfterGap
    /\ gapSince' = GapAfterGap
    /\ staleRun' = IF Buffered = {} THEN staleRun + 1 ELSE staleRun
    /\ UNCHANGED <<slots, resyncs>>

\* A packet beyond the window, or one already buffered, is discarded.
PushRefused(seq, data) ==
    /\ TooFar(seq) \/ (~Stale(seq) /\ seq \in Buffered)
    /\ next' = NextAfterGap
    /\ gapSince' = GapAfterGap
    /\ UNCHANGED <<slots, staleRun, resyncs>>

\* Mutant: the packets are released and the position stays.
PushStuck(seq, data) ==
    LET to == DrainedTo(seq)
    IN /\ Accepts(seq)
       /\ next' = Expected(seq)
       /\ slots' = [n \in {m \in Buffered \cup {seq} : m >= to} |-> WithSlot(seq, data)[n]]
       /\ gapSince' = IF to > Expected(seq) THEN "zero" ELSE "running"
       /\ staleRun' = 0
       /\ resyncs' = resyncs + IF Realigns(seq) THEN 1 ELSE 0

\* The packet is stored and every packet contiguous with Expected is released.
PushAccepted(seq, data) ==
    LET to == DrainedTo(seq)
    IN /\ Accepts(seq)
       /\ next' = to
       /\ slots' = [n \in {m \in Buffered \cup {seq} : m >= to} |-> WithSlot(seq, data)[n]]
       /\ gapSince' = IF to > Expected(seq) THEN "zero"
                      ELSE IF GapAfterGap = "zero" THEN "running" ELSE GapAfterGap
       /\ staleRun' = 0
       /\ resyncs' = resyncs + IF Realigns(seq) THEN 1 ELSE 0

BufferPush(seq, data) ==
    \/ PushStale(seq, data)
    \/ PushRefused(seq, data)
    \/ PushAccepted(seq, data)

-----------------------------------------------------------------------------
\* What leaves the buffer.  Only data is real: seq and era, the re-alignments
\* before it was released, are recorded so that order can be stated.
Packets == [seq : Nat, data : Data, era : Nat]

Precedes(p, q) == p.era < q.era \/ (p.era = q.era /\ p.seq < q.seq)

\* p lies behind the position of the buffer.
BehindBuffer(p) == p.era < resyncs \/ (p.era = resyncs /\ p.seq < next)

(* The types of the Buffer's fields; staleRun stays below the re-alignment   *)
(* threshold.                                                                *)
BufferTypeOK ==
    /\ next \in Nat
    /\ Buffered \subseteq Nat
    /\ \A n \in Buffered : slots[n] \in Data
    /\ gapSince \in {"zero", "running", "overdue"}
    /\ staleRun \in 0 .. (ResyncAfter - 1)
    /\ resyncs \in Nat

(* The window is a bound: everything buffered is at or ahead of the expected *)
(* sequence number and less than Window ahead of it, whatever arrives and    *)
(* however gaps are skipped or the stream is re-aligned (Push, lines         *)
(* 111-147: the range check, the gap skip and the re-alignment together).    *)
WithinWindow == Buffered \subseteq next .. (next + Window - 1)

(* A timed gap is a real one: the gap timer never runs, and never expires,   *)
(* while nothing is waiting (gapSince is cleared on every path that empties  *)
(* the buffer, reorder.go:120 and 174-177).                                  *)
TimerHasWaiter == gapSince # "zero" => Buffered # {}
=============================================================================
