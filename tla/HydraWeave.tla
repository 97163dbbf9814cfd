----------------------------- MODULE HydraWeave ------------------------------
(***************************************************************************)
(* A weave end to end, in one direction: the sending node (HydraSender), the*)
(* lossy paths (HydraLinks) and the receiving node (HydraReceiver), with    *)
(* either process killed and restarted.                                     *)
(***************************************************************************)
EXTENDS HydraSender, HydraReceiver

CONSTANTS
    SlowPaths,     \* whether a path may lag by more than the gap timeout
    MaxEpoch,      \* bound: restarts of the sending node
    MaxFaults      \* bound: failed sends, probe verdicts, rate changes, restarts

VARIABLE
    faults      \* failed sends, probe verdicts, rate changes and restarts so far

vars == <<linkVars, senderVars, receiverVars, faults>>

ASSUME WeaveAssumption ==
    /\ MaxEpoch \in Nat
    /\ Readers = Threads
    /\ Data = (0 .. MaxEpoch) \X (1 .. MaxSeq)
    /\ Frames = {Frame(d[1], d[2]) : d \in Data}

Init ==
    /\ LinksInit
    /\ SenderInit
    /\ ReceiverInit
    /\ faults = 0

-----------------------------------------------------------------------------
(* Steps of one part leave the others alone.                                 *)
SenderAlone == UNCHANGED <<linkVars, receiverVars>>
ReceiverAlone == UNCHANGED <<linkVars, senderVars>>

Fault == faults < MaxFaults /\ faults' = faults + 1

StripPayload == (Strip \/ StripUnpicked) /\ SenderAlone /\ UNCHANGED faults

QueueAndComplete(t) ==
    /\ Enqueue(t) \/ WriterTake(t) \/ WriterComplete(t)
    /\ SenderAlone
    /\ UNCHANGED faults

SendOnWire(t) ==
    /\ WriterSend(t)
    /\ Transmit(t, writer[t].frame)
    /\ UNCHANGED <<receiverVars, faults>>

SendFails(t) == WriterFails(t) /\ Fault /\ SenderAlone

HealthChange(t) ==
    /\ \E b \in BOOLEAN : ProbeVerdict(t, b) \/ SetThreadRate(t, b)
    /\ Fault
    /\ SenderAlone

Loss(t) ==
    /\ \E f \in wire[t] : Lose(t, f)
    /\ UNCHANGED <<senderVars, receiverVars, faults>>

RecvFromWire(t) ==
    /\ \E f \in wire[t] : Arrive(t, f) /\ Recv(t, f)
    /\ UNCHANGED <<senderVars, faults>>

IngestAndSend(t) ==
    /\ Ingest(t) \/ EgressSend(t)
    /\ ReceiverAlone
    /\ UNCHANGED faults

EgressError(t) == EgressFails(t) /\ Fault /\ ReceiverAlone

\* The frames between Strip and the reassembler.
InFlight ==
    UNION {wire[t] : t \in Threads}
        \cup ({inHand[r] : r \in Readers} \ {NoFrame})
        \cup UNION {{txq[t][i] : i \in 1 .. Len(txq[t])} : t \in Threads}
        \cup UNION {{stripped[t][i] : i \in 1 .. Len(stripped[t])} : t \in Threads}
        \cup {writer[t].frame : t \in {u \in Threads : writer[u].doing = "sending"}}

\* No number that a gap skip would pass over is still on its way.
GapIsReal == \E n \in Buffered : \A f \in InFlight : f.seq \notin next .. (n - 1)

\* The gap timeout passes: of a real gap, or while a slow path still carries
\* the missing frame.
TimePasses ==
    /\ SlowPaths \/ GapIsReal
    /\ GapTimer
    /\ ReceiverAlone
    /\ UNCHANGED faults

RestartSender == epoch < MaxEpoch /\ SenderRestart /\ Fault /\ SenderAlone

RestartReceiver == ReceiverRestart /\ Fault /\ ReceiverAlone

Next ==
    \/ StripPayload
    \/ \E t \in Threads :
          \/ QueueAndComplete(t)
          \/ SendOnWire(t)
          \/ SendFails(t)
          \/ HealthChange(t)
          \/ Loss(t)
          \/ RecvFromWire(t)
          \/ IngestAndSend(t)
          \/ EgressError(t)
    \/ TimePasses
    \/ RestartSender
    \/ RestartReceiver

Spec == Init /\ [][Next]_vars

(* The goroutines keep running, traffic keeps arriving at the ingress, paths *)
(* deliver what they do not lose, and time passes.  Nothing obliges a path to*)
(* lose, a send to fail or a process to die.                                 *)
Fairness ==
    /\ WF_vars(StripPayload)
    /\ WF_vars(TimePasses)
    /\ \A t \in Threads :
          /\ WF_vars(QueueAndComplete(t))
          /\ WF_vars(SendOnWire(t))
          /\ WF_vars(RecvFromWire(t))
          /\ WF_vars(IngestAndSend(t))

FairSpec == Spec /\ Fairness

-----------------------------------------------------------------------------
(* The weave implements the ordered, unreliable datagram channel.            *)
Channel == INSTANCE WeaveChannel WITH accepted <- offered, out <- egress

(* The weave end to end is an ordered datagram channel ("it preserves        *)
(* boundaries and order but not delivery", hydra.md "UDP semantics"): every  *)
(* step of either node, the paths or a restart is a step of WeaveChannel or  *)
(* invisible to it.                                                          *)
IsOrderedChannel == Channel!ChannelSpec

(* "if the expected sequence does not arrive within the gap timeout, the     *)
(* reassembler abandons it and resumes ... the weave does not stall"         *)
(* (hydra.md "Gap recovery"): packets waiting behind a lost one are released *)
(* once the timeout passes.  The code looks at the timer only inside Push,   *)
(* so the packets behind the last gap of a burst wait for later traffic.     *)
WaitersAreReleased == Buffered # {} ~> Buffered = {}

(* "Two properties keep the weave live on unreliable links" (reorder.go:7)   *)
(* and "the weave does not stall" (hydra.md:183): the receiver never becomes *)
(* deaf to its sender, a state in which everything in flight and everything  *)
(* still to be numbered lies beyond the window and nothing is buffered that  *)
(* a gap skip could move to.  The code gets there when Window consecutive    *)
(* numbers are lost: every later packet is too far, for ever.                *)
Deaf ==
    /\ Buffered = {}
    /\ seq + 1 >= next + Window
    /\ \A f \in InFlight : f.seq >= next + Window

NeverDeaf == ~Deaf
=============================================================================
