----------------------------- MODULE HydraProbe ------------------------------
(***************************************************************************)
(* Liveness probing of one thread of a Hydra node: the probeLoop goroutine  *)
(* (probeOnce), the thread's readLoop (handleProbe on an echo), its         *)
(* writeLoop when a data send fails, and the node at the other end, which   *)
(* answers requests.  Steps are cut at every unlock of p.mu and before every*)
(* SetThreadHealth, where the other goroutines can run.                     *)
(*                                                                          *)
(* Abstractions.  Probe numbers are kept modulo SeqMod: a path holds no     *)
(* datagram for SeqMod - 1 further probes.  misses saturates at             *)
(* ProbeFailures, the only value it is compared with.  The age of a probe is*)
(* "fresh" or "expired" (older than ProbeTimeout).                          *)
(***************************************************************************)
EXTENDS Integers, FiniteSets

CONSTANTS
    ProbeFailures,   \* Config.ProbeFailures: misses in a row that mark a thread down
    Probing,         \* whether ProbeInterval > 0, so that probeLoop runs
    SeqMod           \* bound: probe numbers are kept modulo SeqMod

ASSUME ProbeAssumption ==
    /\ ProbeFailures \in Nat \ {0}
    /\ Probing \in BOOLEAN
    /\ SeqMod \in Nat \ {0, 1}

VARIABLES
    link,        \* the path: "good", "black" (swallows datagrams) or "broken"
    requested,   \* numbers of probe requests in flight
    echoes,      \* numbers of echoes in flight
    probes,      \* p.probes: outstanding number -> "fresh" or "expired"
    probeSeq,    \* p.probeSeq
    misses,      \* p.misses
    up,          \* the registry's view of the thread (Thread.Up)
    prober,      \* probeOnce: its place and the snapshot it took
    reader       \* handleProbe: its place and the number of the echo in hand

pathVars == <<link, requested, echoes>>
pipeVars == <<probes, probeSeq, misses>>
probeVars == <<pathVars, pipeVars, up, prober, reader>>

Numbers == 0 .. (SeqMod - 1)
Waiting == [at |-> "tick", condemned |-> FALSE, outstanding |-> FALSE]
Reading == [at |-> "recv", num |-> 0]

ProbeInit ==
    /\ link = "good" /\ requested = {} /\ echoes = {}
    /\ probes = <<>> /\ probeSeq = 0 /\ misses = 0
    /\ up = TRUE
    /\ prober = Waiting
    /\ reader = Reading

Outstanding == DOMAIN probes
Expired == {n \in Outstanding : probes[n] = "expired"}
Without(S) == [n \in Outstanding \ S |-> probes[n]]
AtMost(n, bound) == IF n < bound THEN n ELSE bound

-----------------------------------------------------------------------------
(* probeOnce.                                                                *)

\* Mutant: timed-out probes are reaped without being counted.
ReapUncounted ==
    /\ Probing
    /\ prober.at = "tick"
    /\ prober' = [at |-> "judge", condemned |-> misses >= ProbeFailures,
                  outstanding |-> Outstanding \ Expired # {}]
    /\ probes' = Without(Expired)
    /\ UNCHANGED <<pathVars, misses, probeSeq, up, reader>>

\* Under p.mu: timed-out probes are reaped and counted, and the miss count and
\* the number of outstanding probes are read for use after the unlock.
ProbeReap ==
    /\ Probing
    /\ prober.at = "tick"
    /\ LET m == AtMost(misses + Cardinality(Expired), ProbeFailures)
       IN /\ misses' = m
          /\ prober' = [at |-> "judge", condemned |-> m >= ProbeFailures,
                        outstanding |-> Outstanding \ Expired # {}]
    /\ probes' = Without(Expired)
    /\ UNCHANGED <<pathVars, probeSeq, up, reader>>

\* Mutant: a probe is sent although one is outstanding.
JudgeAlwaysIssues ==
    /\ prober.at = "judge"
    /\ up' = IF prober.condemned THEN FALSE ELSE up
    /\ prober' = [prober EXCEPT !.at = "issue"]
    /\ UNCHANGED <<pathVars, pipeVars, reader>>

\* The snapshot decides: mark the thread down, and stop if a probe is out.
ProbeJudge ==
    /\ prober.at = "judge"
    /\ up' = IF prober.condemned THEN FALSE ELSE up
    /\ prober' = IF prober.outstanding THEN Waiting ELSE [prober EXCEPT !.at = "issue"]
    /\ UNCHANGED <<pathVars, pipeVars, reader>>

\* Under p.mu again: a new probe is numbered and recorded.
ProbeIssue ==
    /\ prober.at = "issue"
    /\ LET n == (probeSeq + 1) % SeqMod
       IN /\ n \notin requested \cup echoes
          /\ reader.at = "recv" \/ reader.num # n
          /\ probeSeq' = n
          /\ probes' = [k \in Outstanding \cup {n} |->
                           IF k = n THEN "fresh" ELSE probes[k]]
    /\ prober' = [prober EXCEPT !.at = "send"]
    /\ UNCHANGED <<pathVars, misses, up, reader>>

\* ep.Send succeeds (a black path swallows the request), or fails and the
\* probe is forgotten without counting as a miss.
ProbeSend ==
    /\ prober.at = "send"
    /\ \/ /\ link # "broken"
          /\ requested' = requested \cup {probeSeq}
          /\ UNCHANGED <<link, echoes, pipeVars>>
       \/ /\ link = "broken"
          /\ probes' = Without({probeSeq})
          /\ UNCHANGED <<pathVars, probeSeq, misses>>
    /\ prober' = Waiting
    /\ UNCHANGED <<up, reader>>

-----------------------------------------------------------------------------
(* handleProbe.                                                              *)

\* The far end answers a request that reaches it.
PeerEcho ==
    /\ link = "good"
    /\ \E n \in requested :
          /\ requested' = requested \ {n}
          /\ echoes' = echoes \cup {n}
    /\ UNCHANGED <<link, pipeVars, up, prober, reader>>

\* An echo arrives.  Under p.mu: the probe it answers is removed; an echo of a
\* probe that is no longer outstanding is ignored.
EchoMatch ==
    /\ reader.at = "recv"
    /\ link = "good"
    /\ \E n \in echoes :
          /\ echoes' = echoes \ {n}
          /\ probes' = Without({n})
          /\ reader' = IF n \in Outstanding THEN [at |-> "credit", num |-> n] ELSE reader
    /\ UNCHANGED <<link, requested, probeSeq, misses, up, prober>>

\* Mutant: an echo does not clear the miss count.
CreditKeepsMisses ==
    /\ reader.at = "credit"
    /\ reader' = [reader EXCEPT !.at = "report"]
    /\ UNCHANGED <<pathVars, pipeVars, up, prober>>

\* Under p.mu again, after the RTT was computed: the miss count is cleared.
EchoCredit ==
    /\ reader.at = "credit"
    /\ misses' = 0
    /\ reader' = [reader EXCEPT !.at = "report"]
    /\ UNCHANGED <<pathVars, probes, probeSeq, up, prober>>

\* SetThreadHealth(up = true).
EchoReport ==
    /\ reader.at = "report"
    /\ up' = TRUE
    /\ reader' = Reading
    /\ UNCHANGED <<pathVars, pipeVars, prober>>

-----------------------------------------------------------------------------
\* writeLoop: the send of a data frame fails and the thread is marked down.
WriterFails ==
    /\ link = "broken"
    /\ up' = FALSE
    /\ UNCHANGED <<pathVars, pipeVars, prober, reader>>

(* The environment.                                                          *)

PathChanges ==
    /\ link' \in {"good", "black", "broken"} \ {link}
    /\ UNCHANGED <<requested, echoes, pipeVars, up, prober, reader>>

\* A path that is not good drops what it holds.
PathDrops ==
    /\ link # "good"
    /\ requested \cup echoes # {}
    /\ \E n \in requested \cup echoes :
          requested' = requested \ {n} /\ echoes' = echoes \ {n}
    /\ UNCHANGED <<link, pipeVars, up, prober, reader>>

\* ProbeTimeout passes for an outstanding probe.
ProbeExpires ==
    /\ \E n \in Outstanding \ Expired :
          probes' = [probes EXCEPT ![n] = "expired"]
    /\ UNCHANGED <<pathVars, probeSeq, misses, up, prober, reader>>

-----------------------------------------------------------------------------
ProberStep == ProbeReap \/ ProbeJudge \/ ProbeIssue \/ ProbeSend
ReaderStep == EchoMatch \/ EchoCredit \/ EchoReport

ProbeNext ==
    \/ ProberStep
    \/ ReaderStep
    \/ PeerEcho
    \/ WriterFails
    \/ PathChanges
    \/ PathDrops
    \/ ProbeExpires

ProbeSpec == ProbeInit /\ [][ProbeNext]_probeVars

(* The goroutines run, datagrams on a good path arrive, dead paths drain and *)
(* timeouts pass.  Nothing is owed of the writer: sched.Pick gives a frame to*)
(* the thread that would finish it first, and a slow thread may never get    *)
(* one.  Paths change as they like.                                          *)
FairProbeSpec ==
    /\ ProbeSpec
    /\ WF_probeVars(ProberStep)
    /\ WF_probeVars(ReaderStep)
    /\ WF_probeVars(PeerEcho)
    /\ WF_probeVars(PathDrops)
    /\ WF_probeVars(ProbeExpires)

-----------------------------------------------------------------------------
(* The types of the path, of the pipe's probe state and of the two           *)
(* goroutines' places: the miss count never leaves 0 .. ProbeFailures.       *)
ProbeTypeOK ==
    /\ link \in {"good", "black", "broken"}
    /\ requested \subseteq Numbers /\ echoes \subseteq Numbers
    /\ Outstanding \subseteq Numbers
    /\ \A n \in Outstanding : probes[n] \in {"fresh", "expired"}
    /\ probeSeq \in Numbers
    /\ misses \in 0 .. ProbeFailures
    /\ up \in BOOLEAN
    /\ prober \in [at : {"tick", "judge", "issue", "send"},
                   condemned : BOOLEAN, outstanding : BOOLEAN]
    /\ reader \in [at : {"recv", "credit", "report"}, num : Numbers]

(* "Keep exactly one probe in flight even while the thread is down"          *)
(* (node.go:476-478): probing never piles up probes, although the decision   *)
(* to send one is taken from a snapshot read before p.mu was released.       *)
OneProbeOutstanding == Cardinality(Outstanding) <= 1

\* A probe times out while it, or its echo, is still on the way.
ExpiresInFlight ==
    \E n \in Outstanding \ Expired :
        /\ n \in Outstanding' /\ probes'[n] = "expired"
        /\ n \in requested \cup echoes \/ (prober.at = "send" /\ n = probeSeq)

(* "the first successful probe brings it back. No operator action required"  *)
(* (hydra.md "Liveness probes"): once the path stays good, and answers within*)
(* ProbeTimeout, the thread ends up marked up for good, whatever stale       *)
(* verdicts and late echoes are pending.                                     *)
GoodPathComesBack == (<>[](link = "good") /\ <>[][~ExpiresInFlight]_probeVars) => <>[]up

(* "a thread that misses probe_failures probes in a row is marked down and   *)
(* skipped" (hydra.md): once the path stays black the thread ends up marked  *)
(* down for good, although late echoes may still mark it up in between.      *)
BlackPathGoesDown == <>[](link = "black") => <>[]~up

(* "A thread that misses probe_failures probes in a row is marked down and   *)
(* skipped", of a path on which every send fails.  The code breaks it: a     *)
(* probe that cannot be sent is taken back and is no miss (node.go:490-494), *)
(* so such a thread stays up until the scheduler gives it a frame.           *)
BrokenPathGoesDown == <>[](link = "broken") => <>[]~up

(* "A thread that misses ProbeFailures probes in a row is marked down; the   *)
(* first echo clears the miss count and marks it up again" (node.go:459-460):*)
(* probing marks a thread down only while its miss count says so.  The code  *)
(* breaks it: probeOnce acts on the count it read before releasing p.mu, so  *)
(* it can mark down a thread whose echo has just cleared the count.          *)
DownMeansMissed ==
    [][(prober.at = "judge" /\ prober'.at # "judge" /\ up /\ ~up')
            => misses >= ProbeFailures]_probeVars

(* "0 disables probing (threads then stay in whatever state they were        *)
(* declared)" (node.go:47-48).  The code breaks it: without probing, the     *)
(* writer still marks a thread down on a failed send, and nothing marks it   *)
(* up again.                                                                 *)
UnprobedStaysDeclared == ~Probing => up
=============================================================================
