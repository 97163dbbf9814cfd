-------------------------- MODULE HydraEngineProofs --------------------------
(***************************************************************************)
(* Proofs about liveness probing and about the control interface of Hydra,  *)
(* for any number of threads, weaves, requests, benches, probes, failed     *)
(* saves and restarts.                                                      *)
(*                                                                          *)
(* Probing.  A probe is issued on the strength of a snapshot; ProbeInv says *)
(* that no probe is outstanding wherever the snapshot said so and the prober*)
(* has not issued its own yet: meanwhile others only remove probes.         *)
(*                                                                          *)
(* The control interface.  KeptThreads and KeptWeaves relate engine and     *)
(* tables at every stage of a request, for the ids that only one request    *)
(* works on and that the last restart did not leave out; LockstepInv says   *)
(* where a number is that a weave has used and its reassembler has not got, *)
(* and that nothing else is there.  InWindow bounds what a reassembler      *)
(* holds; PushIs says what a Push does with it, gap skip, refusal and       *)
(* re-alignment included.                                                   *)
(* StripEffect, ThreadBegins and the like say what a group of actions does, *)
(* ThreadsMove, WeavesMove and LockstepMoves that nothing else is disturbed.*)
(***************************************************************************)
EXTENDS HydraAdmin, HydraProbe, FiniteSetTheorems, WellFoundedInduction, TLAPS

-----------------------------------------------------------------------------
(* Liveness probing.                                                         *)

ProberRecord(at, condemned, outstanding) ==
    [at |-> at, condemned |-> condemned, outstanding |-> outstanding]
ReaderRecord(at, num) == [at |-> at, num |-> num]

(* The decision to issue a probe is taken from a snapshot; it stays right    *)
(* because, until the probe is issued, the reader can only remove probes.    *)
ProbeInv ==
    /\ link \in {"good", "black", "broken"}
    /\ requested \subseteq Numbers /\ echoes \subseteq Numbers
    /\ Outstanding \subseteq Numbers
    /\ \A n \in Outstanding : probes[n] \in {"fresh", "expired"}
    /\ probeSeq \in Numbers
    /\ misses \in 0 .. ProbeFailures
    /\ up \in BOOLEAN
    /\ \E at \in {"tick", "judge", "issue", "send"}, c \in BOOLEAN, o \in BOOLEAN :
          prober = ProberRecord(at, c, o)
    /\ \E at \in {"recv", "credit", "report"}, n \in Numbers : reader = ReaderRecord(at, n)
    /\ \A m, n \in Outstanding : m = n
    /\ prober.at = "issue" => Outstanding = {}
    /\ prober.at = "judge" /\ ~prober.outstanding => Outstanding = {}

\* Records with one field changed.
LEMMA ProberMoves ==
    ASSUME NEW r, NEW at, NEW c, NEW o, NEW v, r = ProberRecord(at, c, o)
    PROVE  [r EXCEPT !.at = v] = ProberRecord(v, c, o)
<1> DEFINE s == ProberRecord(at, c, o)
<1>1. [s EXCEPT !.at = v] = ProberRecord(v, c, o)
  BY DEF ProberRecord
<1> HIDE DEF s
<1> QED
  BY <1>1, Zenon DEF s

LEMMA ReaderMoves ==
    ASSUME NEW r, NEW at, NEW n, NEW v, r = ReaderRecord(at, n)
    PROVE  [r EXCEPT !.at = v] = ReaderRecord(v, n)
<1> DEFINE s == ReaderRecord(at, n)
<1>1. [s EXCEPT !.at = v] = ReaderRecord(v, n)
  BY DEF ReaderRecord
<1> HIDE DEF s
<1> QED
  BY <1>1, Zenon DEF s

LEMMA RemovedProbes ==
    ASSUME ProbeInv, NEW S, probes' = Without(S)
    PROVE  /\ Outstanding' = Outstanding \ S
           /\ \A n \in Outstanding' : probes'[n] = probes[n] /\ probes'[n] \in {"fresh", "expired"}
<1>1. Outstanding' = Outstanding \ S /\ \A n \in Outstanding \ S : probes'[n] = probes[n]
  BY DEF Without, Outstanding
<1> QED
  BY <1>1 DEF ProbeInv

LEMMA ProbeInitInv == ProbeInit => ProbeInv
<1> SUFFICES ASSUME ProbeInit PROVE ProbeInv
  OBVIOUS
<1>1. Outstanding = {}
  BY DEF ProbeInit, Outstanding
<1>2. 0 \in Numbers /\ 0 \in 0 .. ProbeFailures
  BY ProbeAssumption DEF Numbers
<1>3. prober = ProberRecord("tick", FALSE, FALSE) /\ reader = ReaderRecord("recv", 0)
  BY DEF ProbeInit, Waiting, Reading, ProberRecord, ReaderRecord
<1>4. prober.at = "tick"
  BY <1>3 DEF ProberRecord
<1> QED
  BY <1>1, <1>2, <1>3, <1>4 DEF ProbeInit, ProbeInv

\* The probe state stays in order where probes are only removed, nothing else
\* about the pipe changes and the prober stays where it is.
LEMMA ProbesRemoved ==
    ASSUME ProbeInv, UNCHANGED <<probeSeq, prober>>, up' \in BOOLEAN,
           link' \in {"good", "black", "broken"},
           requested' \subseteq Numbers, echoes' \subseteq Numbers,
           misses' \in 0 .. ProbeFailures,
           \E at \in {"recv", "credit", "report"}, n \in Numbers : reader' = ReaderRecord(at, n),
           Outstanding' \subseteq Outstanding,
           \A n \in Outstanding' : probes'[n] \in {"fresh", "expired"}
    PROVE  ProbeInv'
<1>1. /\ \A m, n \in Outstanding' : m = n
      /\ prober.at = "issue" => Outstanding' = {}
      /\ prober.at = "judge" /\ ~prober.outstanding => Outstanding' = {}
      /\ Outstanding' \subseteq Numbers
  BY DEF ProbeInv
<1>2. PICK at \in {"tick", "judge", "issue", "send"}, c \in BOOLEAN, o \in BOOLEAN :
          prober = ProberRecord(at, c, o)
  BY DEF ProbeInv
<1> QED
  BY <1>1, <1>2 DEF ProbeInv

LEMMA ProberStepInv ==
    ASSUME ProbeInv, ProberStep
    PROVE  ProbeInv'
<1>0. PICK at \in {"tick", "judge", "issue", "send"}, c \in BOOLEAN, o \in BOOLEAN :
          prober = ProberRecord(at, c, o)
  BY DEF ProbeInv
<1>1. prober.at = at /\ prober.condemned = c /\ prober.outstanding = o
  BY <1>0 DEF ProberRecord
<1>2. CASE ProbeReap
  <2>1. IsFiniteSet(Expired) /\ Cardinality(Expired) \in Nat
    <3>1. 0 \in Int /\ SeqMod - 1 \in Int
      BY ProbeAssumption
    <3>2. IsFiniteSet(Numbers)
      BY <3>1, FS_Interval DEF Numbers
    <3>3. Expired \subseteq Numbers
      BY DEF Expired, ProbeInv
    <3> QED
      BY <3>2, <3>3, FS_Subset, FS_CardinalityType
  <2>2. misses' \in 0 .. ProbeFailures
    <3>1. PICK k \in Nat : k = Cardinality(Expired)
      BY <2>1
    <3>2. misses' = AtMost(misses + k, ProbeFailures)
      BY <1>2, <3>1 DEF ProbeReap
    <3> QED
      BY <3>2, ProbeAssumption DEF AtMost, ProbeInv
  <2>3. Outstanding' = Outstanding \ Expired /\ \A n \in Outstanding' : probes'[n] = probes[n]
    <3>1. probes' = Without(Expired)
      BY <1>2 DEF ProbeReap
    <3> QED
      BY <3>1, RemovedProbes
  <2>4. PICK d \in BOOLEAN : prober' = ProberRecord("judge", d, Outstanding \ Expired # {})
    <3> DEFINE m == AtMost(misses + Cardinality(Expired), ProbeFailures) >= ProbeFailures
    <3>1. prober' = ProberRecord("judge", m, Outstanding \ Expired # {})
      BY <1>2, Zenon DEF ProbeReap, ProberRecord
    <3>2. m \in BOOLEAN
      OBVIOUS
    <3> HIDE DEF m
    <3> QED
      BY <3>1, <3>2, Zenon
  <2>5. PICK e \in BOOLEAN : e = (Outstanding \ Expired # {})
    BY Zenon
  <2>6. prober' = ProberRecord("judge", d, e)
    BY <2>4, <2>5, Zenon
  <2>7. prober'.at = "judge" /\ prober'.outstanding = e
    BY <2>6 DEF ProberRecord
  <2>8. ~e => Outstanding' = {}
    BY <2>3, <2>5
  <2>9. \A m, n \in Outstanding' : m = n
    BY <2>3 DEF ProbeInv
  <2>10. Outstanding' \subseteq Numbers /\ \A n \in Outstanding' : probes'[n] \in {"fresh", "expired"}
    BY <2>3 DEF ProbeInv
  <2>11. UNCHANGED <<link, requested, echoes, probeSeq, up, reader>>
    BY <1>2 DEF ProbeReap, pathVars
  <2>12. \E a \in {"tick", "judge", "issue", "send"}, x \in BOOLEAN, y \in BOOLEAN :
             prober' = ProberRecord(a, x, y)
    BY <2>4, <2>5, <2>6
  <2>13. prober'.at = "judge" /\ ~prober'.outstanding => Outstanding' = {}
    BY <2>7, <2>8, Zenon
  <2> QED
    BY <2>2, <2>7, <2>9, <2>10, <2>11, <2>12, <2>13 DEF ProbeInv
<1>3. CASE ProbeJudge
  <2>0. UNCHANGED <<link, requested, echoes, probes, probeSeq, misses, reader>> /\ Outstanding' = Outstanding
    BY <1>3 DEF ProbeJudge, pathVars, pipeVars, Outstanding
  <2>1. up' \in BOOLEAN
    BY <1>3, Zenon DEF ProbeJudge, ProbeInv
  <2>2. CASE o
    <3>1. prober' = ProberRecord("tick", FALSE, FALSE)
      BY <1>1, <1>3, <2>2 DEF ProbeJudge, Waiting, ProberRecord
    <3>2. prober'.at = "tick"
      BY <3>1 DEF ProberRecord
    <3> QED
      BY <2>0, <2>1, <3>1, <3>2 DEF ProbeInv
  <2>3. CASE ~o
    <3>1. prober' = ProberRecord("issue", c, o)
      <4>1. prober' = [prober EXCEPT !.at = "issue"]
        BY <1>1, <1>3, <2>3, Zenon DEF ProbeJudge
      <4>2. [prober EXCEPT !.at = "issue"] = ProberRecord("issue", c, o)
        BY <1>0, ProberMoves
      <4> QED
        BY <4>1, <4>2, Zenon
    <3>2. prober'.at = "issue"
      BY <3>1 DEF ProberRecord
    <3>3. Outstanding' = {}
      BY <1>1, <1>3, <2>0, <2>3 DEF ProbeJudge, ProbeInv
    <3> QED
      BY <2>0, <2>1, <3>1, <3>2, <3>3 DEF ProbeInv
  <2> QED
    BY <2>2, <2>3
<1>4. CASE ProbeIssue
  <2> DEFINE n == (probeSeq + 1) % SeqMod
  <2>0. UNCHANGED <<link, requested, echoes, misses, up, reader>>
    BY <1>4 DEF ProbeIssue, pathVars
  <2>1. Outstanding = {}
    BY <1>4 DEF ProbeIssue, ProbeInv
  <2>2. n \in Numbers
    BY ProbeAssumption DEF Numbers, ProbeInv
  <2>3. probeSeq' = n /\ probes' = [k \in Outstanding \cup {n} |-> IF k = n THEN "fresh" ELSE probes[k]]
    BY <1>4 DEF ProbeIssue
  <2>4. Outstanding' = {n} /\ probes'[n] = "fresh"
    <3> HIDE DEF n
    <3> QED
      BY <2>1, <2>3 DEF Outstanding
  <2>5. prober' = ProberRecord("send", c, o)
    <3>1. prober' = [prober EXCEPT !.at = "send"]
      BY <1>4, Zenon DEF ProbeIssue
    <3>2. [prober EXCEPT !.at = "send"] = ProberRecord("send", c, o)
      BY <1>0, ProberMoves
    <3> QED
      BY <3>1, <3>2, Zenon
  <2>6. prober'.at = "send"
    BY <2>5 DEF ProberRecord
  <2> HIDE DEF n
  <2>7. probeSeq' \in Numbers /\ Outstanding' \subseteq Numbers
        /\ (\A k \in Outstanding' : probes'[k] \in {"fresh", "expired"})
        /\ \A j, k \in Outstanding' : j = k
    BY <2>2, <2>3, <2>4
  <2> QED
    BY <2>0, <2>5, <2>6, <2>7 DEF ProbeInv
<1>5. CASE ProbeSend
  <2>0. UNCHANGED <<link, echoes, probeSeq, misses, up, reader>>
    BY <1>5 DEF ProbeSend, pathVars, pipeVars
  <2>1. requested' \subseteq Numbers
    BY <1>5 DEF ProbeSend, pathVars, ProbeInv
  <2>2. Outstanding' \subseteq Outstanding /\ \A n \in Outstanding' : probes'[n] \in {"fresh", "expired"}
    <3>1. CASE probes' = probes
      BY <3>1 DEF Outstanding, ProbeInv
    <3>2. CASE probes' = Without({probeSeq})
      BY <3>2, RemovedProbes
    <3> QED
      BY <1>5, <3>1, <3>2 DEF ProbeSend, pipeVars
  <2>3. prober' = ProberRecord("tick", FALSE, FALSE)
    BY <1>5 DEF ProbeSend, Waiting, ProberRecord
  <2>4. prober'.at = "tick"
    BY <2>3 DEF ProberRecord
  <2>5. Outstanding' \subseteq Numbers /\ \A m, n \in Outstanding' : m = n
    BY <2>2 DEF ProbeInv
  <2> QED
    BY <2>0, <2>1, <2>2, <2>3, <2>4, <2>5 DEF ProbeInv
<1> QED
  BY <1>2, <1>3, <1>4, <1>5 DEF ProberStep

LEMMA ReaderStepInv ==
    ASSUME ProbeInv, ReaderStep
    PROVE  ProbeInv'
<1>0. PICK at \in {"recv", "credit", "report"}, k \in Numbers : reader = ReaderRecord(at, k)
  BY DEF ProbeInv
<1>1. CASE EchoMatch
  <2>0. UNCHANGED <<link, requested, probeSeq, misses, up, prober>>
    BY <1>1 DEF EchoMatch
  <2>1. PICK n \in echoes : /\ echoes' = echoes \ {n} /\ probes' = Without({n})
                            /\ reader' = IF n \in Outstanding THEN [at |-> "credit", num |-> n] ELSE reader
    BY <1>1 DEF EchoMatch
  <2>2. n \in Numbers
    BY DEF ProbeInv
  <2>3. \E a \in {"recv", "credit", "report"}, j \in Numbers : reader' = ReaderRecord(a, j)
    <3>1. CASE n \in Outstanding
      BY <2>1, <2>2, <3>1 DEF ReaderRecord
    <3>2. CASE n \notin Outstanding
      BY <1>0, <2>1, <3>2
    <3> QED
      BY <3>1, <3>2
  <2>4. Outstanding' \subseteq Outstanding /\ \A j \in Outstanding' : probes'[j] \in {"fresh", "expired"}
    BY <2>1, RemovedProbes
  <2>5. up' \in BOOLEAN
    BY <2>0, Zenon DEF ProbeInv
  <2>6. /\ link' \in {"good", "black", "broken"} /\ requested' \subseteq Numbers
        /\ echoes' \subseteq Numbers /\ misses' \in 0 .. ProbeFailures
    BY <2>0, <2>1 DEF ProbeInv
  <2> QED
    BY <2>0, <2>3, <2>4, <2>5, <2>6, ProbesRemoved
<1>2. CASE EchoCredit
  <2>1. UNCHANGED <<link, requested, echoes, probes, probeSeq, up, prober>> /\ Outstanding' = Outstanding
    BY <1>2 DEF EchoCredit, pathVars, Outstanding
  <2>2. reader' = ReaderRecord("report", k)
    <3>1. reader' = [reader EXCEPT !.at = "report"]
      BY <1>2, Zenon DEF EchoCredit
    <3>2. [reader EXCEPT !.at = "report"] = ReaderRecord("report", k)
      BY <1>0, ReaderMoves
    <3> QED
      BY <3>1, <3>2, Zenon
  <2>3. misses' \in 0 .. ProbeFailures
    BY <1>2, ProbeAssumption DEF EchoCredit
  <2>4. up' \in BOOLEAN
    BY <2>1, Zenon DEF ProbeInv
  <2> QED
    BY <2>1, <2>2, <2>3, <2>4, ProbesRemoved DEF ProbeInv
<1>3. CASE EchoReport
  <2>1. UNCHANGED <<link, requested, echoes, probes, probeSeq, misses, prober>> /\ Outstanding' = Outstanding
    BY <1>3 DEF EchoReport, pathVars, pipeVars, Outstanding
  <2>2. reader' = ReaderRecord("recv", 0) /\ 0 \in Numbers
    BY <1>3, ProbeAssumption DEF EchoReport, Reading, ReaderRecord, Numbers
  <2>3. up' \in BOOLEAN
    BY <1>3, Zenon DEF EchoReport
  <2> QED
    BY <2>1, <2>2, <2>3, ProbesRemoved DEF ProbeInv
<1> QED
  BY <1>1, <1>2, <1>3 DEF ReaderStep

\* Whatever the path does with requests and echoes, and whenever a probe times out,
\* the pipe's probe state stays in order.
THEOREM ProbeInvariant == ProbeSpec => []ProbeInv
<1>1. ProbeInv /\ [ProbeNext]_probeVars => ProbeInv'
  <2> SUFFICES ASSUME ProbeInv, [ProbeNext]_probeVars PROVE ProbeInv'
    OBVIOUS
  <2>0. PICK at \in {"recv", "credit", "report"}, k \in Numbers : reader = ReaderRecord(at, k)
    BY DEF ProbeInv
  <2>1. CASE ProberStep
    BY <2>1, ProberStepInv
  <2>2. CASE ReaderStep
    BY <2>2, ReaderStepInv
  <2>3. CASE UNCHANGED <<probes, probeSeq, misses, prober, reader>>
             /\ (link' \in {"good", "black", "broken"} /\ up' \in BOOLEAN)
             /\ (requested' \subseteq Numbers /\ echoes' \subseteq Numbers)
    <3>1. Outstanding' = Outstanding
      BY <2>3 DEF Outstanding
    <3>2. up' \in BOOLEAN
      BY <2>3, Zenon
    <3> QED
      BY <2>0, <2>3, <3>1, <3>2, ProbesRemoved DEF ProbeInv
  <2>4. ASSUME PeerEcho \/ WriterFails \/ PathChanges \/ PathDrops \/ UNCHANGED probeVars
        PROVE  /\ UNCHANGED <<probes, probeSeq, misses, prober, reader>>
               /\ link' \in {"good", "black", "broken"}
               /\ requested' \subseteq Numbers /\ echoes' \subseteq Numbers
               /\ up' \in BOOLEAN
    <3>1. UNCHANGED <<probes, probeSeq, misses, prober, reader>>
      BY <2>4 DEF PeerEcho, WriterFails, PathChanges, PathDrops, probeVars, pipeVars
    <3>2. up' \in BOOLEAN
      <4>1. up' = up \/ up' = FALSE
        BY <2>4 DEF PeerEcho, WriterFails, PathChanges, PathDrops, probeVars
      <4> QED
        BY <4>1, Zenon DEF ProbeInv
    <3>3. link' \in {"good", "black", "broken"} /\ requested' \subseteq Numbers /\ echoes' \subseteq Numbers
      BY <2>4 DEF PeerEcho, WriterFails, PathChanges, PathDrops, probeVars, pathVars, ProbeInv
    <3> QED
      BY <3>1, <3>2, <3>3
  <2>5. CASE ProbeExpires
    <3>0. UNCHANGED <<link, requested, echoes, probeSeq, misses, up, prober, reader>>
      BY <2>5 DEF ProbeExpires, pathVars
    <3>1. PICK n \in Outstanding : probes' = [probes EXCEPT ![n] = "expired"]
      BY <2>5 DEF ProbeExpires
    <3>2. Outstanding' = Outstanding
      BY <3>1 DEF Outstanding
    <3>3. \A j \in Outstanding : probes'[j] \in {"fresh", "expired"}
      BY <3>1 DEF Outstanding, ProbeInv
    <3>4. up' \in BOOLEAN
      BY <3>0, Zenon DEF ProbeInv
    <3> QED
      BY <2>0, <3>0, <3>2, <3>3, <3>4, ProbesRemoved DEF ProbeInv
  <2> QED
    BY <2>1, <2>2, <2>3, <2>4, <2>5 DEF ProbeNext
<1> QED
  BY <1>1, ProbeInitInv, PTL DEF ProbeSpec

\* The path, the probe state and the two goroutines' places keep their types, for
\* any number of failures, and the miss count never leaves its range.
THEOREM ProbeTyped == ProbeSpec => []ProbeTypeOK
<1>1. ProbeInv => ProbeTypeOK
  <2> SUFFICES ASSUME ProbeInv PROVE ProbeTypeOK
    OBVIOUS
  <2>1. prober \in [at : {"tick", "judge", "issue", "send"}, condemned : BOOLEAN, outstanding : BOOLEAN]
    BY DEF ProbeInv, ProberRecord
  <2>2. reader \in [at : {"recv", "credit", "report"}, num : Numbers]
    BY DEF ProbeInv, ReaderRecord
  <2>3. up \in BOOLEAN
    BY Zenon DEF ProbeInv
  <2> QED
    BY <2>1, <2>2, <2>3 DEF ProbeInv, ProbeTypeOK
<1> QED
  BY <1>1, ProbeInvariant, PTL

\* Probing never piles up probes, although the decision to send one is taken from a
\* snapshot read before p.mu was released.
THEOREM OneProbe == ProbeSpec => []OneProbeOutstanding
<1>1. ProbeInv => OneProbeOutstanding
  <2> SUFFICES ASSUME ProbeInv PROVE Cardinality(Outstanding) <= 1
    BY DEF OneProbeOutstanding
  <2>1. CASE Outstanding = {}
    BY <2>1, FS_EmptySet
  <2>2. CASE Outstanding # {}
    <3>1. PICK n : Outstanding = {n}
      BY <2>2 DEF ProbeInv
    <3>2. Cardinality({n}) = 1
      BY FS_Singleton
    <3> QED
      BY <3>1, <3>2
  <2> QED
    BY <2>1, <2>2
<1> QED
  BY <1>1, ProbeInvariant, PTL

-----------------------------------------------------------------------------
(* The control interface: types.                                             *)

ReqRecord(at, id, copy, made, seqs) ==
    [at |-> at, id |-> id, copy |-> copy, made |-> made, seqs |-> seqs]

Lists == (SUBSET Threads) \ {{}}
LabFrames == [weave : Weaves, made : Nat, seq : Nat \ {0}]

\* What a request at a place works on and has in hand.
Fits(at, id, copy) ==
    \/ at = "idle" /\ id = None
    \/ at \in {"get", "drop"} /\ id \in Threads
    \/ at = "put" /\ id \in Threads /\ copy \in ThreadType
    \/ at = "putWeave" /\ id \in Weaves /\ copy \in Lists
    \/ at = "dropWeave" /\ id \in Weaves
    \/ at \in {"bench", "feed"} /\ id = None /\ copy \in Weaves

\* Packets in a bench's hand.
Numbered(seqs) == \A x \in seqs : x[2] \in Nat \ {0}

IsRequest(r) ==
    \E at, id, copy, seqs : \E made \in Nat :
        r = ReqRecord(at, id, copy, made, seqs) /\ Fits(at, id, copy) /\ Numbered(seqs)

(* What a reassembler holds lies within its window and leaves room for one.  *)
InWindow(b) ==
    /\ b.held \subseteq b.next .. (b.next + Window - 1)
    /\ b.next \in b.held => b.next + Window - 1 \notin b.held

Buffers == {b \in BufferType : b.next >= 1 /\ InWindow(b)}

EngineInv ==
    /\ thread \in [Threads -> ThreadType \cup {None}]
    /\ threadTable \in [Threads -> ThreadType \cup {None}]
    /\ threadFile \in [Threads -> ThreadType \cup {None}]
    /\ weave \in [Weaves -> WeaveType \cup {None}] /\ rb \in [Weaves -> Buffers]
    /\ weaveTable \in [Weaves -> Lists \cup {None}]
    /\ weaveFile \in [Weaves -> Lists \cup {None}]
    /\ weavesMade \in Nat /\ lab \subseteq LabFrames

RequestInv == DOMAIN req = Clients /\ \A p \in Clients : IsRequest(req[p])

(* Engine and tables agree on an id that no two requests worked on at once,  *)
(* but for the request that is between the two: then the engine agrees with  *)
(* what that request is about to store.  The backlog of a thread may differ. *)
Agree(x, y) == (x = None <=> y = None) /\ (x # None => x.link = y.link)
AgreeOn(x, ts) == (x = None <=> ts = None) /\ (x # None => x.threads = ts)

AloneOn(id) == \A p, q \in Clients : req[p].id = id /\ req[q].id = id => p = q

KeptThread(t) ==
    /\ AloneOn(t)
    /\ (\A p \in Clients : req[p].id # t) => Agree(thread[t], threadTable[t])
    /\ \A p \in Clients : req[p].id = t =>
          /\ req[p].at = "get" => thread[t] # None
          /\ req[p].at = "put" => Agree(thread[t], req[p].copy)
          /\ req[p].at = "drop" => thread[t] = None

KeptWeave(w) ==
    /\ AloneOn(w)
    /\ (\A p \in Clients : req[p].id # w) => AgreeOn(weave[w], weaveTable[w])
    /\ \A p \in Clients : req[p].id = w =>
          /\ req[p].at = "putWeave" => AgreeOn(weave[w], req[p].copy)
          /\ req[p].at = "dropWeave" => weave[w] = None

KeptThreads == \A t \in Threads : t \in contested \cup leftOut \/ KeptThread(t)
KeptWeaves == \A w \in Weaves : w \in contested \cup leftOut \/ KeptWeave(w)

\* The number n is behind the position of the reassembler, or held.
Has(b, n) == n < b.next \/ n \in b.held

(* The numbers of a weave that are under way: in the lab, or with a bench    *)
(* that will feed them to this very weave.                                   *)
OnBench(r) == r.at \in {"bench", "feed"}

InHand(r, w, made, n) ==
    OnBench(r) /\ r.copy = w /\ r.made = made /\ \E x \in r.seqs : x[2] = n

Out(w, n) ==
    \/ \E f \in lab : f.weave = w /\ f.made = weave[w].made /\ f.seq = n
    \/ \E p \in Clients : InHand(req[p], w, weave[w].made, n)

(* Every number that a weave has used is at its reassembler or under way, and*)
(* nothing else is.                                                          *)
InLockstep(w) ==
    weave[w] # None =>
        /\ \A n \in 1 .. weave[w].seq : Has(rb[w], n) \/ Out(w, n)
        /\ \A n \in Nat : Out(w, n) => n \in 1 .. weave[w].seq
        /\ rb[w].next <= weave[w].seq + 1 /\ rb[w].held \subseteq 1 .. weave[w].seq

(* A weave that is yet to be created has no frames and no bench.             *)
MadeInv ==
    /\ \A w \in Weaves : weave[w] # None => weave[w].made <= weavesMade
    /\ \A f \in lab : f.made <= weavesMade
    /\ \A p \in Clients : OnBench(req[p]) => req[p].made <= weavesMade

LockstepInv == MadeInv /\ \A w \in Weaves : w \in disturbed \/ InLockstep(w)

AdminInv == EngineInv /\ RequestInv /\ KeptThreads /\ KeptWeaves /\ LockstepInv

-----------------------------------------------------------------------------
(* Records with one field changed.                                           *)

LEMMA ReqFields ==
    ASSUME NEW at, NEW id, NEW copy, NEW made, NEW seqs
    PROVE  /\ ReqRecord(at, id, copy, made, seqs).at = at
           /\ ReqRecord(at, id, copy, made, seqs).id = id
           /\ ReqRecord(at, id, copy, made, seqs).copy = copy
           /\ ReqRecord(at, id, copy, made, seqs).made = made
           /\ ReqRecord(at, id, copy, made, seqs).seqs = seqs
  BY DEF ReqRecord

LEMMA IdleFields ==
    /\ Idle = ReqRecord("idle", None, None, 0, {})
    /\ Idle.at = "idle" /\ Idle.id = None /\ Idle.copy = None
    /\ IsRequest(Idle)
<1>1. Idle = ReqRecord("idle", None, None, 0, {})
  BY DEF Idle, ReqRecord
<1>2. Idle.at = "idle" /\ Idle.id = None /\ Idle.copy = None
  BY DEF Idle
<1>3. Fits("idle", None, None)
  BY DEF Fits
<1>4. 0 \in Nat /\ Numbered({})
  BY DEF Numbered
<1> QED
  BY <1>1, <1>2, <1>3, <1>4, Zenon DEF IsRequest

\* Where a request goes next.
LEMMA GoesTo ==
    ASSUME NEW at, NEW id, NEW copy, Fits(at, id, copy)
    PROVE  /\ [Idle EXCEPT !.at = at, !.id = id, !.copy = copy] = ReqRecord(at, id, copy, 0, {})
           /\ IsRequest(ReqRecord(at, id, copy, 0, {}))
<1>1. [Idle EXCEPT !.at = at, !.id = id, !.copy = copy] = ReqRecord(at, id, copy, 0, {})
  <2>1. [Idle EXCEPT !.at = at] = ReqRecord(at, None, None, 0, {})
    BY DEF Idle, ReqRecord
  <2>2. [ReqRecord(at, None, None, 0, {}) EXCEPT !.id = id] = ReqRecord(at, id, None, 0, {})
    BY DEF ReqRecord
  <2>3. [ReqRecord(at, id, None, 0, {}) EXCEPT !.copy = copy] = ReqRecord(at, id, copy, 0, {})
    BY DEF ReqRecord
  <2> QED
    BY <2>1, <2>2, <2>3, Zenon
<1>2. 0 \in Nat /\ Numbered({})
  BY DEF Numbered
<1> QED
  BY <1>1, <1>2, Zenon DEF IsRequest

\* What is known of a request.
LEMMA RequestFields ==
    ASSUME NEW r, IsRequest(r)
    PROVE  /\ Fits(r.at, r.id, r.copy) /\ r.made \in Nat /\ Numbered(r.seqs)
           /\ r = ReqRecord(r.at, r.id, r.copy, r.made, r.seqs)
<1>1. PICK at, id, copy, made, seqs :
         /\ made \in Nat /\ Numbered(seqs)
         /\ r = ReqRecord(at, id, copy, made, seqs) /\ Fits(at, id, copy)
  BY DEF IsRequest
<1>2. r.at = at /\ r.id = id /\ r.copy = copy /\ r.made = made /\ r.seqs = seqs
  BY <1>1, ReqFields
<1> QED
  BY <1>1, <1>2

LEMMA SeqsChange ==
    ASSUME NEW r, IsRequest(r), NEW q
    PROVE  [r EXCEPT !.seqs = q] = ReqRecord(r.at, r.id, r.copy, r.made, q)
<1>1. PICK at, id, copy, made, seqs : r = ReqRecord(at, id, copy, made, seqs)
  BY DEF IsRequest
<1>2. r.at = at /\ r.id = id /\ r.copy = copy /\ r.made = made
  BY <1>1, ReqFields
<1> DEFINE s == ReqRecord(at, id, copy, made, seqs)
<1>3. [s EXCEPT !.seqs = q] = ReqRecord(at, id, copy, made, q)
  BY DEF ReqRecord
<1> HIDE DEF s
<1>4. r = s
  BY <1>1 DEF s
<1> QED
  BY <1>2, <1>3, <1>4, Zenon

LEMMA TurnsToFeed ==
    ASSUME NEW r, IsRequest(r), NEW q
    PROVE  [r EXCEPT !.at = "feed", !.seqs = q] = ReqRecord("feed", r.id, r.copy, r.made, q)
<1>1. PICK at, id, copy, made, seqs : r = ReqRecord(at, id, copy, made, seqs)
  BY DEF IsRequest
<1>2. r.id = id /\ r.copy = copy /\ r.made = made
  BY <1>1, ReqFields
<1> DEFINE s == ReqRecord(at, id, copy, made, seqs)
<1>3. [s EXCEPT !.at = "feed"] = ReqRecord("feed", id, copy, made, seqs)
  BY DEF ReqRecord
<1>4. [ReqRecord("feed", id, copy, made, seqs) EXCEPT !.seqs = q] = ReqRecord("feed", id, copy, made, q)
  BY DEF ReqRecord
<1> HIDE DEF s
<1>5. r = s
  BY <1>1 DEF s
<1> QED
  BY <1>2, <1>3, <1>4, <1>5, Zenon

WeaveRecord(threads, made, seq) == [threads |-> threads, made |-> made, seq |-> seq]

LEMMA WeaveFields ==
    ASSUME NEW ws \in WeaveType, NEW v
    PROVE  [ws EXCEPT !.seq = v] = WeaveRecord(ws.threads, ws.made, v)
<1>1. PICK a, b, c : ws = WeaveRecord(a, b, c)
  BY DEF WeaveType, WeaveRecord
<1>2. ws.threads = a /\ ws.made = b /\ ws.seq = c
  BY <1>1 DEF WeaveRecord
<1> DEFINE s == WeaveRecord(a, b, c)
<1>3. [s EXCEPT !.seq = v] = WeaveRecord(a, b, v)
  BY DEF WeaveRecord
<1> HIDE DEF s
<1>4. ws = s
  BY <1>1 DEF s
<1> QED
  BY <1>2, <1>3, <1>4, Zenon

LEMMA WeaveTypes ==
    ASSUME NEW a \in Lists, NEW b \in Nat, NEW c \in 0 .. MaxSeq
    PROVE  /\ WeaveRecord(a, b, c) \in WeaveType /\ WeaveRecord(a, b, c) # None
           /\ WeaveRecord(a, b, c).threads = a /\ WeaveRecord(a, b, c).made = b
           /\ WeaveRecord(a, b, c).seq = c
<1>1. WeaveRecord(a, b, c) \in WeaveType
  BY DEF WeaveRecord, WeaveType, Lists
<1>2. WeaveRecord(a, b, c) # None
  BY <1>1, AdminAssumption, Zenon
<1> QED
  BY <1>1, <1>2 DEF WeaveRecord

LEMMA ThreadFields ==
    ASSUME NEW th \in ThreadType, NEW v
    PROVE  /\ [th EXCEPT !.queue = v] = Declared(th.link, v)
           /\ [th EXCEPT !.link = v] = Declared(v, th.queue)
<1>1. PICK a, b : th = Declared(a, b)
  BY DEF ThreadType, Declared
<1>2. th.link = a /\ th.queue = b
  BY <1>1 DEF Declared
<1> DEFINE s == Declared(a, b)
<1>3. [s EXCEPT !.queue = v] = Declared(a, v) /\ [s EXCEPT !.link = v] = Declared(v, b)
  BY DEF Declared
<1> HIDE DEF s
<1>4. th = s
  BY <1>1 DEF s
<1> QED
  BY <1>2, <1>3, <1>4, Zenon

LEMMA ThreadTypes ==
    ASSUME NEW l \in LinkType, NEW q \in Nat
    PROVE  /\ Declared(l, q) \in ThreadType /\ Declared(l, q) # None
           /\ Declared(l, q).link = l /\ Declared(l, q).queue = q
<1>1. Declared(l, q) \in ThreadType
  BY DEF Declared, ThreadType
<1>2. Declared(l, q) # None
  BY <1>1, AdminAssumption, Zenon
<1> QED
  BY <1>1, <1>2 DEF Declared

\* A report leaves the declared rate where it measured none.
LEMMA LinkMeasured ==
    ASSUME NEW l \in LinkType, NEW v \in Nat
    PROVE  [l EXCEPT !.service = IF @ = 0 THEN v ELSE @] \in LinkType
<1>1. PICK a \in Nat, b \in Int, c \in BOOLEAN : l = [service |-> a, delay |-> b, up |-> c]
  BY DEF LinkType
<1> DEFINE s == [service |-> a, delay |-> b, up |-> c]
           u == IF a = 0 THEN v ELSE a
<1>2. [s EXCEPT !.service = IF @ = 0 THEN v ELSE @] = [service |-> u, delay |-> b, up |-> c]
  OBVIOUS
<1>3. u \in Nat
  OBVIOUS
<1> HIDE DEF u
<1>4. [service |-> u, delay |-> b, up |-> c] \in LinkType
  BY <1>3 DEF LinkType
<1> HIDE DEF s
<1>5. l = s
  BY <1>1 DEF s
<1> QED
  BY <1>2, <1>4, <1>5, Zenon

-----------------------------------------------------------------------------
(* The scheduler.                                                            *)

LEMMA LeastNatural ==
    ASSUME NEW S \in SUBSET Nat, S # {}
    PROVE  \E n \in S : \A m \in S : n <= m
<1>1. PICK n \in S : \A m \in S : ~(<<m, n>> \in OpToRel(<, Nat))
  BY NatLessThanWellFounded, WFMin
<1>2. ASSUME NEW m \in S PROVE n <= m
  <2>1. ~(<<m, n>> \in OpToRel(<, Nat))
    BY <1>1
  <2>2. m \in Nat /\ n \in Nat
    OBVIOUS
  <2>3. ~(m < n)
    BY <2>1, <2>2 DEF OpToRel
  <2> QED BY <2>2, <2>3
<1> QED BY <1>2

\* A finite set has an element of least value: one below which the fewest lie.
LEMMA LeastValue ==
    ASSUME NEW S, IsFiniteSet(S), S # {}, NEW f \in [S -> Int]
    PROVE  \E x \in S : \A y \in S : f[x] <= f[y]
<1> DEFINE below(x) == {y \in S : f[y] < f[x]}
           sizes == {Cardinality(below(x)) : x \in S}
<1>1. \A x \in S : IsFiniteSet(below(x)) /\ Cardinality(below(x)) \in Nat
  BY FS_Subset, FS_CardinalityType
<1>2. PICK n \in sizes : \A m \in sizes : n <= m
  <2>1. sizes \in SUBSET Nat /\ sizes # {}
    BY <1>1
  <2> HIDE DEF sizes
  <2> QED
    BY <2>1, LeastNatural
<1>3. PICK x \in S : n = Cardinality(below(x))
  OBVIOUS
<1>4. ASSUME NEW y \in S PROVE f[x] <= f[y]
  <2>1. SUFFICES ASSUME f[y] < f[x] PROVE FALSE
    OBVIOUS
  <2>2. below(y) \subseteq below(x) /\ y \in below(x) /\ y \notin below(y)
    BY <2>1
  <2>3. Cardinality(below(y)) <= Cardinality(below(x)) /\ Cardinality(below(y)) # Cardinality(below(x))
    <3> HIDE DEF below
    <3> QED
      BY <1>1, <2>2, FS_Subset
  <2>4. Cardinality(below(y)) \in sizes
    OBVIOUS
  <2>5. PICK a, b : a = Cardinality(below(x)) /\ b = Cardinality(below(y))
    OBVIOUS
  <2>6. a \in Nat /\ b \in Nat /\ b <= a /\ b # a /\ a <= b
    BY <1>1, <1>2, <1>3, <2>3, <2>4, <2>5
  <2> QED
    BY <2>6
<1> QED
  BY <1>4

\* A thread that is picked is a candidate with a rate, and no other such completes
\* earlier.
LEMMA PickIsBest ==
    ASSUME EngineInv, NEW ts \in SUBSET Threads, \A t \in ts : thread[t] # None, Pick(ts) # None
    PROVE  /\ Pick(ts) \in ts /\ thread[Pick(ts)].link.service > 0
           /\ \A u \in ts : thread[u].link.service > 0 => Projected(Pick(ts)) <= Projected(u)
<1> DEFINE able == {t \in ts : thread[t].link.service > 0}
           earliest == {t \in able : \A u \in able : Projected(t) <= Projected(u)}
<1>1. able # {}
  BY DEF Pick
<1>2. \A t \in ts : thread[t] \in ThreadType
  BY DEF EngineInv
<1>3. earliest # {}
  <2>1. IsFiniteSet(able)
    BY AdminAssumption, FS_Subset
  <2>2. \A t \in able : Projected(t) \in Int
    <3> SUFFICES ASSUME NEW t \in able PROVE Projected(t) \in Int
      OBVIOUS
    <3>1. PICK q, s, d : q = thread[t].queue /\ s = thread[t].link.service /\ d = thread[t].link.delay
      OBVIOUS
    <3>2. q \in Nat /\ s \in Nat /\ d \in Int
      BY <1>2, <3>1 DEF ThreadType, LinkType
    <3>3. (q + 1) * s \in Int
      BY <3>2
    <3>4. (q + 1) * s + d \in Int
      BY <3>2, <3>3
    <3> QED
      BY <3>1, <3>4 DEF Projected
  <2> DEFINE f == [t \in able |-> Projected(t)]
  <2>3. f \in [able -> Int]
    BY <2>2
  <2>4. \A t \in able : f[t] = Projected(t)
    OBVIOUS
  <2> HIDE DEF able, f
  <2>5. \E x \in able : \A y \in able : f[x] <= f[y]
    BY <1>1, <2>1, <2>3, LeastValue
  <2> QED
    BY <2>4, <2>5
<1>4. earliest \in SUBSET Nat
  BY AdminAssumption
<1>5. \E t \in earliest : \A u \in earliest : t <= u
  <2> HIDE DEF earliest
  <2> QED
    BY <1>3, <1>4, LeastNatural
<1>6. Pick(ts) = CHOOSE t \in earliest : \A u \in earliest : t <= u
  BY <1>1, Zenon DEF Pick
<1>7. Pick(ts) \in earliest
  <2> HIDE DEF earliest
  <2> QED
    BY <1>5, <1>6
<1> QED
  BY <1>7

-----------------------------------------------------------------------------
(* The reassembler.                                                          *)

LEMMA LowestIsLeast ==
    ASSUME NEW S \in SUBSET Nat, S # {}
    PROVE  Lowest(S) \in S /\ \A m \in S : Lowest(S) <= m
<1>1. \E n \in S : \A m \in S : n <= m
  BY LeastNatural
<1> QED BY <1>1 DEF Lowest

LEMMA DrainStops ==
    ASSUME NEW n \in Nat, NEW S, S \subseteq n .. (n + Window - 1)
    PROVE  /\ FirstMissing(S, n) \in n .. (n + Window)
           /\ FirstMissing(S, n) \notin S
           /\ n .. (FirstMissing(S, n) - 1) \subseteq S
<1>0. Window \in Nat \ {0}
  BY AdminAssumption
<1> DEFINE T == {k \in n .. (n + Window) : k \notin S}
<1>1. T \in SUBSET Nat
  BY <1>0
<1>2. n + Window \in T
  BY <1>0
<1>3. PICK k \in T : \A m \in T : k <= m
  BY <1>1, <1>2, LeastNatural
<1>4. n .. (k - 1) \subseteq S
  <2> SUFFICES ASSUME NEW j \in n .. (k - 1), j \notin S PROVE FALSE
    OBVIOUS
  <2>1. j \in T
    BY <1>0
  <2> QED BY <2>1, <1>3, <1>0
<1>5. \E i \in n .. (n + Window) : i \notin S /\ (n .. (i - 1)) \subseteq S
  BY <1>3, <1>4
<1> QED BY <1>5 DEF FirstMissing

\* The gap check moves the position forward only, never past what is held, and
\* leaves room in the window.
LEMMA GapChecked ==
    ASSUME NEW b \in Buffers
    PROVE  /\ NextOf(b) \in Nat /\ NextOf(b) >= b.next
           /\ NextOf(b) = b.next \/ NextOf(b) \in b.held
           /\ b.held \subseteq NextOf(b) .. (NextOf(b) + Window - 1)
           /\ NextOf(b) \in b.held => NextOf(b) + Window - 1 \notin b.held
           /\ GapOf(b) \in {"zero", "running", "overdue"}
           /\ b.held \in SUBSET Nat /\ b.next \in Nat \ {0} /\ b.stale \in Nat
<1>0. Window \in Nat \ {0}
  BY AdminAssumption
<1>1. /\ b.next \in Nat \ {0} /\ b.held \in SUBSET Nat /\ b.gap \in {"zero", "running", "overdue"}
      /\ b.stale \in Nat
      /\ b.held \subseteq b.next .. (b.next + Window - 1)
      /\ b.next \in b.held => b.next + Window - 1 \notin b.held
  BY DEF Buffers, BufferType, InWindow
<1>2. PICK x, h : x = b.next /\ h = b.held
  OBVIOUS
<1>3. GapOf(b) \in {"zero", "running", "overdue"}
  BY <1>1 DEF GapOf
<1>4. CASE Skips(b) /\ Lowest(h) > x
  <2>1. h # {}
    BY <1>2, <1>4 DEF Skips
  <2>2. PICK l : l = Lowest(h)
    OBVIOUS
  <2>3. l \in h /\ (\A m \in h : l <= m) /\ l > x
    BY <1>1, <1>2, <1>4, <2>1, <2>2, LowestIsLeast
  <2>4. NextOf(b) = l
    BY <1>2, <1>4, <2>2 DEF NextOf
  <2>5. l \in Nat /\ l >= x /\ h \subseteq l .. (l + Window - 1) /\ l + Window - 1 \notin h
    BY <1>0, <1>1, <1>2, <2>3
  <2> QED
    BY <1>1, <1>2, <1>3, <2>3, <2>4, <2>5
<1>5. CASE ~(Skips(b) /\ Lowest(h) > x)
  <2>1. NextOf(b) = b.next
    BY <1>2, <1>5 DEF NextOf
  <2> QED
    BY <1>1, <1>3, <2>1
<1> QED
  BY <1>4, <1>5

\* What a Push that stores its number leaves.
LEMMA StoredIs ==
    ASSUME NEW b \in Buffers, NEW n \in Nat \ {0}, n \notin b.held,
           (n < NextOf(b) /\ b.held = {}) \/ (n >= NextOf(b) /\ ~Refuses(b, n))
    PROVE  /\ Stored(b, n) \in Buffers
           /\ \A m \in b.held \cup {n} : Has(Stored(b, n), m)
           /\ Stored(b, n).held \subseteq b.held \cup {n}
           /\ n >= NextOf(b) => Stored(b, n).next >= NextOf(b)
           /\ Stored(b, n).next \in {n, NextOf(b)} \/ Stored(b, n).next - 1 \in b.held \cup {n}
<1>0. Window \in Nat \ {0}
  BY AdminAssumption
<1>1. PICK x, h : x = NextOf(b) /\ h = b.held
  OBVIOUS
<1>2. x \in Nat \ {0} /\ h \in SUBSET Nat /\ h \subseteq x .. (x + Window - 1)
      /\ GapOf(b) \in {"zero", "running", "overdue"}
  BY <1>1, GapChecked
<1> DEFINE from == IF n < x THEN n ELSE x
           all == h \cup {n}
           to == FirstMissing(all, from)
           left == {m \in all : m >= to}
           gap == IF to > from THEN "zero" ELSE IF GapOf(b) = "zero" THEN "running" ELSE GapOf(b)
<1>3. Stored(b, n) = [next |-> to, held |-> left, stale |-> 0, gap |-> gap]
  BY <1>1 DEF Stored
<1>4. from \in Nat \ {0} /\ all \subseteq from .. (from + Window - 1) /\ all \subseteq Nat
      /\ from \in {n, x} /\ (n >= x => from = x) /\ n \in all
  BY <1>0, <1>1, <1>2 DEF Refuses
<1> HIDE DEF from, all
<1>5. to \in from .. (from + Window) /\ to \notin all /\ from .. (to - 1) \subseteq all
  BY <1>4, DrainStops
<1> HIDE DEF to
<1>6. to \in Nat \ {0} /\ to >= from /\ (to = from \/ to - 1 \in all)
  BY <1>0, <1>4, <1>5
<1>7. /\ left \in SUBSET Nat /\ left \subseteq to .. (to + Window - 1) /\ to \notin left
      /\ left \subseteq all /\ \A m \in all : m < to \/ m \in left
  <2>1. PICK t, f : t = to /\ f = from
    OBVIOUS
  <2>2. f \in Nat /\ t \in Nat /\ t >= f /\ \A m \in all : m \in Nat /\ m <= f + Window - 1
    BY <1>0, <1>4, <1>6, <2>1
  <2>3. \A m \in all : m >= t => m \in t .. (t + Window - 1)
    BY <1>0, <2>2
  <2>4. \A m \in all : m < t \/ m >= t
    BY <2>2
  <2> QED
    BY <1>4, <1>5, <2>1, <2>3, <2>4
<1>8. gap \in {"zero", "running", "overdue"}
  BY <1>2
<1> HIDE DEF left, gap
<1>9. PICK c : c = [next |-> to, held |-> left, stale |-> 0, gap |-> gap]
  OBVIOUS
<1>10. c \in BufferType /\ c.next = to /\ c.held = left
  <2>1. to \in Nat /\ left \in SUBSET Nat
    BY <1>6, <1>7
  <2> QED
    BY <1>8, <1>9, <2>1 DEF BufferType
<1>11. c \in Buffers
  <2>1. c.next >= 1 /\ c.held \subseteq c.next .. (c.next + Window - 1) /\ c.next \notin c.held
    BY <1>6, <1>7, <1>10
  <2> QED
    BY <1>10, <2>1 DEF Buffers, InWindow
<1>12. \A m \in all : Has(c, m)
  BY <1>7, <1>10 DEF Has
<1>13. c.held \subseteq all /\ (n >= x => c.next >= x) /\ (c.next \in {n, x} \/ c.next - 1 \in all)
  BY <1>4, <1>6, <1>7, <1>10
<1> QED
  BY <1>1, <1>3, <1>9, <1>11, <1>12, <1>13 DEF all

\* A Push keeps the window; unless it re-aligns, what the reassembler has it keeps,
\* and unless it refuses the number it has that too.  It gets ahead of no sender
\* that has given out the number.
LEMMA PushIs ==
    ASSUME NEW b \in Buffers, NEW n \in Nat \ {0}
    PROVE  /\ Push(b, n) \in Buffers
           /\ ~Realigns(b, n) => \A m \in Nat : Has(b, m) => Has(Push(b, n), m)
           /\ ~Realigns(b, n) /\ ~Refuses(b, n) => Has(Push(b, n), n)
           /\ \A s \in Nat : /\ ~Realigns(b, n) /\ n <= s
                             /\ b.next <= s + 1 /\ b.held \subseteq 1 .. s
                             => Push(b, n).next <= s + 1 /\ Push(b, n).held \subseteq 1 .. s
<1>0. Window \in Nat \ {0}
  BY AdminAssumption
<1>1. PICK x, h : x = NextOf(b) /\ h = b.held
  OBVIOUS
<1>2. /\ x \in Nat /\ x >= b.next /\ (x = b.next \/ x \in h)
      /\ h \subseteq x .. (x + Window - 1) /\ (x \in h => x + Window - 1 \notin h)
      /\ GapOf(b) \in {"zero", "running", "overdue"}
      /\ h \in SUBSET Nat /\ b.next \in Nat \ {0} /\ b.stale \in Nat
  BY <1>1, GapChecked
<1> x >= 1
  <2>1. PICK y : y = b.next
    OBVIOUS
  <2>2. y \in Nat \ {0} /\ x \in Nat /\ x >= y
    BY <1>2, <2>1
  <2> QED
    BY <2>2
<1>3. ASSUME (n < x /\ ~Realigns(b, n)) \/ (n >= x /\ (Refuses(b, n) \/ n \in h))
      PROVE  Push(b, n) \in Buffers /\ Push(b, n).next = x /\ Push(b, n).held = h
  <2>1. PICK s \in Nat : Push(b, n) = [next |-> x, held |-> h, gap |-> GapOf(b), stale |-> s]
    <3>1. CASE n < x /\ ~Realigns(b, n)
      BY <1>1, <1>2, <3>1 DEF Push
    <3>2. CASE n >= x /\ (Refuses(b, n) \/ n \in h)
      <4>1. ~(n < x)
        BY <1>2, <3>2
      <4> QED
        BY <1>1, <1>2, <3>2, <4>1 DEF Push
    <3> QED
      BY <1>3, <3>1, <3>2
  <2>2. PICK c : c = [next |-> x, held |-> h, gap |-> GapOf(b), stale |-> s]
    OBVIOUS
  <2>3. c \in BufferType /\ c.next = x /\ c.held = h
    BY <1>2, <2>2 DEF BufferType
  <2>4. c \in Buffers
    BY <1>2, <2>3 DEF Buffers, InWindow
  <2> QED
    BY <2>1, <2>2, <2>3, <2>4
<1>4. \A m \in Nat : Has(b, m) => m < x \/ m \in h
  BY <1>1, <1>2 DEF Has
<1>5. CASE n < x /\ ~Realigns(b, n)
  <2>1. Push(b, n) \in Buffers /\ Push(b, n).next = x /\ Push(b, n).held = h
    BY <1>3, <1>5
  <2>2. \A m \in Nat : Has(b, m) => Has(Push(b, n), m)
    BY <1>4, <2>1 DEF Has
  <2>3. Has(Push(b, n), n)
    BY <1>5, <2>1 DEF Has
  <2>4. ASSUME NEW s \in Nat, b.next <= s + 1, h \subseteq 1 .. s PROVE x <= s + 1
    BY <1>2, <2>4
  <2> QED
    BY <1>1, <2>1, <2>2, <2>3, <2>4
<1>6. CASE n >= x /\ (Refuses(b, n) \/ n \in h)
  <2>1. Push(b, n) \in Buffers /\ Push(b, n).next = x /\ Push(b, n).held = h
    BY <1>3, <1>6
  <2>2. \A m \in Nat : Has(b, m) => Has(Push(b, n), m)
    BY <1>4, <2>1 DEF Has
  <2>3. ~Refuses(b, n) => Has(Push(b, n), n)
    BY <1>6, <2>1 DEF Has
  <2>4. ASSUME NEW s \in Nat, b.next <= s + 1, h \subseteq 1 .. s PROVE x <= s + 1
    BY <1>2, <2>4
  <2> QED
    BY <1>1, <2>1, <2>2, <2>3, <2>4
<1>7. CASE (n < x /\ Realigns(b, n)) \/ (n >= x /\ ~Refuses(b, n) /\ n \notin h)
  <2>1. /\ n \notin b.held
        /\ (n < NextOf(b) /\ b.held = {}) \/ (n >= NextOf(b) /\ ~Refuses(b, n))
    BY <1>1, <1>7 DEF Realigns
  <2>2. Push(b, n) = Stored(b, n)
    <3>1. ~(n < NextOf(b) /\ ~Realigns(b, n)) /\ ~(Refuses(b, n) \/ n \in b.held)
      BY <1>0, <1>1, <1>2, <1>7, <2>1 DEF Refuses
    <3> QED
      BY <3>1, Zenon DEF Push
  <2> DEFINE c == Stored(b, n)
  <2>3. /\ c \in Buffers
        /\ \A m \in h \cup {n} : Has(c, m)
        /\ c.held \subseteq h \cup {n}
        /\ n >= x => c.next >= x
        /\ c.next \in {n, x} \/ c.next - 1 \in h \cup {n}
    BY <1>1, <2>1, StoredIs
  <2> HIDE DEF c
  <2>4. c.next \in Nat
    BY <2>3 DEF Buffers, BufferType
  <2>5. ASSUME n >= x, NEW m \in Nat, Has(b, m) PROVE Has(c, m)
    <3>1. CASE m \in h
      BY <2>3, <3>1
    <3>2. CASE m < x
      BY <1>2, <2>3, <2>4, <2>5, <3>2 DEF Has
    <3> QED
      BY <1>4, <2>5, <3>1, <3>2
  <2>6. ASSUME NEW s \in Nat, n >= x, n <= s, b.next <= s + 1, h \subseteq 1 .. s
        PROVE  c.next <= s + 1 /\ c.held \subseteq 1 .. s
    <3>1. h \cup {n} \subseteq 1 .. s /\ x <= s + 1
      BY <1>2, <2>6
    <3>2. c.next <= s + 1
      BY <2>3, <2>4, <2>6, <3>1
    <3> QED
      BY <2>3, <3>1, <3>2
  <2>7. ~Realigns(b, n) => n >= x
    BY <1>7
  <2> QED
    BY <1>1, <2>2, <2>3, <2>5, <2>6, <2>7 DEF c
<1>8. n < x \/ n >= x
  BY <1>2
<1> QED
  BY <1>5, <1>6, <1>7, <1>8

LEMMA NewBufferIs == NewBuffer \in Buffers /\ NewBuffer.next = 1 /\ NewBuffer.held = {}
  BY AdminAssumption DEF NewBuffer, Buffers, BufferType, InWindow

-----------------------------------------------------------------------------
(* What a step leaves alone.                                                 *)

SameLink(t) == Agree(thread[t], thread'[t])
SameList(w) ==
    (weave[w] = None <=> weave'[w] = None) /\ (weave[w] # None => weave'[w].threads = weave[w].threads)

\* The requests that change work on this id or on none.
OnlyOn(id) ==
    \A q \in Clients : \/ req'[q] = req[q]
                       \/ req[q].id \in {None, id} /\ req'[q].id \in {None, id}

LEMMA ThreadsMove ==
    ASSUME KeptThreads, NEW id, OnlyOn(id),
           \A t \in Threads \ {id} : SameLink(t) /\ threadTable'[t] = threadTable[t],
           contested \subseteq contested', leftOut \ {id} \subseteq leftOut',
           id \in Threads => id \in contested' \cup leftOut' \/ KeptThread(id)'
    PROVE  KeptThreads'
<1> SUFFICES ASSUME NEW t \in Threads, t \notin contested' \cup leftOut', t # id
             PROVE  KeptThread(t)'
  BY DEF KeptThreads
<1>0. KeptThread(t) /\ t # None
  BY AdminAssumption DEF KeptThreads
<1>1. \A q \in Clients : (req'[q].id = t \/ req[q].id = t) => req'[q] = req[q]
  BY <1>0 DEF OnlyOn
<1>2. AloneOn(t)'
  BY <1>0, <1>1 DEF AloneOn, KeptThread
<1>3. ASSUME \A q \in Clients : req'[q].id # t
      PROVE  Agree(thread'[t], threadTable'[t])
  <2>1. \A q \in Clients : req[q].id # t
    BY <1>1, <1>3
  <2> QED
    BY <1>0, <2>1 DEF KeptThread, SameLink, Agree
<1>4. ASSUME NEW q \in Clients, req'[q].id = t
      PROVE  /\ req'[q].at = "get" => thread'[t] # None
             /\ req'[q].at = "put" => Agree(thread'[t], req'[q].copy)
             /\ req'[q].at = "drop" => thread'[t] = None
  BY <1>0, <1>1, <1>4 DEF KeptThread, SameLink, Agree
<1> QED
  BY <1>2, <1>3, <1>4 DEF KeptThread

LEMMA WeavesMove ==
    ASSUME KeptWeaves, NEW id, OnlyOn(id),
           \A w \in Weaves \ {id} : SameList(w) /\ weaveTable'[w] = weaveTable[w],
           contested \subseteq contested', leftOut \ {id} \subseteq leftOut',
           id \in Weaves => id \in contested' \cup leftOut' \/ KeptWeave(id)'
    PROVE  KeptWeaves'
<1> SUFFICES ASSUME NEW w \in Weaves, w \notin contested' \cup leftOut', w # id
             PROVE  KeptWeave(w)'
  BY DEF KeptWeaves
<1>0. KeptWeave(w) /\ w # None
  BY AdminAssumption DEF KeptWeaves
<1>1. \A q \in Clients : (req'[q].id = w \/ req[q].id = w) => req'[q] = req[q]
  BY <1>0 DEF OnlyOn
<1>2. AloneOn(w)'
  BY <1>0, <1>1 DEF AloneOn, KeptWeave
<1>3. ASSUME \A q \in Clients : req'[q].id # w
      PROVE  AgreeOn(weave'[w], weaveTable'[w])
  <2>1. \A q \in Clients : req[q].id # w
    BY <1>1, <1>3
  <2> QED
    BY <1>0, <2>1 DEF KeptWeave, SameList, AgreeOn
<1>4. ASSUME NEW q \in Clients, req'[q].id = w
      PROVE  /\ req'[q].at = "putWeave" => AgreeOn(weave'[w], req'[q].copy)
             /\ req'[q].at = "dropWeave" => weave'[w] = None
  BY <1>0, <1>1, <1>4 DEF KeptWeave, SameList, AgreeOn
<1> QED
  BY <1>2, <1>3, <1>4 DEF KeptWeave

\* A request that brings no number to a weave other than id.
Brings(r, id) == OnBench(r) => r.copy = id \/ r.seqs = {}

\* The requests that change are benches of the weave w, and stay so or end.
OnlyBench(w) ==
    \A q \in Clients :
        \/ req'[q] = req[q]
        \/ /\ Brings(req[q], w) /\ Brings(req'[q], w)
           /\ OnBench(req'[q]) => OnBench(req[q]) /\ req'[q].made = req[q].made

LEMMA LockstepMoves ==
    ASSUME LockstepInv, NEW id, weavesMade \in Nat, weavesMade' \in Nat, weavesMade <= weavesMade',
           \A w \in Weaves : weave[w] # None => weave[w].made \in Nat,
           \A f \in lab : f.made \in Nat,
           \A q \in Clients : req[q].made \in Nat,
           \A w \in Weaves \ {id} : weave'[w] = weave[w] /\ rb'[w] = rb[w],
           \A f \in lab : f.weave # id => f \in lab',
           \A f \in lab' : f \in lab \/ (f.weave = id /\ f.made <= weavesMade'),
           \A q \in Clients : \/ req'[q] = req[q]
                              \/ /\ Brings(req[q], id) /\ Brings(req'[q], id)
                                 /\ OnBench(req'[q]) => req'[q].made <= weavesMade',
           disturbed \ {id} \subseteq disturbed',
           id \in Weaves => /\ weave'[id] # None => weave'[id].made <= weavesMade'
                            /\ id \in disturbed' \/ InLockstep(id)'
    PROVE  LockstepInv'
<1>1. MadeInv'
  <2>1. ASSUME NEW w \in Weaves, weave'[w] # None PROVE weave'[w].made <= weavesMade'
    BY <2>1 DEF LockstepInv, MadeInv
  <2>2. ASSUME NEW f \in lab' PROVE f.made <= weavesMade'
    BY DEF LockstepInv, MadeInv
  <2>3. ASSUME NEW q \in Clients, OnBench(req'[q]) PROVE req'[q].made <= weavesMade'
    <3>1. CASE req'[q] = req[q]
      <4>1. OnBench(req[q])
        BY <2>3, <3>1
      <4> QED
        BY <3>1, <4>1 DEF LockstepInv, MadeInv
    <3> QED
      BY <2>3, <3>1
  <2>4. \A q \in Clients : OnBench(req[q])' => req'[q].made <= weavesMade'
    BY <2>3 DEF OnBench
  <2> QED
    BY <2>1, <2>2, <2>4 DEF MadeInv
<1>2. ASSUME NEW w \in Weaves, w \notin disturbed', w # id PROVE InLockstep(w)'
  <2>1. weave'[w] = weave[w] /\ rb'[w] = rb[w] /\ InLockstep(w)
    BY <1>2 DEF LockstepInv
  <2>2. ASSUME NEW n PROVE Out(w, n)' <=> Out(w, n)
    <3>1. ASSUME NEW q \in Clients, NEW m
          PROVE  InHand(req'[q], w, m, n) <=> InHand(req[q], w, m, n)
      <4>1. CASE req'[q] = req[q]
        BY <4>1
      <4>2. CASE Brings(req[q], id) /\ Brings(req'[q], id)
        BY <1>2, <4>2 DEF Brings, InHand
      <4> QED
        BY <4>1, <4>2
    <3>2. \A q \in Clients : InHand(req[q], w, weave[w].made, n)' <=> InHand(req[q], w, weave[w].made, n)
      BY <2>1, <3>1 DEF InHand, OnBench
    <3>3. (\E f \in lab' : f.weave = w /\ f.made = weave'[w].made /\ f.seq = n)
            <=> (\E f \in lab : f.weave = w /\ f.made = weave[w].made /\ f.seq = n)
      BY <1>2, <2>1
    <3> QED
      BY <3>2, <3>3 DEF Out
  <2> QED
    BY <2>1, <2>2 DEF InLockstep, Has
<1> QED
  BY <1>1, <1>2 DEF LockstepInv

LEMMA MadeTypes ==
    ASSUME EngineInv, RequestInv
    PROVE  /\ weavesMade \in Nat
           /\ \A w \in Weaves : weave[w] # None => weave[w].made \in Nat
           /\ \A f \in lab : f.made \in Nat
           /\ \A q \in Clients : req[q].made \in Nat
<1>1. \A q \in Clients : req[q].made \in Nat
  BY RequestFields DEF RequestInv
<1> QED
  BY <1>1 DEF EngineInv, WeaveType, LabFrames

\* No request that changes is a bench.
BenchesStay ==
    \A q \in Clients : req'[q] = req[q] \/ (~OnBench(req[q]) /\ ~OnBench(req'[q]))

\* Nothing about the weaves changes, and no bench.
LEMMA LockstepKept ==
    ASSUME LockstepInv, EngineInv, RequestInv, BenchesStay,
           weave' = weave, rb' = rb, weavesMade' = weavesMade, lab' = lab, disturbed' = disturbed
    PROVE  LockstepInv'
<1>1. None \notin Weaves
  BY AdminAssumption
<1>2. /\ weavesMade \in Nat
      /\ \A w \in Weaves : weave[w] # None => weave[w].made \in Nat
      /\ \A f \in lab : f.made \in Nat
      /\ \A q \in Clients : req[q].made \in Nat
  BY MadeTypes
<1>3. weavesMade' \in Nat /\ weavesMade <= weavesMade'
  BY <1>2
<1>5. \A q \in Clients : \/ req'[q] = req[q]
                         \/ /\ Brings(req[q], None) /\ Brings(req'[q], None)
                            /\ OnBench(req'[q]) => req'[q].made <= weavesMade'
  BY DEF BenchesStay, Brings
<1>6. \A w \in Weaves \ {None} : weave'[w] = weave[w] /\ rb'[w] = rb[w]
  OBVIOUS
<1>7. disturbed \ {None} \subseteq disturbed' /\ \A f \in lab : f \in lab'
  OBVIOUS
<1>8. \A f \in lab' : f \in lab
  OBVIOUS
<1> QED
  BY <1>1, <1>2, <1>3, <1>5, <1>6, <1>7, <1>8, LockstepMoves

\* One request moves.
LEMMA RequestMoves ==
    ASSUME RequestInv, NEW p \in Clients, NEW r, IsRequest(r), req' = [req EXCEPT ![p] = r]
    PROVE  RequestInv' /\ req'[p] = r /\ \A q \in Clients \ {p} : req'[q] = req[q]
  BY DEF RequestInv

\* A request that is between two steps, at its id.
LEMMA RequestAt ==
    ASSUME RequestInv, NEW p \in Clients
    PROVE  /\ Fits(req[p].at, req[p].id, req[p].copy) /\ req[p].made \in Nat
           /\ Numbered(req[p].seqs)
           /\ req[p].id \in Threads <=> req[p].at \in {"get", "put", "drop"}
           /\ req[p].id \in Weaves <=> req[p].at \in {"putWeave", "dropWeave"}
           /\ req[p].at \in {"idle", "get", "put", "drop", "putWeave", "dropWeave", "bench", "feed"}
           /\ req[p].at \in {"idle", "bench", "feed"} => req[p].id = None
<1>1. IsRequest(req[p])
  BY DEF RequestInv
<1>2. Fits(req[p].at, req[p].id, req[p].copy) /\ req[p].made \in Nat /\ Numbered(req[p].seqs)
  BY <1>1, RequestFields
<1>3. None \notin Threads /\ None \notin Weaves /\ Threads \cap Weaves = {}
  BY AdminAssumption
<1> QED
  BY <1>2, <1>3 DEF Fits

\* A request begins: no other is at its id, or the id is contested.
LEMMA Begun ==
    ASSUME RequestInv, NEW p \in Clients, NEW id \in Threads \cup Weaves, Begin(p, id),
           NEW at, NEW copy, Fits(at, id, copy), Goes(p, at, id, copy)
    PROVE  /\ RequestInv' /\ OnlyOn(id)
           /\ req'[p] = ReqRecord(at, id, copy, 0, {})
           /\ \A q \in Clients \ {p} : req'[q] = req[q]
           /\ contested \subseteq contested' /\ leftOut \ {id} \subseteq leftOut'
           /\ id \in contested' \/ \A q \in Clients \ {p} : req'[q].id # id
           /\ BenchesStay
<1> DEFINE r == ReqRecord(at, id, copy, 0, {})
<1>1. req' = [req EXCEPT ![p] = r] /\ IsRequest(r)
  BY GoesTo, Zenon DEF Goes
<1> HIDE DEF r
<1>2. RequestInv' /\ req'[p] = r /\ \A q \in Clients \ {p} : req'[q] = req[q]
  BY <1>1, RequestMoves
<1>3. req[p] = Idle /\ contested' = contested \cup {x \in {id} : \E q \in Clients \ {p} : req[q].id = x}
      /\ leftOut' = leftOut \ {id}
  BY DEF Begin
<1>4. req[p].id = None /\ req[p].at = "idle" /\ r.id = id /\ r.at = at
  BY <1>3, IdleFields, ReqFields DEF r
<1>5. OnlyOn(id)
  BY <1>2, <1>4 DEF OnlyOn
<1>6. id \in contested' \/ \A q \in Clients \ {p} : req'[q].id # id
  BY <1>2, <1>3
<1>7. BenchesStay
  <2>1. None \notin Threads \cup Weaves
    BY AdminAssumption
  <2>2. at \notin {"bench", "feed"}
    BY <2>1 DEF Fits
  <2> QED
    BY <1>2, <1>4, <2>2 DEF BenchesStay, OnBench
<1> QED
  BY <1>2, <1>3, <1>5, <1>6, <1>7 DEF r

\* A request that was at an id ends: it was the only one there, or the id is contested.
LEMMA Ended ==
    ASSUME RequestInv, NEW p \in Clients, req[p].at \notin {"bench", "feed"}, Ends(p)
    PROVE  /\ RequestInv' /\ OnlyOn(req[p].id)
           /\ req'[p] = Idle /\ req'[p].id = None /\ req'[p].at = "idle"
           /\ \A q \in Clients \ {p} : req'[q] = req[q]
           /\ BenchesStay
<1>1. req' = [req EXCEPT ![p] = Idle]
  BY DEF Ends
<1>2. RequestInv' /\ req'[p] = Idle /\ \A q \in Clients \ {p} : req'[q] = req[q]
  BY <1>1, IdleFields, RequestMoves
<1>3. req'[p].id = None /\ req'[p].at = "idle"
  BY <1>2, IdleFields
<1> QED
  BY <1>2, <1>3 DEF OnlyOn, BenchesStay, OnBench

-----------------------------------------------------------------------------
(* The steps of a thread's request.                                          *)

\* The registry changes at an id; what is to be stored is still to be read.
LEMMA ThreadBegins ==
    ASSUME AdminInv, NEW p \in Clients, NEW t \in Threads, NEW at, NEW x, Begin(p, t), Goes(p, at, t, None),
           (at = "get" /\ x \in ThreadType) \/ (at = "drop" /\ x = None),
           thread' = [thread EXCEPT ![t] = x],
           UNCHANGED <<weave, rb, weavesMade, disturbed, store, lab>>
    PROVE  AdminInv'
<1>0. EngineInv /\ RequestInv /\ KeptThreads /\ KeptWeaves /\ LockstepInv
  BY DEF AdminInv
<1>1. Fits(at, t, None) /\ t \in Threads \cup Weaves
  BY DEF Fits
<1>2. /\ RequestInv' /\ OnlyOn(t)
      /\ req'[p] = ReqRecord(at, t, None, 0, {})
      /\ \A q \in Clients \ {p} : req'[q] = req[q]
      /\ contested \subseteq contested' /\ leftOut \ {t} \subseteq leftOut'
      /\ t \in contested' \/ \A q \in Clients \ {p} : req'[q].id # t
      /\ BenchesStay
  BY <1>0, <1>1, Begun
<1>3. /\ UNCHANGED <<threadTable, threadFile, weaveTable, weaveFile>>
      /\ UNCHANGED <<weave, rb, weavesMade, disturbed, lab>>
  BY DEF store
<1>4. EngineInv' /\ thread'[t] = x /\ \A u \in Threads \ {t} : thread'[u] = thread[u]
  BY <1>0, <1>3 DEF EngineInv
<1>5. t \in contested' \/ KeptThread(t)'
  <2> SUFFICES ASSUME t \notin contested' PROVE KeptThread(t)'
    OBVIOUS
  <2>1. req'[p].id = t /\ req'[p].at = at
    BY <1>2, ReqFields
  <2>2. \A q \in Clients : req'[q].id = t => q = p
    BY <1>2
  <2>3. AloneOn(t)'
    BY <2>2 DEF AloneOn
  <2>4. x \in ThreadType => x # None
    BY AdminAssumption
  <2> QED
    BY <1>4, <2>1, <2>2, <2>3, <2>4 DEF KeptThread
<1>6. KeptThreads'
  <2>1. \A u \in Threads \ {t} : SameLink(u) /\ threadTable'[u] = threadTable[u]
    BY <1>3, <1>4 DEF SameLink, Agree
  <2> QED
    BY <1>0, <1>2, <1>5, <2>1, ThreadsMove
<1>7. KeptWeaves'
  <2>1. \A w \in Weaves \ {t} : SameList(w) /\ weaveTable'[w] = weaveTable[w]
    BY <1>3 DEF SameList
  <2>2. t \notin Weaves
    BY AdminAssumption
  <2> QED
    BY <1>0, <1>2, <2>1, <2>2, WeavesMove
<1>8. LockstepInv'
  BY <1>0, <1>2, <1>3, LockstepKept
<1> QED
  BY <1>2, <1>4, <1>6, <1>7, <1>8 DEF AdminInv

LEMMA ThreadRequest ==
    ASSUME AdminInv, NEW p \in Clients, NEW t \in Threads,
           \/ \E l \in Links : AddThread(p, t, l) \/ ThreadHealth(p, t, l)
           \/ DeleteThread(p, t)
    PROVE  AdminInv'
<1>1. ASSUME NEW l \in Links, AddThread(p, t, l) PROVE AdminInv'
  <2>1. l \in LinkType /\ 0 \in Nat
    BY AdminAssumption
  <2>2. Declared(l, 0) \in ThreadType
    BY <2>1, ThreadTypes
  <2>3. /\ Begin(p, t) /\ Goes(p, "get", t, None) /\ thread' = [thread EXCEPT ![t] = Declared(l, 0)]
        /\ UNCHANGED <<weave, rb, weavesMade, disturbed, store, lab>>
    BY <1>1 DEF AddThread
  <2> QED
    BY <2>2, <2>3, ThreadBegins
<1>2. ASSUME NEW l \in Links, ThreadHealth(p, t, l) PROVE AdminInv'
  <2>1. thread[t] \in ThreadType /\ thread[t].link \in LinkType /\ thread[t].queue \in Nat
        /\ thread[t].link.service \in Nat
    BY <1>2 DEF ThreadHealth, AdminInv, EngineInv, ThreadType, LinkType
  <2>2. l \in LinkType
    BY AdminAssumption
  <2>3. PICK m : m = [l EXCEPT !.service = IF @ = 0 THEN thread[t].link.service ELSE @]
    OBVIOUS
  <2>4. m \in LinkType
    BY <2>1, <2>2, <2>3, LinkMeasured
  <2>5. thread' = [thread EXCEPT ![t].link = m]
    BY <1>2, <2>3, Zenon DEF ThreadHealth
  <2>6. [thread[t] EXCEPT !.link = m] = Declared(m, thread[t].queue)
    BY <2>1, ThreadFields
  <2>7. thread' = [thread EXCEPT ![t] = Declared(m, thread[t].queue)]
    BY <2>5, <2>6, Zenon
  <2>8. Declared(m, thread[t].queue) \in ThreadType
    BY <2>1, <2>4, ThreadTypes
  <2>9. /\ Begin(p, t) /\ Goes(p, "get", t, None)
        /\ UNCHANGED <<weave, rb, weavesMade, disturbed, store, lab>>
    BY <1>2 DEF ThreadHealth
  <2> QED
    BY <2>7, <2>8, <2>9, ThreadBegins
<1>3. CASE DeleteThread(p, t)
  <2>1. /\ Begin(p, t) /\ Goes(p, "drop", t, None) /\ thread' = [thread EXCEPT ![t] = None]
        /\ UNCHANGED <<weave, rb, weavesMade, disturbed, store, lab>>
    BY <1>3 DEF DeleteThread
  <2> QED
    BY <2>1, ThreadBegins
<1> QED
  BY <1>1, <1>2, <1>3

\* The thread is copied out of the registry.
LEMMA GetStep ==
    ASSUME AdminInv, NEW p \in Clients, GetThread(p)
    PROVE  AdminInv'
<1>0. EngineInv /\ RequestInv /\ KeptThreads /\ KeptWeaves /\ LockstepInv
  BY DEF AdminInv
<1>1. PICK t : t = req[p].id
  OBVIOUS
<1>2. req[p].at = "get" /\ t \in Threads /\ t \notin Weaves
  <2>1. req[p].at = "get"
    BY DEF GetThread
  <2> QED
    BY <1>0, <1>1, <2>1, RequestAt, AdminAssumption
<1>3. /\ UNCHANGED <<thread, weave, rb, weavesMade, disturbed, threadTable, threadFile, weaveTable, weaveFile>>
      /\ UNCHANGED <<lab, contested, leftOut>>
  BY DEF GetThread, engine, store, history
<1>4. EngineInv'
  BY <1>0, <1>3 DEF EngineInv
<1>5. \/ thread[t] = None /\ Ends(p)
      \/ thread[t] # None /\ Goes(p, "put", t, thread[t])
  BY <1>1, Zenon DEF GetThread
<1>6. /\ RequestInv' /\ OnlyOn(t)
      /\ \A q \in Clients \ {p} : req'[q] = req[q]
      /\ BenchesStay
      /\ \/ thread[t] = None
         \/ req'[p].id = t /\ req'[p].at = "put" /\ req'[p].copy = thread[t]
  <2>1. CASE thread[t] = None /\ Ends(p)
    BY <1>0, <1>1, <1>2, <2>1, Ended
  <2>2. CASE thread[t] # None /\ Goes(p, "put", t, thread[t])
    <3>1. thread[t] \in ThreadType
      BY <1>0, <1>2, <2>2 DEF EngineInv
    <3>2. Fits("put", t, thread[t])
      BY <1>2, <3>1 DEF Fits
    <3> DEFINE r == ReqRecord("put", t, thread[t], 0, {})
    <3>3. req' = [req EXCEPT ![p] = r] /\ IsRequest(r)
      BY <2>2, <3>2, GoesTo, Zenon DEF Goes
    <3>4. r.id = t /\ r.at = "put" /\ r.copy = thread[t]
      BY ReqFields
    <3> HIDE DEF r
    <3>5. RequestInv' /\ req'[p] = r /\ \A q \in Clients \ {p} : req'[q] = req[q]
      BY <1>0, <3>3, RequestMoves
    <3>6. OnlyOn(t) /\ BenchesStay
      BY <1>1, <1>2, <3>4, <3>5 DEF OnlyOn, BenchesStay, OnBench
    <3> QED
      BY <3>4, <3>5, <3>6
  <2> QED
    BY <1>5, <2>1, <2>2
<1>7. t \in contested' \cup leftOut' \/ KeptThread(t)'
  <2> SUFFICES ASSUME t \notin contested \cup leftOut PROVE KeptThread(t)'
    BY <1>3
  <2>1. KeptThread(t)
    BY <1>0, <1>2 DEF KeptThreads
  <2>2. thread[t] # None
    BY <1>1, <1>2, <2>1 DEF KeptThread
  <2>3. req'[p].id = t /\ req'[p].at = "put" /\ req'[p].copy = thread[t]
    BY <1>6, <2>2
  <2>4. \A q \in Clients : req'[q].id = t => q = p
    BY <1>1, <1>6, <2>1 DEF KeptThread, AloneOn
  <2>5. AloneOn(t)'
    BY <2>4 DEF AloneOn
  <2> QED
    BY <1>3, <2>3, <2>4, <2>5 DEF KeptThread, Agree
<1>8. KeptThreads'
  <2>1. \A u \in Threads \ {t} : SameLink(u) /\ threadTable'[u] = threadTable[u]
    BY <1>3 DEF SameLink, Agree
  <2> QED
    BY <1>0, <1>3, <1>6, <1>7, <2>1, ThreadsMove
<1>9. KeptWeaves'
  <2>1. \A w \in Weaves \ {t} : SameList(w) /\ weaveTable'[w] = weaveTable[w]
    BY <1>3 DEF SameList
  <2> QED
    BY <1>0, <1>2, <1>3, <1>6, <2>1, WeavesMove
<1>10. LockstepInv'
  BY <1>0, <1>3, <1>6, LockstepKept
<1> QED
  BY <1>4, <1>6, <1>8, <1>9, <1>10 DEF AdminInv

\* The table of threads changes at the id of the request, which ends.
LEMMA ThreadStored ==
    ASSUME AdminInv, NEW p \in Clients, NEW x, Ends(p),
           (req[p].at = "put" /\ x = req[p].copy) \/ (req[p].at = "drop" /\ x = None),
           threadTable' = [threadTable EXCEPT ![req[p].id] = x],
           threadFile' \in {threadFile, threadTable'},
           UNCHANGED <<engine, weaveTable, weaveFile, lab, history>>
    PROVE  AdminInv'
<1>0. EngineInv /\ RequestInv /\ KeptThreads /\ KeptWeaves /\ LockstepInv
  BY DEF AdminInv
<1>1. PICK t : t = req[p].id
  OBVIOUS
<1>2. t \in Threads /\ t \notin Weaves /\ x \in ThreadType \cup {None}
  <2>1. t \in Threads /\ Fits(req[p].at, req[p].id, req[p].copy)
    BY <1>0, <1>1, RequestAt
  <2> QED
    BY <2>1, AdminAssumption DEF Fits
<1>3. UNCHANGED <<thread, weave, rb, weavesMade, disturbed, weaveTable, weaveFile, lab, contested, leftOut>>
  BY DEF engine, history
<1>4. /\ EngineInv' /\ threadTable'[t] = x
      /\ \A u \in Threads \ {t} : threadTable'[u] = threadTable[u]
  BY <1>0, <1>1, <1>2, <1>3 DEF EngineInv
<1>5. /\ RequestInv' /\ OnlyOn(t) /\ req'[p].id = None
      /\ \A q \in Clients \ {p} : req'[q] = req[q]
      /\ BenchesStay
  BY <1>0, <1>1, Ended
<1>6. t \in contested' \cup leftOut' \/ KeptThread(t)'
  <2> SUFFICES ASSUME t \notin contested \cup leftOut PROVE KeptThread(t)'
    BY <1>3
  <2>1. KeptThread(t)
    BY <1>0, <1>2 DEF KeptThreads
  <2>2. Agree(thread[t], x)
    BY <1>1, <2>1 DEF KeptThread, Agree
  <2>3. \A q \in Clients : req'[q].id # t
    BY <1>1, <1>2, <1>5, <2>1, AdminAssumption DEF KeptThread, AloneOn
  <2>4. AloneOn(t)'
    BY <2>3 DEF AloneOn
  <2> QED
    BY <1>3, <1>4, <2>2, <2>3, <2>4 DEF KeptThread
<1>7. KeptThreads'
  <2>1. \A u \in Threads \ {t} : SameLink(u) /\ threadTable'[u] = threadTable[u]
    BY <1>3, <1>4 DEF SameLink, Agree
  <2> QED
    BY <1>0, <1>3, <1>5, <1>6, <2>1, ThreadsMove
<1>8. KeptWeaves'
  <2>1. \A w \in Weaves \ {t} : SameList(w) /\ weaveTable'[w] = weaveTable[w]
    BY <1>3 DEF SameList
  <2> QED
    BY <1>0, <1>2, <1>3, <1>5, <2>1, WeavesMove
<1>9. LockstepInv'
  BY <1>0, <1>3, <1>5, LockstepKept
<1> QED
  BY <1>4, <1>5, <1>7, <1>8, <1>9 DEF AdminInv

LEMMA ThreadStoreStep ==
    ASSUME AdminInv, NEW p \in Clients, PutThread(p) \/ DropThread(p)
    PROVE  AdminInv'
<1>1. CASE PutThread(p)
  <2>1. /\ req[p].at = "put" /\ threadTable' = [threadTable EXCEPT ![req[p].id] = req[p].copy]
        /\ Ends(p) /\ UNCHANGED <<engine, weaveTable, weaveFile, lab, history>>
    BY <1>1 DEF PutThread
  <2>2. threadFile' \in {threadFile, threadTable'}
    BY <1>1, Zenon DEF PutThread
  <2> QED
    BY <2>1, <2>2, ThreadStored
<1>2. CASE DropThread(p)
  <2>1. /\ req[p].at = "drop" /\ threadTable' = [threadTable EXCEPT ![req[p].id] = None]
        /\ Ends(p) /\ UNCHANGED <<engine, weaveTable, weaveFile, lab, history>>
    BY <1>2 DEF DropThread
  <2>2. threadFile' \in {threadFile, threadTable'}
    BY <1>2, Zenon DEF DropThread
  <2> QED
    BY <2>1, <2>2, ThreadStored
<1> QED
  BY <1>1, <1>2

-----------------------------------------------------------------------------
(* The steps of a weave's request.                                           *)

LEMMA WeaveBegins ==
    ASSUME AdminInv, NEW p \in Clients, NEW w \in Weaves, NEW at, NEW copy, NEW x,
           Begin(p, w), Goes(p, at, w, copy),
           \/ /\ at = "putWeave" /\ copy \in Lists
              /\ x = NewWeaveState(copy, weavesMade') /\ disturbed' = disturbed \ {w}
              /\ weavesMade' = weavesMade + 1 /\ rb' = [rb EXCEPT ![w] = NewBuffer]
           \/ /\ at = "dropWeave" /\ x = None
              /\ UNCHANGED <<rb, weavesMade, disturbed>>,
           weave' = [weave EXCEPT ![w] = x],
           UNCHANGED <<thread, store, lab>>
    PROVE  AdminInv'
<1>0. EngineInv /\ RequestInv /\ KeptThreads /\ KeptWeaves /\ LockstepInv
  BY DEF AdminInv
<1>1. Fits(at, w, copy) /\ w \in Threads \cup Weaves
  BY DEF Fits
<1>2. /\ RequestInv' /\ OnlyOn(w)
      /\ req'[p] = ReqRecord(at, w, copy, 0, {})
      /\ \A q \in Clients \ {p} : req'[q] = req[q]
      /\ contested \subseteq contested' /\ leftOut \ {w} \subseteq leftOut'
      /\ w \in contested' \/ \A q \in Clients \ {p} : req'[q].id # w
      /\ BenchesStay
  BY <1>0, <1>1, Begun
<1>3. UNCHANGED <<thread, threadTable, threadFile, weaveTable, weaveFile, lab>>
  BY DEF store
<1>4. at = "putWeave" =>
         /\ x \in WeaveType /\ x # None /\ x.threads = copy /\ x.seq = 0 /\ x.made = weavesMade'
         /\ weavesMade' = weavesMade + 1 /\ rb' = [rb EXCEPT ![w] = NewBuffer]
  <2> SUFFICES ASSUME at = "putWeave"
               PROVE  /\ x \in WeaveType /\ x # None /\ x.threads = copy /\ x.seq = 0
                      /\ x.made = weavesMade'
                      /\ weavesMade' = weavesMade + 1 /\ rb' = [rb EXCEPT ![w] = NewBuffer]
    OBVIOUS
  <2>1. /\ x = WeaveRecord(copy, weavesMade', 0) /\ copy \in Lists
        /\ weavesMade' = weavesMade + 1 /\ rb' = [rb EXCEPT ![w] = NewBuffer]
    BY DEF NewWeaveState, WeaveRecord
  <2>2. 0 \in 0 .. MaxSeq /\ weavesMade' \in Nat
    BY <1>0, <2>1, AdminAssumption DEF EngineInv
  <2> QED
    BY <2>1, <2>2, WeaveTypes
<1>5. x \in WeaveType \cup {None}
  BY <1>4
<1>6. /\ EngineInv' /\ weave'[w] = x
      /\ \A u \in Weaves \ {w} : weave'[u] = weave[u] /\ rb'[u] = rb[u]
  <2>1. weavesMade \in Nat /\ weavesMade' \in Nat
    BY <1>0 DEF EngineInv
  <2>2. rb' \in [Weaves -> Buffers] /\ \A u \in Weaves \ {w} : rb'[u] = rb[u]
    BY <1>0, NewBufferIs DEF EngineInv
  <2> QED
    BY <1>0, <1>3, <1>5, <2>1, <2>2 DEF EngineInv
<1>7. w \in contested' \/ KeptWeave(w)'
  <2> SUFFICES ASSUME w \notin contested' PROVE KeptWeave(w)'
    OBVIOUS
  <2>1. req'[p].id = w /\ req'[p].at = at /\ req'[p].copy = copy
    BY <1>2, ReqFields
  <2>2. \A q \in Clients : req'[q].id = w => q = p
    BY <1>2
  <2>3. AloneOn(w)'
    BY <2>2 DEF AloneOn
  <2>4. copy \in Lists => copy # None
    BY AdminAssumption DEF Lists
  <2> QED
    BY <1>4, <1>6, <2>1, <2>2, <2>3, <2>4 DEF KeptWeave, AgreeOn
<1>8. KeptWeaves'
  <2>1. \A u \in Weaves \ {w} : SameList(u) /\ weaveTable'[u] = weaveTable[u]
    BY <1>3, <1>6 DEF SameList
  <2> QED
    BY <1>0, <1>2, <1>7, <2>1, WeavesMove
<1>9. KeptThreads'
  <2>1. \A t \in Threads \ {w} : SameLink(t) /\ threadTable'[t] = threadTable[t]
    BY <1>3 DEF SameLink, Agree
  <2>2. w \notin Threads
    BY AdminAssumption
  <2> QED
    BY <1>0, <1>2, <2>1, <2>2, ThreadsMove
<1>10. LockstepInv'
  <2>0. weavesMade \in Nat /\ weavesMade' \in Nat /\ weavesMade <= weavesMade'
    BY <1>0, <1>4 DEF EngineInv
  <2>1. /\ \A u \in Weaves : weave[u] # None => weave[u].made \in Nat
        /\ \A f \in lab : f.made \in Nat
        /\ \A q \in Clients : req[q].made \in Nat
    BY <1>0, MadeTypes
  <2>2. /\ disturbed \ {w} \subseteq disturbed'
        /\ \A f \in lab : f \in lab'
        /\ \A f \in lab' : f \in lab
    BY <1>3
  <2>3. \A q \in Clients : \/ req'[q] = req[q]
                           \/ /\ Brings(req[q], w) /\ Brings(req'[q], w)
                              /\ OnBench(req'[q]) => req'[q].made <= weavesMade'
    BY <1>2 DEF BenchesStay, Brings
  <2>4. weave'[w] # None => weave'[w].made <= weavesMade' /\ InLockstep(w)'
    <3> SUFFICES ASSUME weave'[w] # None PROVE weave'[w].made <= weavesMade' /\ InLockstep(w)'
      OBVIOUS
    <3>1. at = "putWeave"
      BY <1>6
    <3>2. /\ weave'[w].seq = 0 /\ weave'[w].made = weavesMade + 1 /\ weavesMade' = weavesMade + 1
          /\ rb'[w] = NewBuffer
      BY <1>0, <1>4, <1>6, <3>1 DEF EngineInv
    <3>3. ASSUME NEW n \in Nat, Out(w, n)' PROVE FALSE
      <4>1. CASE \E f \in lab' : f.weave = w /\ f.made = weave'[w].made /\ f.seq = n
        BY <1>0, <1>3, <2>0, <2>1, <3>2, <4>1 DEF LockstepInv, MadeInv
      <4>2. ASSUME NEW q \in Clients, InHand(req'[q], w, weave'[w].made, n) PROVE FALSE
        <5>1. OnBench(req'[q]) /\ req'[q].made = weavesMade + 1
          BY <3>2, <4>2 DEF InHand
        <5>2. req'[q] = req[q]
          BY <1>2, <5>1 DEF BenchesStay
        <5>3. req[q].made <= weavesMade
          BY <1>0, <5>1, <5>2 DEF LockstepInv, MadeInv
        <5> QED
          BY <2>0, <2>1, <5>1, <5>2, <5>3
      <4>3. \A q \in Clients : InHand(req[q], w, weave[w].made, n)' => FALSE
        BY <4>2 DEF InHand, OnBench
      <4> QED
        BY <3>3, <4>1, <4>3 DEF Out
    <3>4. \A n \in 1 .. weave'[w].seq : FALSE
      BY <3>2
    <3>5. rb'[w].next <= weave'[w].seq + 1 /\ rb'[w].held \subseteq 1 .. weave'[w].seq
      BY <3>2, NewBufferIs
    <3>6. InLockstep(w)'
      BY <3>3, <3>4, <3>5 DEF InLockstep
    <3>7. weave'[w].made <= weavesMade'
      BY <2>0, <3>2
    <3> QED
      BY <3>6, <3>7
  <2>5. weave'[w] = None => InLockstep(w)'
    BY DEF InLockstep
  <2> QED
    BY <1>0, <1>6, <2>0, <2>1, <2>2, <2>3, <2>4, <2>5, LockstepMoves
<1> QED
  BY <1>2, <1>6, <1>8, <1>9, <1>10 DEF AdminInv

LEMMA WeaveRequest ==
    ASSUME AdminInv, NEW p \in Clients, NEW w \in Weaves,
           (\E ts \in SUBSET Threads : CreateWeave(p, w, ts)) \/ DeleteWeave(p, w)
    PROVE  AdminInv'
<1>1. ASSUME NEW ts \in SUBSET Threads, CreateWeave(p, w, ts) PROVE AdminInv'
  <2>1. /\ Begin(p, w) /\ Goes(p, "putWeave", w, ts) /\ ts # {} /\ weavesMade' = weavesMade + 1
        /\ weave' = [weave EXCEPT ![w] = NewWeaveState(ts, weavesMade')]
        /\ rb' = [rb EXCEPT ![w] = NewBuffer]
        /\ disturbed' = disturbed \ {w} /\ UNCHANGED <<thread, store, lab>>
    BY <1>1 DEF CreateWeave
  <2>2. ts \in Lists
    BY <2>1 DEF Lists
  <2> QED
    BY <2>1, <2>2, WeaveBegins
<1>2. CASE DeleteWeave(p, w)
  <2>1. /\ Begin(p, w) /\ Goes(p, "dropWeave", w, None) /\ weave' = [weave EXCEPT ![w] = None]
        /\ UNCHANGED <<thread, rb, weavesMade, disturbed, store, lab>>
    BY <1>2 DEF DeleteWeave
  <2>2. UNCHANGED <<rb, weavesMade, disturbed>> /\ UNCHANGED <<thread, store, lab>>
    BY <2>1
  <2> QED
    BY <2>1, <2>2, WeaveBegins
<1> QED
  BY <1>1, <1>2

LEMMA WeaveStored ==
    ASSUME AdminInv, NEW p \in Clients, NEW x, Ends(p),
           (req[p].at = "putWeave" /\ x = req[p].copy) \/ (req[p].at = "dropWeave" /\ x = None),
           weaveTable' = [weaveTable EXCEPT ![req[p].id] = x],
           weaveFile' \in {weaveFile, weaveTable'},
           UNCHANGED <<engine, threadTable, threadFile, lab, history>>
    PROVE  AdminInv'
<1>0. EngineInv /\ RequestInv /\ KeptThreads /\ KeptWeaves /\ LockstepInv
  BY DEF AdminInv
<1>1. PICK w : w = req[p].id
  OBVIOUS
<1>2. w \in Weaves /\ w \notin Threads /\ x \in Lists \cup {None}
  <2>1. w \in Weaves /\ Fits(req[p].at, req[p].id, req[p].copy)
    BY <1>0, <1>1, RequestAt
  <2> QED
    BY <2>1, AdminAssumption DEF Fits
<1>3. UNCHANGED <<thread, weave, rb, weavesMade, disturbed, threadTable, threadFile, lab, contested, leftOut>>
  BY DEF engine, history
<1>4. /\ EngineInv' /\ weaveTable'[w] = x
      /\ \A u \in Weaves \ {w} : weaveTable'[u] = weaveTable[u]
  BY <1>0, <1>1, <1>2, <1>3 DEF EngineInv
<1>5. /\ RequestInv' /\ OnlyOn(w) /\ req'[p].id = None
      /\ \A q \in Clients \ {p} : req'[q] = req[q]
      /\ BenchesStay
  BY <1>0, <1>1, Ended
<1>6. w \in contested' \cup leftOut' \/ KeptWeave(w)'
  <2> SUFFICES ASSUME w \notin contested \cup leftOut PROVE KeptWeave(w)'
    BY <1>3
  <2>1. KeptWeave(w)
    BY <1>0, <1>2 DEF KeptWeaves
  <2>2. AgreeOn(weave[w], x)
    BY <1>1, <2>1 DEF KeptWeave, AgreeOn
  <2>3. \A q \in Clients : req'[q].id # w
    BY <1>1, <1>2, <1>5, <2>1, AdminAssumption DEF KeptWeave, AloneOn
  <2>4. AloneOn(w)'
    BY <2>3 DEF AloneOn
  <2> QED
    BY <1>3, <1>4, <2>2, <2>3, <2>4 DEF KeptWeave
<1>7. KeptWeaves'
  <2>1. \A u \in Weaves \ {w} : SameList(u) /\ weaveTable'[u] = weaveTable[u]
    BY <1>3, <1>4 DEF SameList
  <2> QED
    BY <1>0, <1>3, <1>5, <1>6, <2>1, WeavesMove
<1>8. KeptThreads'
  <2>1. \A t \in Threads \ {w} : SameLink(t) /\ threadTable'[t] = threadTable[t]
    BY <1>3 DEF SameLink, Agree
  <2> QED
    BY <1>0, <1>2, <1>3, <1>5, <2>1, ThreadsMove
<1>9. LockstepInv'
  BY <1>0, <1>3, <1>5, LockstepKept
<1> QED
  BY <1>4, <1>5, <1>7, <1>8, <1>9 DEF AdminInv

LEMMA WeaveStoreStep ==
    ASSUME AdminInv, NEW p \in Clients, PutWeave(p) \/ DropWeave(p)
    PROVE  AdminInv'
<1>1. CASE PutWeave(p)
  <2>1. /\ req[p].at = "putWeave" /\ weaveTable' = [weaveTable EXCEPT ![req[p].id] = req[p].copy]
        /\ Ends(p) /\ UNCHANGED <<engine, threadTable, threadFile, lab, history>>
    BY <1>1 DEF PutWeave
  <2>2. weaveFile' \in {weaveFile, weaveTable'}
    BY <1>1, Zenon DEF PutWeave
  <2> QED
    BY <2>1, <2>2, WeaveStored
<1>2. CASE DropWeave(p)
  <2>1. /\ req[p].at = "dropWeave" /\ weaveTable' = [weaveTable EXCEPT ![req[p].id] = None]
        /\ Ends(p) /\ UNCHANGED <<engine, threadTable, threadFile, lab, history>>
    BY <1>2 DEF DropWeave
  <2>2. weaveFile' \in {weaveFile, weaveTable'}
    BY <1>2, Zenon DEF DropWeave
  <2> QED
    BY <2>1, <2>2, WeaveStored
<1> QED
  BY <1>1, <1>2

-----------------------------------------------------------------------------
(* The data path.                                                            *)

\* A Strip that succeeds: the weave's number and the chosen thread's backlog grow.
LEMMA StripEffect ==
    ASSUME EngineInv, NEW w \in Weaves, Strips(w)
    PROVE  /\ weave[w] \in WeaveType /\ weave[w] # None
           /\ weave' \in [Weaves -> WeaveType \cup {None}]
           /\ weave'[w].seq = weave[w].seq + 1 /\ weave'[w].made = weave[w].made /\ weave'[w] # None
           /\ \A u \in Weaves \ {w} : weave'[u] = weave[u]
           /\ \A u \in Weaves : SameList(u)
           /\ thread' \in [Threads -> ThreadType \cup {None}] /\ \A t \in Threads : SameLink(t)
<1>1. /\ weave[w] # None /\ Pick(Candidates(weave[w].threads)) # None /\ weave[w].seq < MaxSeq
      /\ weave' = [weave EXCEPT ![w].seq = @ + 1]
      /\ thread' = [thread EXCEPT ![Pick(Candidates(weave[w].threads))].queue = @ + 1]
  BY DEF Strips
<1>2. weave[w] \in WeaveType
  BY <1>1 DEF EngineInv
<1>3. weave[w].threads \in Lists /\ weave[w].made \in Nat /\ weave[w].seq \in 0 .. MaxSeq
  BY <1>2 DEF WeaveType, Lists
<1> DEFINE new == WeaveRecord(weave[w].threads, weave[w].made, weave[w].seq + 1)
<1>4. weave' = [weave EXCEPT ![w] = new]
  <2>1. [weave[w] EXCEPT !.seq = weave[w].seq + 1] = new
    BY <1>2, WeaveFields
  <2> QED
    BY <1>1, <2>1, Zenon
<1>5. weave[w].seq + 1 \in 0 .. MaxSeq
  BY <1>1, <1>3, AdminAssumption
<1>6. /\ new \in WeaveType /\ new # None /\ new.threads = weave[w].threads /\ new.made = weave[w].made
      /\ new.seq = weave[w].seq + 1
  BY <1>3, <1>5, WeaveTypes
<1> HIDE DEF new
<1>7. /\ weave' \in [Weaves -> WeaveType \cup {None}] /\ weave'[w] = new
      /\ \A u \in Weaves \ {w} : weave'[u] = weave[u]
  BY <1>4, <1>6 DEF EngineInv
<1>8. \A u \in Weaves : SameList(u)
  BY <1>1, <1>6, <1>7 DEF SameList
<1>9. PICK t : t = Pick(Candidates(weave[w].threads))
  OBVIOUS
<1>10. t \in Threads /\ thread[t] # None
  <2>1. Candidates(weave[w].threads) \in SUBSET Threads
        /\ \A u \in Candidates(weave[w].threads) : thread[u] # None
    BY <1>3 DEF Candidates, Lists
  <2>2. t \in Candidates(weave[w].threads)
    BY <1>1, <1>9, <2>1, PickIsBest
  <2> QED
    BY <2>1, <2>2
<1>11. thread[t] \in ThreadType
  BY <1>10 DEF EngineInv
<1>12. thread[t].link \in LinkType /\ thread[t].queue + 1 \in Nat
  BY <1>11 DEF ThreadType
<1> DEFINE grown == Declared(thread[t].link, thread[t].queue + 1)
<1>13. thread' = [thread EXCEPT ![t] = grown]
  <2>1. [thread[t] EXCEPT !.queue = thread[t].queue + 1] = grown
    BY <1>11, ThreadFields
  <2>2. thread' = [thread EXCEPT ![t].queue = @ + 1]
    BY <1>1, <1>9
  <2> QED
    BY <2>1, <2>2, Zenon
<1>14. grown \in ThreadType /\ grown # None /\ grown.link = thread[t].link
  BY <1>12, ThreadTypes
<1> HIDE DEF grown
<1>15. thread' \in [Threads -> ThreadType \cup {None}] /\ \A u \in Threads : SameLink(u)
  BY <1>10, <1>13, <1>14 DEF EngineInv, SameLink, Agree
<1> QED
  BY <1>1, <1>2, <1>6, <1>7, <1>8, <1>15

\* A Strip that fails, having taken a number or not.
LEMMA StripFailEffect ==
    ASSUME EngineInv, NEW w \in Weaves, StripFails(w)
    PROVE  /\ thread' = thread /\ weave' \in [Weaves -> WeaveType \cup {None}]
           /\ \A u \in Weaves \ {w} : weave'[u] = weave[u]
           /\ \A u \in Weaves : SameList(u)
           /\ weave'[w] # None => weave[w] # None /\ weave'[w].made = weave[w].made
<1>1. thread' = thread
  BY DEF StripFails
<1>2. CASE weave' = weave
  BY <1>1, <1>2 DEF EngineInv, SameList
<1>3. CASE weave[w] # None /\ weave[w].seq < MaxSeq /\ weave' = [weave EXCEPT ![w].seq = @ + 1]
  <2>1. weave[w] \in WeaveType
    BY <1>3 DEF EngineInv
  <2>2. weave[w].threads \in Lists /\ weave[w].made \in Nat /\ weave[w].seq \in 0 .. MaxSeq
    BY <2>1 DEF WeaveType, Lists
  <2> DEFINE new == WeaveRecord(weave[w].threads, weave[w].made, weave[w].seq + 1)
  <2>3. weave' = [weave EXCEPT ![w] = new]
    <3>1. [weave[w] EXCEPT !.seq = weave[w].seq + 1] = new
      BY <2>1, WeaveFields
    <3> QED
      BY <1>3, <3>1, Zenon
  <2>4. weave[w].seq + 1 \in 0 .. MaxSeq
    BY <1>3, <2>2, AdminAssumption
  <2>5. new \in WeaveType /\ new # None /\ new.threads = weave[w].threads /\ new.made = weave[w].made
    BY <2>2, <2>4, WeaveTypes
  <2> HIDE DEF new
  <2> QED
    BY <1>1, <1>3, <2>3, <2>5 DEF EngineInv, SameList
<1> QED
  BY <1>2, <1>3 DEF StripFails

\* A step of the data path concerns no id that a request stores.
LEMMA DataKept ==
    ASSUME KeptThreads, KeptWeaves, OnlyOn(None),
           \A t \in Threads : SameLink(t), \A w \in Weaves : SameList(w),
           UNCHANGED <<threadTable, weaveTable, contested, leftOut>>
    PROVE  KeptThreads' /\ KeptWeaves'
<1>1. None \notin Threads /\ None \notin Weaves
  BY AdminAssumption
<1>2. contested \subseteq contested' /\ leftOut \ {None} \subseteq leftOut'
  OBVIOUS
<1>3. \A t \in Threads \ {None} : SameLink(t) /\ threadTable'[t] = threadTable[t]
  OBVIOUS
<1>4. \A w \in Weaves \ {None} : SameList(w) /\ weaveTable'[w] = weaveTable[w]
  OBVIOUS
<1>5. KeptThreads'
  BY <1>1, <1>2, <1>3, ThreadsMove
<1>6. KeptWeaves'
  BY <1>1, <1>2, <1>4, WeavesMove
<1> QED
  BY <1>5, <1>6

\* A step of the data path concerns one weave, and its frames and benches.
LEMMA LockstepAt ==
    ASSUME LockstepInv, EngineInv, RequestInv, NEW w \in Weaves, weavesMade' = weavesMade,
           \A u \in Weaves \ {w} : weave'[u] = weave[u] /\ rb'[u] = rb[u],
           weave'[w] # None => weave[w] # None /\ weave'[w].made = weave[w].made,
           \A f \in lab : f.weave # w => f \in lab',
           \A f \in lab' : \/ f \in lab
                           \/ weave[w] # None /\ f.weave = w /\ f.made = weave[w].made,
           OnlyBench(w),
           disturbed \ {w} \subseteq disturbed',
           w \in disturbed' \/ InLockstep(w)'
    PROVE  LockstepInv'
<1>1. /\ weavesMade \in Nat
      /\ \A u \in Weaves : weave[u] # None => weave[u].made \in Nat
      /\ \A f \in lab : f.made \in Nat
      /\ \A q \in Clients : req[q].made \in Nat
  BY MadeTypes
<1>2. weavesMade' \in Nat /\ weavesMade <= weavesMade'
  BY <1>1
<1>3. \A f \in lab' : f \in lab \/ (f.weave = w /\ f.made <= weavesMade')
  BY DEF LockstepInv, MadeInv
<1>4. \A q \in Clients : OnBench(req[q]) => req[q].made <= weavesMade'
  BY DEF LockstepInv, MadeInv
<1>5. \A q \in Clients : \/ req'[q] = req[q]
                         \/ /\ Brings(req[q], w) /\ Brings(req'[q], w)
                            /\ OnBench(req'[q]) => req'[q].made <= weavesMade'
  BY <1>4 DEF OnlyBench
<1>6. weave'[w] # None => weave'[w].made <= weavesMade'
  BY DEF LockstepInv, MadeInv
<1> QED
  BY <1>1, <1>2, <1>3, <1>5, <1>6, LockstepMoves

LEMMA OutNext ==
    ASSUME NEW w, NEW n
    PROVE  Out(w, n)' <=> \/ \E f \in lab' : f.weave = w /\ f.made = weave'[w].made /\ f.seq = n
                          \/ \E q \in Clients : InHand(req'[q], w, weave'[w].made, n)
  BY DEF Out, InHand, OnBench

\* A number is taken: it is under way now, and nothing else changes.
LEMMA NumberTaken ==
    ASSUME EngineInv, NEW w \in Weaves, weave[w] # None, InLockstep(w),
           weave'[w].seq = weave[w].seq + 1, rb'[w] = rb[w],
           \A n \in Nat : Out(w, n)' <=> Out(w, n) \/ n = weave[w].seq + 1
    PROVE  InLockstep(w)'
<1>1. weave[w].seq \in Nat /\ rb[w].next \in Nat
  <2>1. weave[w] \in WeaveType /\ rb[w] \in Buffers
    BY DEF EngineInv
  <2> QED
    BY <2>1, AdminAssumption DEF WeaveType, Buffers, BufferType
<1>2. PICK s, x, h : s = weave[w].seq /\ x = rb[w].next /\ h = rb[w].held
  OBVIOUS
<1>3. /\ s \in Nat /\ x \in Nat /\ x <= s + 1 /\ h \subseteq 1 .. s
      /\ \A n \in 1 .. s : Has(rb[w], n) \/ Out(w, n)
      /\ \A n \in Nat : Out(w, n) => n \in 1 .. s
  BY <1>1, <1>2 DEF InLockstep
<1>4. x <= (s + 1) + 1 /\ h \subseteq 1 .. (s + 1)
  BY <1>3
<1>5. ASSUME NEW n \in 1 .. (s + 1) PROVE Has(rb[w], n) \/ Out(w, n)'
  BY <1>2, <1>3
<1>6. ASSUME NEW n \in Nat, Out(w, n)' PROVE n \in 1 .. (s + 1)
  BY <1>2, <1>3, <1>6
<1> QED
  BY <1>2, <1>4, <1>5, <1>6 DEF InLockstep, Has

\* A number that was under way reaches the reassembler, which takes it.
LEMMA NumberArrives ==
    ASSUME EngineInv, NEW w \in Weaves, weave[w] # None, weave'[w] = weave[w], InLockstep(w),
           NEW k \in Nat \ {0}, Out(w, k), ~Disturbs(w, k), rb'[w] = Push(rb[w], k),
           \A n \in Nat : Out(w, n)' => Out(w, n),
           \A n \in Nat : Out(w, n) /\ n # k => Out(w, n)'
    PROVE  InLockstep(w)'
<1>1. weave[w].seq \in Nat /\ rb[w] \in Buffers /\ rb[w].next \in Nat
  <2>1. weave[w] \in WeaveType /\ rb[w] \in Buffers
    BY DEF EngineInv
  <2> QED
    BY <2>1, AdminAssumption DEF WeaveType, Buffers, BufferType
<1>2. PICK s, b : s = weave[w].seq /\ b = rb[w]
  OBVIOUS
<1>3. /\ s \in Nat /\ b \in Buffers /\ b.next <= s + 1 /\ b.held \subseteq 1 .. s
      /\ \A n \in 1 .. s : Has(b, n) \/ Out(w, n)
      /\ \A n \in Nat : Out(w, n) => n \in 1 .. s
      /\ ~Realigns(b, k) /\ ~Refuses(b, k)
  BY <1>1, <1>2 DEF InLockstep, Disturbs
<1>4. k <= s
  BY <1>3
<1>5. /\ \A m \in Nat : Has(b, m) => Has(Push(b, k), m)
      /\ Has(Push(b, k), k)
      /\ Push(b, k).next <= s + 1 /\ Push(b, k).held \subseteq 1 .. s
  BY <1>3, <1>4, PushIs
<1>6. ASSUME NEW n \in 1 .. s PROVE Has(Push(b, k), n) \/ Out(w, n)'
  <2>1. n \in Nat
    BY <1>3
  <2> QED
    BY <1>3, <1>5, <2>1
<1>7. \A n \in Nat : Out(w, n)' => n \in 1 .. s
  BY <1>3
<1>8. weave'[w].seq = s /\ rb'[w] = Push(b, k)
  BY <1>2
<1> QED
  BY <1>5, <1>6, <1>7, <1>8 DEF InLockstep, Has

\* Nothing about a weave's numbering changes, but for what is under way elsewhere.
LEMMA NumbersStay ==
    ASSUME NEW w, weave'[w] = weave[w], InLockstep(w),
           rb'[w].next = rb[w].next, rb'[w].held = rb[w].held,
           \A n \in Nat : Out(w, n)' <=> Out(w, n), weave[w] # None => weave[w].seq \in Nat
    PROVE  InLockstep(w)'
<1> SUFFICES ASSUME weave[w] # None PROVE InLockstep(w)'
  BY DEF InLockstep
<1>1. \A n \in 1 .. weave[w].seq : n \in Nat
  OBVIOUS
<1> QED
  BY <1>1 DEF InLockstep, Has

LEMMA LabStripStep ==
    ASSUME AdminInv, NEW w \in Weaves, LabStrip(w) \/ LabStripFails(w)
    PROVE  AdminInv'
<1>0. EngineInv /\ RequestInv /\ KeptThreads /\ KeptWeaves /\ LockstepInv
  BY DEF AdminInv
<1>1. /\ UNCHANGED <<rb, weavesMade, threadTable, threadFile, weaveTable, weaveFile>>
      /\ UNCHANGED <<req, contested, leftOut>>
  BY DEF LabStrip, LabStripFails, store, history
<1>2. RequestInv' /\ OnlyOn(None)
  BY <1>0, <1>1 DEF RequestInv, OnlyOn
<1>3. CASE LabStrip(w)
  <2>1. Strips(w) /\ disturbed' = disturbed
        /\ lab' = lab \cup {[weave |-> w, made |-> weave[w].made, seq |-> weave'[w].seq]}
    BY <1>3 DEF LabStrip
  <2>2. /\ weave[w] \in WeaveType /\ weave[w] # None
        /\ weave' \in [Weaves -> WeaveType \cup {None}]
        /\ weave'[w].seq = weave[w].seq + 1 /\ weave'[w].made = weave[w].made /\ weave'[w] # None
        /\ \A u \in Weaves \ {w} : weave'[u] = weave[u]
        /\ \A u \in Weaves : SameList(u)
        /\ thread' \in [Threads -> ThreadType \cup {None}] /\ \A t \in Threads : SameLink(t)
    BY <1>0, <2>1, StripEffect
  <2>3. KeptThreads' /\ KeptWeaves'
    BY <1>0, <1>1, <1>2, <2>2, DataKept
  <2>4. weave[w].made \in Nat /\ weave[w].seq \in Nat
    BY <2>2, AdminAssumption DEF WeaveType
  <2>5. PICK f : f = [weave |-> w, made |-> weave[w].made, seq |-> weave'[w].seq]
    OBVIOUS
  <2>6. f \in LabFrames /\ f.weave = w /\ f.made = weave[w].made /\ f.seq = weave[w].seq + 1
        /\ lab' = lab \cup {f}
    BY <2>1, <2>2, <2>4, <2>5 DEF LabFrames
  <2>7. EngineInv'
    BY <1>0, <1>1, <2>2, <2>6 DEF EngineInv
  <2>8. w \in disturbed' \/ InLockstep(w)'
    <3> SUFFICES ASSUME w \notin disturbed PROVE InLockstep(w)'
      BY <2>1
    <3>1. InLockstep(w)
      BY <1>0 DEF LockstepInv
    <3>2. ASSUME NEW n \in Nat PROVE Out(w, n)' <=> Out(w, n) \/ n = weave[w].seq + 1
      BY <1>1, <2>2, <2>6, OutNext DEF Out
    <3> QED
      BY <1>0, <1>1, <2>2, <3>1, <3>2, NumberTaken
  <2>9. LockstepInv'
    <3>1. /\ \A g \in lab : g.weave # w => g \in lab'
          /\ \A g \in lab' : g \in lab \/ (weave[w] # None /\ g.weave = w /\ g.made = weave[w].made)
      BY <2>2, <2>6
    <3>2. disturbed \ {w} \subseteq disturbed'
      BY <2>1
    <3>3. OnlyBench(w)
      BY <1>1 DEF OnlyBench
    <3> QED
      BY <1>0, <1>1, <2>2, <2>8, <3>1, <3>2, <3>3, LockstepAt
  <2> QED
    BY <1>2, <2>3, <2>7, <2>9 DEF AdminInv
<1>4. CASE LabStripFails(w)
  <2>1. StripFails(w) /\ disturbed' = disturbed \cup {w} /\ lab' = lab
    BY <1>4 DEF LabStripFails
  <2>2. /\ thread' = thread /\ weave' \in [Weaves -> WeaveType \cup {None}]
        /\ \A u \in Weaves \ {w} : weave'[u] = weave[u]
        /\ \A u \in Weaves : SameList(u)
        /\ weave'[w] # None => weave[w] # None /\ weave'[w].made = weave[w].made
    BY <1>0, <2>1, StripFailEffect
  <2>3. EngineInv'
    BY <1>0, <1>1, <2>1, <2>2 DEF EngineInv
  <2>4. \A t \in Threads : SameLink(t)
    BY <2>2 DEF SameLink, Agree
  <2>5. KeptThreads' /\ KeptWeaves'
    BY <1>0, <1>1, <1>2, <2>2, <2>4, DataKept
  <2>6. LockstepInv'
    <3>1. (\A g \in lab : g \in lab') /\ \A g \in lab' : g \in lab
      BY <2>1
    <3>2. disturbed \ {w} \subseteq disturbed' /\ w \in disturbed'
      BY <2>1
    <3>3. OnlyBench(w)
      BY <1>1 DEF OnlyBench
    <3> QED
      BY <1>0, <1>1, <2>2, <3>1, <3>2, <3>3, LockstepAt
  <2> QED
    BY <1>2, <2>3, <2>5, <2>6 DEF AdminInv
<1> QED
  BY <1>3, <1>4

\* The gap timer says nothing of what a reassembler has.
LEMMA BufferWaits ==
    ASSUME NEW b \in Buffers
    PROVE  /\ [b EXCEPT !.gap = "overdue"] \in Buffers
           /\ [b EXCEPT !.gap = "overdue"].next = b.next
           /\ [b EXCEPT !.gap = "overdue"].held = b.held
<1>1. PICK x, h, g, k : /\ b = [next |-> x, held |-> h, gap |-> g, stale |-> k]
                        /\ x \in Nat /\ h \in SUBSET Nat /\ k \in Nat
  BY DEF Buffers, BufferType
<1>2. b.next = x /\ b.held = h
  BY <1>1
<1> DEFINE s == [next |-> x, held |-> h, gap |-> g, stale |-> k]
           t == [next |-> x, held |-> h, gap |-> "overdue", stale |-> k]
<1>3. [s EXCEPT !.gap = "overdue"] = t
  OBVIOUS
<1>4. t \in BufferType /\ t.next = x /\ t.held = h
  BY <1>1 DEF BufferType
<1> HIDE DEF s, t
<1>5. [b EXCEPT !.gap = "overdue"] = t
  BY <1>1, <1>3, Zenon DEF s
<1>6. t \in Buffers
  BY <1>2, <1>4 DEF Buffers, InWindow
<1> QED
  BY <1>2, <1>4, <1>5, <1>6, Zenon

LEMMA GapElapsesStep ==
    ASSUME AdminInv, NEW w \in Weaves, GapElapses(w)
    PROVE  AdminInv'
<1>0. EngineInv /\ RequestInv /\ KeptThreads /\ KeptWeaves /\ LockstepInv
  BY DEF AdminInv
<1>1. /\ UNCHANGED <<thread, weave, weavesMade, disturbed, threadTable, threadFile, weaveTable, weaveFile>>
      /\ UNCHANGED <<lab, req, contested, leftOut>>
      /\ rb' = [rb EXCEPT ![w].gap = "overdue"]
  BY DEF GapElapses, store, history
<1> DEFINE c == [rb[w] EXCEPT !.gap = "overdue"]
<1>2. rb[w] \in Buffers
  BY <1>0 DEF EngineInv
<1>3. c \in Buffers /\ c.next = rb[w].next /\ c.held = rb[w].held
  BY <1>2, BufferWaits
<1>4. rb' = [rb EXCEPT ![w] = c]
  BY <1>1, Zenon
<1> HIDE DEF c
<1>5. rb' \in [Weaves -> Buffers] /\ rb'[w] = c /\ \A u \in Weaves \ {w} : rb'[u] = rb[u]
  BY <1>0, <1>3, <1>4 DEF EngineInv
<1>6. EngineInv' /\ RequestInv' /\ OnlyOn(None)
  BY <1>0, <1>1, <1>5 DEF EngineInv, RequestInv, OnlyOn
<1>7. KeptThreads' /\ KeptWeaves'
  <2>1. (\A t \in Threads : SameLink(t)) /\ \A u \in Weaves : SameList(u)
    BY <1>1 DEF SameLink, SameList, Agree
  <2> QED
    BY <1>0, <1>1, <1>6, <2>1, DataKept
<1>8. w \in disturbed' \/ InLockstep(w)'
  <2> SUFFICES ASSUME w \notin disturbed PROVE InLockstep(w)'
    BY <1>1
  <2>1. InLockstep(w)
    BY <1>0 DEF LockstepInv
  <2>2. \A n \in Nat : Out(w, n)' <=> Out(w, n)
    BY <1>1, OutNext DEF Out
  <2>3. weave[w] # None => weave[w].seq \in Nat
    BY <1>0 DEF EngineInv, WeaveType
  <2> QED
    BY <1>1, <1>3, <1>5, <2>1, <2>2, <2>3, NumbersStay
<1>9. LockstepInv'
  <2>1. /\ (\A g \in lab : g \in lab') /\ (\A g \in lab' : g \in lab)
        /\ disturbed \ {w} \subseteq disturbed'
    BY <1>1
  <2>2. OnlyBench(w)
    BY <1>1 DEF OnlyBench
  <2> QED
    BY <1>0, <1>1, <1>5, <1>8, <2>1, <2>2, LockstepAt
<1> QED
  BY <1>6, <1>7, <1>9 DEF AdminInv

LEMMA LabIngestStep ==
    ASSUME AdminInv, NEW f \in lab, LabIngest(f)
    PROVE  AdminInv'
<1>0. EngineInv /\ RequestInv /\ KeptThreads /\ KeptWeaves /\ LockstepInv
  BY DEF AdminInv
<1>1. PICK w, k : w = f.weave /\ k = f.seq
  OBVIOUS
<1>2. /\ UNCHANGED <<thread, weave, weavesMade, threadTable, threadFile, weaveTable, weaveFile>>
      /\ UNCHANGED <<req, contested, leftOut>>
      /\ lab' = lab \ {f} /\ weave[w] # None
      /\ rb' = [rb EXCEPT ![w] = Push(rb[w], k)]
      /\ disturbed' = IF f.made # weave[w].made \/ Disturbs(w, k) THEN disturbed \cup {w} ELSE disturbed
  BY <1>1 DEF LabIngest, store, history
<1>3. w \in Weaves /\ k \in Nat \ {0}
  BY <1>0, <1>1 DEF EngineInv, LabFrames
<1>4. RequestInv' /\ OnlyOn(None)
  BY <1>0, <1>2 DEF RequestInv, OnlyOn
<1>5. rb[w] \in Buffers /\ Push(rb[w], k) \in Buffers
  BY <1>0, <1>3, PushIs DEF EngineInv
<1>6. /\ rb' \in [Weaves -> Buffers] /\ rb'[w] = Push(rb[w], k)
      /\ \A u \in Weaves \ {w} : rb'[u] = rb[u]
  BY <1>0, <1>2, <1>3, <1>5 DEF EngineInv
<1>7. EngineInv'
  BY <1>0, <1>2, <1>6 DEF EngineInv
<1>8. KeptThreads' /\ KeptWeaves'
  <2>1. (\A t \in Threads : SameLink(t)) /\ \A u \in Weaves : SameList(u)
    BY <1>2 DEF SameLink, SameList, Agree
  <2> QED
    BY <1>0, <1>2, <1>4, <2>1, DataKept
<1>9. w \in disturbed' \/ InLockstep(w)'
  <2> SUFFICES ASSUME w \notin disturbed' PROVE InLockstep(w)'
    OBVIOUS
  <2>1. w \notin disturbed /\ f.made = weave[w].made /\ ~Disturbs(w, k)
    BY <1>2
  <2>2. InLockstep(w)
    BY <1>0, <1>3, <2>1 DEF LockstepInv
  <2>3. Out(w, k)
    BY <1>1, <2>1 DEF Out
  <2>4. ASSUME NEW n \in Nat, Out(w, n)' PROVE Out(w, n)
    BY <1>2, <2>4, OutNext DEF Out
  <2>5. ASSUME NEW n \in Nat, Out(w, n), n # k PROVE Out(w, n)'
    BY <1>1, <1>2, <2>5, OutNext DEF Out
  <2> QED
    BY <1>0, <1>2, <1>3, <1>6, <2>1, <2>2, <2>3, <2>4, <2>5, NumberArrives
<1>10. LockstepInv'
  <2>1. /\ \A g \in lab : g.weave # w => g \in lab'
        /\ \A g \in lab' : g \in lab
        /\ disturbed \ {w} \subseteq disturbed'
    BY <1>1, <1>2
  <2>2. OnlyBench(w)
    BY <1>2 DEF OnlyBench
  <2> QED
    BY <1>0, <1>2, <1>3, <1>6, <1>9, <2>1, <2>2, LockstepAt
<1> QED
  BY <1>4, <1>7, <1>8, <1>10 DEF AdminInv

LEMMA BenchBegins ==
    ASSUME AdminInv, NEW p \in Clients, NEW w \in Weaves, Bench(p, w)
    PROVE  AdminInv'
<1>0. EngineInv /\ RequestInv /\ KeptThreads /\ KeptWeaves /\ LockstepInv
  BY DEF AdminInv
<1>1. /\ UNCHANGED <<thread, weave, rb, weavesMade, disturbed, threadTable, threadFile, weaveTable, weaveFile>>
      /\ UNCHANGED <<lab, contested, leftOut>>
  BY DEF Bench, engine, store, history
<1>2. EngineInv'
  BY <1>0, <1>1 DEF EngineInv
<1> DEFINE r == ReqRecord("bench", None, w, weave[w].made, {})
<1>3. req' = [req EXCEPT ![p] = r] /\ req[p] = Idle /\ weave[w] # None
  BY DEF Bench, ReqRecord
<1>4. IsRequest(r) /\ r.id = None /\ r.made = weave[w].made /\ r.seqs = {}
  <2>1. weave[w].made \in Nat /\ Numbered({})
    BY <1>0, <1>3 DEF EngineInv, WeaveType, Numbered
  <2>2. Fits("bench", None, w)
    BY DEF Fits
  <2>3. IsRequest(r)
    BY <2>1, <2>2, Zenon DEF IsRequest
  <2>4. r.id = None /\ r.made = weave[w].made /\ r.seqs = {}
    BY ReqFields
  <2> QED
    BY <2>3, <2>4
<1> HIDE DEF r
<1>5. RequestInv' /\ req'[p] = r /\ \A q \in Clients \ {p} : req'[q] = req[q]
  BY <1>0, <1>3, <1>4, RequestMoves
<1>6. req[p].id = None /\ req[p].at = "idle"
  BY <1>3, IdleFields
<1>7. OnlyOn(None)
  BY <1>4, <1>5, <1>6 DEF OnlyOn
<1>8. KeptThreads' /\ KeptWeaves'
  <2>1. (\A t \in Threads : SameLink(t)) /\ \A u \in Weaves : SameList(u)
    BY <1>1 DEF SameLink, SameList, Agree
  <2> QED
    BY <1>0, <1>1, <1>7, <2>1, DataKept
<1>9. LockstepInv'
  <2>1. /\ weavesMade \in Nat
        /\ \A u \in Weaves : weave[u] # None => weave[u].made \in Nat
        /\ \A f \in lab : f.made \in Nat
        /\ \A q \in Clients : req[q].made \in Nat
    BY <1>0, MadeTypes
  <2>2. weavesMade' \in Nat /\ weavesMade <= weavesMade' /\ r.made <= weavesMade'
    BY <1>0, <1>1, <1>3, <1>4, <2>1 DEF LockstepInv, MadeInv
  <2>3. \A q \in Clients : \/ req'[q] = req[q]
                           \/ /\ Brings(req[q], None) /\ Brings(req'[q], None)
                              /\ OnBench(req'[q]) => req'[q].made <= weavesMade'
    BY <1>4, <1>5, <1>6, <2>2 DEF Brings, OnBench
  <2>4. None \notin Weaves
    BY AdminAssumption
  <2>5. /\ \A u \in Weaves \ {None} : weave'[u] = weave[u] /\ rb'[u] = rb[u]
        /\ disturbed \ {None} \subseteq disturbed'
        /\ (\A f \in lab : f \in lab') /\ \A f \in lab' : f \in lab
    BY <1>1
  <2> QED
    BY <1>0, <2>1, <2>2, <2>3, <2>4, <2>5, LockstepMoves
<1> QED
  BY <1>2, <1>5, <1>8, <1>9 DEF AdminInv

\* A bench's request changes: it works on no id, and on the weave it was called with.
LEMMA BenchMoves ==
    ASSUME RequestInv, NEW p \in Clients, OnBench(req[p]), NEW w, w = req[p].copy,
           NEW r, IsRequest(r), r.id = None,
           r.at \notin {"bench", "feed"} \/ (r.copy = w /\ r.made = req[p].made),
           req' = [req EXCEPT ![p] = r]
    PROVE  /\ RequestInv' /\ OnlyOn(None) /\ req'[p] = r
           /\ \A q \in Clients \ {p} : req'[q] = req[q]
           /\ OnlyBench(w)
<1>1. RequestInv' /\ req'[p] = r /\ \A q \in Clients \ {p} : req'[q] = req[q]
  BY RequestMoves
<1>2. req[p].id = None
  BY RequestAt DEF OnBench
<1>3. OnlyOn(None)
  BY <1>1, <1>2 DEF OnlyOn
<1>4. Brings(req[p], w) /\ Brings(r, w)
  BY DEF Brings, OnBench
<1>5. OnBench(r) => r.made = req[p].made
  BY DEF OnBench
<1> QED
  BY <1>1, <1>3, <1>4, <1>5 DEF OnlyBench

\* A bench, its weave and what it has in hand.
LEMMA BenchHas ==
    ASSUME RequestInv, NEW p \in Clients, OnBench(req[p])
    PROVE  /\ req[p].copy \in Weaves /\ req[p].made \in Nat /\ Numbered(req[p].seqs)
           /\ IsRequest(req[p]) /\ req[p].id = None
  BY RequestAt DEF Fits, RequestInv, OnBench

LEMMA BenchStripsStep ==
    ASSUME AdminInv, NEW p \in Clients, BenchStrips(p)
    PROVE  AdminInv'
<1>0. EngineInv /\ RequestInv /\ KeptThreads /\ KeptWeaves /\ LockstepInv
  BY DEF AdminInv
<1>1. PICK w, i : w = req[p].copy /\ i = Cardinality(req[p].seqs) + 1
  OBVIOUS
<1>2. req[p].at = "bench" /\ OnBench(req[p])
  BY DEF BenchStrips, OnBench
<1>3. /\ w \in Weaves /\ req[p].made \in Nat /\ Numbered(req[p].seqs)
      /\ IsRequest(req[p]) /\ req[p].id = None
  BY <1>0, <1>1, <1>2, BenchHas
<1>4. UNCHANGED <<rb, weavesMade, threadTable, threadFile, weaveTable, weaveFile, lab, contested, leftOut>>
  BY DEF BenchStrips, store, history
<1>5. CASE /\ Strips(w)
           /\ req' = [req EXCEPT ![p].seqs = @ \cup {<<i, weave'[w].seq>>}]
           /\ disturbed' = IF weave[w].made = req[p].made THEN disturbed ELSE disturbed \cup {w}
  <2>1. /\ weave[w] \in WeaveType /\ weave[w] # None
        /\ weave' \in [Weaves -> WeaveType \cup {None}]
        /\ weave'[w].seq = weave[w].seq + 1 /\ weave'[w].made = weave[w].made /\ weave'[w] # None
        /\ \A u \in Weaves \ {w} : weave'[u] = weave[u]
        /\ \A u \in Weaves : SameList(u)
        /\ thread' \in [Threads -> ThreadType \cup {None}] /\ \A t \in Threads : SameLink(t)
    BY <1>0, <1>3, <1>5, StripEffect
  <2>2. EngineInv'
    BY <1>0, <1>4, <2>1 DEF EngineInv
  <2>3. weave[w].seq \in Nat
    BY <2>1, AdminAssumption DEF WeaveType
  <2>4. PICK x : x = <<i, weave'[w].seq>>
    OBVIOUS
  <2>5. x[2] = weave[w].seq + 1 /\ x[2] \in Nat \ {0}
    BY <2>1, <2>3, <2>4
  <2> DEFINE more == req[p].seqs \cup {x}
             r == ReqRecord("bench", None, w, req[p].made, more)
  <2>6. req' = [req EXCEPT ![p] = r]
    <3> HIDE DEF more
    <3>1. [req[p] EXCEPT !.seqs = more] = r
      <4>1. [req[p] EXCEPT !.seqs = more]
              = ReqRecord(req[p].at, req[p].id, req[p].copy, req[p].made, more)
        BY <1>3, SeqsChange
      <4> QED
        BY <1>1, <1>2, <1>3, <4>1, Zenon
    <3>2. req' = [req EXCEPT ![p].seqs = more]
      BY <1>5, <2>4, Zenon DEF more
    <3> QED
      BY <3>1, <3>2, Zenon
  <2>7. IsRequest(r) /\ r.id = None /\ r.at = "bench" /\ r.copy = w /\ r.made = req[p].made
        /\ r.seqs = req[p].seqs \cup {x}
    <3>1. Numbered(more)
      BY <1>3, <2>5 DEF Numbered
    <3> HIDE DEF more
    <3>2. Fits("bench", None, w)
      BY <1>3 DEF Fits
    <3>3. IsRequest(r)
      BY <1>3, <3>1, <3>2, Zenon DEF IsRequest
    <3>4. r.id = None /\ r.at = "bench" /\ r.copy = w /\ r.made = req[p].made /\ r.seqs = more
      BY ReqFields
    <3> QED
      BY <3>3, <3>4 DEF more
  <2> HIDE DEF r, more
  <2>8. /\ RequestInv' /\ OnlyOn(None) /\ req'[p] = r
        /\ \A q \in Clients \ {p} : req'[q] = req[q]
        /\ OnlyBench(w)
    BY <1>0, <1>1, <1>2, <2>6, <2>7, BenchMoves
  <2>9. KeptThreads' /\ KeptWeaves'
    BY <1>0, <1>4, <2>1, <2>8, DataKept
  <2>10. w \in disturbed' \/ InLockstep(w)'
    <3> SUFFICES ASSUME w \notin disturbed' PROVE InLockstep(w)'
      OBVIOUS
    <3>1. weave[w].made = req[p].made /\ w \notin disturbed
      BY <1>5
    <3>2. InLockstep(w)
      BY <1>0, <1>3, <3>1 DEF LockstepInv
    <3>3. ASSUME NEW n \in Nat PROVE Out(w, n)' <=> Out(w, n) \/ n = weave[w].seq + 1
      <4>1. InHand(r, w, weave[w].made, n) <=> InHand(req[p], w, weave[w].made, n) \/ n = weave[w].seq + 1
        BY <1>1, <1>2, <2>5, <2>7, <3>1 DEF InHand, OnBench
      <4>2. (\E q \in Clients : InHand(req'[q], w, weave[w].made, n))
              <=> (\E q \in Clients : InHand(req[q], w, weave[w].made, n)) \/ n = weave[w].seq + 1
        BY <2>8, <4>1
      <4> QED
        BY <1>4, <2>1, <4>2, OutNext DEF Out
    <3> QED
      BY <1>0, <1>3, <1>4, <2>1, <3>2, <3>3, NumberTaken
  <2>11. LockstepInv'
    <3>1. (\A g \in lab : g \in lab') /\ \A g \in lab' : g \in lab
      BY <1>4
    <3>2. disturbed \ {w} \subseteq disturbed'
      BY <1>5
    <3> QED
      BY <1>0, <1>3, <1>4, <2>1, <2>8, <2>10, <3>1, <3>2, LockstepAt
  <2> QED
    BY <2>2, <2>8, <2>9, <2>11 DEF AdminInv
<1>6. CASE StripFails(w) /\ Ends(p) /\ disturbed' = disturbed \cup {w}
  <2>1. /\ thread' = thread /\ weave' \in [Weaves -> WeaveType \cup {None}]
        /\ \A u \in Weaves \ {w} : weave'[u] = weave[u]
        /\ \A u \in Weaves : SameList(u)
        /\ weave'[w] # None => weave[w] # None /\ weave'[w].made = weave[w].made
    BY <1>0, <1>3, <1>6, StripFailEffect
  <2>2. EngineInv'
    BY <1>0, <1>4, <2>1 DEF EngineInv
  <2>3. req' = [req EXCEPT ![p] = Idle]
    BY <1>6 DEF Ends
  <2>4. /\ RequestInv' /\ OnlyOn(None)
        /\ OnlyBench(w)
    BY <1>0, <1>1, <1>2, <2>3, IdleFields, BenchMoves
  <2>5. \A t \in Threads : SameLink(t)
    BY <2>1 DEF SameLink, Agree
  <2>6. KeptThreads' /\ KeptWeaves'
    BY <1>0, <1>4, <2>1, <2>4, <2>5, DataKept
  <2>7. LockstepInv'
    <3>1. (\A g \in lab : g \in lab') /\ \A g \in lab' : g \in lab
      BY <1>4
    <3>2. disturbed \ {w} \subseteq disturbed' /\ w \in disturbed'
      BY <1>6
    <3> QED
      BY <1>0, <1>3, <1>4, <2>1, <2>4, <3>1, <3>2, LockstepAt
  <2> QED
    BY <2>2, <2>4, <2>6, <2>7 DEF AdminInv
<1> QED
  BY <1>1, <1>5, <1>6 DEF BenchStrips

\* A bench after one of its packets is fed.
LEMMA FedIs ==
    ASSUME RequestInv, NEW p \in Clients, OnBench(req[p]), NEW x \in req[p].seqs, Fed(p, x)
    PROVE  \E r : /\ IsRequest(r) /\ r.id = None /\ req' = [req EXCEPT ![p] = r]
                  /\ r.at \notin {"bench", "feed"} \/ (r.copy = req[p].copy /\ r.made = req[p].made)
                  /\ \/ r.at \in {"bench", "feed"} /\ r.seqs = req[p].seqs \ {x}
                     \/ r.at \notin {"bench", "feed"} /\ req[p].seqs = {x}
<1>0. /\ req[p].copy \in Weaves /\ req[p].made \in Nat /\ Numbered(req[p].seqs)
      /\ IsRequest(req[p]) /\ req[p].id = None
  BY BenchHas
<1>1. PICK left : left = req[p].seqs \ {x}
  OBVIOUS
<1>2. req' = [req EXCEPT ![p] = IF left = {} THEN Idle ELSE [req[p] EXCEPT !.at = "feed", !.seqs = left]]
  BY <1>1, Zenon DEF Fed
<1>3. CASE left = {}
  <2>1. req' = [req EXCEPT ![p] = Idle]
    BY <1>2, <1>3, Zenon
  <2>2. IsRequest(Idle) /\ Idle.id = None /\ Idle.at \notin {"bench", "feed"}
    BY IdleFields
  <2>3. req[p].seqs = {x}
    BY <1>1, <1>3
  <2> QED
    BY <2>1, <2>2, <2>3, Zenon
<1>4. CASE left # {}
  <2> DEFINE r == ReqRecord("feed", None, req[p].copy, req[p].made, left)
  <2>1. [req[p] EXCEPT !.at = "feed", !.seqs = left] = r
    <3>1. [req[p] EXCEPT !.at = "feed", !.seqs = left]
            = ReqRecord("feed", req[p].id, req[p].copy, req[p].made, left)
      BY <1>0, TurnsToFeed
    <3> QED
      BY <1>0, <3>1, Zenon
  <2>2. req' = [req EXCEPT ![p] = r]
    BY <1>2, <1>4, <2>1, Zenon
  <2>3. Numbered(left) /\ Fits("feed", None, req[p].copy)
    BY <1>0, <1>1 DEF Numbered, Fits
  <2>4. IsRequest(r)
    BY <1>0, <2>3, Zenon DEF IsRequest
  <2>5. r.id = None /\ r.at = "feed" /\ r.copy = req[p].copy /\ r.made = req[p].made /\ r.seqs = left
    BY ReqFields
  <2> HIDE DEF r
  <2>6. r.at \in {"bench", "feed"}
    BY <2>5
  <2> QED
    BY <1>1, <2>2, <2>4, <2>5, <2>6, Zenon
<1> QED
  BY <1>3, <1>4

LEMMA BenchFeedsStep ==
    ASSUME AdminInv, NEW p \in Clients, BenchFeeds(p)
    PROVE  AdminInv'
<1>0. EngineInv /\ RequestInv /\ KeptThreads /\ KeptWeaves /\ LockstepInv
  BY DEF AdminInv
<1>1. PICK w : w = req[p].copy
  OBVIOUS
<1>2. PICK x \in req[p].seqs :
         /\ Fed(p, x)
         /\ rb' = IF SameWeave(p) THEN [rb EXCEPT ![w] = Push(rb[w], x[2])] ELSE rb
         /\ disturbed' = IF SameWeave(p) /\ Disturbs(w, x[2]) THEN disturbed \cup {w} ELSE disturbed
  BY <1>1, Zenon DEF BenchFeeds
<1>3. PICK k : k = x[2]
  OBVIOUS
<1>4. /\ UNCHANGED <<thread, weave, weavesMade, threadTable, threadFile, weaveTable, weaveFile>>
      /\ UNCHANGED <<lab, contested, leftOut>>
      /\ OnBench(req[p])
  BY DEF BenchFeeds, FeedTurn, store, history, OnBench
<1>5. w \in Weaves /\ k \in Nat \ {0}
  <2>1. w \in Weaves /\ Numbered(req[p].seqs)
    BY <1>0, <1>1, <1>4, BenchHas
  <2> QED
    BY <1>3, <2>1 DEF Numbered
<1>6. PICK r : /\ IsRequest(r) /\ r.id = None /\ req' = [req EXCEPT ![p] = r]
               /\ r.at \notin {"bench", "feed"} \/ (r.copy = w /\ r.made = req[p].made)
               /\ \/ r.at \in {"bench", "feed"} /\ r.seqs = req[p].seqs \ {x}
                  \/ r.at \notin {"bench", "feed"} /\ req[p].seqs = {x}
  BY <1>0, <1>1, <1>2, <1>4, FedIs
<1>7. /\ RequestInv' /\ OnlyOn(None) /\ req'[p] = r
      /\ \A q \in Clients \ {p} : req'[q] = req[q]
      /\ OnlyBench(w)
  BY <1>0, <1>1, <1>4, <1>6, BenchMoves
<1>8. rb' \in [Weaves -> Buffers] /\ \A u \in Weaves \ {w} : rb'[u] = rb[u]
  <2>1. Push(rb[w], k) \in Buffers
    BY <1>0, <1>5, PushIs DEF EngineInv
  <2>2. CASE SameWeave(p)
    <3>1. rb' = [rb EXCEPT ![w] = Push(rb[w], k)]
      BY <1>2, <1>3, <2>2, Zenon
    <3> QED
      BY <1>0, <2>1, <3>1 DEF EngineInv
  <2>3. CASE ~SameWeave(p)
    <3>1. rb' = rb
      BY <1>2, <2>3, Zenon
    <3> QED
      BY <1>0, <3>1 DEF EngineInv
  <2> QED
    BY <2>2, <2>3
<1>9. EngineInv'
  BY <1>0, <1>4, <1>8 DEF EngineInv
<1>10. KeptThreads' /\ KeptWeaves'
  <2>1. (\A t \in Threads : SameLink(t)) /\ \A u \in Weaves : SameList(u)
    BY <1>4 DEF SameLink, SameList, Agree
  <2> QED
    BY <1>0, <1>4, <1>7, <2>1, DataKept
<1>11. \A n : \A m : InHand(r, w, m, n) => InHand(req[p], w, m, n)
  BY <1>1, <1>4, <1>6 DEF InHand, OnBench
<1>12. \A n : \A m : InHand(req[p], w, m, n) /\ n # k => InHand(r, w, m, n)
  BY <1>1, <1>3, <1>4, <1>6 DEF InHand, OnBench
<1>13. w \in disturbed' \/ InLockstep(w)'
  <2> SUFFICES ASSUME w \notin disturbed' PROVE InLockstep(w)'
    OBVIOUS
  <2>1. w \notin disturbed
    BY <1>2, Zenon
  <2>2. InLockstep(w)
    BY <1>0, <1>5, <2>1 DEF LockstepInv
  <2>3. CASE SameWeave(p)
    <3>1. weave[w] # None /\ weave[w].made = req[p].made
      BY <1>1, <2>3 DEF SameWeave
    <3>2. rb' = [rb EXCEPT ![w] = Push(rb[w], k)] /\ ~Disturbs(w, k)
      BY <1>2, <1>3, <2>3, Zenon
    <3>3. rb'[w] = Push(rb[w], k)
      BY <1>0, <1>5, <3>2 DEF EngineInv
    <3>4. Out(w, k)
      BY <1>1, <1>3, <1>4, <3>1 DEF Out, InHand
    <3>5. ASSUME NEW n \in Nat, Out(w, n)' PROVE Out(w, n)
      BY <1>4, <1>7, <1>11, <3>5, OutNext DEF Out
    <3>6. ASSUME NEW n \in Nat, Out(w, n), n # k PROVE Out(w, n)'
      BY <1>4, <1>7, <1>12, <3>6, OutNext DEF Out
    <3> QED
      BY <1>0, <1>4, <1>5, <2>2, <3>1, <3>2, <3>3, <3>4, <3>5, <3>6, NumberArrives
  <2>4. CASE ~SameWeave(p)
    <3>1. rb' = rb
      BY <1>2, <2>4, Zenon
    <3>2. CASE weave[w] = None
      BY <1>4, <3>2 DEF InLockstep
    <3>3. CASE weave[w] # None
      <4>1. weave[w].made # req[p].made
        BY <1>1, <2>4, <3>3 DEF SameWeave
      <4>2. \A n : ~InHand(req[p], w, weave[w].made, n) /\ ~InHand(r, w, weave[w].made, n)
        BY <1>11, <4>1 DEF InHand
      <4>3. \A n \in Nat : Out(w, n)' <=> Out(w, n)
        BY <1>4, <1>7, <4>2, OutNext DEF Out
      <4>4. weave[w].seq \in Nat
        BY <1>0, <1>5, <3>3 DEF EngineInv, WeaveType
      <4> QED
        BY <1>4, <2>2, <3>1, <4>3, <4>4, NumbersStay
    <3> QED
      BY <3>2, <3>3
  <2> QED
    BY <2>3, <2>4
<1>14. LockstepInv'
  <2>1. (\A g \in lab : g \in lab') /\ \A g \in lab' : g \in lab
    BY <1>4
  <2>2. disturbed \ {w} \subseteq disturbed'
    BY <1>2, Zenon
  <2> QED
    BY <1>0, <1>4, <1>5, <1>7, <1>8, <1>13, <2>1, <2>2, LockstepAt
<1> QED
  BY <1>7, <1>9, <1>10, <1>14 DEF AdminInv

-----------------------------------------------------------------------------
(* Restarts, the first run, and the theorems.                                *)

\* No request is under way: the engine is what the tables say, and no number is used.
LEMMA FreshRun ==
    ASSUME EngineInv, req = [p \in Clients |-> Idle],
           \A t \in Threads : t \in leftOut \/ Agree(thread[t], threadTable[t]),
           \A w \in Weaves : w \in leftOut \/ AgreeOn(weave[w], weaveTable[w]),
           \A w \in Weaves : weave[w] # None => weave[w].seq = 0 /\ weave[w].made <= weavesMade,
           \A w \in Weaves : rb[w] = NewBuffer, lab = {}
    PROVE  AdminInv
<1>1. RequestInv
  BY IdleFields DEF RequestInv
<1>2. \A p \in Clients : req[p].id = None
  BY IdleFields
<1>3. None \notin Threads /\ None \notin Weaves
  BY AdminAssumption
<1>4. KeptThreads
  BY <1>2, <1>3 DEF KeptThreads, KeptThread, AloneOn
<1>5. KeptWeaves
  BY <1>2, <1>3 DEF KeptWeaves, KeptWeave, AloneOn
<1>6. LockstepInv
  <2>1. \A p \in Clients : ~OnBench(req[p])
    BY IdleFields DEF OnBench
  <2>2. MadeInv
    BY <2>1 DEF MadeInv
  <2>3. ASSUME NEW w \in Weaves, weave[w] # None PROVE InLockstep(w)
    <3>1. weave[w].seq = 0 /\ rb[w].next = 1 /\ rb[w].held = {}
      BY <2>3, NewBufferIs
    <3>2. \A n : ~Out(w, n)
      BY <2>1 DEF Out, InHand
    <3> QED
      BY <3>1, <3>2 DEF InLockstep
  <2>4. \A w \in Weaves : weave[w] = None => InLockstep(w)
    BY DEF InLockstep
  <2> QED
    BY <2>2, <2>3, <2>4 DEF LockstepInv
<1> QED
  BY <1>1, <1>4, <1>5, <1>6 DEF AdminInv

\* A weave as Restore or CreateWeave makes it.
LEMMA NewWeave ==
    ASSUME NEW ts \in Lists, NEW made \in Nat
    PROVE  /\ NewWeaveState(ts, made) \in WeaveType /\ NewWeaveState(ts, made) # None
           /\ NewWeaveState(ts, made).threads = ts /\ NewWeaveState(ts, made).seq = 0
           /\ NewWeaveState(ts, made).made = made
<1>1. NewWeaveState(ts, made) = WeaveRecord(ts, made, 0)
  BY DEF NewWeaveState, WeaveRecord
<1>2. 0 \in 0 .. MaxSeq
  BY AdminAssumption
<1> QED
  BY <1>1, <1>2, WeaveTypes

LEMMA AdminInitInv ==
    ASSUME Init
    PROVE  AdminInv
<1>1. 0 \in Nat /\ Links \subseteq LinkType
  BY AdminAssumption
<1>2. \A l \in Links : Declared(l, 0) \in ThreadType
  BY <1>1, ThreadTypes
<1>3. threadFile \in [Threads -> ThreadType \cup {None}]
  BY <1>2 DEF Init
<1>4. weaveFile \in [Weaves -> Lists \cup {None}]
  BY DEF Init, Lists
<1>5. /\ weave = [w \in Weaves |-> IF weaveFile[w] = None THEN None ELSE NewWeaveState(weaveFile[w], 0)]
      /\ threadTable = threadFile /\ thread = threadFile /\ weaveTable = weaveFile
      /\ lab = {} /\ weavesMade = 0 /\ req = [p \in Clients |-> Idle]
      /\ rb = [w \in Weaves |-> NewBuffer]
  BY DEF Init
<1>6. ASSUME NEW w \in Weaves
      PROVE  /\ weave[w] \in WeaveType \cup {None} /\ AgreeOn(weave[w], weaveTable[w])
             /\ weave[w] # None => weave[w].seq = 0 /\ weave[w].made <= weavesMade
             /\ rb[w] = NewBuffer
  <2>1. CASE weaveFile[w] = None
    BY <1>5, <2>1 DEF AgreeOn
  <2>2. CASE weaveFile[w] # None
    <3>1. weaveFile[w] \in Lists
      BY <1>4, <2>2
    <3>2. weave[w] = NewWeaveState(weaveFile[w], 0)
      BY <1>5, <2>2
    <3> QED
      BY <1>1, <1>5, <2>2, <3>1, <3>2, NewWeave DEF AgreeOn
  <2> QED
    BY <2>1, <2>2
<1>7. EngineInv
  <2>1. weave \in [Weaves -> WeaveType \cup {None}] /\ rb \in [Weaves -> Buffers]
    BY <1>5, <1>6, NewBufferIs
  <2> QED
    BY <1>3, <1>4, <1>5, <2>1 DEF EngineInv
<1>8. \A t \in Threads : Agree(thread[t], threadTable[t])
  BY <1>5 DEF Agree
<1> QED
  BY <1>5, <1>6, <1>7, <1>8, FreshRun

LEMMA RestartStep ==
    ASSUME AdminInv, Restart
    PROVE  AdminInv'
<1>0. EngineInv
  BY DEF AdminInv
<1> DEFINE m == weavesMade + 1
<1>1. /\ threadTable' = threadFile /\ weaveTable' = weaveFile
      /\ threadFile' = threadFile /\ weaveFile' = weaveFile
      /\ thread' = [t \in Threads |-> IF t \in Restored THEN threadFile[t] ELSE None]
      /\ weave' = [w \in Weaves |-> IF weaveFile[w] = None \/ Restored # Threads THEN None
                                    ELSE NewWeaveState(weaveFile[w], m)]
      /\ rb' = [w \in Weaves |-> NewBuffer]
      /\ weavesMade' = m /\ lab' = {} /\ req' = [p \in Clients |-> Idle]
      /\ leftOut' = {t \in Threads : threadFile[t] # None /\ t \notin Restored}
                       \cup {w \in Weaves : weaveFile[w] # None /\ Restored # Threads}
  BY DEF Restart
<1>2. m \in Nat
  BY <1>0 DEF EngineInv
<1> HIDE DEF m
<1>3. ASSUME NEW w \in Weaves
      PROVE  /\ weave'[w] \in WeaveType \cup {None}
             /\ w \in leftOut' \/ AgreeOn(weave'[w], weaveTable'[w])
             /\ weave'[w] # None => weave'[w].seq = 0 /\ weave'[w].made = m
  <2>1. CASE weaveFile[w] = None \/ Restored # Threads
    BY <1>1, <2>1 DEF AgreeOn
  <2>2. CASE weaveFile[w] # None /\ Restored = Threads
    <3>1. weaveFile[w] \in Lists
      BY <1>0, <2>2 DEF EngineInv
    <3>2. weave'[w] = NewWeaveState(weaveFile[w], m)
      BY <1>1, <2>2
    <3> QED
      BY <1>1, <1>2, <2>2, <3>1, <3>2, NewWeave DEF AgreeOn
  <2> QED
    BY <2>1, <2>2
<1>4. thread' \in [Threads -> ThreadType \cup {None}]
      /\ \A t \in Threads : t \in leftOut' \/ Agree(thread'[t], threadTable'[t])
  BY <1>0, <1>1 DEF EngineInv, Agree
<1>5. EngineInv'
  <2>1. weave' \in [Weaves -> WeaveType \cup {None}] /\ rb' \in [Weaves -> Buffers]
    BY <1>1, <1>3, NewBufferIs
  <2> QED
    BY <1>0, <1>1, <1>2, <1>4, <2>1 DEF EngineInv
<1>6. RequestInv' /\ \A p \in Clients : req'[p].id = None
  BY <1>1, IdleFields DEF RequestInv
<1>7. None \notin Threads /\ None \notin Weaves
  BY AdminAssumption
<1>8. KeptThreads'
  BY <1>4, <1>6, <1>7 DEF KeptThreads, KeptThread, AloneOn
<1>9. KeptWeaves'
  BY <1>3, <1>6, <1>7 DEF KeptWeaves, KeptWeave, AloneOn
<1>10. LockstepInv'
  <2>1. \A p \in Clients : ~OnBench(req'[p])
    BY <1>1, IdleFields DEF OnBench
  <2>2. MadeInv'
    BY <1>1, <1>2, <1>3, <2>1 DEF MadeInv, OnBench
  <2>3. ASSUME NEW w \in Weaves, weave'[w] # None PROVE InLockstep(w)'
    <3>1. weave'[w].seq = 0 /\ rb'[w].next = 1 /\ rb'[w].held = {}
      BY <1>1, <1>3, <2>3, NewBufferIs
    <3>2. ASSUME NEW n, Out(w, n)' PROVE FALSE
      BY <1>1, <2>1, <3>2, OutNext DEF InHand
    <3> QED
      BY <3>1, <3>2 DEF InLockstep
  <2>4. \A w \in Weaves : weave'[w] = None => InLockstep(w)'
    BY DEF InLockstep
  <2> QED
    BY <2>2, <2>3, <2>4 DEF LockstepInv
<1> QED
  BY <1>5, <1>6, <1>8, <1>9, <1>10 DEF AdminInv

LEMMA AdminStep ==
    ASSUME AdminInv, [Next]_vars
    PROVE  AdminInv'
<1>1. ASSUME NEW p \in Clients, NEW t \in Threads,
             \/ \E l \in Links : AddThread(p, t, l) \/ ThreadHealth(p, t, l)
             \/ DeleteThread(p, t)
      PROVE  AdminInv'
  BY <1>1, ThreadRequest
<1>2. ASSUME NEW p \in Clients, GetThread(p) \/ PutThread(p) \/ DropThread(p) PROVE AdminInv'
  BY <1>2, GetStep, ThreadStoreStep
<1>3. ASSUME NEW p \in Clients, NEW w \in Weaves,
             \/ \E ts \in SUBSET Threads : CreateWeave(p, w, ts)
             \/ DeleteWeave(p, w)
             \/ Bench(p, w)
      PROVE  AdminInv'
  BY <1>3, WeaveRequest, BenchBegins
<1>4. ASSUME NEW p \in Clients, PutWeave(p) \/ DropWeave(p) \/ BenchStrips(p) \/ BenchFeeds(p)
      PROVE  AdminInv'
  BY <1>4, WeaveStoreStep, BenchStripsStep, BenchFeedsStep
<1>5. ASSUME NEW w \in Weaves, LabStrip(w) \/ LabStripFails(w) \/ GapElapses(w) PROVE AdminInv'
  BY <1>5, LabStripStep, GapElapsesStep
<1>6. ASSUME NEW f \in lab, LabIngest(f) PROVE AdminInv'
  BY <1>6, LabIngestStep
<1>7. CASE Restart
  BY <1>7, RestartStep
<1>8. CASE UNCHANGED vars
  <2>1. /\ UNCHANGED <<thread, weave, rb, weavesMade, disturbed, threadTable, threadFile, weaveTable, weaveFile>>
        /\ UNCHANGED <<lab, req, contested, leftOut>>
    BY <1>8 DEF vars, engine, store, history
  <2>2. EngineInv' /\ RequestInv'
    BY <2>1 DEF AdminInv, EngineInv, RequestInv
  <2>3. KeptThreads' /\ KeptWeaves'
    <3>1. OnlyOn(None) /\ (\A t \in Threads : SameLink(t)) /\ \A w \in Weaves : SameList(w)
      BY <2>1 DEF OnlyOn, SameLink, SameList, Agree
    <3> QED
      BY <2>1, <3>1, DataKept DEF AdminInv
  <2>4. LockstepInv'
    <3>1. BenchesStay
      BY <2>1 DEF BenchesStay
    <3> QED
      BY <2>1, <3>1, LockstepKept DEF AdminInv
  <2> QED
    BY <2>2, <2>3, <2>4 DEF AdminInv
<1> QED
  BY <1>1, <1>2, <1>3, <1>4, <1>5, <1>6, <1>7, <1>8 DEF Next

\* Whatever requests run beside one another, whichever saves fail and however often
\* the process restarts, engine and tables agree but for the requests between the
\* two, no reassembler holds more than its window, and every number that an
\* undisturbed weave has used is at its reassembler or where it will be fed from.
THEOREM AdminInvariant == Spec => []AdminInv
<1>1. AdminInv /\ [Next]_vars => AdminInv'
  BY AdminStep
<1>2. Init => AdminInv
  BY AdminInitInv
<1> QED
  BY <1>1, <1>2, PTL DEF Spec

\* The registry, the weaves, the tables and the files keep their types: no weave is
\* ever without threads, whatever is deleted or read back.
THEOREM AdminTyped == Spec => []TypeOK
<1>1. AdminInv => TypeOK
  <2> SUFFICES ASSUME AdminInv PROVE TypeOK
    OBVIOUS
  <2>0. EngineInv /\ RequestInv
    BY DEF AdminInv
  <2>1. ASSUME NEW t \in Threads, NEW x \in {thread[t], threadTable[t], threadFile[t]}, x # None
        PROVE  x.link \in LinkType /\ x.queue \in Nat
    BY <2>0, <2>1 DEF EngineInv, ThreadType
  <2>2. ASSUME NEW w \in Weaves
        PROVE  /\ rb[w] \in BufferType
               /\ weave[w] # None => weave[w].threads # {} /\ weave[w].seq \in 0 .. MaxSeq
               /\ \A ts \in {weaveTable[w], weaveFile[w]} : ts # None => ts \in (SUBSET Threads) \ {{}}
    BY <2>0 DEF EngineInv, WeaveType, Lists, Buffers
  <2>3. ASSUME NEW p \in Clients, req[p].at \in {"get", "put"} PROVE req[p].id \in Threads
    BY <2>0, <2>3, RequestAt
  <2> QED
    BY <2>1, <2>2, <2>3 DEF TypeOK
<1> QED
  BY <1>1, AdminInvariant, PTL

\* Bench's promise, for any window and any number of benches, packets, threads and
\* weaves: once what is under way is fed back, the receiver takes the sender's next
\* number and lacks none before it, unless one of the exceptions that Lockstep names
\* disturbed the weave: a Strip that failed, a weave replaced under a bench, a frame
\* of its predecessor, a packet refused as too far ahead, or a re-alignment.
THEOREM LockstepHolds == Spec => []Lockstep
<1>1. AdminInv => Lockstep
  <2> SUFFICES ASSUME AdminInv, NEW w \in Weaves \ disturbed, weave[w] # None, NothingOut(w)
               PROVE  InStep(w)
    BY DEF Lockstep
  <2>0. EngineInv /\ InLockstep(w)
    BY DEF AdminInv, LockstepInv
  <2>1. \A n : ~Out(w, n)
    BY DEF NothingOut, Out, InHand
  <2>2. PICK s, x, h : s = weave[w].seq /\ x = rb[w].next /\ h = rb[w].held
    OBVIOUS
  <2>3. /\ s \in Nat /\ x \in Nat /\ Window \in Nat \ {0}
        /\ h \subseteq x .. (x + Window - 1) /\ (x \in h => x + Window - 1 \notin h)
    <3>1. weave[w] \in WeaveType /\ rb[w] \in Buffers
      BY <2>0 DEF EngineInv
    <3> QED
      BY <2>2, <3>1, AdminAssumption DEF WeaveType, Buffers, BufferType, InWindow
  <2>4. /\ \A n \in 1 .. s : n < x \/ n \in h
        /\ x <= s + 1 /\ h \subseteq 1 .. s
    BY <2>0, <2>1, <2>2 DEF InLockstep, Has
  <2>5. x >= 1
    BY <2>0, <2>2 DEF EngineInv, Buffers
  <2>6. h = x .. s
    <3>1. \A n \in h : n \in x .. s
      BY <2>3, <2>4
    <3>2. \A n \in x .. s : n \in 1 .. s /\ ~(n < x)
      BY <2>3, <2>5
    <3> QED
      BY <2>4, <3>1, <3>2
  <2>7. s + 1 < x + Window
    <3>1. CASE s + 1 = x
      BY <2>3, <3>1
    <3>2. CASE s >= x
      <4>1. x \in h /\ s \in h
        BY <2>3, <2>6, <3>2
      <4> QED
        BY <2>3, <4>1
    <3> QED
      BY <2>3, <2>4, <3>1, <3>2
  <2> QED
    BY <2>2, <2>4, <2>6, <2>7 DEF InStep
<1> QED
  BY <1>1, AdminInvariant, PTL

\* A restart finds what the engine had, but for the exceptions that RestartKeeps names:
\* for any number of requests beside one another, failed saves and restarts.
THEOREM RestartsKeep == Spec => RestartKeeps
<1> DEFINE Kept ==
        lives' # lives /\ Quiet /\ threadFile = threadTable /\ weaveFile = weaveTable
          /\ (\A t \in Threads : threadFile[t] # None => Valid(threadFile[t].link))
        => /\ \A t \in Threads \ (contested \cup leftOut) :
                /\ thread'[t] = None <=> thread[t] = None
                /\ thread[t] # None => thread'[t].link = thread[t].link
           /\ \A w \in Weaves \ (contested \cup leftOut) :
                /\ weave'[w] = None <=> weave[w] = None
                /\ weave[w] # None => weave'[w].threads = weave[w].threads
<1>1. AdminInv /\ [Next]_vars => Kept
  <2> SUFFICES ASSUME AdminInv, [Next]_vars, lives' # lives, Quiet,
                      threadFile = threadTable, weaveFile = weaveTable,
                      \A t \in Threads : threadFile[t] # None => Valid(threadFile[t].link)
               PROVE  /\ \A t \in Threads \ (contested \cup leftOut) :
                           /\ thread'[t] = None <=> thread[t] = None
                           /\ thread[t] # None => thread'[t].link = thread[t].link
                      /\ \A w \in Weaves \ (contested \cup leftOut) :
                           /\ weave'[w] = None <=> weave[w] = None
                           /\ weave[w] # None => weave'[w].threads = weave[w].threads
    OBVIOUS
  <2>1. Restart
    BY Zenon DEF Next, vars, bounds, AddThread, ThreadHealth, DeleteThread, GetThread, PutThread, DropThread,
       CreateWeave, DeleteWeave, Bench, PutWeave, DropWeave, BenchStrips, BenchFeeds,
       LabStrip, LabStripFails, GapElapses, LabIngest, Saves
  <2>2. Restored = Threads
    BY DEF Restored
  <2>3. /\ thread' = [t \in Threads |-> IF t \in Restored THEN threadFile[t] ELSE None]
        /\ weave' = [w \in Weaves |-> IF weaveFile[w] = None \/ Restored # Threads THEN None
                                      ELSE NewWeaveState(weaveFile[w], weavesMade + 1)]
    BY <2>1 DEF Restart
  <2>4. EngineInv /\ KeptThreads /\ KeptWeaves
    BY DEF AdminInv
  <2>5. (\A p \in Clients : req[p].id = None) /\ None \notin Threads /\ None \notin Weaves
    BY IdleFields, AdminAssumption DEF Quiet
  <2>6. ASSUME NEW t \in Threads \ (contested \cup leftOut)
        PROVE  /\ thread'[t] = None <=> thread[t] = None
               /\ thread[t] # None => thread'[t].link = thread[t].link
    <3>1. Agree(thread[t], threadTable[t])
      BY <2>4, <2>5 DEF KeptThreads, KeptThread
    <3>2. thread'[t] = threadTable[t]
      BY <2>2, <2>3
    <3> QED
      BY <3>1, <3>2 DEF Agree
  <2>7. ASSUME NEW w \in Weaves \ (contested \cup leftOut)
        PROVE  /\ weave'[w] = None <=> weave[w] = None
               /\ weave[w] # None => weave'[w].threads = weave[w].threads
    <3>1. AgreeOn(weave[w], weaveFile[w])
      BY <2>4, <2>5 DEF KeptWeaves, KeptWeave
    <3>2. CASE weaveFile[w] = None
      BY <2>3, <3>1, <3>2 DEF AgreeOn
    <3>3. CASE weaveFile[w] # None
      <4>1. weaveFile[w] \in Lists /\ weavesMade + 1 \in Nat
        BY <2>4, <3>3 DEF EngineInv
      <4>2. weave'[w] = NewWeaveState(weaveFile[w], weavesMade + 1)
        BY <2>2, <2>3, <3>3
      <4> QED
        BY <3>1, <3>3, <4>1, <4>2, NewWeave DEF AgreeOn
    <3> QED
      BY <3>2, <3>3
  <2> QED
    BY <2>6, <2>7
<1>2. AdminInv /\ [Next]_vars => [Kept]_vars
  BY <1>1
<1> HIDE DEF Kept
<1>3. Spec => [][Kept]_vars
  BY <1>2, AdminInvariant, PTL DEF Spec
<1> QED
  BY <1>3 DEF RestartKeeps, Kept
=============================================================================
