-------------------------- MODULE SimLifecycleProofs --------------------------
(***************************************************************************)
(* SIMs, for any number of IMSIs, concurrent requests, failed HSS calls,    *)
(* failed saves and restarts: what a request that had its SIM to itself     *)
(* answered keeps holding (AnswersHold).                                    *)
(*                                                                          *)
(* AnswersHold is not inductive.  A handler writes through a pointer it read*)
(* long before, so that the write stays with its own SIM only because no    *)
(* object ever serves two (OwnersInv); a handler that answers must find the *)
(* HSS as its own call left it (AloneInv); and while a promise stands, only *)
(* handlers that cannot break it may be between reading and writing         *)
(* (PromiseInv).                                                            *)
(***************************************************************************)
EXTENDS SimLifecycle, FiniteSetTheorems, TLAPS

SimRecords == [status : Statuses \cup {"absent"}, due : BOOLEAN]
AllOps == RestOps \cup BackgroundOps
Procs == [at : Places, op : AllOps \cup {"none"}, imsi : 0 .. N, ptr : Objects, alone : BOOLEAN]

SimTypes ==
    /\ obj \in [Objects -> SimRecords]
    /\ obj[0] = Absent
    /\ sims \in [Imsis -> Objects]
    /\ disk \in [Imsis -> SimRecords]
    /\ hss \subseteq Imsis
    /\ proc \in [Processes -> Procs]
    /\ settled \in [Imsis -> {"none", "in", "out"}]

(* An object in the ledger or in the hands of a handler belongs to one IMSI: *)
(* handlers of different SIMs never write through the same pointer.          *)
OwnersInv ==
    /\ \A i, j \in Imsis : (sims[i] = sims[j] /\ sims[i] # 0) => i = j
    /\ \A p \in Processes, i \in Imsis :
          (proc[p].ptr = sims[i] /\ proc[p].ptr # 0) => proc[p].imsi = i
    /\ \A p, q \in Processes :
          (proc[p].ptr = proc[q].ptr /\ proc[p].ptr # 0) => proc[p].imsi = proc[q].imsi

\* Where a handler can be, and whether it holds an object.
HandlerFits(r) ==
    /\ r.at = "idle" => r.ptr = 0
    /\ r.at # "idle" => r.imsi \in Imsis /\ r.op \in AllOps
    /\ r.at \in {"add", "rollback"} => r.op = "issue"
    /\ r.at = "remove" => r.op = "revoke"
    /\ r.at = "seed" => r.op = "import"
    /\ r.at = "drop" => r.op = "expire"
    /\ r.at # "idle" /\ r.op \notin {"issue", "import"} => r.ptr # 0

(* A handler that began alone, and that nobody joined, is alone, and finds   *)
(* the HSS as its own call left it.                                          *)
AloneInv ==
    /\ \A p, q \in Processes :
          (proc[p].alone /\ proc[p].at # "idle" /\ proc[q].at # "idle"
              /\ proc[p].imsi = proc[q].imsi) => p = q
    /\ \A p \in Processes : (proc[p].alone /\ proc[p].at = "write") =>
          /\ proc[p].op = "revoke" => proc[p].imsi \notin hss
          /\ proc[p].op = "issue" => proc[p].imsi \in hss

\* While a promise stands, only handlers that keep it are at work.
PromiseInv ==
    \A p \in Processes : (proc[p].at # "idle" /\ settled[proc[p].imsi] # "none") =>
        /\ settled[proc[p].imsi] = "in"
        /\ proc[p].at = "write"
        /\ proc[p].op \in {"suspend", "resume", "quota", "collect"}

SimInv ==
    /\ SimTypes
    /\ OwnersInv
    /\ \A p \in Processes : HandlerFits(proc[p])
    /\ AloneInv
    /\ PromiseInv
    /\ AnswersHold

-----------------------------------------------------------------------------
(* Objects.                                                                  *)

LEMMA ProcessesFinite ==
    IsFiniteSet(Processes) /\ Cardinality(Processes) \in Nat
<1>1. IsFiniteSet(Clients)
  BY SimAssumption
<1>2. IsFiniteSet(Clients \cup {"background"})
  BY <1>1, FS_AddElement
<1> QED
  BY <1>2, FS_CardinalityType DEF Processes

\* Every IMSI is an object, as a restart uses it.
LEMMA ObjectsFit == Imsis \subseteq Objects /\ 0 \in Objects /\ 0 \notin Imsis
<1>1. PICK c : c = Cardinality(Processes)
  OBVIOUS
<1>2. c \in Nat /\ N \in Nat
  BY <1>1, ProcessesFinite, SimAssumption
<1>3. Objects = 0 .. N + c + 1
  BY <1>1 DEF Objects
<1> QED
  BY <1>2, <1>3 DEF Imsis

(* There is always an object that neither the ledger nor a handler refers to:*)
(* together they refer to at most one per IMSI and one per handler.          *)
LEMMA FreshExists ==
    ASSUME SimTypes
    PROVE  /\ Fresh \in Objects \ {0}
           /\ \A i \in Imsis : sims[i] # Fresh
           /\ \A p \in Processes : proc[p].ptr # Fresh
<1> DEFINE ledger == {sims[i] : i \in Imsis}
           held == {proc[p].ptr : p \in Processes}
           sizeL == [i \in Imsis |-> sims[i]]
           sizeH == [p \in Processes |-> proc[p].ptr]
<1>1. PICK c : c = Cardinality(Processes) /\ c \in Nat
  BY ProcessesFinite
<1>2. IsFiniteSet(Imsis) /\ Cardinality(Imsis) = N
  BY FS_Interval, SimAssumption DEF Imsis
<1>3. sizeL \in Surjection(Imsis, ledger)
  BY DEF Surjection
<1>4. IsFiniteSet(ledger) /\ Cardinality(ledger) <= N /\ Cardinality(ledger) \in Nat
  BY <1>2, <1>3, FS_Surjection, FS_CardinalityType
<1>5. sizeH \in Surjection(Processes, held)
  BY DEF Surjection
<1>6. IsFiniteSet(held) /\ Cardinality(held) <= c /\ Cardinality(held) \in Nat
  BY <1>1, <1>5, ProcessesFinite, FS_Surjection, FS_CardinalityType
<1> HIDE DEF ledger, held
<1>7. /\ IsFiniteSet(ledger \cup held)
      /\ Cardinality(ledger \cup held) = Cardinality(ledger) + Cardinality(held) - Cardinality(ledger \cap held)
  BY <1>4, <1>6, FS_Union
<1>8. Cardinality(ledger \cap held) \in Nat
  BY <1>4, FS_Subset, FS_CardinalityType
<1>9. Cardinality(ledger \cup held) <= N + c
  BY <1>4, <1>6, <1>7, <1>8, SimAssumption, <1>1
<1>10. Objects \ {0} = 1 .. N + c + 1
  BY <1>1, SimAssumption DEF Objects
<1>11. Cardinality(1 .. N + c + 1) = N + c + 1
  BY <1>1, SimAssumption, FS_Interval
<1>12. ~(1 .. N + c + 1 \subseteq ledger \cup held)
  <2>1. SUFFICES ASSUME 1 .. N + c + 1 \subseteq ledger \cup held
                 PROVE  FALSE
    OBVIOUS
  <2>2. Cardinality(1 .. N + c + 1) <= Cardinality(ledger \cup held)
    BY <1>7, <2>1, FS_Subset
  <2>3. Cardinality(ledger \cup held) \in Nat
    BY <1>7, FS_CardinalityType
  <2> QED
    BY <1>1, <1>9, <1>11, <2>2, <2>3, SimAssumption
<1>13. PICK o \in Objects \ {0} : o \notin ledger \cup held
  BY <1>10, <1>12
<1>14. /\ \A i \in Imsis : sims[i] # o
       /\ \A p \in Processes : proc[p].ptr # o
  BY <1>13 DEF ledger, held
<1> QED
  BY <1>13, <1>14, Zenon DEF Fresh

-----------------------------------------------------------------------------
(* Records.                                                                  *)

LEMMA ProcFields ==
    ASSUME NEW r \in Procs, NEW x
    PROVE  /\ [r EXCEPT !.at = x] =
                 [at |-> x, op |-> r.op, imsi |-> r.imsi, ptr |-> r.ptr, alone |-> r.alone]
           /\ [r EXCEPT !.alone = x] =
                 [at |-> r.at, op |-> r.op, imsi |-> r.imsi, ptr |-> r.ptr, alone |-> x]
<1>1. PICK a, b, c, d, e : r = [at |-> a, op |-> b, imsi |-> c, ptr |-> d, alone |-> e]
  BY DEF Procs
<1> DEFINE s == [at |-> a, op |-> b, imsi |-> c, ptr |-> d, alone |-> e]
<1>2. /\ [s EXCEPT !.at = x] =
             [at |-> x, op |-> s.op, imsi |-> s.imsi, ptr |-> s.ptr, alone |-> s.alone]
      /\ [s EXCEPT !.alone = x] =
             [at |-> s.at, op |-> s.op, imsi |-> s.imsi, ptr |-> s.ptr, alone |-> x]
  OBVIOUS
<1>3. r = s
  BY <1>1
<1> HIDE DEF s
<1> QED
  BY <1>2, <1>3, Zenon

LEMMA DueField ==
    ASSUME NEW r \in SimRecords, NEW x
    PROVE  [r EXCEPT !.due = x] = [status |-> r.status, due |-> x]
<1>1. PICK a, b : r = [status |-> a, due |-> b]
  BY DEF SimRecords
<1> DEFINE s == [status |-> a, due |-> b]
<1>2. [s EXCEPT !.due = x] = [status |-> s.status, due |-> x]
  OBVIOUS
<1>3. r = s
  BY <1>1
<1> HIDE DEF s
<1> QED
  BY <1>2, <1>3, Zenon

LEMMA IdleTyped ==
    Idle \in Procs /\ Idle.at = "idle" /\ Idle.ptr = 0 /\ Idle.alone = FALSE
<1>1. 0 \in Objects /\ 0 \in 0 .. N
  BY ObjectsFit, SimAssumption
<1> QED
  BY <1>1 DEF Idle, Procs, Places

\* The handler p goes to place and keeps what it holds, or ends.
Moved(p, place) ==
    /\ proc' \in [Processes -> Procs]
    /\ \A q \in Processes \ {p} : proc'[q] = proc[q]
    /\ proc'[p].at = place
    /\ place = "idle" => proc'[p].ptr = 0
    /\ place # "idle" => /\ proc'[p].op = proc[p].op
                         /\ proc'[p].imsi = proc[p].imsi
                         /\ proc'[p].ptr = proc[p].ptr
                         /\ proc'[p].alone = proc[p].alone

LEMMA GoToMoves ==
    ASSUME SimTypes, NEW p \in Processes, NEW place \in Places, GoTo(p, place)
    PROVE  Moved(p, place)
<1>1. proc \in [Processes -> Procs] /\ proc[p] \in Procs
  BY DEF SimTypes
<1>2. CASE place = "idle"
  <2>1. proc' = [proc EXCEPT ![p] = Idle]
    BY <1>2 DEF GoTo
  <2> HIDE DEF Idle
  <2> QED
    BY <1>1, <1>2, <2>1, IdleTyped DEF Moved
<1>3. CASE place # "idle"
  <2> DEFINE s == [at |-> place, op |-> proc[p].op, imsi |-> proc[p].imsi,
                   ptr |-> proc[p].ptr, alone |-> proc[p].alone]
  <2>1. proc' = [proc EXCEPT ![p].at = place]
    BY <1>3 DEF GoTo
  <2>2. [proc[p] EXCEPT !.at = place] = s
    BY <1>1, ProcFields
  <2>3. proc' = [proc EXCEPT ![p] = s]
    BY <1>1, <2>1, <2>2, Zenon
  <2>4. /\ s \in Procs /\ s.at = place /\ s.op = proc[p].op /\ s.imsi = proc[p].imsi
        /\ s.ptr = proc[p].ptr /\ s.alone = proc[p].alone
    BY <1>1 DEF Procs
  <2> HIDE DEF s
  <2> QED
    BY <1>1, <1>3, <2>3, <2>4 DEF Moved
<1> QED
  BY <1>2, <1>3

-----------------------------------------------------------------------------
(* The HSS calls.  A handler in one of them works on a SIM without a promise.*)

\* Where a call in the HSS may take its handler.
HssMove(p, ok, place) ==
    \/ place = "idle"
    \/ place = "write" /\ ok /\ proc[p].at \in {"add", "remove"}

LEMMA HssStep ==
    ASSUME SimInv, NEW p \in Processes, NEW ok \in BOOLEAN, NEW place,
           proc[p].at \in {"add", "remove", "drop", "rollback", "seed"},
           HssCall(p, ok), GoTo(p, place),
           HssMove(p, ok, place),
           UNCHANGED <<obj, sims, disk, settled>>
    PROVE  SimInv'
<1> DEFINE i == proc[p].imsi
<1>1. /\ SimTypes /\ OwnersInv /\ AloneInv /\ PromiseInv /\ AnswersHold
      /\ \A q \in Processes : HandlerFits(proc[q])
  BY DEF SimInv
<1>2. Moved(p, place)
  BY <1>1, GoToMoves DEF Places, HssMove
<1>3. i \in Imsis /\ settled[i] = "none" /\ proc[p].at # "idle"
  BY <1>1 DEF PromiseInv, HandlerFits, SimTypes
<1>4. /\ hss' \subseteq Imsis
      /\ \A j \in Imsis \ {i} : j \in hss' <=> j \in hss
  BY <1>1, <1>3 DEF HssCall, SimTypes
<1>5. /\ (ok /\ proc[p].at = "add") => i \in hss'
      /\ (ok /\ proc[p].at = "remove") => i \notin hss'
  BY DEF HssCall
<1>6. SimTypes'
  BY <1>1, <1>2, <1>4 DEF SimTypes, Moved
<1>7. OwnersInv'
  BY <1>1, <1>2, <1>3 DEF OwnersInv, Moved, SimTypes
<1>8. \A q \in Processes : HandlerFits(proc[q])'
  BY <1>1, <1>2 DEF HandlerFits, Moved, HssMove
<1>9. AloneInv'
  <2>1. ASSUME NEW q \in Processes, NEW s \in Processes,
               proc'[q].alone, proc'[q].at # "idle", proc'[s].at # "idle",
               proc'[q].imsi = proc'[s].imsi
        PROVE  q = s
    BY <1>1, <1>2, <1>3, <2>1 DEF AloneInv, Moved
  <2>2. ASSUME NEW q \in Processes, proc'[q].alone, proc'[q].at = "write"
        PROVE  /\ proc'[q].op = "revoke" => proc'[q].imsi \notin hss'
               /\ proc'[q].op = "issue" => proc'[q].imsi \in hss'
    <3>1. CASE q = p
      BY <1>1, <1>2, <1>5, <2>2, <3>1 DEF Moved, HandlerFits, HssMove
    <3>2. CASE q # p
      <4>1. proc'[q] = proc[q] /\ proc[q].imsi # i /\ proc[q].imsi \in Imsis
        BY <1>1, <1>2, <1>3, <2>2, <3>2 DEF Moved, AloneInv, HandlerFits
      <4> QED
        BY <1>1, <1>4, <2>2, <4>1 DEF AloneInv
    <3> QED
      BY <3>1, <3>2
  <2> QED
    BY <2>1, <2>2 DEF AloneInv
<1>10. PromiseInv'
  BY <1>1, <1>2, <1>3 DEF PromiseInv, Moved
<1>11. AnswersHold'
  BY <1>1, <1>3, <1>4 DEF AnswersHold, Status
<1> QED
  BY <1>6, <1>7, <1>8, <1>9, <1>10, <1>11 DEF SimInv

LEMMA HssFirstKeeps ==
    ASSUME SimInv, NEW p \in Processes, HssFirst(p)
    PROVE  SimInv'
<1>1. PICK ok \in BOOLEAN : HssCall(p, ok) /\ GoTo(p, IF ok THEN "write" ELSE "idle")
  BY DEF HssFirst
<1>2. proc[p].at \in {"add", "remove"} /\ UNCHANGED <<obj, sims, disk, settled>>
  BY DEF HssFirst
<1>3. PICK place : place = (IF ok THEN "write" ELSE "idle")
  OBVIOUS
<1>4. GoTo(p, place) /\ HssMove(p, ok, place)
  BY <1>1, <1>2, <1>3 DEF HssMove
<1>5. proc[p].at \in {"add", "remove", "drop", "rollback", "seed"}
  BY <1>2
<1> QED
  BY <1>1, <1>2, <1>4, <1>5, HssStep

LEMMA HssLastKeeps ==
    ASSUME SimInv, NEW p \in Processes, HssLast(p)
    PROVE  SimInv'
<1>1. PICK ok \in BOOLEAN : HssCall(p, ok)
  BY DEF HssLast
<1>2. /\ proc[p].at \in {"add", "remove", "drop", "rollback", "seed"}
      /\ GoTo(p, "idle") /\ HssMove(p, ok, "idle")
      /\ UNCHANGED <<obj, sims, disk, settled>>
  BY DEF HssLast, HssMove
<1> QED
  BY <1>1, <1>2, HssStep

-----------------------------------------------------------------------------
(* A handler begins.                                                         *)

\* Only issue and import go on without an object; on a revoked SIM only they
\* and revoke.
LEMMA AdmitsMeans ==
    ASSUME SimTypes, NEW op \in AllOps, NEW i \in Imsis, Admits(op, i)
    PROVE  /\ op \notin {"issue", "import"} => sims[i] # 0
           /\ Status(i) = "revoked" => op \in {"issue", "import", "revoke"}
<1>1. obj[0].status = "absent" /\ obj[0].due = FALSE
  BY DEF SimTypes, Absent
<1> QED
  BY <1>1 DEF Admits, Status, Due, AllOps, RestOps, BackgroundOps

LEMMA BeginKeeps ==
    ASSUME SimInv, NEW p \in Processes, NEW op \in AllOps, NEW i \in Imsis, Begin(p, op, i)
    PROVE  SimInv'
<1> DEFINE r == [at |-> FirstCall(op), op |-> op, imsi |-> i,
                 ptr |-> IF op = "issue" THEN 0 ELSE sims[i],
                 alone |-> AtWork(i) = {}]
<1>1. /\ SimTypes /\ OwnersInv /\ AloneInv /\ PromiseInv /\ AnswersHold
      /\ \A q \in Processes : HandlerFits(proc[q])
  BY DEF SimInv
<1>2. /\ Admits(op, i) /\ Release(op, i) /\ UNCHANGED <<obj, sims, disk, hss>>
      /\ proc' = [q \in Processes |-> IF q = p THEN r
                     ELSE [proc[q] EXCEPT !.alone = proc[q].alone /\ proc[q].imsi # i]]
  BY DEF Begin
<1>3. /\ r \in Procs /\ r.at = FirstCall(op) /\ r.op = op /\ r.imsi = i
      /\ r.ptr \in {0, sims[i]} /\ (op # "issue" => r.ptr = sims[i])
      /\ (r.alone <=> AtWork(i) = {})
  <2>1. FirstCall(op) \in Places /\ i \in 0 .. N /\ op \in AllOps \cup {"none"}
    BY SimAssumption DEF FirstCall, Places, Imsis
  <2>2. r.ptr \in Objects
    BY <1>1, ObjectsFit DEF SimTypes
  <2> QED
    BY <2>1, <2>2 DEF Procs
<1> HIDE DEF r
<1>4. /\ FirstCall(op) \in {"add", "remove", "write"}
      /\ FirstCall(op) = "add" <=> op = "issue"
      /\ FirstCall(op) = "remove" <=> op = "revoke"
  BY DEF FirstCall
<1>5. proc'[p] = r
  BY <1>2
<1>6. ASSUME NEW q \in Processes, q # p
      PROVE  /\ proc'[q] \in Procs /\ proc'[q].at = proc[q].at /\ proc'[q].op = proc[q].op
             /\ proc'[q].imsi = proc[q].imsi /\ proc'[q].ptr = proc[q].ptr
             /\ proc'[q].alone <=> (proc[q].alone /\ proc[q].imsi # i)
  <2> DEFINE b == proc[q].alone /\ proc[q].imsi # i
             s == [at |-> proc[q].at, op |-> proc[q].op, imsi |-> proc[q].imsi,
                   ptr |-> proc[q].ptr, alone |-> b]
  <2>1. proc[q] \in Procs
    BY <1>1 DEF SimTypes
  <2>2. b \in BOOLEAN
    OBVIOUS
  <2>3. proc'[q] = [proc[q] EXCEPT !.alone = b]
    BY <1>2, <1>6, Zenon
  <2> HIDE DEF b
  <2>4. proc'[q] = s
    BY <2>1, <2>3, ProcFields
  <2>5. s \in Procs
    BY <2>1, <2>2 DEF Procs
  <2>6. /\ s.at = proc[q].at /\ s.op = proc[q].op /\ s.imsi = proc[q].imsi
        /\ s.ptr = proc[q].ptr /\ s.alone = b
    OBVIOUS
  <2> HIDE DEF s
  <2>7. s.alone <=> (proc[q].alone /\ proc[q].imsi # i)
    BY <2>6, Zenon DEF b
  <2> QED
    BY <2>4, <2>5, <2>6, <2>7, Zenon
<1>7. /\ settled' \in [Imsis -> {"none", "in", "out"}]
      /\ \A j \in Imsis : settled'[j] \in {"none", settled[j]}
      /\ settled'[i] # "none" =>
            op \notin {"issue", "import", "revoke"} /\ ~(op = "expire" /\ settled[i] = "in")
  BY <1>1, <1>2 DEF Release, SimTypes
<1>8. op \notin {"issue", "import"} => sims[i] # 0
  BY <1>1, <1>2, AdmitsMeans
<1>9. SimTypes'
  <2>1. proc' \in [Processes -> Procs]
    <3>1. \A q \in Processes : proc'[q] \in Procs
      BY <1>3, <1>5, <1>6
    <3> QED
      BY <1>2, <3>1
  <2> QED
    BY <1>1, <1>2, <1>7, <2>1 DEF SimTypes
<1>10. OwnersInv'
  <2>1. \A q \in Processes, j \in Imsis :
           (proc'[q].ptr = sims[j] /\ proc'[q].ptr # 0) => proc'[q].imsi = j
    BY <1>1, <1>3, <1>5, <1>6 DEF OwnersInv
  <2>2. \A q, s \in Processes :
           (proc'[q].ptr = proc'[s].ptr /\ proc'[q].ptr # 0) => proc'[q].imsi = proc'[s].imsi
    BY <1>1, <1>3, <1>5, <1>6 DEF OwnersInv
  <2> QED
    BY <1>1, <1>2, <2>1, <2>2 DEF OwnersInv
<1>11. ASSUME NEW q \in Processes
       PROVE  HandlerFits(proc[q])'
  <2>1. CASE q = p
    BY <1>3, <1>4, <1>5, <1>8, <2>1 DEF HandlerFits
  <2>2. CASE q # p
    BY <1>1, <1>6, <2>2 DEF HandlerFits
  <2> QED
    BY <2>1, <2>2
<1>12. AloneInv'
  <2>1. ASSUME NEW q \in Processes, NEW s \in Processes,
               proc'[q].alone, proc'[q].at # "idle", proc'[s].at # "idle",
               proc'[q].imsi = proc'[s].imsi
        PROVE  q = s
    <3>1. CASE q = p
      BY <1>3, <1>5, <1>6, <2>1, <3>1 DEF AtWork
    <3>2. CASE q # p /\ s = p
      BY <1>3, <1>5, <1>6, <2>1, <3>2
    <3>3. CASE q # p /\ s # p
      BY <1>1, <1>6, <2>1, <3>3 DEF AloneInv
    <3> QED
      BY <3>1, <3>2, <3>3
  <2>2. ASSUME NEW q \in Processes, proc'[q].alone, proc'[q].at = "write"
        PROVE  /\ proc'[q].op = "revoke" => proc'[q].imsi \notin hss
               /\ proc'[q].op = "issue" => proc'[q].imsi \in hss
    <3>1. CASE q = p
      BY <1>3, <1>4, <1>5, <2>2, <3>1
    <3>2. CASE q # p
      BY <1>1, <1>6, <2>2, <3>2 DEF AloneInv
    <3> QED
      BY <3>1, <3>2
  <2> QED
    BY <1>2, <2>1, <2>2 DEF AloneInv
<1>13. PromiseInv'
  <2>1. ASSUME NEW q \in Processes, proc'[q].at # "idle", settled'[proc'[q].imsi] # "none"
        PROVE  /\ settled'[proc'[q].imsi] = "in"
               /\ proc'[q].at = "write"
               /\ proc'[q].op \in {"suspend", "resume", "quota", "collect"}
    <3>1. CASE q = p
      <4>1. settled'[i] # "none" /\ settled'[i] = settled[i] /\ settled[i] \in {"in", "out"}
        BY <1>1, <1>3, <1>5, <1>7, <2>1, <3>1 DEF SimTypes
      <4>2. settled[i] # "out"
        BY <1>1, <1>2, <1>7, <4>1, AdmitsMeans DEF AnswersHold
      <4>3. op \in {"suspend", "resume", "quota", "collect"}
        BY <1>7, <4>1, <4>2 DEF AllOps, RestOps, BackgroundOps
      <4> QED
        BY <1>3, <1>4, <1>5, <3>1, <4>1, <4>2, <4>3
    <3>2. CASE q # p
      <4>1. proc[q].imsi \in Imsis
        BY <1>1, <1>6, <2>1, <3>2 DEF HandlerFits
      <4> QED
        BY <1>1, <1>6, <1>7, <2>1, <3>2, <4>1 DEF PromiseInv
    <3> QED
      BY <3>1, <3>2
  <2> QED
    BY <2>1 DEF PromiseInv
<1>14. AnswersHold'
  BY <1>1, <1>2, <1>7 DEF AnswersHold, Status
<1> QED
  BY <1>9, <1>10, <1>11, <1>12, <1>13, <1>14 DEF SimInv

-----------------------------------------------------------------------------
(* A handler writes the ledger.                                              *)

\* The object a handler writes through is nobody else's.
LEMMA WritesOwn ==
    ASSUME SimInv, NEW p \in Processes, NEW o, proc[p].at = "write",
           o = IF proc[p].ptr = 0 THEN Fresh ELSE proc[p].ptr
    PROVE  /\ o \in Objects /\ o # 0
           /\ \A j \in Imsis : sims[j] = o => j = proc[p].imsi
           /\ \A q \in Processes : proc[q].ptr = o => proc[q].imsi = proc[p].imsi
<1>1. SimTypes /\ OwnersInv
  BY DEF SimInv
<1>2. CASE proc[p].ptr = 0
  <2>1. o = Fresh
    BY <1>2
  <2> QED
    BY <1>1, <2>1, FreshExists, Zenon
<1>3. CASE proc[p].ptr # 0
  <2>1. o = proc[p].ptr /\ proc[p] \in Procs
    BY <1>1, <1>3 DEF SimTypes
  <2> QED
    BY <1>1, <1>3, <2>1 DEF OwnersInv, Procs
<1> QED
  BY <1>2, <1>3

LEMMA GivesStatus ==
    ASSUME NEW op \in AllOps, NEW status \in Gives(op)
    PROVE  /\ status \in Statuses
           /\ op = "revoke" => status = "revoked"
           /\ op = "issue" => status = "issued"
           /\ op \in {"suspend", "resume", "quota", "collect"} => status \in {"active", "suspended"}
  BY SimAssumption DEF Gives, AllOps, RestOps, BackgroundOps, Statuses

LEMMA AfterWriteMeans ==
    ASSUME NEW p, NEW ok \in BOOLEAN
    PROVE  /\ AfterWrite(p, ok) \in {"idle", "rollback", "drop", "seed"}
           /\ AfterWrite(p, ok) = "rollback" => proc[p].op = "issue" /\ ~ok
           /\ AfterWrite(p, ok) = "drop" => proc[p].op = "expire"
           /\ AfterWrite(p, ok) = "seed" => proc[p].op = "import"
  BY DEF AfterWrite

\* What a write may do to the promises.
Kept(p, ok) ==
    \/ /\ proc[p].op = "revoke" /\ ok /\ proc[p].alone
       /\ settled' = [settled EXCEPT ![proc[p].imsi] = "out"]
    \/ /\ proc[p].op = "issue" /\ ok /\ proc[p].alone
       /\ settled' = [settled EXCEPT ![proc[p].imsi] = "in"]
    \/ settled' = settled

LEMMA WriteKeeps ==
    ASSUME SimInv, NEW p \in Processes, NEW ok \in BOOLEAN, NEW sim, NEW o,
           proc[p].at = "write",
           o = IF proc[p].ptr = 0 THEN Fresh ELSE proc[p].ptr,
           sim \in SimRecords, sim.status \in Gives(proc[p].op),
           UpsertSIM(proc[p].imsi, o, sim, ok),
           GoTo(p, AfterWrite(p, ok)), Kept(p, ok), hss' = hss
    PROVE  SimInv'
<1> DEFINE i == proc[p].imsi
           place == AfterWrite(p, ok)
<1>1. /\ SimTypes /\ OwnersInv /\ AloneInv /\ PromiseInv /\ AnswersHold
      /\ \A q \in Processes : HandlerFits(proc[q])
  BY DEF SimInv
<1>2. i \in Imsis /\ proc[p].op \in AllOps
  BY <1>1 DEF HandlerFits
<1>3. /\ o \in Objects /\ o # 0
      /\ \A j \in Imsis : sims[j] = o => j = i
      /\ \A q \in Processes : proc[q].ptr = o => proc[q].imsi = i
  BY WritesOwn
<1>4. /\ obj' = [obj EXCEPT ![o] = sim] /\ sims' = [sims EXCEPT ![i] = o]
      /\ disk' = IF ok THEN [k \in Imsis |-> obj'[sims'[k]]] ELSE disk
  BY DEF UpsertSIM
<1>5. /\ obj' \in [Objects -> SimRecords] /\ obj'[0] = Absent
      /\ sims' \in [Imsis -> Objects]
  BY <1>1, <1>2, <1>3, <1>4, ObjectsFit DEF SimTypes
<1>6. obj'[sims'[i]] = sim /\ sims'[i] = o
  BY <1>1, <1>2, <1>3, <1>4 DEF SimTypes
<1>7. \A j \in Imsis \ {i} : sims'[j] = sims[j] /\ obj'[sims'[j]] = obj[sims[j]]
  BY <1>1, <1>2, <1>3, <1>4 DEF SimTypes
<1>8. disk' \in [Imsis -> SimRecords]
  <2>1. CASE ok
    BY <1>4, <1>5, <2>1
  <2>2. CASE ~ok
    BY <1>1, <1>4, <2>2 DEF SimTypes
  <2> QED
    BY <2>1, <2>2
<1>9. /\ disk'[i] \in {sim, disk[i]} /\ (ok => disk'[i] = sim)
      /\ \A j \in Imsis \ {i} : disk'[j] \in {obj[sims[j]], disk[j]}
  <2>1. CASE ok
    BY <1>2, <1>4, <1>6, <1>7, <2>1
  <2>2. CASE ~ok
    BY <1>4, <2>2
  <2> QED
    BY <2>1, <2>2
<1>10. /\ place \in {"idle", "rollback", "drop", "seed"}
       /\ place = "rollback" => proc[p].op = "issue" /\ ~ok
       /\ place = "drop" => proc[p].op = "expire"
       /\ place = "seed" => proc[p].op = "import"
  BY AfterWriteMeans
<1>11. Moved(p, place)
  <2>1. place \in Places
    BY <1>10 DEF Places
  <2> QED
    BY <1>1, <2>1, GoToMoves
<1> HIDE DEF place
<1>12. /\ settled' \in [Imsis -> {"none", "in", "out"}]
       /\ \A j \in Imsis \ {i} : settled'[j] = settled[j]
       /\ \/ settled' = settled
          \/ proc[p].op = "revoke" /\ ok /\ proc[p].alone /\ settled'[i] = "out"
          \/ proc[p].op = "issue" /\ ok /\ proc[p].alone /\ settled'[i] = "in"
  BY <1>1, <1>2 DEF Kept, SimTypes
<1>13. /\ sim.status \in Statuses
       /\ proc[p].op = "revoke" => sim.status = "revoked"
       /\ proc[p].op = "issue" => sim.status = "issued"
       /\ proc[p].op \in {"suspend", "resume", "quota", "collect"}
             => sim.status \in {"active", "suspended"}
  BY <1>2, GivesStatus
<1>14. SimTypes'
  BY <1>1, <1>5, <1>8, <1>11, <1>12 DEF SimTypes, Moved
<1>15. OwnersInv'
  <2>1. \A j, k \in Imsis : (sims'[j] = sims'[k] /\ sims'[j] # 0) => j = k
    BY <1>1, <1>3, <1>6, <1>7 DEF OwnersInv
  <2>2. \A q \in Processes :
           /\ proc'[q].ptr \in {0, proc[q].ptr}
           /\ proc'[q].ptr # 0 => proc'[q].imsi = proc[q].imsi
    BY <1>11 DEF Moved
  <2>3. \A q \in Processes, j \in Imsis :
           (proc'[q].ptr = sims'[j] /\ proc'[q].ptr # 0) => proc'[q].imsi = j
    BY <1>1, <1>3, <1>6, <1>7, <2>2 DEF OwnersInv
  <2>4. \A q, s \in Processes :
           (proc'[q].ptr = proc'[s].ptr /\ proc'[q].ptr # 0) => proc'[q].imsi = proc'[s].imsi
    BY <1>1, <2>2 DEF OwnersInv
  <2> QED
    BY <2>1, <2>3, <2>4 DEF OwnersInv
<1>16. \A q \in Processes : HandlerFits(proc[q])'
  BY <1>1, <1>10, <1>11 DEF HandlerFits, Moved
<1>17. AloneInv'
  BY <1>1, <1>10, <1>11 DEF AloneInv, Moved
<1>18. PromiseInv'
  <2>1. ASSUME NEW q \in Processes, proc'[q].at # "idle", settled'[proc'[q].imsi] # "none"
        PROVE  /\ settled'[proc'[q].imsi] = "in"
               /\ proc'[q].at = "write"
               /\ proc'[q].op \in {"suspend", "resume", "quota", "collect"}
    <3>1. CASE q = p
      <4>1. /\ place # "idle" /\ proc'[p].imsi = i
            /\ proc[p].op \in {"issue", "expire", "import"} /\ ~(proc[p].op = "issue" /\ ok)
        BY <1>10, <1>11, <2>1, <3>1 DEF Moved
      <4>2. settled'[i] = "none"
        BY <1>1, <1>12, <4>1 DEF PromiseInv
      <4> QED
        BY <2>1, <3>1, <4>1, <4>2
    <3>2. CASE q # p
      <4>1. proc'[q] = proc[q] /\ proc[q].at # "idle" /\ proc[q].imsi \in Imsis
        BY <1>1, <1>11, <2>1, <3>2 DEF Moved, HandlerFits
      <4>2. settled'[proc[q].imsi] = settled[proc[q].imsi]
        BY <1>1, <1>12, <3>2, <4>1 DEF AloneInv
      <4> QED
        BY <1>1, <2>1, <4>1, <4>2 DEF PromiseInv
    <3> QED
      BY <3>1, <3>2
  <2> QED
    BY <2>1 DEF PromiseInv
<1>19. AnswersHold'
  <2>1. ASSUME NEW j \in Imsis, j # i
        PROVE  /\ settled'[j] = "out" =>
                     j \notin hss /\ obj'[sims'[j]].status = "revoked" /\ disk'[j].status = "revoked"
               /\ settled'[j] = "in" =>
                     /\ j \in hss
                     /\ obj'[sims'[j]].status \in {"issued", "active", "suspended"}
                     /\ disk'[j].status \in {"issued", "active", "suspended"}
    BY <1>1, <1>7, <1>9, <1>12, <2>1 DEF AnswersHold, Status
  <2>2. /\ settled'[i] = "out" =>
              i \notin hss /\ obj'[sims'[i]].status = "revoked" /\ disk'[i].status = "revoked"
        /\ settled'[i] = "in" =>
              /\ i \in hss
              /\ obj'[sims'[i]].status \in {"issued", "active", "suspended"}
              /\ disk'[i].status \in {"issued", "active", "suspended"}
    <3>1. CASE settled' = settled
      <4>1. CASE settled[i] = "none"
        BY <3>1, <4>1
      <4>2. CASE settled[i] # "none"
        <5>1. settled[i] = "in" /\ proc[p].op \in {"suspend", "resume", "quota", "collect"}
          BY <1>1, <4>2 DEF PromiseInv
        <5>2. i \in hss /\ disk[i].status \in {"issued", "active", "suspended"}
          BY <1>1, <1>2, <5>1 DEF AnswersHold
        <5> QED
          BY <1>6, <1>9, <1>13, <3>1, <5>1, <5>2
      <4> QED
        BY <4>1, <4>2
    <3>2. CASE proc[p].op = "revoke" /\ ok /\ proc[p].alone /\ settled'[i] = "out"
      BY <1>1, <1>6, <1>9, <1>13, <3>2 DEF AloneInv
    <3>3. CASE proc[p].op = "issue" /\ ok /\ proc[p].alone /\ settled'[i] = "in"
      BY <1>1, <1>6, <1>9, <1>13, <3>3 DEF AloneInv
    <3> QED
      BY <1>12, <3>1, <3>2, <3>3
  <2> QED
    BY <2>1, <2>2 DEF AnswersHold, Status
<1> QED
  BY <1>14, <1>15, <1>16, <1>17, <1>18, <1>19 DEF SimInv

LEMMA WriteSimKeeps ==
    ASSUME SimInv, NEW p \in Processes, WriteSim(p)
    PROVE  SimInv'
<1> DEFINE op == proc[p].op
           due == ~(proc[p].ptr = 0) /\ op # "import" /\ obj[proc[p].ptr].due
           o == IF proc[p].ptr = 0 THEN Fresh ELSE proc[p].ptr
<1>1. PICK ok \in BOOLEAN, status \in Gives(op) :
         /\ UpsertSIM(proc[p].imsi, o, [status |-> status, due |-> due], ok)
         /\ GoTo(p, AfterWrite(p, ok))
         /\ CASE op = "revoke" /\ ok -> Promise(p, "out")
              [] op = "issue" /\ ok -> Promise(p, "in")
              [] OTHER -> UNCHANGED settled
  BY Zenon DEF WriteSim
<1>2. proc[p].at = "write" /\ hss' = hss
  BY DEF WriteSim
<1>3. op \in AllOps
  BY <1>2 DEF SimInv, HandlerFits
<1>4. Kept(p, ok)
  BY <1>1 DEF Kept, Promise
<1> DEFINE sim == [status |-> status, due |-> due]
<1>5. due \in BOOLEAN
  OBVIOUS
<1>6. sim \in SimRecords /\ sim.status \in Gives(op)
  <2> HIDE DEF due
  <2> QED
    BY <1>1, <1>3, <1>5, GivesStatus DEF SimRecords
<1> HIDE DEF due, sim, o
<1>7. UpsertSIM(proc[p].imsi, o, sim, ok) /\ o = IF proc[p].ptr = 0 THEN Fresh ELSE proc[p].ptr
  BY <1>1, Zenon DEF sim, o
<1> QED
  BY <1>1, <1>2, <1>4, <1>6, <1>7, WriteKeeps

-----------------------------------------------------------------------------
(* Time and restarts.                                                        *)

LEMMA TimePassesKeeps ==
    ASSUME SimInv, TimePasses
    PROVE  SimInv'
<1> DEFINE late(sim) == [sim EXCEPT !.due = sim.status # "absent"]
<1>1. /\ SimTypes /\ OwnersInv /\ AloneInv /\ PromiseInv /\ AnswersHold
      /\ \A q \in Processes : HandlerFits(proc[q])
  BY DEF SimInv
<1>2. /\ obj' = [o \in Objects |-> late(obj[o])] /\ disk' = [i \in Imsis |-> late(disk[i])]
      /\ UNCHANGED <<sims, hss, proc, settled>>
  BY DEF TimePasses
<1>3. ASSUME NEW r \in SimRecords
      PROVE  /\ late(r) \in SimRecords /\ late(r).status = r.status
             /\ r.status = "absent" => late(r) = Absent
  <2> DEFINE b == r.status # "absent"
  <2>1. b \in BOOLEAN
    OBVIOUS
  <2>2. r.status = "absent" => b = FALSE
    OBVIOUS
  <2>3. late(r) = [status |-> r.status, due |-> b]
    BY DueField
  <2> HIDE DEF b, late
  <2>4. late(r) \in SimRecords /\ late(r).status = r.status
    BY <2>1, <2>3 DEF SimRecords
  <2>5. r.status = "absent" => late(r) = Absent
    BY <2>2, <2>3, Zenon DEF Absent
  <2> QED
    BY <2>4, <2>5
<1> HIDE DEF late
<1>4. \A o \in Objects : obj[o] \in SimRecords
  BY <1>1 DEF SimTypes
<1>5. \A i \in Imsis : disk[i] \in SimRecords /\ sims[i] \in Objects
  BY <1>1 DEF SimTypes
<1>6. /\ \A o \in Objects : obj'[o] = late(obj[o])
      /\ \A i \in Imsis : disk'[i] = late(disk[i])
  BY <1>2
<1>7. obj'[0] = Absent
  <2>1. 0 \in Objects /\ obj[0].status = "absent"
    BY <1>1, ObjectsFit DEF SimTypes, Absent
  <2> QED
    BY <1>3, <1>4, <1>6, <2>1
<1>8. SimTypes'
  <2>1. obj' \in [Objects -> SimRecords] /\ disk' \in [Imsis -> SimRecords]
    BY <1>2, <1>3, <1>4, <1>5
  <2> QED
    BY <1>1, <1>2, <1>7, <2>1 DEF SimTypes
<1>9. OwnersInv' /\ AloneInv' /\ PromiseInv'
  BY <1>1, <1>2 DEF OwnersInv, AloneInv, PromiseInv
<1>10. \A q \in Processes : HandlerFits(proc[q])'
  BY <1>1, <1>2 DEF HandlerFits
<1>11. \A i \in Imsis : /\ obj'[sims'[i]].status = obj[sims[i]].status
                        /\ disk'[i].status = disk[i].status
  BY <1>2, <1>3, <1>4, <1>5, <1>6
<1>12. AnswersHold'
  BY <1>1, <1>2, <1>11 DEF AnswersHold, Status
<1> QED
  BY <1>8, <1>9, <1>10, <1>12 DEF SimInv

LEMMA RestartKeeps ==
    ASSUME SimInv, Restart
    PROVE  SimInv'
<1>1. SimTypes /\ AnswersHold
  BY DEF SimInv
<1>2. /\ obj' = [o \in Objects |-> IF o \in Imsis THEN disk[o] ELSE Absent]
      /\ sims' = [i \in Imsis |-> IF disk[i] = Absent THEN 0 ELSE i]
      /\ proc' = [p \in Processes |-> Idle]
      /\ UNCHANGED <<disk, hss, settled>>
  BY DEF Restart
<1>3. Absent \in SimRecords
  BY DEF Absent, SimRecords
<1>4. obj'[0] = Absent
  BY <1>2, ObjectsFit
<1> HIDE DEF Idle
<1>5. SimTypes'
  <2>1. obj' \in [Objects -> SimRecords]
    <3> HIDE DEF Absent
    <3> QED
      BY <1>1, <1>2, <1>3 DEF SimTypes
  <2>2. sims' \in [Imsis -> Objects]
    BY <1>2, ObjectsFit
  <2>3. proc' \in [Processes -> Procs]
    BY <1>2, IdleTyped
  <2> QED
    BY <1>1, <1>2, <1>4, <2>1, <2>2, <2>3 DEF SimTypes
<1>6. \A p \in Processes : proc'[p].at = "idle" /\ proc'[p].ptr = 0
  BY <1>2, IdleTyped
<1>7. OwnersInv'
  BY <1>2, <1>6 DEF OwnersInv
<1>8. \A q \in Processes : HandlerFits(proc[q])'
  BY <1>6 DEF HandlerFits
<1>9. AloneInv' /\ PromiseInv'
  BY <1>6 DEF AloneInv, PromiseInv
<1>10. \A i \in Imsis : obj'[sims'[i]] = disk[i]
  BY <1>2, <1>4, ObjectsFit
<1>11. AnswersHold'
  BY <1>1, <1>2, <1>10 DEF AnswersHold, Status
<1> QED
  BY <1>5, <1>7, <1>8, <1>9, <1>11 DEF SimInv

-----------------------------------------------------------------------------
LEMMA SimInit == Init => SimInv
<1>1. SUFFICES ASSUME Init
               PROVE  SimInv
  OBVIOUS
<1>2. /\ obj = [o \in Objects |-> Absent] /\ sims = [i \in Imsis |-> 0]
      /\ disk = [i \in Imsis |-> Absent] /\ hss = {}
      /\ proc = [p \in Processes |-> Idle] /\ settled = [i \in Imsis |-> "none"]
  BY <1>1 DEF Init
<1>3. Absent \in SimRecords
  BY DEF Absent, SimRecords
<1> HIDE DEF Idle, Absent
<1>4. SimTypes
  BY <1>2, <1>3, IdleTyped, ObjectsFit DEF SimTypes
<1>5. \A p \in Processes : proc[p].at = "idle" /\ proc[p].ptr = 0
  BY <1>2, IdleTyped
<1>6. OwnersInv
  BY <1>2, <1>5 DEF OwnersInv
<1>7. \A q \in Processes : HandlerFits(proc[q])
  BY <1>5 DEF HandlerFits
<1>8. AloneInv /\ PromiseInv
  BY <1>5 DEF AloneInv, PromiseInv
<1>9. AnswersHold
  BY <1>2 DEF AnswersHold
<1> QED
  BY <1>4, <1>6, <1>7, <1>8, <1>9 DEF SimInv

LEMMA SimNext == SimInv /\ [Next]_vars => SimInv'
<1>1. SUFFICES ASSUME SimInv, [Next]_vars
               PROVE  SimInv'
  OBVIOUS
<1>2. CASE \E p \in Clients, op \in RestOps, i \in Imsis : Request(p, op, i)
  <2>1. PICK p \in Clients, op \in RestOps, i \in Imsis : Request(p, op, i)
    BY <1>2
  <2>2. p \in Processes /\ op \in AllOps /\ Begin(p, op, i)
    BY <2>1 DEF Request, Processes, AllOps
  <2> QED
    BY <1>1, <2>2, BeginKeeps
<1>3. CASE \E op \in BackgroundOps, i \in Imsis : Sweep(op, i)
  <2>1. PICK op \in BackgroundOps, i \in Imsis : Sweep(op, i)
    BY <1>3
  <2>2. "background" \in Processes /\ op \in AllOps /\ Begin("background", op, i)
    BY <2>1 DEF Sweep, Processes, AllOps
  <2> QED
    BY <1>1, <2>2, BeginKeeps
<1>4. CASE \E p \in Processes : Step(p)
  BY <1>1, <1>4, HssFirstKeeps, WriteSimKeeps, HssLastKeeps DEF Step
<1>5. CASE TimePasses
  BY <1>1, <1>5, TimePassesKeeps
<1>6. CASE Restart
  BY <1>1, <1>6, RestartKeeps
<1>7. CASE UNCHANGED vars
  <2>1. UNCHANGED <<obj, sims, disk, hss, proc, settled>>
    BY <1>7 DEF vars
  <2>2. SimTypes' /\ OwnersInv' /\ AloneInv' /\ PromiseInv'
    BY <1>1, <2>1 DEF SimInv, SimTypes, OwnersInv, AloneInv, PromiseInv
  <2>3. (\A q \in Processes : HandlerFits(proc[q]))' /\ AnswersHold'
    BY <1>1, <2>1 DEF SimInv, HandlerFits, AnswersHold, Status
  <2> QED
    BY <2>2, <2>3 DEF SimInv
<1> QED
  BY <1>1, <1>2, <1>3, <1>4, <1>5, <1>6, <1>7 DEF Next

(* The inductive invariant of the ledger holds in every reachable state: an  *)
(* object has one owner, a handler that is alone finds the HSS as it left it,*)
(* and while a promise stands only handlers that keep it are at work.        *)
THEOREM SimInvariant == Spec => []SimInv
  BY SimInit, SimNext, PTL DEF Spec

(* For any number of IMSIs and of concurrent requests, failed HSS calls and  *)
(* saves, and restarts at any point: what a revoke or an issue that had the  *)
(* SIM to itself answered (routes.go:466-467, 499-500) stays true of the     *)
(* ledger, its file and the HSS until a request that may change it begins.   *)
THEOREM AnswersKept == Spec => []AnswersHold
<1>1. SimInv => AnswersHold
  BY DEF SimInv
<1> QED
  BY <1>1, SimInvariant, PTL

\* The bounded counters of requests and faults.
Counts == requests \in 0 .. MaxRequests /\ faults \in 0 .. MaxFaults

LEMMA CountsKept == Counts /\ [Next]_vars => Counts'
<1>1. SUFFICES ASSUME Counts, [Next]_vars
               PROVE  Counts'
  OBVIOUS
<1>2. MaxRequests \in Nat /\ MaxFaults \in Nat
  BY SimAssumption
<1>3. Fault => faults' \in 0 .. MaxFaults
  BY <1>1, <1>2 DEF Fault, Counts
<1>4. \A ok \in BOOLEAN : Outcome(ok) => faults' \in 0 .. MaxFaults
  BY <1>1, <1>3 DEF Outcome, NoFault, Counts
<1>5. CASE \E p \in Clients, op \in RestOps, i \in Imsis : Request(p, op, i)
  BY <1>1, <1>2, <1>5 DEF Request, Begin, Counts
<1>6. CASE \E op \in BackgroundOps, i \in Imsis : Sweep(op, i)
  BY <1>1, <1>6 DEF Sweep, Begin, Counts
<1>7. CASE \E p \in Processes : Step(p)
  <2>1. PICK p \in Processes : Step(p)
    BY <1>7
  <2>2. requests' = requests
    BY <2>1 DEF Step, HssFirst, WriteSim, HssLast
  <2>3. \E ok \in BOOLEAN : Outcome(ok)
    BY <2>1, Zenon DEF Step, HssFirst, WriteSim, HssLast, HssCall
  <2> QED
    BY <1>1, <1>4, <2>2, <2>3 DEF Counts
<1>8. CASE TimePasses
  BY <1>1, <1>8 DEF TimePasses, Counts
<1>9. CASE Restart
  BY <1>1, <1>3, <1>9 DEF Restart, Counts
<1>10. CASE UNCHANGED vars
  BY <1>1, <1>10 DEF vars, Counts
<1> QED
  BY <1>1, <1>5, <1>6, <1>7, <1>8, <1>9, <1>10 DEF Next

(* The ledger, its file, the HSS and the requests keep their types; every    *)
(* pointer in the ledger or in a handler's hands is an allocated object.     *)
THEOREM LedgerTyped == Spec => []TypeOK
<1>1. Init => Counts
  BY SimAssumption DEF Init, Counts
<1>2. SimInv /\ Counts => TypeOK
  <2>1. SUFFICES ASSUME SimInv, Counts
                 PROVE  TypeOK
    OBVIOUS
  <2>2. SimTypes /\ Counts
    BY <2>1 DEF SimInv
  <2>3. \A i \in Imsis : disk[i] \in SimRecords
    BY <2>2 DEF SimTypes
  <2>4. \A p \in Processes : proc[p] \in Procs
    BY <2>2 DEF SimTypes
  <2> QED
    BY <2>2, <2>3, <2>4 DEF TypeOK, SimTypes, SimRecords, Procs, Counts
<1> QED
  BY <1>1, <1>2, CountsKept, SimInvariant, PTL DEF Spec
=============================================================================
