---------------------------- MODULE SimLifecycle -----------------------------
(***************************************************************************)
(* SIMs in the control plane: the ledger in memory and on disk              *)
(* (internal/store), the network's HSS reached through hsswrite, the REST   *)
(* handlers that change both (internal/api routes.go, ops.go) and the       *)
(* background loop (server.go).                                             *)
(*                                                                          *)
(* No lock covers a handler: it reads the ledger, calls the HSS and writes  *)
(* the ledger in separate steps, and handlers run concurrently.  The ledger *)
(* hands out pointers: GetSIM and ListSIMs return the stored object, a      *)
(* handler changes that object in place and UpsertSIM puts it back, even    *)
(* when another one has replaced it meanwhile.                              *)
(***************************************************************************)
EXTENDS Integers, FiniteSets

CONSTANTS
    N,               \* the IMSIs are 1..N
    Clients,         \* concurrent REST requests
    Ops,             \* operations the requests and the background loop perform
    ImportStatuses,  \* statuses an import may carry
    MaxRequests,     \* bound: REST requests in a behaviour
    MaxTicks,        \* bound: times at which every ExpiresAt has passed
    MaxFaults        \* bound: failed HSS calls, failed saves, restarts

Imsis == 1 .. N
Statuses == {"issued", "active", "suspended", "revoked", "expired"}
RestOps == {"issue", "revoke", "suspend", "resume", "import"}
BackgroundOps == {"collect", "expire", "quota"}

ASSUME SimAssumption ==
    /\ N \in Nat /\ MaxRequests \in Nat /\ MaxTicks \in Nat /\ MaxFaults \in Nat
    /\ IsFiniteSet(Clients) /\ "background" \notin Clients
    /\ Ops \subseteq RestOps \cup BackgroundOps
    /\ ImportStatuses \subseteq Statuses

Processes == Clients \cup {"background"}

VARIABLES
    obj,        \* SIM objects in memory: object -> status and whether it is due
    sims,       \* store.sims: IMSI -> object, 0 when there is none
    disk,       \* sims.json
    hss,        \* IMSIs the network accepts
    proc,       \* proc[p]: what p is doing, to which IMSI, with which object, and
                \*   whether it has had the SIM to itself (history)
    settled,    \* settled[i]: history, what the last undisturbed answer promised
    requests, ticks, faults

vars == <<obj, sims, disk, hss, proc, settled, requests, ticks, faults>>

Absent == [status |-> "absent", due |-> FALSE]
Idle == [at |-> "idle", op |-> "none", imsi |-> 0, ptr |-> 0, alone |-> FALSE]

\* Enough objects for the ledger, for what the handlers hold, and for a new one.
Objects == 0 .. N + Cardinality(Processes) + 1

Init ==
    /\ obj = [o \in Objects |-> Absent]
    /\ sims = [i \in Imsis |-> 0]
    /\ disk = [i \in Imsis |-> Absent]
    /\ hss = {}
    /\ proc = [p \in Processes |-> Idle]
    /\ settled = [i \in Imsis |-> "none"]
    /\ requests = 0 /\ ticks = 0 /\ faults = 0

Status(i) == obj[sims[i]].status
Due(i) == obj[sims[i]].due

Fault == faults < MaxFaults /\ faults' = faults + 1
NoFault == UNCHANGED faults

\* A step of one call that may fail.
Outcome(ok) == IF ok THEN NoFault ELSE Fault

-----------------------------------------------------------------------------
(* The store.                                                                *)

\* An object nobody refers to: what &api.SIM{...} allocates.
Fresh ==
    CHOOSE o \in Objects \ {0} :
        /\ \A i \in Imsis : sims[i] # o
        /\ \A p \in Processes : proc[p].ptr # o

\* UpsertSIM: o, now holding sim, is the object of i.  A failed save leaves the
\* change in memory; a later save of any SIM writes it out.
UpsertSIM(i, o, sim, ok) ==
    /\ obj' = [obj EXCEPT ![o] = sim]
    /\ sims' = [sims EXCEPT ![i] = o]
    /\ disk' = IF ok THEN [k \in Imsis |-> obj'[sims'[k]]] ELSE disk

-----------------------------------------------------------------------------
(* What the handlers promise: kept when a request is answered that had the   *)
(* SIM to itself, dropped when one that may break it begins.                 *)

AtWork(i) == {q \in Processes : proc[q].at # "idle" /\ proc[q].imsi = i}

Promise(p, what) ==
    settled' = IF proc[p].alone THEN [settled EXCEPT ![proc[p].imsi] = what] ELSE settled

Release(op, i) ==
    settled' = [settled EXCEPT ![i] =
                   IF op \in {"issue", "import", "revoke"} \/ (op = "expire" /\ @ = "in")
                   THEN "none" ELSE @]

-----------------------------------------------------------------------------
(* The handlers.                                                             *)

\* Mutants: a revoked SIM can be resumed; the expiry sweep skips suspended SIMs.
AdmitsRevoked(op, i) ==
    CASE op = "revoke" -> sims[i] # 0
      [] op = "resume" -> Status(i) \in {"suspended", "revoked"}
      [] op \in {"suspend", "quota"} -> Status(i) \in {"issued", "active"}
      [] op = "collect" -> Status(i) = "issued" /\ i \in hss
      [] op = "expire" -> Due(i) /\ Status(i) \in {"issued", "active", "suspended"}
      [] OTHER -> TRUE
AdmitsUsableOnly(op, i) ==
    CASE op = "revoke" -> sims[i] # 0
      [] op = "resume" -> Status(i) = "suspended"
      [] op \in {"suspend", "quota"} -> Status(i) \in {"issued", "active"}
      [] op = "collect" -> Status(i) = "issued" /\ i \in hss
      [] op = "expire" -> Due(i) /\ Status(i) \in {"issued", "active"}
      [] OTHER -> TRUE

\* The condition under which op goes on after reading the ledger.
Admits(op, i) ==
    CASE op = "issue" -> TRUE
      [] op = "import" -> TRUE
      [] op = "revoke" -> sims[i] # 0
      [] op = "resume" -> Status(i) = "suspended"
      [] op \in {"suspend", "quota"} -> Status(i) \in {"issued", "active"}
      [] op = "collect" -> Status(i) = "issued" /\ i \in hss     \* the UE attached
      [] op = "expire" -> Due(i) /\ Status(i) \in {"issued", "active", "suspended"}

\* The status op gives the SIM.
Gives(op) ==
    CASE op = "issue" -> {"issued"}
      [] op = "import" -> ImportStatuses
      [] op = "revoke" -> {"revoked"}
      [] op \in {"resume", "collect"} -> {"active"}
      [] op \in {"suspend", "quota"} -> {"suspended"}
      [] op = "expire" -> {"expired"}

\* The step after reading: the HSS comes first for issue and revoke.
FirstCall(op) ==
    CASE op = "issue" -> "add"
      [] op = "revoke" -> "remove"
      [] OTHER -> "write"

\* The handler reads the ledger.  handleIssueSIMs does not: it makes its own
\* object.
Begin(p, op, i) ==
    /\ proc[p].at = "idle"
    /\ op \in Ops
    /\ Admits(op, i)
    /\ proc' = [q \in Processes |->
                   IF q = p
                   THEN [at |-> FirstCall(op), op |-> op, imsi |-> i,
                         ptr |-> IF op = "issue" THEN 0 ELSE sims[i],
                         alone |-> AtWork(i) = {}]
                   ELSE [proc[q] EXCEPT !.alone = @ /\ proc[q].imsi # i]]
    /\ Release(op, i)
    /\ UNCHANGED <<obj, sims, disk, hss, ticks, faults>>

Request(p, op, i) ==
    /\ p \in Clients /\ op \in RestOps
    /\ requests < MaxRequests
    /\ requests' = requests + 1
    /\ Begin(p, op, i)

\* One SIM of a round of CollectOnce, ExpireOnce or enforceQuota.
Sweep(op, i) ==
    /\ op \in BackgroundOps
    /\ Begin("background", op, i)
    /\ UNCHANGED requests

GoTo(p, place) ==
    proc' = IF place = "idle" THEN [proc EXCEPT ![p] = Idle]
            ELSE [proc EXCEPT ![p].at = place]

\* hss.Add and hss.Remove.  A call that reports an error may have taken effect.
HssCall(p, ok) ==
    LET i == proc[p].imsi
        done == IF proc[p].at \in {"add", "seed"} THEN hss \cup {i} ELSE hss \ {i}
    IN hss' \in (IF ok THEN {done} ELSE {hss, done}) /\ Outcome(ok)

\* The HSS first: an error ends the request.
HssFirst(p) ==
    /\ proc[p].at \in {"add", "remove"}
    /\ \E ok \in BOOLEAN :
          HssCall(p, ok) /\ GoTo(p, IF ok THEN "write" ELSE "idle")
    /\ UNCHANGED <<obj, sims, disk, settled, requests, ticks>>

\* The step after writing: expiry removes from the HSS, an import seeds it and
\* a failed issue is rolled back.
AfterWrite(p, ok) ==
    CASE proc[p].op = "issue" /\ ~ok -> "rollback"
      [] proc[p].op = "expire" /\ ok -> "drop"
      [] proc[p].op = "import" /\ ok /\ proc[p].ptr = 0 -> "seed"
      [] OTHER -> "idle"

\* The ledger is written, through the object read at the beginning.
WriteSim(p) ==
    LET i == proc[p].imsi
        op == proc[p].op
        made == proc[p].ptr = 0
        due == ~made /\ op # "import" /\ obj[proc[p].ptr].due
    IN /\ proc[p].at = "write"
       /\ \E ok \in BOOLEAN, status \in Gives(op) :
             /\ UpsertSIM(i, IF made THEN Fresh ELSE proc[p].ptr,
                          [status |-> status, due |-> due], ok)
             /\ Outcome(ok)
             /\ GoTo(p, AfterWrite(p, ok))
             /\ CASE op = "revoke" /\ ok -> Promise(p, "out")
                  [] op = "issue" /\ ok -> Promise(p, "in")
                  [] OTHER -> UNCHANGED settled
       /\ UNCHANGED <<hss, requests, ticks>>

\* A last HSS call, whose error is logged or ignored.
HssLast(p) ==
    /\ proc[p].at \in {"drop", "rollback", "seed"}
    /\ \E ok \in BOOLEAN : HssCall(p, ok)
    /\ GoTo(p, "idle")
    /\ UNCHANGED <<obj, sims, disk, settled, requests, ticks>>

Step(p) == HssFirst(p) \/ WriteSim(p) \/ HssLast(p)

\* Every ExpiresAt so far passes.
TimePasses ==
    LET late(sim) == [sim EXCEPT !.due = sim.status # "absent"]
    IN /\ ticks < MaxTicks
       /\ ticks' = ticks + 1
       /\ obj' = [o \in Objects |-> late(obj[o])]
       /\ disk' = [i \in Imsis |-> late(disk[i])]
       /\ UNCHANGED <<sims, hss, proc, settled, requests, faults>>

\* The control plane restarts: load reads the files, requests die.
Restart ==
    /\ Fault
    /\ obj' = [o \in Objects |-> IF o \in Imsis THEN disk[o] ELSE Absent]
    /\ sims' = [i \in Imsis |-> IF disk[i] = Absent THEN 0 ELSE i]
    /\ proc' = [p \in Processes |-> Idle]
    /\ UNCHANGED <<disk, hss, settled, requests, ticks>>

Next ==
    \/ \E p \in Clients, op \in RestOps, i \in Imsis : Request(p, op, i)
    \/ \E op \in BackgroundOps, i \in Imsis : Sweep(op, i)
    \/ \E p \in Processes : Step(p)
    \/ TimePasses
    \/ Restart

Spec == Init /\ [][Next]_vars

(* A handler once begun runs to its end, and the minute ticker keeps calling *)
(* ExpireOnce.  Nobody is obliged to send a request, nothing to fail.        *)
FairSpec ==
    /\ Spec
    /\ \A p \in Processes : WF_vars(Step(p))
    /\ \A i \in Imsis : WF_vars(Sweep("expire", i))

-----------------------------------------------------------------------------
Places == {"idle", "add", "remove", "write", "drop", "rollback", "seed"}

(* The types of the ledger, its file, the HSS and the requests in progress:  *)
(* every pointer in use is allocated.                                        *)
TypeOK ==
    /\ obj \in [Objects -> [status : Statuses \cup {"absent"}, due : BOOLEAN]]
    /\ obj[0] = Absent
    /\ sims \in [Imsis -> Objects]
    /\ \A i \in Imsis : disk[i].status \in Statuses \cup {"absent"}
    /\ hss \subseteq Imsis
    /\ \A p \in Processes : proc[p].at \in Places /\ proc[p].ptr \in Objects
    /\ faults \in 0 .. MaxFaults /\ requests \in 0 .. MaxRequests

(* The ledger keeps the word of an answered request (routes.go:466-467,      *)
(* 499-500): a revoke that had the SIM to itself and was answered 200        *)
(* leaves it revoked, in memory and on disk, and unknown to the HSS; an issue*)
(* leaves it usable and known to the HSS.  No later suspend, resume,         *)
(* collection, quota or expiry round, failed save or restart changes that.   *)
AnswersHold ==
    \A i \in Imsis :
        /\ settled[i] = "out" =>
              i \notin hss /\ Status(i) = "revoked" /\ disk[i].status = "revoked"
        /\ settled[i] = "in" =>
              /\ i \in hss
              /\ {Status(i), disk[i].status} \subseteq {"issued", "active", "suspended"}

(* "ExpireOnce revokes SIMs whose expiry has passed" (server.go:298), as far *)
(* as the ledger goes: whatever requests are in flight, a SIM past its expiry*)
(* is marked in the end, unless it is given a new term.                      *)
DueIsMarked ==
    \A i \in Imsis : Due(i) ~> (Status(i) \in {"revoked", "expired"} \/ ~Due(i))

(* "ExpireOnce revokes SIMs whose expiry has passed" (server.go:298): in the *)
(* network too, an expired SIM is refused in the end.  The code breaks it: it*)
(* marks the SIM before it saves it and calls the HSS, logs an error of      *)
(* either, and skips the marked SIM in every later round.                    *)
ExpiredLosesAccess == \A i \in Imsis : Due(i) ~> (i \notin hss \/ ~Due(i))

(* "only mark revoked once the network can no longer accept the SIM"         *)
(* (routes.go:499-500).  The code breaks it: an issue between the HSS call   *)
(* and the mark puts the SIM back into the HSS.                              *)
RevokedIsGone ==
    (\A p \in Processes : proc[p].at = "idle")
        => \A i \in Imsis : Status(i) = "revoked" => i \notin hss

(* "cannot suspend a %s SIM" (routes.go:404, and 425 for resume): a revoked  *)
(* SIM is neither suspended nor resumed.  The code breaks it: the status is  *)
(* checked before a concurrent revoke and written after it.                  *)
RevokedStaysRevoked ==
    [][\A i \in Imsis : Status(i) = "revoked" =>
          Status(i)' \notin {"suspended", "active"}]_vars
=============================================================================
