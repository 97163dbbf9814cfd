------------------------------- MODULE FairUse -------------------------------
(***************************************************************************)
(* Usage metering and fair use in the control plane: the session table, the *)
(* fold of session counters into per-SIM usage, quotas, and the operator's  *)
(* corrections (internal/api server.go, ops.go; internal/store), on top of  *)
(* a metering source and the alert engine.                                  *)
(*                                                                          *)
(* One goroutine runs CollectOnce, AccumulateUsage and EvaluateAlerts, the  *)
(* last two under s.mu.  The handlers run beside it and do not take that    *)
(* lock.  A usage record is read, added to and put back; between the read   *)
(* and the write another writer's bytes may be lost, whether both hold the  *)
(* same object (a data race) or each has made its own.                      *)
(*                                                                          *)
(* Left out: the entries these steps add to the audit log (ControlTables has*)
(* the log) and the metrics.                                                *)
(***************************************************************************)
EXTENDS UsageSource, Alerts

CONSTANTS
    Enabled,       \* cfg.FairUse.Enabled
    Quotas,        \* quotas an operator may set; 0 is none
    Corrections,   \* bytes a reconciliation may add
    Clients,       \* concurrent REST requests
    MaxRequests    \* bound: REST requests in a behaviour

ASSUME FairUseAssumption ==
    /\ Sims \subseteq Imsis
    /\ Enabled \in BOOLEAN
    /\ Quotas \subseteq Nat /\ Corrections \subseteq Nat
    /\ MaxRequests \in Nat

VARIABLES
    sessions,      \* store.sessions: reading per UE
    sessionsFile,  \* sessions.json
    lastUsage,     \* s.lastUsage, in memory only
    usage,         \* store.usage: per SIM, bytes and quota
    usageFile,     \* usage.json
    sim,           \* store.sims: per SIM, whether it is usable and its quota
    simFile,       \* sims.json
    fold,          \* the SIM AccumulateUsage is at, its delta and the bytes read
    req,           \* req[p]: what a request is doing
    reconciled,    \* history: bytes added by reconciliations, per SIM,
    dips,          \*   how often the reading of a UE fell,
    raced,         \*   the SIMs some of whose bytes another writer overwrote,
    excused,       \*   and those whose quota is the operator's or a fault's doing
    requests

tables == <<sessions, sessionsFile, usage, usageFile, sim, simFile>>
ghosts == <<reconciled, dips, raced, excused>>
meterVars == <<lastUsage, tables, fold, req, ghosts, requests>>
vars == <<sourceVars, alertVars, meterVars>>

NoUsage == [bytes |-> Absent, quota |-> 0]
NoFold == [imsi |-> None, delta |-> 0, base |-> 0]
Idle == [at |-> "idle", imsi |-> None, base |-> 0, n |-> 0]

Init ==
    /\ SourceInit /\ AlertsInit
    /\ sessions = NoReadings /\ sessionsFile = sessions
    /\ lastUsage = [i \in Imsis |-> 0]
    /\ usage = [i \in Sims |-> NoUsage] /\ usageFile = usage
    /\ sim = [i \in Sims |-> [usable |-> TRUE, quota |-> 0]] /\ simFile = sim
    /\ fold = NoFold
    /\ req = [p \in Clients |-> Idle]
    /\ reconciled = [i \in Sims |-> 0] /\ dips = [i \in Imsis |-> 0]
    /\ raced = {} /\ excused = {}
    /\ requests = 0

-----------------------------------------------------------------------------
(* The store: memory first, the file when the save succeeds.                 *)

BytesOf(i) == Plus(usage[i].bytes, 0)

\* A usage record is put back by a writer that read base bytes.
UpsertUsage(i, base, n, quota, ok) ==
    /\ usage' = [usage EXCEPT ![i] = [bytes |-> base + n, quota |-> quota]]
    /\ usageFile' = IF ok THEN usage' ELSE usageFile
    /\ raced' = IF base # BytesOf(i) THEN raced \cup {i} ELSE raced

UpsertSIM(i, changed, ok) ==
    /\ sim' = [sim EXCEPT ![i] = changed]
    /\ simFile' = IF ok THEN sim' ELSE simFile

-----------------------------------------------------------------------------
(* CollectOnce.  An error of the poll keeps the previous table.  Once the new *)
(* one is saved, an issued SIM that has a session becomes active and the     *)
(* ledger is saved; both are usable.                                         *)
Promotes(table) == \E i \in Sims : table[i] # Absent /\ sim[i].usable

CollectOnce ==
    /\ job = Unlocked
    /\ \E table \in PollTables, ok \in BOOLEAN :
          /\ Poll(table)
          /\ Saves(ok)
          /\ sessions' = table
          /\ sessionsFile' = IF ok THEN table ELSE sessionsFile
          /\ simFile' \in {simFile} \cup (IF ok /\ Promotes(table) THEN {sim} ELSE {})
    /\ UNCHANGED <<telemetry, conditions, alertLog, job, lastUsage, usage, usageFile,
                   sim, fold, req, ghosts, requests>>

-----------------------------------------------------------------------------
(* AccumulateUsage.                                                          *)

\* Mutant: UEs that are not in the session table are folded too.
AccumulateAbsent ==
    /\ job = Unlocked
    /\ job' = [stage |-> "fold", todo |-> Imsis, seen |-> {}]
    /\ UNCHANGED <<sourceVars, telemetry, conditions, alertLog, bounds, meterVars>>

AccumulateUsage ==
    LET present == {i \in Imsis : sessions[i] # Absent}
    IN /\ job = Unlocked
       /\ present # {}
       /\ job' = [stage |-> "fold", todo |-> present, seen |-> {}]
       /\ UNCHANGED <<sourceVars, telemetry, conditions, alertLog, bounds, meterVars>>

Delta(i) == IF sessions[i] > lastUsage[i] THEN sessions[i] - lastUsage[i] ELSE 0

\* Mutant: the reading is not remembered.
FoldReadsNoUpdate(i) ==
    /\ job.stage = "fold" /\ i \in job.todo
    /\ UNCHANGED <<lastUsage, dips>>
    /\ \/ /\ Delta(i) = 0 \/ i \notin Sims
          /\ job' = [job EXCEPT !.todo = @ \ {i}]
          /\ UNCHANGED fold
       \/ /\ Delta(i) > 0 /\ i \in Sims
          /\ job' = [stage |-> "add", todo |-> job.todo \ {i}, seen |-> {}]
          /\ fold' = [imsi |-> i, delta |-> Delta(i), base |-> BytesOf(i)]
    /\ UNCHANGED <<sourceVars, telemetry, conditions, alertLog, bounds, tables, req,
                   reconciled, raced, excused, requests>>

\* The next UE of the loop: its reading becomes the last one in any case.  A UE
\* without a SIM in the ledger is passed over.
FoldReads(i) ==
    /\ job.stage = "fold" /\ i \in job.todo
    /\ lastUsage' = [lastUsage EXCEPT ![i] = sessions[i]]
    /\ dips' = [dips EXCEPT ![i] = IF sessions[i] < lastUsage[i] THEN @ + 1 ELSE @]
    /\ \/ /\ Delta(i) = 0 \/ i \notin Sims
          /\ job' = [job EXCEPT !.todo = @ \ {i}]
          /\ UNCHANGED fold
       \/ /\ Delta(i) > 0 /\ i \in Sims
          /\ job' = [stage |-> "add", todo |-> job.todo \ {i}, seen |-> {}]
          /\ fold' = [imsi |-> i, delta |-> Delta(i), base |-> BytesOf(i)]
    /\ UNCHANGED <<sourceVars, telemetry, conditions, alertLog, bounds, tables, req,
                   reconciled, raced, excused, requests>>

\* Mutant: an error leaves the record as it was.
FoldAddsOrGivesUp ==
    /\ job.stage = "add"
    /\ \E ok \in BOOLEAN :
          /\ IF ok THEN UpsertUsage(fold.imsi, fold.base, fold.delta, sim[fold.imsi].quota, ok)
             ELSE UNCHANGED <<usage, usageFile, raced>>
          /\ Saves(ok)
          /\ excused' = excused \cup {fold.imsi}
          /\ \/ ok /\ job' = [job EXCEPT !.stage = "enforce"] /\ UNCHANGED fold
             \/ ~ok /\ job' = Unlocked /\ fold' = NoFold
    /\ UNCHANGED <<sourceVars, telemetry, conditions, alertLog, lastUsage,
                   sessions, sessionsFile, sim, simFile, req, reconciled, dips, requests>>

\* The delta is added and saved; an error ends the round.
FoldAdds ==
    /\ job.stage = "add"
    /\ \E ok \in BOOLEAN :
          /\ UpsertUsage(fold.imsi, fold.base, fold.delta, sim[fold.imsi].quota, ok)
          /\ Saves(ok)
          /\ excused' = IF ok THEN excused ELSE excused \cup {fold.imsi}
          /\ \/ /\ ok
                /\ job' = [job EXCEPT !.stage = IF Enabled THEN "enforce" ELSE "fold"]
                /\ fold' = IF Enabled THEN fold ELSE NoFold
             \/ ~ok /\ job' = Unlocked /\ fold' = NoFold
    /\ UNCHANGED <<sourceVars, telemetry, conditions, alertLog, lastUsage,
                   sessions, sessionsFile, sim, simFile, req, reconciled, dips, requests>>

\* Mutant: off by one.
OverQuotaLate(i) == usage[i].quota > 0 /\ sim[i].usable /\ usage[i].bytes > usage[i].quota

OverQuota(i) == usage[i].quota > 0 /\ sim[i].usable /\ usage[i].bytes >= usage[i].quota

\* enforceQuota: a usable SIM that has met its quota is suspended, and the
\* operator alerted when that could be saved.
EnforceQuota ==
    LET i == fold.imsi
    IN /\ job.stage = "enforce"
       /\ job' = [job EXCEPT !.stage = "fold"] /\ fold' = NoFold
       /\ excused' = excused \ {i}
       /\ \/ /\ ~OverQuota(i)
             /\ UNCHANGED <<sim, simFile, alertLog, bounds>>
          \/ /\ OverQuota(i)
             /\ UpsertSIM(i, [sim[i] EXCEPT !.usable = FALSE], TRUE)
             /\ \E ok \in BOOLEAN : FireAlertLocked(<<"quota", i>>, ok) /\ Saves(ok)
          \/ /\ OverQuota(i)
             /\ UpsertSIM(i, [sim[i] EXCEPT !.usable = FALSE], FALSE)
             /\ Saves(FALSE)
             /\ UNCHANGED alertLog
       /\ UNCHANGED <<sourceVars, telemetry, conditions, lastUsage, sessions, sessionsFile,
                      usage, usageFile, req, reconciled, dips, raced, requests>>

FoldEnds ==
    /\ job.stage = "fold" /\ job.todo = {}
    /\ job' = Unlocked
    /\ UNCHANGED <<sourceVars, telemetry, conditions, alertLog, bounds, meterVars>>

Folding == \E i \in Imsis : FoldReads(i)
Accounting == AccumulateUsage \/ Folding \/ FoldAdds \/ EnforceQuota \/ FoldEnds

-----------------------------------------------------------------------------
(* The handlers, which do not take s.mu.                                     *)

Begin(p, i) ==
    /\ req[p] = Idle /\ requests < MaxRequests
    /\ requests' = requests + 1
    /\ excused' = excused \cup {i}

\* handleReconcileUsage reads the record ...
Reconcile(p, i) ==
    /\ Begin(p, i)
    /\ \E n \in Corrections :
          req' = [req EXCEPT ![p] = [at |-> "reconcile", imsi |-> i, base |-> BytesOf(i), n |-> n]]
    /\ UNCHANGED <<sourceVars, alertVars, lastUsage, tables, fold, reconciled, dips, raced>>

\* ... and puts it back, with the SIM's quota.
ReconcileWrites(p) ==
    LET r == req[p]
    IN /\ r.at = "reconcile"
       /\ \E ok \in BOOLEAN :
             UpsertUsage(r.imsi, r.base, r.n, sim[r.imsi].quota, ok) /\ Saves(ok)
       /\ reconciled' = [reconciled EXCEPT ![r.imsi] = @ + r.n]
       /\ excused' = excused \cup {r.imsi}
       /\ req' = [req EXCEPT ![p] = Idle]
       /\ UNCHANGED <<sourceVars, telemetry, conditions, alertLog, job, lastUsage,
                      sessions, sessionsFile, sim, simFile, fold, dips, requests>>

\* handleSetQuota: the SIM first; an error ends the request ...
SetQuota(p, i) ==
    /\ Begin(p, i)
    /\ \E q \in Quotas, ok \in BOOLEAN :
          /\ UpsertSIM(i, [sim[i] EXCEPT !.quota = q], ok)
          /\ Saves(ok)
          /\ req' = IF ok
                    THEN [req EXCEPT ![p] = [at |-> "quota", imsi |-> i, base |-> 0, n |-> q]]
                    ELSE req
    /\ UNCHANGED <<sourceVars, telemetry, conditions, alertLog, job, lastUsage, sessions,
                   sessionsFile, usage, usageFile, fold, reconciled, dips, raced>>

\* ... then the quota of the usage record, if there is one.
SetQuotaWrites(p) ==
    LET i == req[p].imsi
    IN /\ req[p].at = "quota"
       /\ IF usage[i] = NoUsage
          THEN UNCHANGED <<usage, usageFile, bounds>>
          ELSE /\ usage' = [usage EXCEPT ![i].quota = req[p].n]
               /\ \E ok \in BOOLEAN :
                     Saves(ok) /\ usageFile' = IF ok THEN usage' ELSE usageFile
       /\ excused' = excused \cup {i}
       /\ req' = [req EXCEPT ![p] = Idle]
       /\ UNCHANGED <<sourceVars, telemetry, conditions, alertLog, job, lastUsage, sessions,
                      sessionsFile, sim, simFile, fold, reconciled, dips, raced, requests>>

\* handleResumeSIM: nothing compares the usage with the quota.
Resume(p, i) ==
    /\ Begin(p, i)
    /\ ~sim[i].usable
    /\ \E ok \in BOOLEAN : UpsertSIM(i, [sim[i] EXCEPT !.usable = TRUE], ok) /\ Saves(ok)
    /\ UNCHANGED <<sourceVars, telemetry, conditions, alertLog, job, lastUsage, sessions,
                   sessionsFile, usage, usageFile, fold, req, reconciled, dips, raced>>

Handling(p) == ReconcileWrites(p) \/ SetQuotaWrites(p)

-----------------------------------------------------------------------------
\* The process restarts: the files are read, lastUsage and the tap start anew.
Restart ==
    /\ AlertsRestart /\ SourceRestart
    /\ sessions' = sessionsFile /\ usage' = usageFile /\ sim' = simFile
    /\ lastUsage' = [i \in Imsis |-> 0]
    /\ fold' = NoFold /\ req' = [p \in Clients |-> Idle]
    /\ excused' = Sims
    /\ UNCHANGED <<sessionsFile, usageFile, simFile, reconciled, dips, raced, requests>>

Next ==
    \/ SourceSteps /\ UNCHANGED <<alertVars, meterVars>>
    \/ AlertsSteps /\ UNCHANGED <<sourceVars, meterVars>>
    \/ CollectOnce
    \/ Accounting
    \/ \E p \in Clients, i \in Sims : Reconcile(p, i) \/ SetQuota(p, i) \/ Resume(p, i)
    \/ \E p \in Clients : Handling(p)
    \/ Restart

Spec == Init /\ [][Next]_vars

-----------------------------------------------------------------------------
(* The types of the tables, their files and the work in progress.            *)
TypeOK ==
    /\ SourceTypeOK /\ AlertsTypeOK
    /\ sessions \in Readings /\ sessionsFile \in Readings /\ lastUsage \in [Imsis -> Nat]
    /\ \A i \in Sims :
          /\ usage[i].bytes \in Nat \cup {Absent} /\ usageFile[i].bytes \in Nat \cup {Absent}
          /\ sim[i].usable \in BOOLEAN /\ sim[i].quota \in Nat
    /\ job.stage \in {"add", "enforce"} <=> fold # NoFold
    /\ requests \in 0 .. MaxRequests

(* A byte is charged once per occasion on which its counter starts over      *)
(* (server.go:405-417: the delta against the last reading): the usage of a   *)
(* SIM is at most its metered bytes, counted once for every run of the       *)
(* process and once more for every time its reading fell, plus what the      *)
(* operator added.                                                           *)
ChargedPerReading ==
    \A i \in Sims : BytesOf(i) <= (lives + dips[i]) * metered[i] + reconciled[i]

(* enforceQuota "suspends a SIM whose usage meets its quota" (server.go:451):*)
(* between two rounds no SIM with a quota is usable with that many bytes on  *)
(* its record, unless the operator changed something about it or a save or   *)
(* the process failed since bytes were last charged to it.                   *)
OverQuotaStopped ==
    Enabled /\ job.stage \notin {"add", "enforce"} =>
        \A i \in Sims :
            sim[i].usable /\ 0 < usage[i].quota /\ usage[i].quota <= usage[i].bytes
                => i \in excused

(* No reading is dropped (server.go:409-441): lastUsage moves before the     *)
(* bytes are added, yet whatever it has reached in this run is on the SIM's  *)
(* record, or is the delta about to be added, after failed saves, readings   *)
(* that fall and rounds given up too.  The exception is the data race with a *)
(* reconciliation, which can overwrite a delta.                              *)
ReadIsCharged ==
    \A i \in Sims \ raced :
        lastUsage[i] <= BytesOf(i) + (IF job.stage = "add" /\ fold.imsi = i THEN fold.delta ELSE 0)

(* "Sessions carry monotonic cumulative counters, so usage is the delta vs   *)
(* the previous reading. A never-seen hash starts at zero: the first reading *)
(* is real usage, not a baseline" (server.go:406-408), and the fold "absorbs *)
(* the resets" (cdr.go:14-16): no byte is charged twice.  The code breaks it:*)
(* after a restart nothing has been seen and the whole counter is charged    *)
(* again; and a charging record that is being written while the AMF reports  *)
(* its UE is a reading of zero, after which the whole record is charged anew.*)
ChargedOnce == \A i \in Sims : BytesOf(i) <= metered[i] + reconciled[i]

(* "enforceQuota suspends a SIM ... and raises an alert so the operator can  *)
(* react" (server.go:451-452): while the SIM is suspended for its quota the  *)
(* alert stays active.  The code breaks it: EvaluateAlerts does not look at  *)
(* quotas and resolves the alert at its next round.                          *)
QuotaAlertStays ==
    \A i \in Sims :
        ~sim[i].usable /\ job = Unlocked /\ i \notin excused /\ failures = 0
            => active[<<"quota", i>>] > 0
=============================================================================
