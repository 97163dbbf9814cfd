---------------------------- MODULE FairUseProofs ----------------------------
(***************************************************************************)
(* Proofs about the alert engine and about usage metering and quotas, for   *)
(* any number of nodes, SIMs, tunnels, requests, failed saves and restarts. *)
(*                                                                          *)
(* Alerts.  Before a key has fired in a run its alerts in the log are those *)
(* of earlier runs (LogInv): that bounds what the next firing leads to.     *)
(*                                                                          *)
(* Bytes.  What the counters and the unattributed bytes add up to grows by  *)
(* exactly what is observed (BalanceKept).  A sum over the UEs is taken one *)
(* UE at a time; that it exists, and changes as one UE's counter changes, is*)
(* shown by looking at a smallest set of UEs for which it would not         *)
(* (SumExists, SumChanges).                                                 *)
(*                                                                          *)
(* Charging.  No counter is ever above the bytes metered for its UE         *)
(* (ReadingInv), and what has been charged in a run is what it reached, plus*)
(* what it had reached whenever it fell (Ceiling).  The ceiling also bounds *)
(* what the fold and a reconciliation have read and not yet put back, so    *)
(* that a lost update cannot lead above it.                                 *)
(*                                                                          *)
(* Quotas.  OverQuotaStopped holds for every SIM at every stage, but for the*)
(* one whose bytes have just been added (QuotaInv).                         *)
(***************************************************************************)
EXTENDS FairUse, FiniteSetTheorems, WellFoundedInduction, TLAPS

Evaluating == {"nodes", "sims", "ues", "resolve"}
Accounts == {"fold", "add", "enforce"}

\* The job that holds s.mu.
JobInv ==
    /\ \E st \in {"idle"} \cup Evaluating \cup Accounts, todo \in SUBSET (Keys \cup Imsis),
          seen \in SUBSET Keys : job = [stage |-> st, todo |-> todo, seen |-> seen]
    /\ job.stage \in Evaluating => job.todo \subseteq Keys

\* Heartbeats and the alert log.
Reports == [ts : -1 .. MaxTime, bad : SUBSET Complaints]

TelemetryInv ==
    /\ now \in 0 .. MaxTime
    /\ beats \subseteq Heartbeats /\ \A h \in beats : h.ts <= now
    /\ health \in [Nodes -> Reports] /\ healthFile \in [Nodes -> Reports]
    /\ \A n \in Nodes : health[n].ts <= now /\ healthFile[n].ts <= now
    /\ nearing \subseteq Sims /\ crowded \in BOOLEAN

LogInv ==
    /\ fired \subseteq Keys
    /\ active \in [Keys -> Nat] /\ alertsFile \in [Keys -> Nat]
    /\ lives \in 1 .. MaxLives /\ failures \in 0 .. MaxFailures
    /\ \A k \in fired : 0 < active[k] /\ active[k] <= lives
    /\ \A k \in Keys \ fired : active[k] <= lives - 1
    /\ \A k \in Keys : alertsFile[k] <= lives

AlertsInv == JobInv /\ TelemetryInv /\ LogInv

-----------------------------------------------------------------------------
\* No counter of the source is above what was metered.
SourceInv ==
    /\ SourceTypeOK /\ source \in Sources
    /\ \A i \in Imsis : byIMSI[i] <= metered[i] /\ record[i] <= metered[i]

\* The tables and the requests.
Usages == [bytes : Nat \cup {Absent}, quota : Nat]
SimRecords == [usable : BOOLEAN, quota : Nat]
Requests == [at : {"idle", "reconcile", "quota"}, imsi : Sims \cup {None}, base : Nat, n : Nat]

MeterInv ==
    /\ usage \in [Sims -> Usages] /\ usageFile \in [Sims -> Usages]
    /\ sim \in [Sims -> SimRecords] /\ simFile \in [Sims -> SimRecords]
    /\ reconciled \in [Sims -> Nat] /\ dips \in [Imsis -> Nat]
    /\ requests \in 0 .. MaxRequests
    /\ req \in [Clients -> Requests]
    /\ \A p \in Clients : req[p].at # "idle" => req[p].imsi \in Sims

\* No reading is above what was metered either.
ReadingInv ==
    /\ sessions \in Readings /\ sessionsFile \in Readings /\ lastUsage \in [Imsis -> Nat]
    /\ \A i \in Imsis :
          /\ sessions[i] <= metered[i] /\ sessionsFile[i] <= metered[i]
          /\ lastUsage[i] <= metered[i]

\* The fold has a SIM in hand from its reading to the check of its quota, and
\* every UE still to do has a session.
FoldInv ==
    /\ job.stage \notin {"add", "enforce"} => fold = NoFold
    /\ job.stage \in {"add", "enforce"} =>
          fold.imsi \in Sims /\ fold.delta \in Nat \ {0} /\ fold.base \in Nat
    /\ job.stage \in Accounts => job.todo \subseteq {i \in Imsis : sessions[i] # Absent}

\* What may have been charged to a SIM by now, and what its file may hold.
CeilingOf(runs, falls, bytes, added, last) == (runs - 1 + falls) * bytes + added + last
Ceiling(i) == CeilingOf(lives, dips[i], metered[i], reconciled[i], lastUsage[i])
FileCeilingOf(runs, falls, bytes, added) == (runs + falls) * bytes + added
FileCeiling(i) == FileCeilingOf(lives, dips[i], metered[i], reconciled[i])

ChargeInv ==
    /\ \A i \in Sims : BytesOf(i) <= Ceiling(i) /\ usageFile[i].bytes <= FileCeiling(i)
    /\ job.stage = "add" => fold.base + fold.delta <= Ceiling(fold.imsi)
    /\ \A p \in Clients : req[p].at = "reconcile" => req[p].base <= Ceiling(req[p].imsi)

QuotaInv ==
    Enabled => \A i \in Sims :
        \/ job.stage = "enforce" /\ i = fold.imsi
        \/ i \in excused
        \/ ~(sim[i].usable /\ 0 < usage[i].quota /\ usage[i].quota <= usage[i].bytes)

FairUseInv ==
    /\ AlertsInv /\ SourceInv /\ MeterInv /\ ReadingInv /\ FoldInv
    /\ ChargeInv /\ ReadIsCharged /\ QuotaInv

-----------------------------------------------------------------------------
(* The alert engine.                                                         *)

\* The job with one field changed.
LEMMA JobFields ==
    ASSUME JobInv, NEW x
    PROVE  /\ [job EXCEPT !.todo = x] = [stage |-> job.stage, todo |-> x, seen |-> job.seen]
           /\ [job EXCEPT !.stage = x] = [stage |-> x, todo |-> job.todo, seen |-> job.seen]
           /\ job.seen \subseteq Keys
<1>1. PICK a, b, c : job = [stage |-> a, todo |-> b, seen |-> c] /\ c \subseteq Keys
  BY DEF JobInv
<1> DEFINE s == [stage |-> a, todo |-> b, seen |-> c]
<1>2. /\ [s EXCEPT !.todo = x] = [stage |-> s.stage, todo |-> x, seen |-> s.seen]
      /\ [s EXCEPT !.stage = x] = [stage |-> x, todo |-> s.todo, seen |-> s.seen]
      /\ s.seen \subseteq Keys
  BY <1>1
<1>3. job = s
  BY <1>1
<1> HIDE DEF s
<1> QED
  BY <1>2, <1>3, Zenon

\* What a stage finds are keys.
LEMMA ConditionsAreKeys ==
    ASSUME TelemetryInv, NEW stage \in {"nodes", "sims", "ues"}
    PROVE  KeysOf(stage) \subseteq Keys
<1>1. NodeKeys \subseteq Keys
  <2>1. ASSUME NEW n \in Nodes PROVE <<"node-down", n>> \in Keys
    BY DEF Keys
  <2>2. ASSUME NEW n \in Nodes, NEW b \in health[n].bad PROVE <<b, n>> \in Keys
    <3>1. b \in Complaints
      BY <2>2 DEF TelemetryInv, Reports
    <3> QED
      BY <3>1 DEF Keys
  <2> QED
    BY <2>1, <2>2 DEF NodeKeys
<1>2. SimKeys \subseteq Keys
  BY DEF SimKeys, Keys, TelemetryInv
<1>3. UeKeys \subseteq Keys
  BY DEF UeKeys, Keys
<1> QED
  BY <1>1, <1>2, <1>3 DEF KeysOf

\* A save changes nothing but the number of failures.
LEMMA SavesBound ==
    ASSUME NEW ok \in BOOLEAN, Saves(ok), failures \in 0 .. MaxFailures
    PROVE  failures' \in 0 .. MaxFailures /\ lives' = lives /\ changes' = changes
BY AlertsAssumption DEF Saves

\* Firing an alert keeps the log in order ...
LEMMA FireKeepsLog ==
    ASSUME LogInv, NEW k \in Keys, NEW ok \in BOOLEAN, FireAlertLocked(k, ok), Saves(ok)
    PROVE  LogInv'
<1>0. failures' \in 0 .. MaxFailures /\ lives' = lives /\ lives \in Nat
  BY SavesBound DEF LogInv
<1>1. CASE k \in fired
  BY <1>0, <1>1 DEF FireAlertLocked, LogInv, alertLog
<1>2. CASE k \notin fired
  <2>1. /\ fired' = fired \cup {k} /\ active' = [active EXCEPT ![k] = @ + 1]
        /\ alertsFile' = alertsFile \/ alertsFile' = active'
    BY <1>2 DEF FireAlertLocked
  <2>2. \A j \in Keys : active'[j] = IF j = k THEN active[j] + 1 ELSE active[j]
    BY <2>1 DEF LogInv
  <2>3. active' \in [Keys -> Nat]
    BY <2>1 DEF LogInv
  <2>4. \A j \in Keys : active'[j] <= lives
    BY <1>0, <1>2, <2>2 DEF LogInv
  <2> QED
    BY <1>0, <1>2, <2>1, <2>2, <2>3, <2>4 DEF LogInv
<1> QED
  BY <1>1, <1>2

\* ... and so does resolving one.
LEMMA ResolveKeepsLog ==
    ASSUME LogInv, NEW k \in Keys, NEW ok \in BOOLEAN, ResolveAlertLocked(k, ok), Saves(ok)
    PROVE  LogInv'
<1>0. failures' \in 0 .. MaxFailures /\ lives' = lives /\ lives \in Nat \ {0} /\ fired' = fired \ {k}
  BY SavesBound DEF LogInv, ResolveAlertLocked
<1>1. CASE active[k] = 0
  <2>1. active' = active /\ alertsFile' = alertsFile
    BY <1>1 DEF ResolveAlertLocked
  <2> QED
    BY <1>0, <1>1, <2>1 DEF LogInv
<1>2. CASE active[k] # 0
  <2>1. /\ active' = [active EXCEPT ![k] = @ - 1]
        /\ alertsFile' = alertsFile \/ alertsFile' = active'
    BY <1>2 DEF ResolveAlertLocked
  <2>2. \A j \in Keys : active'[j] = IF j = k THEN active[j] - 1 ELSE active[j]
    BY <2>1 DEF LogInv
  <2>3. active' \in [Keys -> Nat]
    BY <1>2, <2>1 DEF LogInv
  <2>4. \A j \in Keys : active'[j] <= lives
    BY <1>0, <2>2 DEF LogInv
  <2> QED
    BY <1>0, <1>2, <2>1, <2>2, <2>3, <2>4 DEF LogInv
<1> QED
  BY <1>1, <1>2

\* A stage of the evaluation begins with keys.
LEMMA EnterKeys ==
    ASSUME AlertsInv, NEW stage \in {"nodes", "sims", "ues"}, Enter(stage)
    PROVE  JobInv' /\ job'.stage = stage
<1>1. KeysOf(stage) \subseteq Keys
  BY ConditionsAreKeys DEF AlertsInv
<1>2. job.seen \subseteq Keys
  BY JobFields DEF AlertsInv
<1>3. job' = [stage |-> stage, todo |-> KeysOf(stage), seen |-> job.seen \cup KeysOf(stage)]
  BY DEF Enter
<1> QED
  BY <1>1, <1>2, <1>3 DEF JobInv, Evaluating

LEMMA EvaluationStep ==
    ASSUME AlertsInv, Evaluation
    PROVE  AlertsInv' /\ (job.stage \in Evaluating \/ job = Unlocked)
           /\ job'.stage \in Evaluating \cup {"idle"}
<1>0. TelemetryInv' /\ UNCHANGED <<telemetry, conditions>>
  BY DEF Evaluation, EvaluateAlerts, EvaluateFires, EvaluateGoesOn, EvaluateResolves, EvaluateEnds,
         telemetry, conditions, AlertsInv, TelemetryInv
<1>1. CASE EvaluateAlerts
  <2>1. JobInv' /\ job'.stage = "nodes"
    BY <1>1, EnterKeys DEF EvaluateAlerts
  <2>2. LogInv'
    BY <1>1 DEF EvaluateAlerts, alertLog, bounds, AlertsInv, LogInv
  <2> QED
    BY <1>0, <1>1, <2>1, <2>2 DEF AlertsInv, EvaluateAlerts, Evaluating
<1>2. CASE EvaluateFires \/ EvaluateResolves
  <2>1. PICK k \in job.todo, ok \in BOOLEAN :
           /\ FireAlertLocked(k, ok) \/ ResolveAlertLocked(k, ok)
           /\ Saves(ok)
           /\ job' = [job EXCEPT !.todo = job.todo \ {k}]
    BY <1>2 DEF EvaluateFires, EvaluateResolves
  <2>2. job.stage \in Evaluating /\ k \in Keys /\ job.todo \subseteq Keys
    BY <1>2, <2>1 DEF EvaluateFires, EvaluateResolves, Evaluating, AlertsInv, JobInv
  <2>3. LogInv'
    BY <2>1, <2>2, FireKeepsLog, ResolveKeepsLog DEF AlertsInv
  <2>4. job' = [stage |-> job.stage, todo |-> job.todo \ {k}, seen |-> job.seen] /\ job.seen \subseteq Keys
    BY <2>1, JobFields DEF AlertsInv
  <2>5. JobInv' /\ job'.stage = job.stage
    BY <2>2, <2>4 DEF JobInv
  <2> QED
    BY <1>0, <2>2, <2>3, <2>5 DEF AlertsInv
<1>3. CASE EvaluateGoesOn
  <2>1. LogInv' /\ job.stage \in Evaluating
    BY <1>3 DEF EvaluateGoesOn, alertLog, bounds, AlertsInv, LogInv, Evaluating
  <2>2. CASE Enter("sims") \/ Enter("ues")
    <3>1. JobInv' /\ job'.stage \in Evaluating
      BY <2>2, EnterKeys DEF Evaluating
    <3> QED
      BY <1>0, <2>1, <3>1 DEF AlertsInv
  <2>3. CASE job' = [stage |-> "resolve", todo |-> fired \ job.seen, seen |-> {}]
    <3>1. fired \ job.seen \subseteq Keys
      BY DEF AlertsInv, LogInv
    <3>2. JobInv' /\ job'.stage \in Evaluating
      BY <2>3, <3>1 DEF JobInv, Evaluating
    <3> QED
      BY <1>0, <2>1, <3>2 DEF AlertsInv
  <2> QED
    BY <1>3, <2>2, <2>3 DEF EvaluateGoesOn
<1>4. CASE EvaluateEnds
  <2>1. LogInv' /\ job.stage \in Evaluating /\ job' = Unlocked
    BY <1>4 DEF EvaluateEnds, alertLog, bounds, AlertsInv, LogInv, Evaluating
  <2>2. JobInv' /\ job'.stage = "idle"
    BY <2>1 DEF JobInv, Unlocked, Evaluating
  <2> QED
    BY <1>0, <2>1, <2>2 DEF AlertsInv
<1> QED
  BY <1>1, <1>2, <1>3, <1>4 DEF Evaluation

\* A step of the world around the evaluation: heartbeats, the clock, conditions.
LEMMA TelemetryStep ==
    ASSUME AlertsInv,
           \/ \E n \in Nodes : Beat(n)
           \/ BeatLost
           \/ \E h \in beats : Telemetry(h)
           \/ Tick
           \/ ConditionsChange
    PROVE  AlertsInv' /\ UNCHANGED <<alertLog, job>>
<1> USE AlertsAssumption DEF AlertsInv
<1>0. ASSUME UNCHANGED <<alertLog, job>>, lives' = lives, failures' \in 0 .. MaxFailures
      PROVE  JobInv' /\ LogInv'
  BY <1>0 DEF JobInv, LogInv, alertLog
<1>1. ASSUME NEW n \in Nodes, Beat(n) PROVE AlertsInv' /\ UNCHANGED <<alertLog, job>>
  <2>1. JobInv' /\ LogInv' /\ UNCHANGED <<alertLog, job>>
    BY <1>0, <1>1 DEF Beat, bounds, LogInv
  <2>2. PICK bad \in SUBSET Complaints : beats' = beats \cup {[node |-> n, ts |-> now, bad |-> bad]}
    BY <1>1 DEF Beat
  <2>3. [node |-> n, ts |-> now, bad |-> bad] \in Heartbeats
    BY <2>2 DEF Heartbeats, TelemetryInv
  <2>4. beats' \subseteq Heartbeats /\ \A h \in beats' : h.ts <= now
    BY <2>2, <2>3 DEF TelemetryInv
  <2>5. TelemetryInv'
    BY <1>1, <2>4 DEF Beat, conditions, TelemetryInv
  <2> QED
    BY <2>1, <2>5
<1>2. CASE BeatLost
  BY <1>0, <1>2 DEF BeatLost, bounds, LogInv, conditions, TelemetryInv
<1>3. ASSUME NEW h \in beats, Telemetry(h) PROVE AlertsInv' /\ UNCHANGED <<alertLog, job>>
  <2>1. PICK ok \in BOOLEAN : Saves(ok) /\ healthFile' = IF ok THEN health' ELSE healthFile
    BY <1>3 DEF Telemetry
  <2>2. failures' \in 0 .. MaxFailures /\ lives' = lives
    BY <2>1, SavesBound DEF LogInv
  <2>3. h.node \in Nodes /\ [ts |-> h.ts, bad |-> h.bad] \in Reports /\ h.ts <= now
    BY <1>3 DEF TelemetryInv, Heartbeats, Reports
  <2>4. health' \in [Nodes -> Reports] /\ \A n \in Nodes : health'[n].ts <= now
    BY <1>3, <2>3 DEF Telemetry, TelemetryInv
  <2>5. TelemetryInv'
    BY <1>3, <2>1, <2>4 DEF Telemetry, conditions, TelemetryInv
  <2> QED
    BY <1>0, <1>3, <2>2, <2>5 DEF Telemetry
<1>4. CASE Tick
  <2>1. now' \in 0 .. MaxTime /\ now' = now + 1
    BY <1>4 DEF Tick, TelemetryInv
  <2>2. TelemetryInv'
    <3>1. \A h \in beats : h.ts \in Nat
      BY DEF TelemetryInv, Heartbeats
    <3>2. \A n \in Nodes : health[n].ts \in Int /\ healthFile[n].ts \in Int
      BY DEF TelemetryInv, Reports
    <3> QED
      BY <1>4, <2>1, <3>1, <3>2 DEF Tick, conditions, TelemetryInv
  <2> QED
    BY <1>0, <1>4, <2>2 DEF Tick, bounds, LogInv
<1>5. CASE ConditionsChange
  <2>1. TelemetryInv'
    BY <1>5 DEF ConditionsChange, telemetry, TelemetryInv
  <2> QED
    BY <1>0, <1>5, <2>1 DEF ConditionsChange, LogInv
<1> QED
  BY <1>1, <1>2, <1>3, <1>4, <1>5

LEMMA AlertsRestartStep ==
    ASSUME AlertsInv, AlertsRestart
    PROVE  AlertsInv' /\ lives' = lives + 1 /\ job' = Unlocked
<1>1. /\ lives' = lives + 1 /\ lives' \in 1 .. MaxLives /\ fired' = {} /\ active' = alertsFile
      /\ job' = Unlocked /\ alertsFile' = alertsFile /\ failures' = failures
  BY AlertsAssumption DEF AlertsRestart, AlertsInv, LogInv
<1>2. LogInv'
  BY <1>1 DEF AlertsInv, LogInv
<1>3. JobInv'
  BY <1>1 DEF JobInv, Unlocked, Evaluating
<1>4. TelemetryInv'
  BY DEF AlertsRestart, conditions, AlertsInv, TelemetryInv
<1> QED
  BY <1>1, <1>2, <1>3, <1>4 DEF AlertsInv

LEMMA AlertsInitInv == AlertsInit => AlertsInv
<1> SUFFICES ASSUME AlertsInit PROVE AlertsInv
  OBVIOUS
<1>1. JobInv
  BY DEF AlertsInit, JobInv, Unlocked, Evaluating
<1>2. LogInv
  BY AlertsAssumption DEF AlertsInit, LogInv
<1>3. NoReport \in Reports /\ NoReport.ts <= 0
  BY AlertsAssumption DEF NoReport, Reports
<1>4. TelemetryInv
  <2>1. /\ health \in [Nodes -> Reports] /\ healthFile \in [Nodes -> Reports]
        /\ \A n \in Nodes : health[n].ts <= now /\ healthFile[n].ts <= now
    BY <1>3 DEF AlertsInit
  <2>2. now \in 0 .. MaxTime /\ beats = {} /\ nearing = {}
    BY AlertsAssumption DEF AlertsInit
  <2>3. crowded \in BOOLEAN
    BY DEF AlertsInit
  <2> QED
    BY <2>1, <2>2, <2>3, Zenon DEF TelemetryInv
<1> QED
  BY <1>1, <1>2, <1>4 DEF AlertsInv

\* What the alert engine alone keeps: the types of its state, and how many active
\* alerts a key has according to whether it has fired in this run.
THEOREM AlertsInvariant == AlertsSpec => []AlertsInv
<1>1. AlertsInv /\ [AlertsNext]_alertVars => AlertsInv'
  <2> SUFFICES ASSUME AlertsInv, [AlertsNext]_alertVars PROVE AlertsInv'
    OBVIOUS
  <2>1. CASE AlertsSteps
    BY <2>1, EvaluationStep, TelemetryStep DEF AlertsSteps
  <2>2. CASE AlertsRestart
    BY <2>2, AlertsRestartStep
  <2>3. CASE UNCHANGED alertVars
    BY <2>3 DEF alertVars, telemetry, conditions, alertLog, bounds, AlertsInv, JobInv, TelemetryInv, LogInv
  <2> QED
    BY <2>1, <2>2, <2>3 DEF AlertsNext
<1> QED
  BY <1>1, AlertsInitInv, PTL DEF AlertsSpec

\* A key is marked as fired only while an alert of that key is active, through
\* failed saves, restarts and the alerts of earlier runs: fireAlertLocked swallows
\* no new occurrence.
THEOREM FiredKeysActive == AlertsSpec => []FiredIsActive
<1>1. AlertsInv => FiredIsActive
  BY DEF AlertsInv, LogInv, FiredIsActive
<1> QED
  BY <1>1, AlertsInvariant, PTL

\* Every run of the process adds at most one active alert per key to the log, in
\* memory and on disk.
THEOREM AlertsBounded == AlertsSpec => []OneAlertPerRun
<1>1. AlertsInv => OneAlertPerRun
  BY DEF AlertsInv, LogInv, OneAlertPerRun
<1> QED
  BY <1>1, AlertsInvariant, PTL

-----------------------------------------------------------------------------
(* The metering source.                                                      *)

LEMMA LargerOfTwo ==
    ASSUME NEW a \in Int, NEW b \in Int
    PROVE  Max({a, b}) \in {a, b}
<1>1. \E x \in {a, b} : \A y \in {a, b} : x >= y
  OBVIOUS
<1> QED
  BY <1>1 DEF Max

\* A table that is polled is one of readings, none above what was metered.
LEMMA PolledTable ==
    ASSUME SourceInv, NEW table \in PollTables
    PROVE  table \in Readings /\ \A i \in Imsis : table[i] <= metered[i]
<1>0. /\ byIMSI \in Readings /\ record \in Readings /\ metered \in [Imsis -> Nat]
      /\ \A i \in Imsis : byIMSI[i] <= metered[i] /\ record[i] <= metered[i]
      /\ source \in {"upf", "live", "cdr"}
  BY SourceAssumption DEF SourceInv, SourceTypeOK
<1>1. Kept \in Readings /\ \A i \in Imsis : Kept[i] <= metered[i]
  BY <1>0 DEF Kept, Readings, Absent
<1>2. LiveSessions \in Readings /\ \A i \in Imsis : LiveSessions[i] <= metered[i]
  BY <1>0 DEF LiveSessions, Readings, Absent
<1>3. ASSUME NEW rs PROVE Merged(rs) \in Readings /\ \A i \in Imsis : Merged(rs)[i] <= metered[i]
  <2>1. AmfSessions \in Readings /\ \A i \in Imsis : AmfSessions[i] <= metered[i]
    BY <1>0 DEF AmfSessions, Readings, Absent
  <2>2. CdrSessions(rs) \in Readings /\ \A i \in Imsis : CdrSessions(rs)[i] <= metered[i]
    BY <1>0 DEF CdrSessions, Readings, Absent
  <2>3. \A i \in Imsis : Merged(rs)[i] \in {AmfSessions[i], CdrSessions(rs)[i]}
    <3> SUFFICES ASSUME NEW i \in Imsis PROVE Merged(rs)[i] \in {AmfSessions[i], CdrSessions(rs)[i]}
      OBVIOUS
    <3>1. AmfSessions[i] \in Int /\ CdrSessions(rs)[i] \in Int
      BY <2>1, <2>2 DEF Readings, Absent
    <3>2. Merged(rs)[i] = Max({AmfSessions[i], CdrSessions(rs)[i]})
      BY DEF Merged
    <3> QED
      BY <3>1, <3>2, LargerOfTwo
  <2>4. \A i \in Imsis : Merged(rs)[i] \in Nat \cup {Absent} /\ Merged(rs)[i] <= metered[i]
    BY <2>1, <2>2, <2>3 DEF Readings
  <2>5. Merged(rs) = [i \in Imsis |-> Merged(rs)[i]]
    BY DEF Merged
  <2> QED
    BY <2>4, <2>5 DEF Readings
<1>4. CASE source = "upf"
  BY <1>1, <1>4 DEF PollTables
<1>5. CASE source = "live"
  BY <1>2, <1>5 DEF PollTables
<1>6. CASE source = "cdr"
  <2>1. PICK rs : table = Merged(rs)
    BY <1>6 DEF PollTables
  <2> QED
    BY <1>3, <2>1
<1> QED
  BY <1>0, <1>4, <1>5, <1>6

\* A poll leaves the counters in order.
LEMMA PollStep ==
    ASSUME SourceInv, NEW table, Poll(table)
    PROVE  SourceInv' /\ metered' = metered
<1>1. Kept \in Readings /\ \A i \in Imsis : Kept[i] <= metered[i]
  BY DEF Kept, Readings, Absent, SourceInv, SourceTypeOK
<1>2. byIMSI' \in Readings /\ \A i \in Imsis : byIMSI'[i] <= metered[i]
  BY <1>1 DEF Poll, SourceInv, SourceTypeOK
<1> QED
  BY <1>2 DEF Poll, SourceInv, SourceTypeOK

LEMMA SourceStep ==
    ASSUME SourceInv, SourceSteps
    PROVE  SourceInv' /\ \A i \in Imsis : metered[i] <= metered'[i]
<1> DEFINE Goal == SourceInv' /\ \A i \in Imsis : metered[i] <= metered'[i]
<1>0. /\ tap \in {"off", "on", "ended"} /\ byTEID \in [Teids -> Imsis \cup {None}]
      /\ byIMSI \in [Imsis -> Nat \cup {-1}] /\ unknown \in Nat
      /\ registered \subseteq Imsis /\ record \in [Imsis -> Nat \cup {-1}]
      /\ carried \in 0 .. MaxBytes /\ forgotten \in Nat /\ metered \in [Imsis -> Nat]
      /\ source \in Sources
      /\ \A i \in Imsis : byIMSI[i] <= metered[i] /\ record[i] <= metered[i]
  BY DEF SourceInv, SourceTypeOK, Readings, Absent
<1>1. ASSUME NEW i \in Imsis, NEW ts \in SUBSET Teids, Learn(i, ts) PROVE Goal
  <2>1. byIMSI' \in [Imsis -> Nat \cup {-1}] /\ \A j \in Imsis : byIMSI'[j] <= metered[j]
    BY <1>0, <1>1 DEF Learn, Plus, Absent
  <2>2. byTEID' \in [Teids -> Imsis \cup {None}]
    BY <1>0, <1>1 DEF Learn
  <2> QED
    BY <1>0, <1>1, <2>1, <2>2 DEF Learn, coreVars, SourceInv, SourceTypeOK, Readings, Absent
<1>2. ASSUME NEW i \in Imsis, Forget(i) PROVE Goal
  <2>1. byTEID' \in [Teids -> Imsis \cup {None}]
    BY <1>0, <1>2 DEF Forget
  <2> QED
    BY <1>0, <1>2, <2>1 DEF Forget, coreVars, SourceInv, SourceTypeOK, Readings, Absent
<1>3. ASSUME NEW t \in Teids, Count(t) PROVE Goal
  <2>0. carried' \in 0 .. MaxBytes
    BY <1>0, <1>3, SourceAssumption DEF Count
  <2>1. CASE byTEID[t] = None /\ unknown' = unknown + 1 /\ UNCHANGED <<byIMSI, metered>>
    BY <1>0, <1>3, <2>0, <2>1 DEF Count, coreVars, SourceInv, SourceTypeOK, Readings, Absent
  <2>2. CASE /\ byTEID[t] # None
             /\ byIMSI' = [byIMSI EXCEPT ![byTEID[t]] = Plus(@, 1)]
             /\ metered' = [metered EXCEPT ![byTEID[t]] = @ + 1]
             /\ UNCHANGED unknown
    <3> DEFINE u == byTEID[t]
    <3>1. u \in Imsis
      BY <1>0, <2>2
    <3>2. metered' \in [Imsis -> Nat] /\ byIMSI' \in [Imsis -> Nat \cup {-1}]
      BY <1>0, <2>2, <3>1 DEF Plus, Absent
    <3>3. \A j \in Imsis : /\ metered'[j] = IF j = u THEN metered[j] + 1 ELSE metered[j]
                           /\ byIMSI'[j] = IF j = u THEN Plus(byIMSI[j], 1) ELSE byIMSI[j]
      BY <1>0, <2>2, <3>1
    <3>4. \A j \in Imsis : byIMSI'[j] <= metered'[j] /\ record[j] <= metered'[j] /\ metered[j] <= metered'[j]
      BY <1>0, <3>3 DEF Plus, Absent
    <3> QED
      BY <1>0, <1>3, <2>0, <2>2, <3>2, <3>4 DEF Count, coreVars, SourceInv, SourceTypeOK, Readings, Absent
  <2> QED
    BY <1>3, <2>1, <2>2 DEF Count
<1>4. CASE TapEnds \/ StartFails
  <2>1. tap' \in {"off", "on", "ended"}
    BY <1>4 DEF TapEnds, StartFails
  <2>2. UNCHANGED <<byTEID, byIMSI, unknown, forgotten, source, registered, record, carried, metered>>
    BY <1>4 DEF TapEnds, StartFails, coreVars
  <2> QED
    BY <1>0, <2>1, <2>2 DEF SourceInv, SourceTypeOK, Readings, Absent
<1>5. CASE CoreChanges
  <2>0. UNCHANGED <<source, tap, byTEID, byIMSI, unknown, forgotten>>
    BY <1>5 DEF CoreChanges, tapVars
  <2>1. PICK i \in Imsis :
          \/ /\ registered' \in {registered \cup {i}, registered \ {i}}
             /\ UNCHANGED <<record, mishaps, carried, metered>>
          \/ /\ source = "cdr" /\ carried < MaxBytes /\ carried' = carried + 1
             /\ record' = [record EXCEPT ![i] = Plus(@, 1)]
             /\ metered' = [metered EXCEPT ![i] = @ + 1]
             /\ UNCHANGED <<registered, mishaps>>
          \/ /\ source = "cdr" /\ mishaps < MaxMishaps /\ mishaps' = mishaps + 1
             /\ record' = [record EXCEPT ![i] = 0]
             /\ UNCHANGED <<registered, carried, metered>>
    BY <1>5 DEF CoreChanges
  <2>2. /\ record' \in [Imsis -> Nat \cup {-1}] /\ metered' \in [Imsis -> Nat] /\ carried' \in 0 .. MaxBytes
        /\ registered' \subseteq Imsis
    BY <1>0, <2>1, SourceAssumption DEF Plus, Absent
  <2>3. \A j \in Imsis : record'[j] <= metered'[j] /\ metered[j] <= metered'[j]
    BY <1>0, <2>1 DEF Plus, Absent
  <2>4. \A j \in Imsis : byIMSI[j] <= metered'[j]
    BY <1>0, <2>2, <2>3
  <2> QED
    BY <1>0, <2>0, <2>2, <2>3, <2>4 DEF SourceInv, SourceTypeOK, Readings, Absent
<1> QED
  BY <1>1, <1>2, <1>3, <1>4, <1>5 DEF SourceSteps

LEMMA SourceRestartStep ==
    ASSUME SourceInv, SourceRestart
    PROVE  SourceInv' /\ metered' = metered
<1>1. byIMSI' \in Readings /\ \A i \in Imsis : byIMSI'[i] <= metered[i]
  BY DEF SourceRestart, SourceInv, SourceTypeOK, NoReadings, Readings, Absent
<1>2. tap' \in {"off", "on", "ended"}
  BY DEF SourceRestart
<1>3. byTEID' \in [Teids -> Imsis \cup {None}] /\ forgotten' \in Nat /\ unknown' \in Nat
  BY SourceAssumption DEF SourceRestart, SourceInv, SourceTypeOK
<1> QED
  BY <1>1, <1>2, <1>3 DEF SourceRestart, coreVars, SourceInv, SourceTypeOK

-----------------------------------------------------------------------------
(* What may be charged.                                                      *)

LEMMA ProductGrows ==
    ASSUME NEW a \in Nat, NEW b \in Nat, NEW m \in Nat, NEW n \in Nat, a <= b, m <= n
    PROVE  a * m \in Nat /\ b * n \in Nat /\ a * m <= b * n
<1>1. a * m <= a * n /\ a * n <= b * n
  OBVIOUS
<1> QED
  BY <1>1

LEMMA CeilingTypes ==
    ASSUME NEW l \in Nat \ {0}, NEW d \in Nat, NEW m \in Nat, NEW r \in Nat, NEW u \in Nat
    PROVE  CeilingOf(l, d, m, r, u) \in Nat /\ FileCeilingOf(l, d, m, r) \in Nat
<1>1. (l - 1 + d) * m \in Nat /\ (l + d) * m \in Nat
  BY ProductGrows
<1> QED
  BY <1>1 DEF CeilingOf, FileCeilingOf

\* The ceiling rises with its parts; a fall of the reading, which is below the
\* bytes metered, is made up for by the bytes it adds.
LEMMA CeilingRises ==
    ASSUME NEW l \in Nat \ {0}, NEW d \in Nat, NEW m \in Nat, NEW r \in Nat, NEW u \in Nat,
           NEW e \in Nat, NEW n \in Nat, NEW q \in Nat, NEW v \in Nat,
           m <= n, r <= q, (d = e /\ u <= v) \/ (e = d + 1 /\ u <= m)
    PROVE  /\ CeilingOf(l, d, m, r, u) <= CeilingOf(l, e, n, q, v)
           /\ FileCeilingOf(l, d, m, r) <= FileCeilingOf(l, e, n, q)
<1>1. CASE d = e /\ u <= v
  <2>1. (l - 1 + d) * m <= (l - 1 + d) * n /\ (l - 1 + d) * m \in Nat
    BY ProductGrows
  <2>2. (l + d) * m <= (l + d) * n
    BY ProductGrows
  <2> QED
    BY <1>1, <2>1, <2>2 DEF CeilingOf, FileCeilingOf
<1>2. CASE e = d + 1 /\ u <= m
  <2>1. (l + d) * m = (l - 1 + d) * m + m /\ (l + d + 1) * m = (l + d) * m + m
    OBVIOUS
  <2>2. (l + d) * m <= (l + d) * n /\ (l - 1 + d) * m \in Nat /\ (l + d) * n \in Nat
    BY ProductGrows
  <2>3. (l + d) * m <= (l + d + 1) * n
    BY ProductGrows
  <2>4. l - 1 + e = l + d /\ l + e = l + d + 1
    BY <1>2
  <2> QED
    BY <1>2, <2>1, <2>2, <2>3, <2>4 DEF CeilingOf, FileCeilingOf
<1> QED
  BY <1>1, <1>2

\* What may have been charged by now may be in the file.
LEMMA CeilingBelowFile ==
    ASSUME NEW l \in Nat \ {0}, NEW d \in Nat, NEW m \in Nat, NEW r \in Nat, NEW u \in Nat, u <= m
    PROVE  /\ CeilingOf(l, d, m, r, u) <= FileCeilingOf(l, d, m, r)
           /\ FileCeilingOf(l, d, m, r) = CeilingOf(l + 1, d, m, r, 0)
<1>1. (l + d) * m = (l - 1 + d) * m + m
  OBVIOUS
<1>2. (l - 1 + d) * m \in Nat
  BY ProductGrows
<1> QED
  BY <1>1, <1>2 DEF CeilingOf, FileCeilingOf

\* Within a run the ceiling of a SIM never sinks.
LEMMA CeilingKept ==
    ASSUME FairUseInv, NEW i \in Sims, lives' = lives,
           metered'[i] \in Nat, dips'[i] \in Nat, reconciled'[i] \in Nat, lastUsage'[i] \in Nat,
           metered[i] <= metered'[i], reconciled[i] <= reconciled'[i],
           \/ dips'[i] = dips[i] /\ lastUsage[i] <= lastUsage'[i]
           \/ dips'[i] = dips[i] + 1
    PROVE  /\ Ceiling(i)' \in Nat /\ Ceiling(i) <= Ceiling(i)'
           /\ FileCeiling(i)' \in Nat /\ FileCeiling(i) <= FileCeiling(i)'
<1>1. /\ lives \in Nat \ {0} /\ dips[i] \in Nat /\ metered[i] \in Nat /\ reconciled[i] \in Nat
      /\ lastUsage[i] \in Nat /\ lastUsage[i] <= metered[i]
  BY FairUseAssumption
  DEF FairUseInv, AlertsInv, LogInv, SourceInv, SourceTypeOK, MeterInv, ReadingInv
<1>2. /\ Ceiling(i) \in Nat
      /\ Ceiling(i) <= CeilingOf(lives, dips'[i], metered'[i], reconciled'[i], lastUsage'[i])
      /\ FileCeiling(i) <= FileCeilingOf(lives, dips'[i], metered'[i], reconciled'[i])
  BY <1>1, CeilingRises, CeilingTypes DEF Ceiling, FileCeiling
<1>3. /\ CeilingOf(lives, dips'[i], metered'[i], reconciled'[i], lastUsage'[i]) \in Nat
      /\ FileCeilingOf(lives, dips'[i], metered'[i], reconciled'[i]) \in Nat
  BY <1>1, CeilingTypes
<1> QED
  BY <1>2, <1>3 DEF Ceiling, FileCeiling

\* The ceilings of a state.
LEMMA CeilingNow ==
    ASSUME FairUseInv, NEW i \in Sims
    PROVE  /\ Ceiling(i) \in Nat /\ FileCeiling(i) \in Nat /\ Ceiling(i) <= FileCeiling(i)
           /\ BytesOf(i) \in Nat /\ usage[i].bytes <= BytesOf(i)
<1>1. /\ lives \in Nat \ {0} /\ dips[i] \in Nat /\ metered[i] \in Nat /\ reconciled[i] \in Nat
      /\ lastUsage[i] \in Nat /\ lastUsage[i] <= metered[i] /\ usage[i] \in Usages
  BY FairUseAssumption
  DEF FairUseInv, AlertsInv, LogInv, SourceInv, SourceTypeOK, MeterInv, ReadingInv
<1>2. Ceiling(i) <= FileCeiling(i)
  BY <1>1, CeilingBelowFile DEF Ceiling, FileCeiling
<1>3. Ceiling(i) \in Nat /\ FileCeiling(i) \in Nat
  BY <1>1, CeilingTypes DEF Ceiling, FileCeiling
<1>4. BytesOf(i) \in Nat /\ usage[i].bytes <= BytesOf(i)
  BY <1>1 DEF BytesOf, Plus, Usages, Absent
<1> QED
  BY <1>2, <1>3, <1>4

\* A step of this run that writes no usage record; a writer that starts has read it.
LEMMA ChargeKept ==
    ASSUME FairUseInv, lives' = lives, UNCHANGED <<usage, usageFile>>,
           \A i \in Sims :
              /\ metered'[i] \in Nat /\ dips'[i] \in Nat /\ reconciled'[i] \in Nat /\ lastUsage'[i] \in Nat
              /\ metered[i] <= metered'[i] /\ reconciled[i] <= reconciled'[i]
              /\ \/ dips'[i] = dips[i] /\ lastUsage[i] <= lastUsage'[i]
                 \/ dips'[i] = dips[i] + 1,
           job'.stage = "add" =>
              \/ job.stage = "add" /\ fold' = fold
              \/ fold'.base + fold'.delta <= Ceiling(fold.imsi)',
           \A p \in Clients : req'[p].at = "reconcile" =>
              \/ req'[p] = req[p]
              \/ \E i \in Sims : req'[p].imsi = i /\ req'[p].base = BytesOf(i)
    PROVE  ChargeInv'
<1>1. ASSUME NEW i \in Sims
      PROVE  /\ Ceiling(i) \in Nat /\ Ceiling(i)' \in Nat /\ Ceiling(i) <= Ceiling(i)'
             /\ FileCeiling(i) \in Nat /\ FileCeiling(i)' \in Nat /\ FileCeiling(i) <= FileCeiling(i)'
             /\ BytesOf(i) \in Nat /\ BytesOf(i)' = BytesOf(i)
             /\ usageFile[i].bytes \in Int
  <2>1. BytesOf(i)' = BytesOf(i)
    BY DEF BytesOf
  <2>2. usageFile[i].bytes \in Int
    BY DEF FairUseInv, MeterInv, Usages, Absent
  <2> QED
    BY <2>1, <2>2, CeilingKept, CeilingNow
<1>2. \A i \in Sims : BytesOf(i)' <= Ceiling(i)' /\ usageFile'[i].bytes <= FileCeiling(i)'
  <2> SUFFICES ASSUME NEW i \in Sims PROVE BytesOf(i)' <= Ceiling(i)' /\ usageFile'[i].bytes <= FileCeiling(i)'
    OBVIOUS
  <2>1. BytesOf(i) <= Ceiling(i) /\ usageFile[i].bytes <= FileCeiling(i)
    BY DEF FairUseInv, ChargeInv
  <2> QED
    BY <1>1, <2>1
<1>3. job'.stage = "add" => fold'.base + fold'.delta <= Ceiling(fold.imsi)'
  <2> SUFFICES ASSUME job.stage = "add", fold' = fold PROVE fold.base + fold.delta <= Ceiling(fold.imsi)'
    OBVIOUS
  <2>1. fold.imsi \in Sims /\ fold.base + fold.delta \in Nat /\ fold.base + fold.delta <= Ceiling(fold.imsi)
    BY DEF FairUseInv, FoldInv, ChargeInv
  <2> QED
    BY <1>1, <2>1
<1>4. ASSUME NEW p \in Clients, req'[p].at = "reconcile"
      PROVE  req'[p].base <= Ceiling(req[p].imsi)'
  <2>1. CASE req'[p] = req[p]
    <3>1. req[p].imsi \in Sims /\ req[p].base \in Nat /\ req[p].base <= Ceiling(req[p].imsi)
      BY <1>4, <2>1 DEF FairUseInv, MeterInv, Requests, ChargeInv
    <3> QED
      BY <1>1, <2>1, <3>1
  <2>2. ASSUME NEW i \in Sims, req'[p].imsi = i, req'[p].base = BytesOf(i)
        PROVE  req'[p].base <= Ceiling(req[p].imsi)'
    <3>1. BytesOf(i) <= Ceiling(i)'
      BY <1>1, <1>2
    <3>2. Ceiling(i)' = Ceiling(req[p].imsi)'
      BY <2>2 DEF Ceiling
    <3> QED
      BY <2>2, <3>1, <3>2
  <2> QED
    BY <1>4, <2>1, <2>2
<1> QED
  BY <1>2, <1>3, <1>4 DEF ChargeInv

-----------------------------------------------------------------------------
(* Steps beside the fold.                                                    *)

\* The same of the other two properties.
LEMMA ReadKept ==
    ASSUME ReadIsCharged, UNCHANGED <<usage, lastUsage, raced, fold>>,
           job'.stage = "add" <=> job.stage = "add"
    PROVE  ReadIsCharged'
BY DEF ReadIsCharged, BytesOf

LEMMA QuotaKept ==
    ASSUME QuotaInv, UNCHANGED <<usage, fold>>, excused \subseteq excused',
           \A i \in Sims : sim'[i].usable => sim[i].usable \/ i \in excused',
           job'.stage = "enforce" <=> job.stage = "enforce"
    PROVE  QuotaInv'
BY DEF QuotaInv

LEMMA SourceOnly ==
    ASSUME FairUseInv, SourceSteps, UNCHANGED <<alertVars, meterVars>>
    PROVE  FairUseInv'
<1> USE DEF FairUseInv
<1>0. /\ UNCHANGED <<sessions, sessionsFile, lastUsage, usage, usageFile, sim, simFile, fold, req>>
      /\ UNCHANGED <<reconciled, dips, raced, excused, requests>>
      /\ UNCHANGED <<now, beats, health, healthFile, nearing, crowded, fired, active, alertsFile, job>>
      /\ UNCHANGED <<changes, lives, failures>>
  BY DEF meterVars, tables, ghosts, alertVars, telemetry, conditions, alertLog, bounds
<1>1. SourceInv' /\ \A i \in Imsis : metered[i] <= metered'[i]
  BY SourceStep
<1>2. AlertsInv'
  BY <1>0 DEF AlertsInv, JobInv, TelemetryInv, LogInv
<1>3. MeterInv' /\ FoldInv'
  BY <1>0 DEF MeterInv, FoldInv
<1>4. metered \in [Imsis -> Nat] /\ metered' \in [Imsis -> Nat]
  BY <1>1 DEF SourceInv, SourceTypeOK
<1>5. ReadingInv'
  <2>1. \A i \in Imsis : sessions[i] \in Int /\ sessionsFile[i] \in Int /\ lastUsage[i] \in Int
    BY DEF ReadingInv, Readings, Absent
  <2> QED
    BY <1>0, <1>1, <1>4, <2>1 DEF ReadingInv
<1>6. ChargeInv'
  <2>1. \A i \in Sims :
           /\ metered'[i] \in Nat /\ dips'[i] \in Nat /\ reconciled'[i] \in Nat /\ lastUsage'[i] \in Nat
           /\ metered[i] <= metered'[i] /\ reconciled[i] <= reconciled'[i]
           /\ dips'[i] = dips[i] /\ lastUsage[i] <= lastUsage'[i]
    BY <1>0, <1>1, <1>4, FairUseAssumption DEF MeterInv, ReadingInv
  <2> QED
    BY <1>0, <2>1, ChargeKept
<1>7. ReadIsCharged' /\ QuotaInv'
  BY <1>0, ReadKept, QuotaKept
<1> QED
  BY <1>1, <1>2, <1>3, <1>5, <1>6, <1>7

\* A step that leaves the source, the readings and the usage records alone.
LEMMA BesideFold ==
    ASSUME FairUseInv, UNCHANGED sourceVars, lives' = lives,
           UNCHANGED <<sessions, sessionsFile, lastUsage, usage, usageFile, reconciled, dips, raced, fold>>,
           AlertsInv', MeterInv',
           \A st \in {"add", "enforce"} : job'.stage = st <=> job.stage = st,
           job'.stage \in Accounts => job'.todo \subseteq {i \in Imsis : sessions[i] # Absent},
           excused \subseteq excused',
           \A i \in Sims : sim'[i].usable => sim[i].usable \/ i \in excused',
           \A p \in Clients : req'[p].at = "reconcile" =>
              \/ req'[p] = req[p]
              \/ \E i \in Sims : req'[p].imsi = i /\ req'[p].base = BytesOf(i)
    PROVE  FairUseInv'
<1> USE DEF FairUseInv
<1>1. /\ UNCHANGED <<tap, byTEID, byIMSI, unknown, forgotten, source, registered, record>>
      /\ UNCHANGED <<mishaps, carried, metered>>
  BY DEF sourceVars, tapVars, coreVars
<1>2. SourceInv' /\ ReadingInv'
  BY <1>1 DEF SourceInv, SourceTypeOK, ReadingInv
<1>3. FoldInv'
  BY DEF FoldInv
<1>4. ChargeInv'
  <2>1. \A i \in Sims :
           /\ metered'[i] \in Nat /\ dips'[i] \in Nat /\ reconciled'[i] \in Nat /\ lastUsage'[i] \in Nat
           /\ metered[i] <= metered'[i] /\ reconciled[i] <= reconciled'[i]
           /\ dips'[i] = dips[i] /\ lastUsage[i] <= lastUsage'[i]
    BY <1>1, <1>2, FairUseAssumption DEF MeterInv, ReadingInv, SourceInv, SourceTypeOK
  <2> QED
    BY <2>1, ChargeKept
<1>5. ReadIsCharged' /\ QuotaInv'
  BY ReadKept, QuotaKept
<1> QED
  BY <1>2, <1>3, <1>4, <1>5

LEMMA AlertsOnly ==
    ASSUME FairUseInv, AlertsSteps, UNCHANGED <<sourceVars, meterVars>>
    PROVE  FairUseInv'
<1> USE DEF FairUseInv
<1>0. /\ UNCHANGED <<sessions, sessionsFile, lastUsage, usage, usageFile, sim, simFile, fold, req>>
      /\ UNCHANGED <<reconciled, dips, raced, excused, requests>>
  BY DEF meterVars, tables, ghosts
<1>1. MeterInv'
  BY <1>0 DEF MeterInv
<1>2. CASE Evaluation
  <2>1. /\ AlertsInv' /\ lives' = lives
        /\ job.stage \notin Accounts /\ job'.stage \notin Accounts
    <3>1. AlertsInv' /\ job.stage \in Evaluating \cup {"idle"} /\ job'.stage \in Evaluating \cup {"idle"}
      BY <1>2, EvaluationStep DEF Unlocked
    <3>2. lives' = lives
      BY <1>2 DEF Evaluation, EvaluateAlerts, EvaluateFires, EvaluateGoesOn, EvaluateResolves, EvaluateEnds,
                  Saves, bounds
    <3> QED
      BY <3>1, <3>2 DEF Evaluating, Accounts
  <2>2. \A st \in {"add", "enforce"} : job'.stage = st <=> job.stage = st
    BY <2>1 DEF Accounts
  <2> QED
    BY <1>0, <1>1, <2>1, <2>2, BesideFold
<1>3. CASE ~Evaluation
  <2>1. AlertsInv' /\ job' = job
    BY <1>3, TelemetryStep DEF AlertsSteps
  <2>2. lives' = lives
    BY <1>3 DEF AlertsSteps, Beat, BeatLost, Telemetry, Tick, ConditionsChange, Saves, bounds
  <2>3. job.stage \in Accounts => job.todo \subseteq {i \in Imsis : sessions[i] # Absent}
    BY DEF FoldInv
  <2> QED
    BY <1>0, <1>1, <2>1, <2>2, <2>3, BesideFold
<1> QED
  BY <1>2, <1>3

LEMMA CollectStep ==
    ASSUME FairUseInv, CollectOnce
    PROVE  FairUseInv'
<1> USE DEF FairUseInv
<1>0. /\ job = Unlocked /\ job' = job
      /\ UNCHANGED <<now, beats, health, healthFile, nearing, crowded, fired, active, alertsFile>>
      /\ UNCHANGED <<lastUsage, usage, usageFile, sim, fold, req, reconciled, dips, raced, excused, requests>>
  BY DEF CollectOnce, telemetry, conditions, alertLog, ghosts
<1>1. PICK table \in PollTables, ok \in BOOLEAN :
         /\ Poll(table) /\ Saves(ok)
         /\ sessions' = table /\ sessionsFile' = IF ok THEN table ELSE sessionsFile
         /\ simFile' = simFile \/ simFile' = sim
  BY DEF CollectOnce
<1>2. SourceInv' /\ metered' = metered
  BY <1>1, PollStep
<1>3. failures' \in 0 .. MaxFailures /\ lives' = lives
  BY <1>1, SavesBound DEF AlertsInv, LogInv
<1>4. AlertsInv'
  BY <1>0, <1>3 DEF AlertsInv, JobInv, TelemetryInv, LogInv
<1>5. MeterInv' /\ FoldInv'
  BY <1>0, <1>1 DEF MeterInv, FoldInv, Unlocked, Accounts
<1>6. table \in Readings /\ \A i \in Imsis : table[i] <= metered[i]
  BY PolledTable
<1>7. ReadingInv'
  BY <1>0, <1>1, <1>2, <1>6 DEF ReadingInv
<1>8. ChargeInv'
  <2>1. \A i \in Sims :
           /\ metered'[i] \in Nat /\ dips'[i] \in Nat /\ reconciled'[i] \in Nat /\ lastUsage'[i] \in Nat
           /\ metered[i] <= metered'[i] /\ reconciled[i] <= reconciled'[i]
           /\ dips'[i] = dips[i] /\ lastUsage[i] <= lastUsage'[i]
    BY <1>0, <1>2, FairUseAssumption DEF MeterInv, ReadingInv, SourceInv, SourceTypeOK
  <2> QED
    BY <1>0, <1>3, <2>1, ChargeKept
<1>9. ReadIsCharged' /\ QuotaInv'
  BY <1>0, ReadKept, QuotaKept
<1> QED
  BY <1>2, <1>4, <1>5, <1>7, <1>8, <1>9

\* The round of the fold begins, and ends.
LEMMA RoundStep ==
    ASSUME FairUseInv, AccumulateUsage \/ FoldEnds
    PROVE  FairUseInv'
<1> USE DEF FairUseInv
<1>0. /\ UNCHANGED <<now, beats, health, healthFile, nearing, crowded, fired, active, alertsFile>>
      /\ UNCHANGED <<changes, lives, failures, sourceVars>>
      /\ UNCHANGED <<sessions, sessionsFile, lastUsage, usage, usageFile, sim, simFile, fold, req>>
      /\ UNCHANGED <<reconciled, dips, raced, excused, requests>>
  BY DEF AccumulateUsage, FoldEnds, telemetry, conditions, alertLog, bounds, meterVars, tables, ghosts
<1>1. /\ \E st \in {"idle", "fold"}, todo \in SUBSET {i \in Imsis : sessions[i] # Absent} :
            job' = [stage |-> st, todo |-> todo, seen |-> {}]
      /\ job.stage \in {"idle", "fold"}
  BY DEF AccumulateUsage, FoldEnds, Unlocked
<1>2. PICK st \in {"idle", "fold"}, todo \in SUBSET {i \in Imsis : sessions[i] # Absent} :
            job' = [stage |-> st, todo |-> todo, seen |-> {}]
  BY <1>1
<1>3. /\ JobInv' /\ job'.stage \in {"idle", "fold"}
      /\ job'.todo \subseteq {i \in Imsis : sessions[i] # Absent}
  <2>1. /\ job'.stage = st /\ job'.todo = todo /\ todo \in SUBSET (Keys \cup Imsis)
        /\ st \in {"idle"} \cup Evaluating \cup Accounts /\ st \notin Evaluating
    BY <1>2 DEF Evaluating, Accounts
  <2>2. JobInv'
    BY <1>2, <2>1 DEF JobInv
  <2> QED
    BY <2>1, <2>2
<1>4. AlertsInv'
  BY <1>0, <1>3 DEF AlertsInv, TelemetryInv, LogInv
<1>5. MeterInv'
  BY <1>0 DEF MeterInv
<1>6. \A x \in {"add", "enforce"} : job'.stage = x <=> job.stage = x
  BY <1>1, <1>3
<1> QED
  BY <1>0, <1>3, <1>4, <1>5, <1>6, BesideFold

\* A SIM's record with one field changed.
LEMMA SimFields ==
    ASSUME NEW r \in SimRecords, NEW x
    PROVE  /\ [r EXCEPT !.usable = x] = [usable |-> x, quota |-> r.quota]
           /\ [r EXCEPT !.quota = x] = [usable |-> r.usable, quota |-> x]
<1>1. PICK a, b : r = [usable |-> a, quota |-> b]
  BY DEF SimRecords
<1> DEFINE s == [usable |-> a, quota |-> b]
<1>2. /\ [s EXCEPT !.usable = x] = [usable |-> x, quota |-> s.quota]
      /\ [s EXCEPT !.quota = x] = [usable |-> s.usable, quota |-> x]
  OBVIOUS
<1>3. r = s
  BY <1>1
<1> HIDE DEF s
<1> QED
  BY <1>2, <1>3, Zenon

\* A request begins: nothing but the ledger changes, and the SIM is excused.
LEMMA BeginStep ==
    ASSUME FairUseInv, NEW p \in Clients, NEW i \in Sims,
           Reconcile(p, i) \/ SetQuota(p, i) \/ Resume(p, i)
    PROVE  FairUseInv'
<1> USE DEF FairUseInv
<1>0. /\ UNCHANGED <<now, beats, health, healthFile, nearing, crowded, fired, active, alertsFile, job>>
      /\ UNCHANGED <<lives, sourceVars>>
      /\ UNCHANGED <<sessions, sessionsFile, lastUsage, usage, usageFile, fold>>
      /\ UNCHANGED <<reconciled, dips, raced>>
      /\ excused' = excused \cup {i} /\ requests < MaxRequests /\ requests' = requests + 1
  BY DEF Reconcile, SetQuota, Resume, Begin, Saves, alertVars, telemetry,
         conditions, alertLog, bounds, tables
<1>1. failures' \in 0 .. MaxFailures
  BY SavesBound DEF AlertsInv, LogInv, Reconcile, SetQuota, Resume, alertVars, bounds
<1>2. AlertsInv'
  BY <1>0, <1>1 DEF AlertsInv, JobInv, TelemetryInv, LogInv
<1>3. sim[i] \in SimRecords
  BY DEF MeterInv
<1>4. /\ sim' \in [Sims -> SimRecords] /\ simFile' \in [Sims -> SimRecords]
      /\ \A j \in Sims \ {i} : sim'[j] = sim[j]
  <2>1. CASE Reconcile(p, i)
    BY <2>1 DEF Reconcile, tables, MeterInv
  <2>2. CASE SetQuota(p, i)
    <3>1. PICK q \in Quotas, ok \in BOOLEAN : UpsertSIM(i, [sim[i] EXCEPT !.quota = q], ok)
      BY <2>2 DEF SetQuota
    <3>2. UpsertSIM(i, [usable |-> sim[i].usable, quota |-> q], ok)
      BY <1>3, <3>1, SimFields
    <3>3. [usable |-> sim[i].usable, quota |-> q] \in SimRecords
      BY <1>3, FairUseAssumption DEF SimRecords
    <3> QED
      BY <3>2, <3>3 DEF UpsertSIM, MeterInv
  <2>3. CASE Resume(p, i)
    <3>1. PICK ok \in BOOLEAN : UpsertSIM(i, [sim[i] EXCEPT !.usable = TRUE], ok)
      BY <2>3 DEF Resume
    <3>2. UpsertSIM(i, [usable |-> TRUE, quota |-> sim[i].quota], ok)
      BY <1>3, <3>1, SimFields
    <3>3. [usable |-> TRUE, quota |-> sim[i].quota] \in SimRecords
      BY <1>3 DEF SimRecords
    <3> QED
      BY <3>2, <3>3 DEF UpsertSIM, MeterInv
  <2> QED
    BY <2>1, <2>2, <2>3
<1>5. PICK r : /\ r \in Requests /\ (r.imsi \in Sims \/ r.at = "idle")
               /\ r.at = "reconcile" => r.imsi = i /\ r.base = BytesOf(i)
               /\ req' = [req EXCEPT ![p] = r] 
  <2>1. CASE Reconcile(p, i)
    <3>1. PICK n \in Corrections :
             req' = [req EXCEPT ![p] = [at |-> "reconcile", imsi |-> i, base |-> BytesOf(i), n |-> n]]
      BY <2>1 DEF Reconcile
    <3>2. [at |-> "reconcile", imsi |-> i, base |-> BytesOf(i), n |-> n] \in Requests
      BY CeilingNow, FairUseAssumption DEF Requests
    <3> QED
      BY <3>1, <3>2
  <2>2. CASE SetQuota(p, i) /\ req' # req
    <3>1. PICK q \in Quotas :
             req' = [req EXCEPT ![p] = [at |-> "quota", imsi |-> i, base |-> 0, n |-> q]]
      BY <2>2 DEF SetQuota
    <3>2. [at |-> "quota", imsi |-> i, base |-> 0, n |-> q] \in Requests
      BY FairUseAssumption DEF Requests
    <3> QED
      BY <3>1, <3>2
  <2>3. CASE req' = req
    <3>1. req[p] = Idle /\ req[p] \in Requests /\ Idle.at = "idle"
      BY DEF MeterInv, Reconcile, SetQuota, Resume, Begin, Idle
    <3>2. req' = [req EXCEPT ![p] = req[p]]
      BY <2>3 DEF MeterInv
    <3> QED
      BY <3>1, <3>2
  <2> QED
    BY <2>1, <2>2, <2>3 DEF Resume
<1>6. req' \in [Clients -> Requests] /\ \A q \in Clients : req'[q] = IF q = p THEN r ELSE req[q]
  BY <1>5 DEF MeterInv
<1>7. MeterInv'
  <2>1. requests' \in 0 .. MaxRequests
    BY <1>0, FairUseAssumption DEF MeterInv
  <2> QED
    BY <1>0, <1>4, <1>5, <1>6, <2>1 DEF MeterInv
<1>8. job.stage \in Accounts => job.todo \subseteq {j \in Imsis : sessions[j] # Absent}
  BY DEF FoldInv
<1>9. \A j \in Sims : sim'[j].usable => sim[j].usable \/ j \in excused'
  BY <1>0, <1>4
<1>10. \A q \in Clients : req'[q].at = "reconcile" =>
          \/ req'[q] = req[q]
          \/ \E j \in Sims : req'[q].imsi = j /\ req'[q].base = BytesOf(j)
  BY <1>5, <1>6
<1> QED
  BY <1>0, <1>2, <1>7, <1>8, <1>9, <1>10, BesideFold

-----------------------------------------------------------------------------
(* The fold.                                                                 *)

\* What the steps of the fold leave alone.
LEMMA FoldFrame ==
    ASSUME FairUseInv, Accounting
    PROVE  /\ SourceInv' /\ TelemetryInv' /\ lives' = lives /\ metered' = metered
           /\ UNCHANGED <<sessions, sessionsFile, req, reconciled, requests>>
<1>1. /\ UNCHANGED sourceVars /\ UNCHANGED telemetry /\ UNCHANGED conditions /\ lives' = lives
      /\ UNCHANGED <<sessions, sessionsFile, req, reconciled, requests>>
  BY DEF Accounting, AccumulateUsage, Folding, FoldReads, FoldAdds, EnforceQuota, FoldEnds, Saves, bounds,
         meterVars, tables, ghosts
<1>2. /\ UNCHANGED <<tap, byTEID, byIMSI, unknown, forgotten, source, registered, record>>
      /\ UNCHANGED <<mishaps, carried, metered>>
  BY <1>1 DEF sourceVars, tapVars, coreVars
<1>3. SourceInv'
  BY <1>2 DEF FairUseInv, SourceInv, SourceTypeOK
<1>4. UNCHANGED <<now, beats, health, healthFile, nearing, crowded>>
  BY <1>1 DEF telemetry, conditions
<1>5. TelemetryInv'
  BY <1>4 DEF FairUseInv, AlertsInv, TelemetryInv
<1> QED
  BY <1>1, <1>2, <1>3, <1>5

\* A reading is taken: the ceiling rises by what it has grown, or by what the
\* counter had when it fell.
LEMMA ReadStep ==
    ASSUME FairUseInv, NEW i \in Imsis, FoldReads(i)
    PROVE  FairUseInv'
<1> USE DEF FairUseInv
<1>0. /\ SourceInv' /\ TelemetryInv' /\ lives' = lives /\ metered' = metered
      /\ UNCHANGED <<sessions, sessionsFile, req, reconciled, requests>>
  BY FoldFrame DEF Accounting, Folding
<1>1. /\ UNCHANGED <<fired, active, alertsFile, failures, usage, usageFile, sim, simFile, raced, excused>>
      /\ job.stage = "fold" /\ i \in job.todo
      /\ lastUsage' = [lastUsage EXCEPT ![i] = sessions[i]]
      /\ dips' = [dips EXCEPT ![i] = IF sessions[i] < lastUsage[i] THEN @ + 1 ELSE @]
  BY DEF FoldReads, alertLog, bounds, tables
<1>2. LogInv'
  BY <1>0, <1>1 DEF AlertsInv, LogInv
<1>3. /\ sessions[i] \in Nat /\ sessions[i] <= metered[i] /\ lastUsage[i] \in Nat /\ dips[i] \in Nat
      /\ job.todo \subseteq {j \in Imsis : sessions[j] # Absent} /\ fold = NoFold
  <2>1. job.stage \in Accounts /\ job.stage \notin {"add", "enforce"}
    BY <1>1 DEF Accounts
  <2>2. job.todo \subseteq {j \in Imsis : sessions[j] # Absent} /\ fold = NoFold
    BY <2>1 DEF FoldInv
  <2> QED
    BY <1>1, <2>2 DEF ReadingInv, Readings, MeterInv
<1>4. ReadingInv' /\ MeterInv'
  BY <1>0, <1>1, <1>3 DEF ReadingInv, MeterInv
<1>5. \A j \in Sims :
         /\ metered'[j] \in Nat /\ dips'[j] \in Nat /\ reconciled'[j] \in Nat /\ lastUsage'[j] \in Nat
         /\ metered[j] <= metered'[j] /\ reconciled[j] <= reconciled'[j]
         /\ \/ dips'[j] = dips[j] /\ lastUsage[j] <= lastUsage'[j]
            \/ dips'[j] = dips[j] + 1
  <2>1. /\ metered \in [Imsis -> Nat] /\ reconciled \in [Sims -> Nat] /\ dips \in [Imsis -> Nat]
        /\ lastUsage \in [Imsis -> Nat] /\ Sims \subseteq Imsis
    BY FairUseAssumption DEF SourceInv, SourceTypeOK, MeterInv, ReadingInv
  <2> QED
    BY <1>0, <1>1, <1>3, <2>1
<1>6. \A p \in Clients : req'[p] = req[p]
  BY <1>0
<1>7. job.seen \subseteq Keys
  BY JobFields DEF AlertsInv
<1>8. CASE /\ Delta(i) = 0 \/ i \notin Sims
           /\ job' = [job EXCEPT !.todo = job.todo \ {i}]
           /\ fold' = fold
  <2>1. job' = [stage |-> "fold", todo |-> job.todo \ {i}, seen |-> job.seen]
    BY <1>1, <1>8, JobFields DEF AlertsInv
  <2>2. /\ JobInv' /\ job'.stage = "fold" /\ job'.todo \subseteq {j \in Imsis : sessions[j] # Absent}
    BY <1>3, <1>7, <2>1 DEF JobInv, Evaluating, Accounts
  <2>3. AlertsInv' /\ FoldInv'
    BY <1>0, <1>2, <1>3, <1>8, <2>2 DEF AlertsInv, FoldInv
  <2>4. ChargeInv'
    BY <1>0, <1>1, <1>5, <1>6, <2>2, ChargeKept
  <2>5. ReadIsCharged'
    <3> SUFFICES ASSUME NEW j \in Sims \ raced PROVE lastUsage'[j] <= BytesOf(j)' + 0
      BY <1>1, <2>2 DEF ReadIsCharged, BytesOf
    <3>1. lastUsage[j] <= BytesOf(j) /\ BytesOf(j)' = BytesOf(j) /\ BytesOf(j) \in Nat
      BY <1>1, CeilingNow DEF ReadIsCharged, BytesOf
    <3>2. lastUsage'[j] <= lastUsage[j] /\ lastUsage'[j] \in Nat /\ lastUsage[j] \in Nat
      BY <1>1, <1>3, <1>8, FairUseAssumption DEF Delta, ReadingInv
    <3> QED
      BY <3>1, <3>2
  <2>6. QuotaInv'
    BY <1>1, <1>8, <2>2 DEF QuotaInv
  <2> QED
    BY <1>0, <1>4, <2>3, <2>4, <2>5, <2>6
<1>9. CASE /\ Delta(i) > 0 /\ i \in Sims
           /\ job' = [stage |-> "add", todo |-> job.todo \ {i}, seen |-> {}]
           /\ fold' = [imsi |-> i, delta |-> Delta(i), base |-> BytesOf(i)]
  <2>0. /\ Delta(i) = sessions[i] - lastUsage[i] /\ Delta(i) \in Nat \ {0}
        /\ lastUsage'[i] = lastUsage[i] + Delta(i) /\ dips'[i] = dips[i]
    BY <1>1, <1>3, <1>9 DEF Delta, ReadingInv, MeterInv
  <2>2. /\ JobInv' /\ job'.stage = "add" /\ job'.todo \subseteq {j \in Imsis : sessions[j] # Absent}
    BY <1>3, <1>9 DEF JobInv, Evaluating, Accounts
  <2>3. AlertsInv' /\ FoldInv'
    <3>1. fold'.imsi = i /\ fold'.delta = Delta(i) /\ fold'.base = BytesOf(i) /\ BytesOf(i) \in Nat
      BY <1>9, CeilingNow
    <3> QED
      BY <1>0, <1>2, <1>9, <2>0, <2>2, <3>1 DEF AlertsInv, FoldInv
  <2>4. ChargeInv'
    <3>1. /\ BytesOf(i) \in Nat /\ Ceiling(i) \in Nat /\ BytesOf(i) <= Ceiling(i)
      BY <1>9, CeilingNow DEF ChargeInv
    <3>2. Ceiling(i)' = Ceiling(i) + Delta(i)
      <4>1. (lives - 1 + dips[i]) * metered[i] \in Nat /\ reconciled[i] \in Nat
        <5>1. lives - 1 + dips[i] \in Nat /\ metered[i] \in Nat /\ reconciled[i] \in Nat
          BY <1>3, <1>9 DEF AlertsInv, LogInv, SourceInv, SourceTypeOK, MeterInv
        <5> QED
          BY <5>1, ProductGrows
      <4> QED
        BY <1>0, <1>3, <2>0, <4>1 DEF Ceiling, CeilingOf
    <3>3. fold'.base + fold'.delta <= Ceiling(fold.imsi)'
      <4>1. Ceiling(fold.imsi)' = Ceiling(i)'
        BY <1>9 DEF Ceiling
      <4>2. fold'.base = BytesOf(i) /\ fold'.delta = Delta(i)
        BY <1>9
      <4> QED
        BY <2>0, <3>1, <3>2, <4>1, <4>2
    <3> QED
      BY <1>0, <1>1, <1>5, <1>6, <3>3, ChargeKept
  <2>5. ReadIsCharged'
    <3> SUFFICES ASSUME NEW j \in Sims \ raced
                 PROVE  lastUsage'[j] <= BytesOf(j)' + (IF j = i THEN Delta(i) ELSE 0)
      BY <1>1, <1>9, <2>2 DEF ReadIsCharged, BytesOf
    <3>1. lastUsage[j] <= BytesOf(j) /\ BytesOf(j)' = BytesOf(j) /\ BytesOf(j) \in Nat
      BY <1>1, CeilingNow DEF ReadIsCharged, BytesOf
    <3>2. lastUsage[j] \in Nat /\ lastUsage'[j] = IF j = i THEN lastUsage[j] + Delta(i) ELSE lastUsage[j]
      BY <1>1, <2>0, FairUseAssumption DEF ReadingInv
    <3> QED
      BY <2>0, <3>1, <3>2
  <2>6. QuotaInv'
    BY <1>1, <2>2 DEF QuotaInv
  <2> QED
    BY <1>0, <1>4, <2>3, <2>4, <2>5, <2>6
<1> QED
  BY <1>8, <1>9 DEF FoldReads

\* A usage record is put back.
LEMMA UpsertStep ==
    ASSUME FairUseInv, NEW i \in Sims, NEW base \in Nat, NEW n \in Nat, NEW quota \in Nat,
           NEW ok, UpsertUsage(i, base, n, quota, ok)
    PROVE  /\ usage' \in [Sims -> Usages] /\ usageFile' \in [Sims -> Usages]
           /\ usageFile' = usageFile \/ usageFile' = usage'
           /\ usage'[i].bytes = base + n /\ BytesOf(i)' = base + n
           /\ \A j \in Sims \ {i} : usage'[j] = usage[j] /\ BytesOf(j)' = BytesOf(j)
           /\ raced \subseteq raced' /\ (i \notin raced' => base = BytesOf(i))
<1> DEFINE r == [bytes |-> base + n, quota |-> quota]
<1>1. r \in Usages /\ r.bytes = base + n /\ base + n \in Nat
  BY DEF Usages
<1>2. usage \in [Sims -> Usages] /\ usageFile \in [Sims -> Usages]
  BY DEF FairUseInv, MeterInv
<1>3. /\ usage' = [usage EXCEPT ![i] = r] /\ usageFile' = IF ok THEN usage' ELSE usageFile
      /\ raced' = IF base # BytesOf(i) THEN raced \cup {i} ELSE raced
  BY DEF UpsertUsage
<1> HIDE DEF r
<1>4. /\ usage' \in [Sims -> Usages] /\ usage'[i] = r
      /\ \A j \in Sims \ {i} : usage'[j] = usage[j]
  BY <1>1, <1>2, <1>3
<1>5. BytesOf(i)' = base + n /\ \A j \in Sims \ {i} : BytesOf(j)' = BytesOf(j)
  BY <1>1, <1>4 DEF BytesOf, Plus, Absent
<1> QED
  BY <1>1, <1>2, <1>3, <1>4, <1>5

\* Bytes written below the ceiling keep everything below it.
LEMMA WriteKept ==
    ASSUME FairUseInv, UNCHANGED <<lives, metered, dips, lastUsage>>,
           NEW i \in Sims, NEW base \in Nat, NEW n \in Nat, NEW quota \in Nat,
           NEW ok, UpsertUsage(i, base, n, quota, ok),
           \A j \in Sims : reconciled'[j] \in Nat /\ reconciled[j] <= reconciled'[j],
           base + n <= Ceiling(i)',
           job'.stage = "add" => job.stage = "add" /\ fold' = fold,
           \A p \in Clients : req'[p].at = "reconcile" => req'[p] = req[p]
    PROVE  ChargeInv'
<1>0. \A j \in Sims : metered[j] \in Nat /\ dips[j] \in Nat /\ lastUsage[j] \in Nat /\ lastUsage[j] <= metered[j]
  BY FairUseAssumption DEF FairUseInv, SourceInv, SourceTypeOK, MeterInv, ReadingInv
<1>1. ASSUME NEW j \in Sims
      PROVE  /\ Ceiling(j) \in Nat /\ Ceiling(j)' \in Nat /\ Ceiling(j) <= Ceiling(j)'
             /\ FileCeiling(j) \in Nat /\ FileCeiling(j)' \in Nat /\ FileCeiling(j) <= FileCeiling(j)'
             /\ BytesOf(j) \in Nat
  BY <1>0, CeilingKept, CeilingNow
<1>2. ASSUME NEW j \in Sims PROVE Ceiling(j)' <= FileCeiling(j)'
  <2>1. lives \in Nat \ {0} /\ reconciled'[j] \in Nat
    BY DEF FairUseInv, AlertsInv, LogInv
  <2>2. CeilingOf(lives, dips[j], metered[j], reconciled'[j], lastUsage[j])
           <= FileCeilingOf(lives, dips[j], metered[j], reconciled'[j])
    BY <1>0, <2>1, CeilingBelowFile
  <2> QED
    BY <2>2 DEF Ceiling, FileCeiling
<1>3. /\ usage' \in [Sims -> Usages]
      /\ usageFile' = usageFile \/ usageFile' = usage'
      /\ usage'[i].bytes = base + n /\ BytesOf(i)' = base + n
      /\ \A j \in Sims \ {i} : usage'[j] = usage[j] /\ BytesOf(j)' = BytesOf(j)
  BY UpsertStep
<1>4. ASSUME NEW j \in Sims PROVE BytesOf(j)' <= Ceiling(j)' /\ BytesOf(j)' \in Nat
  <2>1. BytesOf(j) <= Ceiling(j)
    BY DEF FairUseInv, ChargeInv
  <2> QED
    BY <1>1, <1>3, <2>1
<1>5. ASSUME NEW j \in Sims PROVE usageFile'[j].bytes <= FileCeiling(j)'
  <2>1. CASE usageFile' = usageFile
    <3>1. usageFile[j].bytes <= FileCeiling(j) /\ usageFile[j].bytes \in Int
      BY DEF FairUseInv, ChargeInv, MeterInv, Usages, Absent
    <3> QED
      BY <1>1, <2>1, <3>1
  <2>2. CASE usageFile' = usage'
    <3>1. usage'[j].bytes <= BytesOf(j)' /\ usage'[j].bytes \in Int
      BY <1>3 DEF BytesOf, Plus, Usages, Absent
    <3> QED
      BY <1>1, <1>2, <1>4, <2>2, <3>1
  <2> QED
    BY <1>3, <2>1, <2>2
<1>6. job'.stage = "add" => fold'.base + fold'.delta <= Ceiling(fold.imsi)'
  <2> SUFFICES ASSUME job.stage = "add", fold' = fold PROVE fold.base + fold.delta <= Ceiling(fold.imsi)'
    OBVIOUS
  <2>1. fold.imsi \in Sims /\ fold.base + fold.delta \in Nat /\ fold.base + fold.delta <= Ceiling(fold.imsi)
    BY DEF FairUseInv, FoldInv, ChargeInv
  <2> QED
    BY <1>1, <2>1
<1>7. ASSUME NEW p \in Clients, req'[p].at = "reconcile"
      PROVE  req'[p].base <= Ceiling(req[p].imsi)'
  <2>1. req'[p] = req[p]
    BY <1>7
  <2>2. req[p].imsi \in Sims /\ req[p].base \in Nat /\ req[p].base <= Ceiling(req[p].imsi)
    BY <1>7, <2>1 DEF FairUseInv, MeterInv, Requests, ChargeInv
  <2> QED
    BY <1>1, <2>1, <2>2
<1> QED
  BY <1>4, <1>5, <1>6, <1>7 DEF ChargeInv

\* The delta is added.
LEMMA AddStep ==
    ASSUME FairUseInv, FoldAdds
    PROVE  FairUseInv'
<1> USE DEF FairUseInv
<1>i. PICK i : i = fold.imsi
  OBVIOUS
<1>0. /\ SourceInv' /\ TelemetryInv' /\ lives' = lives /\ metered' = metered
      /\ UNCHANGED <<sessions, sessionsFile, req, reconciled, requests>>
  BY FoldFrame DEF Accounting
<1>1. PICK ok \in BOOLEAN :
         /\ UpsertUsage(i, fold.base, fold.delta, sim[i].quota, ok)
         /\ Saves(ok)
         /\ excused' = IF ok THEN excused ELSE excused \cup {i}
         /\ \/ /\ ok
               /\ job' = [job EXCEPT !.stage = IF Enabled THEN "enforce" ELSE "fold"]
               /\ fold' = IF Enabled THEN fold ELSE NoFold
            \/ ~ok /\ job' = Unlocked /\ fold' = NoFold
  BY <1>i DEF FoldAdds
<1>2. job.stage = "add" /\ UNCHANGED <<fired, active, alertsFile, lastUsage, sim, simFile, dips>>
  BY DEF FoldAdds, alertLog
<1>3. /\ i \in Sims /\ fold.delta \in Nat \ {0} /\ fold.base \in Nat
      /\ job.todo \subseteq {j \in Imsis : sessions[j] # Absent}
  BY <1>i, <1>2 DEF FoldInv, Accounts
<1>4. sim[i].quota \in Nat /\ fold.delta \in Nat
  BY <1>3 DEF MeterInv, SimRecords
<1>5. LogInv'
  <2>1. failures' \in 0 .. MaxFailures
    BY <1>1, SavesBound DEF AlertsInv, LogInv
  <2> QED
    BY <1>0, <1>2, <2>1 DEF AlertsInv, LogInv
<1>6. /\ JobInv' /\ job'.stage # "add" /\ job'.stage \notin Evaluating
      /\ job'.stage = "enforce" => fold' = fold /\ ok
      /\ job'.stage # "enforce" => fold' = NoFold /\ (~Enabled \/ ~ok)
      /\ job'.stage \in Accounts => job'.todo \subseteq {j \in Imsis : sessions[j] # Absent}
  <2>1. CASE ok
    <3>1. job' = [stage |-> IF Enabled THEN "enforce" ELSE "fold", todo |-> job.todo, seen |-> job.seen]
      BY <1>1, <2>1, JobFields DEF AlertsInv
    <3>2. job.seen \subseteq Keys
      BY JobFields DEF AlertsInv
    <3>3. JobInv'
      BY <1>3, <3>1, <3>2 DEF JobInv, Evaluating, Accounts
    <3> QED
      BY <1>1, <1>3, <2>1, <3>1, <3>3 DEF Evaluating, Accounts
  <2>2. CASE ~ok
    BY <1>1, <2>2 DEF JobInv, Unlocked, Evaluating, Accounts
  <2> QED
    BY <2>1, <2>2
<1>7. AlertsInv'
  BY <1>0, <1>5, <1>6 DEF AlertsInv
<1>8. FoldInv'
  BY <1>i, <1>0, <1>3, <1>6 DEF FoldInv
<1>9. /\ usage' \in [Sims -> Usages] /\ usageFile' \in [Sims -> Usages]
      /\ usage'[i].bytes = fold.base + fold.delta /\ BytesOf(i)' = fold.base + fold.delta
      /\ \A j \in Sims \ {i} : usage'[j] = usage[j] /\ BytesOf(j)' = BytesOf(j)
      /\ raced \subseteq raced' /\ (i \notin raced' => fold.base = BytesOf(i))
  BY <1>1, <1>3, <1>4, UpsertStep
<1>10. MeterInv' /\ ReadingInv'
  <2>1. ReadingInv'
    BY <1>0, <1>2 DEF ReadingInv
  <2>2. MeterInv'
    BY <1>0, <1>2, <1>9 DEF MeterInv
  <2> QED
    BY <2>1, <2>2
<1>11. ChargeInv'
  <2>1. fold.base + fold.delta <= CeilingOf(lives', dips'[i], metered'[i], reconciled'[i], lastUsage'[i])
    BY <1>i, <1>0, <1>2 DEF ChargeInv, Ceiling
  <2>2. \A j \in Sims : reconciled'[j] \in Nat /\ reconciled[j] <= reconciled'[j]
    BY <1>0 DEF MeterInv
  <2>3. fold.base + fold.delta <= Ceiling(i)'
    BY <2>1 DEF Ceiling
  <2> QED
    BY <1>0, <1>1, <1>2, <1>3, <1>4, <1>6, <2>2, <2>3, WriteKept
<1>12. ReadIsCharged'
  <2> SUFFICES ASSUME NEW j \in Sims \ raced' PROVE lastUsage'[j] <= BytesOf(j)' + 0
    BY <1>6 DEF ReadIsCharged
  <2>1. /\ lastUsage[j] <= BytesOf(j) + (IF i = j THEN fold.delta ELSE 0)
        /\ BytesOf(j) \in Nat /\ lastUsage[j] \in Nat
    BY <1>i, <1>2, <1>9, CeilingNow, FairUseAssumption DEF ReadIsCharged, ReadingInv
  <2> QED
    BY <1>2, <1>3, <1>9, <2>1
<1>13. QuotaInv'
  <2> SUFFICES ASSUME Enabled, NEW j \in Sims
               PROVE  \/ job'.stage = "enforce" /\ j = fold'.imsi
                      \/ j \in excused'
                      \/ ~(sim'[j].usable /\ 0 < usage'[j].quota /\ usage'[j].quota <= usage'[j].bytes)
    BY DEF QuotaInv
  <2>1. CASE j = i
    BY <1>i, <1>1, <1>6, <2>1
  <2>2. CASE j # i
    BY <1>i, <1>1, <1>2, <1>9, <2>2 DEF QuotaInv
  <2> QED
    BY <2>1, <2>2
<1> QED
  BY <1>0, <1>7, <1>8, <1>10, <1>11, <1>12, <1>13

\* The quota is enforced: the SIM whose bytes were added is not usable above it.
LEMMA EnforceStep ==
    ASSUME FairUseInv, EnforceQuota
    PROVE  FairUseInv'
<1> USE DEF FairUseInv
<1>i. PICK i : i = fold.imsi
  OBVIOUS
<1>0. /\ SourceInv' /\ TelemetryInv' /\ lives' = lives /\ metered' = metered
      /\ UNCHANGED <<sessions, sessionsFile, req, reconciled, requests>>
  BY FoldFrame DEF Accounting
<1>1. /\ job.stage = "enforce" /\ job' = [job EXCEPT !.stage = "fold"] /\ fold' = NoFold
      /\ excused' = excused \ {i}
      /\ UNCHANGED <<lastUsage, usage, usageFile, dips, raced>>
  BY <1>i DEF EnforceQuota
<1>2. i \in Sims /\ job.todo \subseteq {j \in Imsis : sessions[j] # Absent}
  BY <1>i, <1>1 DEF FoldInv, Accounts
<1>3. /\ JobInv' /\ job'.stage = "fold" /\ job'.todo \subseteq {j \in Imsis : sessions[j] # Absent}
  <2>1. job' = [stage |-> "fold", todo |-> job.todo, seen |-> job.seen] /\ job.seen \subseteq Keys
    BY <1>1, JobFields DEF AlertsInv
  <2> QED
    BY <1>2, <2>1 DEF JobInv, Evaluating, Accounts
<1>4. \/ ~OverQuota(i) /\ UNCHANGED <<sim, simFile, alertLog, bounds>>
      \/ /\ UpsertSIM(i, [sim[i] EXCEPT !.usable = FALSE], TRUE)
         /\ \E ok \in BOOLEAN : FireAlertLocked(<<"quota", i>>, ok) /\ Saves(ok)
      \/ /\ UpsertSIM(i, [sim[i] EXCEPT !.usable = FALSE], FALSE)
         /\ Saves(FALSE) /\ UNCHANGED alertLog
  BY <1>i DEF EnforceQuota
<1>5. LogInv'
  <2>1. <<"quota", i>> \in Keys
    BY <1>2 DEF Keys
  <2>2. ASSUME NEW ok \in BOOLEAN, FireAlertLocked(<<"quota", i>>, ok), Saves(ok) PROVE LogInv'
    BY <2>1, <2>2, FireKeepsLog DEF AlertsInv
  <2>3. ASSUME UNCHANGED alertLog, Saves(FALSE) \/ UNCHANGED bounds PROVE LogInv'
    <3>1. failures' \in 0 .. MaxFailures
      BY <2>3, SavesBound DEF AlertsInv, LogInv, bounds
    <3> QED
      BY <1>0, <2>3, <3>1 DEF AlertsInv, LogInv, alertLog
  <2> QED
    BY <1>4, <2>2, <2>3
<1>6. AlertsInv' /\ FoldInv'
  BY <1>0, <1>1, <1>3, <1>5 DEF AlertsInv, FoldInv
<1>7. /\ sim' \in [Sims -> SimRecords] /\ simFile' \in [Sims -> SimRecords]
      /\ \A j \in Sims \ {i} : sim'[j] = sim[j]
      /\ OverQuota(i) => ~sim'[i].usable
      /\ ~sim[i].usable => ~sim'[i].usable
  <2>1. CASE UNCHANGED <<sim, simFile>> /\ ~OverQuota(i)
    BY <2>1 DEF MeterInv
  <2>2. ASSUME NEW ok \in BOOLEAN, UpsertSIM(i, [sim[i] EXCEPT !.usable = FALSE], ok)
        PROVE  /\ sim' \in [Sims -> SimRecords] /\ simFile' \in [Sims -> SimRecords]
               /\ \A j \in Sims \ {i} : sim'[j] = sim[j]
               /\ ~sim'[i].usable
    <3>1. sim[i] \in SimRecords
      BY <1>2 DEF MeterInv
    <3>2. UpsertSIM(i, [usable |-> FALSE, quota |-> sim[i].quota], ok)
      BY <2>2, <3>1, SimFields
    <3>3. [usable |-> FALSE, quota |-> sim[i].quota] \in SimRecords
      BY <3>1 DEF SimRecords
    <3> QED
      BY <1>2, <3>2, <3>3 DEF UpsertSIM, MeterInv
  <2> QED
    BY <1>4, <2>1, <2>2
<1>8. ReadingInv' /\ MeterInv'
  <2>1. ReadingInv'
    BY <1>0, <1>1 DEF ReadingInv
  <2>2. MeterInv'
    BY <1>0, <1>1, <1>7 DEF MeterInv
  <2> QED
    BY <2>1, <2>2
<1>9. ChargeInv'
  <2>1. \A j \in Sims :
           /\ metered'[j] \in Nat /\ dips'[j] \in Nat /\ reconciled'[j] \in Nat /\ lastUsage'[j] \in Nat
           /\ metered[j] <= metered'[j] /\ reconciled[j] <= reconciled'[j]
           /\ dips'[j] = dips[j] /\ lastUsage[j] <= lastUsage'[j]
    BY <1>0, <1>1, FairUseAssumption DEF MeterInv, ReadingInv, SourceInv, SourceTypeOK
  <2>2. \A p \in Clients : req'[p] = req[p]
    BY <1>0
  <2> QED
    BY <1>0, <1>1, <1>3, <2>1, <2>2, ChargeKept
<1>10. ReadIsCharged'
  BY <1>1, <1>3 DEF ReadIsCharged, BytesOf
<1>11. QuotaInv'
  <2> SUFFICES ASSUME Enabled, NEW j \in Sims
               PROVE  \/ j \in excused'
                      \/ ~(sim'[j].usable /\ 0 < usage'[j].quota /\ usage'[j].quota <= usage'[j].bytes)
    BY DEF QuotaInv
  <2>1. CASE j = i
    <3>1. usage[i].quota \in Nat /\ usage[i].bytes \in Int
      BY <1>2 DEF MeterInv, Usages, Absent
    <3> QED
      BY <1>1, <1>7, <2>1, <3>1 DEF OverQuota
  <2>2. CASE j # i
    BY <1>i, <1>1, <1>7, <2>2 DEF QuotaInv
  <2> QED
    BY <2>1, <2>2
<1> QED
  BY <1>0, <1>6, <1>8, <1>9, <1>10, <1>11

-----------------------------------------------------------------------------
(* The second half of a request.                                             *)

\* What the handlers' writes leave alone.
LEMMA HandlingFrame ==
    ASSUME FairUseInv, NEW p \in Clients, Handling(p)
    PROVE  /\ SourceInv' /\ AlertsInv' /\ lives' = lives /\ metered' = metered /\ job' = job
           /\ UNCHANGED <<sessions, sessionsFile, lastUsage, sim, simFile, fold, dips, requests>>
           /\ req[p].imsi \in Sims /\ req[p] \in Requests
           /\ excused' = excused \cup {req[p].imsi}
           /\ req' \in [Clients -> Requests]
           /\ \A q \in Clients : req'[q].at # "idle" => req'[q] = req[q]
<1>1. /\ UNCHANGED sourceVars /\ UNCHANGED telemetry /\ UNCHANGED conditions /\ UNCHANGED alertLog
      /\ job' = job /\ lives' = lives
      /\ UNCHANGED <<sessions, sessionsFile, lastUsage, sim, simFile, fold, dips, requests>>
      /\ excused' = excused \cup {req[p].imsi}
      /\ req[p].at # "idle" /\ req' = [req EXCEPT ![p] = Idle]
  BY DEF Handling, ReconcileWrites, SetQuotaWrites, Saves, bounds
<1>2. /\ UNCHANGED <<tap, byTEID, byIMSI, unknown, forgotten, source, registered, record>>
      /\ UNCHANGED <<mishaps, carried, metered>>
  BY <1>1 DEF sourceVars, tapVars, coreVars
<1>3. SourceInv'
  BY <1>2 DEF FairUseInv, SourceInv, SourceTypeOK
<1>4. UNCHANGED <<now, beats, health, healthFile, nearing, crowded, fired, active, alertsFile>>
  BY <1>1 DEF telemetry, conditions, alertLog
<1>5. failures' \in 0 .. MaxFailures
  BY SavesBound DEF FairUseInv, AlertsInv, LogInv, Handling, ReconcileWrites, SetQuotaWrites, bounds
<1>6. AlertsInv'
  BY <1>1, <1>4, <1>5 DEF FairUseInv, AlertsInv, JobInv, TelemetryInv, LogInv
<1>7. /\ req[p].imsi \in Sims /\ req[p] \in Requests /\ req \in [Clients -> Requests]
  BY <1>1 DEF FairUseInv, MeterInv
<1>8. Idle \in Requests /\ Idle.at = "idle"
  BY DEF Idle, Requests
<1> QED
  BY <1>1, <1>2, <1>3, <1>6, <1>7, <1>8

\* A reconciliation puts its bytes on the record, and the ceiling rises by them.
LEMMA ReconcileStep ==
    ASSUME FairUseInv, NEW p \in Clients, ReconcileWrites(p)
    PROVE  FairUseInv'
<1> USE DEF FairUseInv
<1>0. /\ SourceInv' /\ AlertsInv' /\ lives' = lives /\ metered' = metered /\ job' = job
      /\ UNCHANGED <<sessions, sessionsFile, lastUsage, sim, simFile, fold, dips, requests>>
      /\ excused' = excused \cup {req[p].imsi}
      /\ req[p].imsi \in Sims /\ req[p] \in Requests
      /\ req' \in [Clients -> Requests]
      /\ \A q \in Clients : req'[q].at # "idle" => req'[q] = req[q]
  BY HandlingFrame DEF Handling
<1>1. PICK i, base, n : i = req[p].imsi /\ base = req[p].base /\ n = req[p].n
  OBVIOUS
<1>2. /\ i \in Sims /\ base \in Nat /\ n \in Nat
  BY <1>0, <1>1 DEF Requests
<1>3. PICK ok \in BOOLEAN : UpsertUsage(i, base, n, sim[i].quota, ok) /\ Saves(ok)
  BY <1>1 DEF ReconcileWrites
<1>4. reconciled' = [reconciled EXCEPT ![i] = reconciled[i] + n] /\ req[p].at = "reconcile"
  BY <1>1 DEF ReconcileWrites
<1>5. sim[i].quota \in Nat
  BY <1>2 DEF MeterInv, SimRecords
<1>6. /\ usage' \in [Sims -> Usages] /\ usageFile' \in [Sims -> Usages]
      /\ BytesOf(i)' = base + n
      /\ \A j \in Sims \ {i} : usage'[j] = usage[j] /\ BytesOf(j)' = BytesOf(j)
      /\ raced \subseteq raced' /\ (i \notin raced' => base = BytesOf(i))
  <2> HIDE DEF FairUseInv
  <2>1. UpsertUsage(i, base, n, sim[i].quota, ok)
    BY <1>3
  <2> QED
    BY <1>2, <1>5, <2>1, UpsertStep
<1>7. /\ reconciled' \in [Sims -> Nat]
      /\ \A j \in Sims : reconciled'[j] \in Nat /\ reconciled[j] <= reconciled'[j]
      /\ reconciled'[i] = reconciled[i] + n
  BY <1>2, <1>4 DEF MeterInv
<1>8. MeterInv' /\ ReadingInv' /\ FoldInv'
  <2>1. ReadingInv' /\ FoldInv'
    BY <1>0 DEF ReadingInv, FoldInv
  <2>2. \A q \in Clients : req'[q].at # "idle" => req'[q].imsi \in Sims
    BY <1>0 DEF MeterInv
  <2>3. MeterInv'
    BY <1>0, <1>6, <1>7, <2>2 DEF MeterInv
  <2> QED
    BY <2>1, <2>3
<1>9. ChargeInv'
  <2>1. base <= Ceiling(i) /\ Ceiling(i) \in Nat
    <3>1. req[p].base <= Ceiling(req[p].imsi)
      BY <1>4 DEF ChargeInv
    <3> QED
      BY <1>1, <1>2, <3>1, CeilingNow
  <2>2. Ceiling(i)' = Ceiling(i) + n
    <3>1. /\ lives - 1 + dips[i] \in Nat /\ metered[i] \in Nat /\ reconciled[i] \in Nat
          /\ lastUsage[i] \in Nat
      BY <1>2, FairUseAssumption DEF AlertsInv, LogInv, SourceInv, SourceTypeOK, MeterInv, ReadingInv
    <3>2. (lives - 1 + dips[i]) * metered[i] \in Nat
      BY <3>1, ProductGrows
    <3> QED
      BY <1>0, <1>2, <1>7, <3>1, <3>2 DEF Ceiling, CeilingOf
  <2>3. base + n <= Ceiling(i)'
    BY <1>2, <2>1, <2>2
  <2> QED
    BY <1>0, <1>2, <1>3, <1>5, <1>7, <2>3, WriteKept
<1>10. ReadIsCharged'
  <2> DEFINE Owed(j) == IF job.stage = "add" /\ fold.imsi = j THEN fold.delta ELSE 0
  <2> SUFFICES ASSUME NEW j \in Sims \ raced' PROVE lastUsage[j] <= BytesOf(j)' + Owed(j)
    BY <1>0 DEF ReadIsCharged
  <2>1. lastUsage[j] <= BytesOf(j) + Owed(j)
    BY <1>6 DEF ReadIsCharged
  <2>2. BytesOf(j) \in Nat /\ lastUsage[j] \in Nat /\ Owed(j) \in Nat
    BY CeilingNow, FairUseAssumption DEF ReadingInv, FoldInv
  <2> HIDE DEF Owed
  <2>3. BytesOf(j)' >= BytesOf(j) /\ BytesOf(j)' \in Nat
    BY <1>2, <1>6, <2>2
  <2> QED
    BY <2>1, <2>2, <2>3
<1>11. QuotaInv'
  <2>1. \A j \in Sims : j = i => j \in excused'
    BY <1>0, <1>1
  <2> QED
    BY <1>0, <1>6, <2>1 DEF QuotaInv
<1> QED
  BY <1>0, <1>8, <1>9, <1>10, <1>11

\* A usage record with another quota.
LEMMA UsageFields ==
    ASSUME NEW r \in Usages, NEW x
    PROVE  [r EXCEPT !.quota = x] = [bytes |-> r.bytes, quota |-> x]
<1>1. PICK a, b : r = [bytes |-> a, quota |-> b]
  BY DEF Usages
<1> DEFINE s == [bytes |-> a, quota |-> b]
<1>2. [s EXCEPT !.quota = x] = [bytes |-> s.bytes, quota |-> x]
  OBVIOUS
<1>3. r = s
  BY <1>1
<1> HIDE DEF s
<1> QED
  BY <1>2, <1>3, Zenon

\* A quota is put on the record; its bytes stay.
LEMMA SetQuotaStep ==
    ASSUME FairUseInv, NEW p \in Clients, SetQuotaWrites(p)
    PROVE  FairUseInv'
<1> USE DEF FairUseInv
<1>0. /\ SourceInv' /\ AlertsInv' /\ lives' = lives /\ metered' = metered /\ job' = job
      /\ UNCHANGED <<sessions, sessionsFile, lastUsage, sim, simFile, fold, dips, requests>>
      /\ excused' = excused \cup {req[p].imsi}
      /\ req[p].imsi \in Sims /\ req[p] \in Requests
      /\ req' \in [Clients -> Requests]
      /\ \A q \in Clients : req'[q].at # "idle" => req'[q] = req[q]
  BY HandlingFrame DEF Handling
<1>1. PICK i, n : i = req[p].imsi /\ n = req[p].n
  OBVIOUS
<1>2. i \in Sims /\ n \in Nat
  BY <1>0, <1>1 DEF Requests
<1>3. UNCHANGED <<reconciled, raced>>
  BY DEF SetQuotaWrites
<1>4. /\ usage' \in [Sims -> Usages]
      /\ usageFile' = usageFile \/ usageFile' = usage'
      /\ \A j \in Sims : usage'[j].bytes = usage[j].bytes
      /\ \A j \in Sims \ {i} : usage'[j] = usage[j]
  <2>1. usage \in [Sims -> Usages] /\ usage[i] \in Usages
    BY <1>2 DEF MeterInv
  <2>2. CASE UNCHANGED <<usage, usageFile>>
    BY <2>1, <2>2
  <2>3. CASE /\ usage' = [usage EXCEPT ![i].quota = n]
             /\ usageFile' = usageFile \/ usageFile' = usage'
    <3> DEFINE r == [bytes |-> usage[i].bytes, quota |-> n]
    <3>1. [usage[i] EXCEPT !.quota = n] = r
      BY <2>1, UsageFields
    <3>2. usage' = [usage EXCEPT ![i] = r]
      BY <2>3, <3>1
    <3>3. r \in Usages /\ r.bytes = usage[i].bytes
      BY <1>2, <2>1 DEF Usages
    <3> HIDE DEF r
    <3> QED
      BY <1>2, <2>1, <2>3, <3>2, <3>3
  <2> QED
    BY <1>1, <2>2, <2>3 DEF SetQuotaWrites
<1>5. MeterInv' /\ ReadingInv' /\ FoldInv'
  <2>1. ReadingInv' /\ FoldInv'
    BY <1>0 DEF ReadingInv, FoldInv
  <2>2. \A q \in Clients : req'[q].at # "idle" => req'[q].imsi \in Sims
    BY <1>0 DEF MeterInv
  <2>3. usageFile' \in [Sims -> Usages]
    BY <1>4 DEF MeterInv
  <2>4. MeterInv'
    BY <1>0, <1>3, <1>4, <2>2, <2>3 DEF MeterInv
  <2> QED
    BY <2>1, <2>4
<1>6. \A j \in Sims : BytesOf(j)' = BytesOf(j)
  BY <1>4 DEF BytesOf
<1>7. \A j \in Sims : Ceiling(j)' = Ceiling(j) /\ FileCeiling(j)' = FileCeiling(j)
  BY <1>0, <1>3 DEF Ceiling, FileCeiling
<1>8. ChargeInv'
  <2>1. ASSUME NEW j \in Sims PROVE BytesOf(j)' <= Ceiling(j)' /\ usageFile'[j].bytes <= FileCeiling(j)'
    <3>1. /\ BytesOf(j) <= Ceiling(j) /\ usageFile[j].bytes <= FileCeiling(j)
          /\ usage[j].bytes <= BytesOf(j) /\ Ceiling(j) <= FileCeiling(j)
          /\ BytesOf(j) \in Nat /\ Ceiling(j) \in Nat /\ FileCeiling(j) \in Nat
      BY CeilingNow DEF ChargeInv
    <3>2. usage[j].bytes \in Int
      BY DEF MeterInv, Usages, Absent
    <3>3. usageFile'[j].bytes = usageFile[j].bytes \/ usageFile'[j].bytes = usage[j].bytes
      BY <1>4
    <3> QED
      BY <1>6, <1>7, <3>1, <3>2, <3>3
  <2>2. job'.stage = "add" => fold'.base + fold'.delta <= Ceiling(fold.imsi)'
    <3> SUFFICES ASSUME job.stage = "add" PROVE fold.base + fold.delta <= Ceiling(fold.imsi)'
      BY <1>0
    <3>1. fold.imsi \in Sims /\ fold.base + fold.delta <= Ceiling(fold.imsi)
      BY DEF FoldInv, ChargeInv
    <3> QED
      BY <1>0, <1>3, <3>1 DEF Ceiling
  <2>3. ASSUME NEW q \in Clients, req'[q].at = "reconcile" PROVE req'[q].base <= Ceiling(req[q].imsi)'
    <3>1. req'[q] = req[q] /\ req[q].imsi \in Sims /\ req[q].base <= Ceiling(req[q].imsi)
      BY <1>0, <2>3 DEF MeterInv, ChargeInv
    <3> QED
      BY <1>0, <1>3, <3>1 DEF Ceiling
  <2> QED
    BY <2>1, <2>2, <2>3 DEF ChargeInv
<1>9. ReadIsCharged'
  BY <1>0, <1>3, <1>6 DEF ReadIsCharged
<1>10. QuotaInv'
  <2>1. \A j \in Sims : j = i => j \in excused'
    BY <1>0, <1>1
  <2> QED
    BY <1>0, <1>4, <2>1 DEF QuotaInv
<1> QED
  BY <1>0, <1>5, <1>8, <1>9, <1>10

-----------------------------------------------------------------------------
(* The whole.                                                                *)

\* After a restart every counter is read from zero, and the bytes of the runs so
\* far may be on disk.
LEMMA RestartStep ==
    ASSUME FairUseInv, Restart
    PROVE  FairUseInv'
<1> USE DEF FairUseInv
<1>1. AlertsInv' /\ lives' = lives + 1 /\ job' = Unlocked /\ SourceInv' /\ metered' = metered
  BY AlertsRestartStep, SourceRestartStep DEF Restart
<1>2. /\ sessions' = sessionsFile /\ usage' = usageFile /\ sim' = simFile
      /\ lastUsage' = [i \in Imsis |-> 0] /\ fold' = NoFold /\ req' = [p \in Clients |-> Idle]
      /\ excused' = Sims
      /\ UNCHANGED <<sessionsFile, usageFile, simFile, reconciled, dips, raced, requests>>
  BY DEF Restart
<1>3. Idle \in Requests /\ Idle.at = "idle"
  BY DEF Idle, Requests
<1>4. MeterInv'
  <2>1. req' \in [Clients -> Requests] /\ \A p \in Clients : req'[p].at = "idle"
    BY <1>2, <1>3
  <2> QED
    BY <1>2, <2>1 DEF MeterInv
<1>5. metered \in [Imsis -> Nat] /\ Sims \subseteq Imsis
  BY FairUseAssumption DEF SourceInv, SourceTypeOK
<1>6. ReadingInv'
  BY <1>1, <1>2, <1>5 DEF ReadingInv
<1>7. FoldInv' /\ QuotaInv'
  BY <1>1, <1>2 DEF FoldInv, QuotaInv, Unlocked, Accounts
<1>8. ASSUME NEW i \in Sims
      PROVE  /\ usage'[i].bytes \in Nat \cup {Absent} /\ usageFile[i].bytes <= FileCeiling(i)
             /\ Ceiling(i)' = FileCeiling(i) /\ FileCeiling(i) \in Nat /\ FileCeiling(i)' \in Nat
             /\ FileCeiling(i) <= FileCeiling(i)'
  <2>1. /\ lives \in Nat \ {0} /\ dips[i] \in Nat /\ metered[i] \in Nat /\ reconciled[i] \in Nat
    BY <1>5 DEF AlertsInv, LogInv, MeterInv
  <2>2. FileCeilingOf(lives, dips[i], metered[i], reconciled[i])
           = CeilingOf(lives + 1, dips[i], metered[i], reconciled[i], 0)
    BY <2>1, CeilingBelowFile
  <2>3. lastUsage'[i] = 0
    BY <1>2, <1>5
  <2>4. Ceiling(i)' = FileCeiling(i)
    BY <1>1, <1>2, <2>2, <2>3 DEF Ceiling, FileCeiling
  <2>5. FileCeiling(i) <= FileCeilingOf(lives + 1, dips[i], metered[i], reconciled[i])
    <3>1. (lives + dips[i]) * metered[i] <= (lives + 1 + dips[i]) * metered[i]
      BY <2>1, ProductGrows
    <3>2. (lives + dips[i]) * metered[i] \in Nat /\ (lives + 1 + dips[i]) * metered[i] \in Nat
      BY <2>1, ProductGrows
    <3> QED
      BY <2>1, <3>1, <3>2 DEF FileCeiling, FileCeilingOf
  <2>6. FileCeiling(i) \in Nat /\ FileCeilingOf(lives + 1, dips[i], metered[i], reconciled[i]) \in Nat
    <3>1. lives + 1 \in Nat \ {0} /\ 0 \in Nat
      BY <2>1
    <3> QED
      BY <2>1, <3>1, CeilingTypes DEF FileCeiling
  <2>7. FileCeiling(i)' = FileCeilingOf(lives + 1, dips[i], metered[i], reconciled[i])
    BY <1>1, <1>2 DEF FileCeiling
  <2>8. usage'[i].bytes \in Nat \cup {Absent} /\ usageFile[i].bytes <= FileCeiling(i)
    BY <1>2 DEF MeterInv, Usages, ChargeInv
  <2> QED
    BY <2>4, <2>5, <2>6, <2>7, <2>8
<1>9. ASSUME NEW i \in Sims PROVE BytesOf(i)' \in Nat /\ BytesOf(i)' <= FileCeiling(i)
  <2>1. usage'[i].bytes <= FileCeiling(i)
    BY <1>2, <1>8
  <2> QED
    BY <1>8, <2>1 DEF BytesOf, Plus, Absent
<1>10. ChargeInv'
  <2>1. \A i \in Sims : BytesOf(i)' <= Ceiling(i)' /\ usageFile'[i].bytes <= FileCeiling(i)'
    <3> SUFFICES ASSUME NEW i \in Sims PROVE BytesOf(i)' <= Ceiling(i)' /\ usageFile'[i].bytes <= FileCeiling(i)'
      OBVIOUS
    <3>1. usageFile'[i].bytes = usageFile[i].bytes /\ usageFile[i].bytes \in Int
      BY <1>2 DEF MeterInv, Usages, Absent
    <3> QED
      BY <1>8, <1>9, <3>1
  <2>2. job'.stage # "add" /\ \A p \in Clients : req'[p].at # "reconcile"
    BY <1>1, <1>2, <1>3 DEF Unlocked
  <2> QED
    BY <2>1, <2>2 DEF ChargeInv
<1>11. ReadIsCharged'
  <2>1. job'.stage # "add" /\ \A i \in Sims : lastUsage'[i] = 0
    BY <1>1, <1>2, <1>5 DEF Unlocked
  <2> QED
    BY <1>9, <2>1 DEF ReadIsCharged
<1> QED
  BY <1>1, <1>4, <1>6, <1>7, <1>10, <1>11

LEMMA FairUseInitInv == Init => FairUseInv
<1> SUFFICES ASSUME Init PROVE FairUseInv
  OBVIOUS
<1>1. AlertsInv /\ lives = 1 /\ job = Unlocked
  BY AlertsInitInv DEF Init, AlertsInit
<1>2. SourceInv /\ metered = [i \in Imsis |-> 0]
  <2>1. tap \in {"off", "on", "ended"}
    BY DEF Init, SourceInit
  <2>2. /\ byIMSI \in Readings /\ \A i \in Imsis : byIMSI[i] <= 0
        /\ record \in Readings /\ \A i \in Imsis : record[i] <= 0
    BY DEF Init, SourceInit, NoReadings, Readings, Absent
  <2>3. source \in Sources /\ byTEID = [t \in Teids |-> None] /\ unknown = 0 /\ registered = {}
        /\ record = NoReadings /\ carried = 0 /\ forgotten = 0 /\ metered = [i \in Imsis |-> 0]
    BY DEF Init, SourceInit
  <2> QED
    BY <2>1, <2>2, <2>3, SourceAssumption DEF SourceInv, SourceTypeOK
<1>3. NoUsage \in Usages /\ NoUsage.bytes = Absent /\ [usable |-> TRUE, quota |-> 0] \in SimRecords
      /\ Idle \in Requests /\ Idle.at = "idle" /\ NoUsage.quota = 0
  BY DEF NoUsage, Usages, SimRecords, Idle, Requests, Absent
<1>4. /\ usage = [i \in Sims |-> NoUsage] /\ usageFile = usage
      /\ sim = [i \in Sims |-> [usable |-> TRUE, quota |-> 0]] /\ simFile = sim
      /\ req = [p \in Clients |-> Idle] /\ reconciled = [i \in Sims |-> 0] /\ dips = [i \in Imsis |-> 0]
      /\ requests = 0 /\ fold = NoFold /\ sessions = NoReadings /\ sessionsFile = sessions
      /\ lastUsage = [i \in Imsis |-> 0]
  BY DEF Init
<1>5. MeterInv
  <2>1. req \in [Clients -> Requests] /\ \A p \in Clients : req[p].at = "idle"
    BY <1>3, <1>4
  <2>2. /\ usage \in [Sims -> Usages] /\ usageFile \in [Sims -> Usages]
        /\ sim \in [Sims -> SimRecords] /\ simFile \in [Sims -> SimRecords]
    BY <1>3, <1>4
  <2> QED
    BY <1>4, <2>1, <2>2, FairUseAssumption DEF MeterInv
<1>6. ReadingInv
  BY <1>2, <1>4 DEF ReadingInv, NoReadings, Readings, Absent
<1>7. FoldInv /\ QuotaInv
  BY <1>1, <1>3, <1>4 DEF FoldInv, QuotaInv, Unlocked, Accounts
<1>8. ASSUME NEW i \in Sims
      PROVE  /\ BytesOf(i) = 0 /\ usageFile[i].bytes = -1 /\ Ceiling(i) = 0 /\ FileCeiling(i) = 0
             /\ lastUsage[i] = 0
  <2>1. dips[i] = 0 /\ metered[i] = 0 /\ lastUsage[i] = 0 /\ reconciled[i] = 0 /\ usage[i] = NoUsage
    BY <1>2, <1>4, FairUseAssumption
  <2> QED
    BY <1>1, <1>3, <1>4, <2>1 DEF BytesOf, Plus, Absent, Ceiling, CeilingOf, FileCeiling, FileCeilingOf
<1>9. job.stage # "add" /\ \A p \in Clients : req[p].at # "reconcile"
  BY <1>1, <1>3, <1>4 DEF Unlocked
<1>10. ChargeInv /\ ReadIsCharged
  BY <1>8, <1>9 DEF ChargeInv, ReadIsCharged
<1> QED
  BY <1>1, <1>2, <1>5, <1>6, <1>7, <1>10 DEF FairUseInv

\* The inductive invariant: whatever the interleaving of the collector, the fold,
\* the alert engine and the handlers, and whatever saves fail or processes end.
THEOREM FairUseInvariant == Spec => []FairUseInv
<1>1. FairUseInv /\ [Next]_vars => FairUseInv'
  <2> SUFFICES ASSUME FairUseInv, [Next]_vars PROVE FairUseInv'
    OBVIOUS
  <2>1. CASE SourceSteps /\ UNCHANGED <<alertVars, meterVars>>
    BY <2>1, SourceOnly
  <2>2. CASE AlertsSteps /\ UNCHANGED <<sourceVars, meterVars>>
    BY <2>2, AlertsOnly
  <2>3. CASE CollectOnce
    BY <2>3, CollectStep
  <2>4. CASE Accounting
    BY <2>4, RoundStep, ReadStep, AddStep, EnforceStep DEF Accounting, Folding
  <2>5. ASSUME NEW p \in Clients, NEW i \in Sims, Reconcile(p, i) \/ SetQuota(p, i) \/ Resume(p, i)
        PROVE  FairUseInv'
    BY <2>5, BeginStep
  <2>6. ASSUME NEW p \in Clients, Handling(p) PROVE FairUseInv'
    BY <2>6, ReconcileStep, SetQuotaStep DEF Handling
  <2>7. CASE Restart
    BY <2>7, RestartStep
  <2>8. CASE UNCHANGED vars
    <3>1. /\ UNCHANGED sourceVars /\ UNCHANGED alertVars /\ UNCHANGED meterVars
      BY <2>8 DEF vars
    <3>2. /\ UNCHANGED <<sessions, sessionsFile, lastUsage, usage, usageFile, sim, simFile, fold, req>>
          /\ UNCHANGED <<reconciled, dips, raced, excused, requests>>
          /\ UNCHANGED <<now, beats, health, healthFile, nearing, crowded, fired, active, alertsFile, job>>
          /\ UNCHANGED <<changes, lives, failures>>
      BY <3>1 DEF meterVars, tables, ghosts, alertVars, telemetry, conditions, alertLog, bounds
    <3>3. AlertsInv' /\ MeterInv'
      BY <3>2 DEF FairUseInv, AlertsInv, JobInv, TelemetryInv, LogInv, MeterInv
    <3>4. job.stage \in Accounts => job.todo \subseteq {i \in Imsis : sessions[i] # Absent}
      BY DEF FairUseInv, FoldInv
    <3> QED
      BY <3>1, <3>2, <3>3, <3>4, BesideFold
  <2> QED
    BY <2>1, <2>2, <2>3, <2>4, <2>5, <2>6, <2>7, <2>8 DEF Next
<1> QED
  BY <1>1, FairUseInitInv, PTL DEF Spec

\* The tables, their files and the work in progress keep their types, and the fold
\* has a SIM in hand exactly between its reading and the check of its quota.
THEOREM MeterTyped == Spec => []TypeOK
<1>1. FairUseInv => TypeOK
  <2> SUFFICES ASSUME FairUseInv PROVE TypeOK
    OBVIOUS
  <2>1. SourceTypeOK /\ sessions \in Readings /\ sessionsFile \in Readings /\ lastUsage \in [Imsis -> Nat]
    BY DEF FairUseInv, SourceInv, ReadingInv
  <2>2. AlertsTypeOK
    BY DEF FairUseInv, AlertsInv, JobInv, TelemetryInv, LogInv, AlertsTypeOK, Reports
  <2>3. \A i \in Sims :
           /\ usage[i].bytes \in Nat \cup {Absent} /\ usageFile[i].bytes \in Nat \cup {Absent}
           /\ sim[i].usable \in BOOLEAN /\ sim[i].quota \in Nat
    BY DEF FairUseInv, MeterInv, Usages, SimRecords
  <2>4. job.stage \in {"add", "enforce"} <=> fold # NoFold
    BY DEF FairUseInv, FoldInv, NoFold
  <2>5. requests \in 0 .. MaxRequests
    BY DEF FairUseInv, MeterInv
  <2> QED
    BY <2>1, <2>2, <2>3, <2>4, <2>5 DEF TypeOK
<1> QED
  BY <1>1, FairUseInvariant, PTL

\* The bytes on a SIM's record are at most its metered bytes, once per run of the
\* process and once per fall of its reading, plus what the operator added: also
\* where a reconciliation and the fold write the record over each other.
THEOREM ChargesBounded == Spec => []ChargedPerReading
<1>1. FairUseInv => ChargedPerReading
  <2> SUFFICES ASSUME FairUseInv, NEW i \in Sims PROVE BytesOf(i) <= FileCeiling(i)
    BY DEF ChargedPerReading, FileCeiling, FileCeilingOf
  <2>1. BytesOf(i) <= Ceiling(i)
    BY DEF FairUseInv, ChargeInv
  <2> QED
    BY <2>1, CeilingNow
<1> QED
  BY <1>1, FairUseInvariant, PTL

\* No reading is dropped: what lastUsage has reached is on the SIM's record or in
\* the fold's hand, unless another writer overwrote the record.
THEOREM ReadingsCharged == Spec => []ReadIsCharged
<1>1. FairUseInv => ReadIsCharged
  BY DEF FairUseInv
<1> QED
  BY <1>1, FairUseInvariant, PTL

\* Between two rounds no SIM that has met its quota is usable, but for those whose
\* record or quota an operator, a failed save or a restart has touched since.
THEOREM QuotasEnforced == Spec => []OverQuotaStopped
<1>1. FairUseInv => OverQuotaStopped
  BY DEF FairUseInv, QuotaInv, OverQuotaStopped
<1> QED
  BY <1>1, FairUseInvariant, PTL

-----------------------------------------------------------------------------
(* Sums over a finite set.  MapThenSumSet takes the elements one by one, in  *)
(* the order in which CHOOSE picks them.                                     *)

Picked(s) == CHOOSE x \in s : TRUE

\* g gives every subset of S the sum of h over it.
IsSum(g, h, S) ==
    g = [s \in SUBSET S |-> IF s = {} THEN 0 ELSE h[Picked(s)] + g[s \ {Picked(s)}]]

SumsOf(h, S) == CHOOSE g : IsSum(g, h, S)
Sum(h, S) == SumsOf(h, S)[S]

LEMMA LeastNatural ==
    ASSUME NEW S \in SUBSET Nat, S # {}
    PROVE  \E n \in S : \A m \in S : n <= m
<1>1. PICK n \in S : \A m \in S : ~(<<m, n>> \in OpToRel(<, Nat))
  BY NatLessThanWellFounded, WFMin
<1>2. ASSUME NEW m \in S PROVE n <= m
  <2>1. ~(<<m, n>> \in OpToRel(<, Nat))
    BY <1>1
  <2>2. m \in Nat /\ n \in Nat
    OBVIOUS
  <2>3. ~(m < n)
    BY <2>1, <2>2 DEF OpToRel
  <2> QED BY <2>2, <2>3
<1> QED BY <1>2

LEMMA PickedSmaller ==
    ASSUME NEW S, IsFiniteSet(S), S # {}
    PROVE  /\ Picked(S) \in S /\ IsFiniteSet(S \ {Picked(S)})
           /\ Cardinality(S) \in Nat /\ Cardinality(S \ {Picked(S)}) \in Nat
           /\ Cardinality(S \ {Picked(S)}) = Cardinality(S) - 1
<1>1. Picked(S) \in S
  BY DEF Picked
<1> QED
  BY <1>1, FS_RemoveElement, FS_CardinalityType

\* What holds of the empty set, and of a set whenever it holds of the set without
\* the element picked, holds of every finite set.
LEMMA SubsetInduction ==
    ASSUME NEW S, IsFiniteSet(S), NEW T, {} \in T,
           \A s \in SUBSET S : (s # {} /\ s \ {Picked(s)} \in T) => s \in T
    PROVE  SUBSET S \subseteq T
<1> DEFINE bad == {s \in SUBSET S : s \notin T}
           sizes == {Cardinality(s) : s \in bad}
<1>1. SUFFICES ASSUME bad # {}
               PROVE  FALSE
  OBVIOUS
<1>2. \A s \in SUBSET S : IsFiniteSet(s) /\ Cardinality(s) \in Nat
  BY FS_Subset, FS_CardinalityType
<1>3. sizes \in SUBSET Nat /\ sizes # {}
  BY <1>1, <1>2
<1>4. PICK n \in sizes : \A m \in sizes : n <= m
  BY <1>3, LeastNatural
<1>5. PICK s \in bad : n = Cardinality(s)
  OBVIOUS
<1>6. s # {} /\ IsFiniteSet(s) /\ n \in Nat
  BY <1>2, <1>5
<1>7. Cardinality(s \ {Picked(s)}) = n - 1
  BY <1>5, <1>6, PickedSmaller
<1>8. s \ {Picked(s)} \in bad
  OBVIOUS
<1>9. n - 1 \in sizes
  BY <1>7, <1>8, Zenon
<1> QED
  BY <1>4, <1>6, <1>9

\* The sum is defined.
LEMMA SumExists ==
    ASSUME NEW S, IsFiniteSet(S), NEW h
    PROVE  \E g : IsSum(g, h, S)
<1> DEFINE upTo(n) == {s \in SUBSET S : Cardinality(s) <= n}
           good(g, n) == g = [s \in upTo(n) |->
                                IF s = {} THEN 0 ELSE h[Picked(s)] + g[s \ {Picked(s)}]]
           bad == {n \in Nat : ~ \E g : good(g, n)}
<1>1. \A s \in SUBSET S : IsFiniteSet(s) /\ Cardinality(s) \in Nat
  BY FS_Subset, FS_CardinalityType
<1>2. bad = {}
  <2>1. SUFFICES ASSUME bad # {}
                 PROVE  FALSE
    OBVIOUS
  <2>2. PICK n \in bad : \A m \in bad : n <= m
    BY <2>1, LeastNatural
  <2>3. n \in Nat /\ ~ \E g : good(g, n)
    OBVIOUS
  <2>4. CASE n = 0
    <3>1. \A s \in upTo(0) : s = {}
      BY <1>1, FS_EmptySet
    <3> DEFINE g0 == [s \in upTo(0) |-> 0]
    <3>2. good(g0, 0)
      BY <3>1
    <3> HIDE DEF good, g0
    <3> QED
      BY <2>3, <2>4, <3>2
  <2>5. CASE n # 0
    <3>1. n - 1 \in Nat /\ n - 1 \notin bad
      <4> HIDE DEF bad
      <4> QED
        BY <2>2, <2>3, <2>5
    <3>2. PICK g : good(g, n - 1)
      BY <3>1
    <3> DEFINE g1 == [s \in upTo(n) |->
                        IF s = {} THEN 0 ELSE h[Picked(s)] + g[s \ {Picked(s)}]]
    <3>3. ASSUME NEW s \in upTo(n), s # {}
          PROVE  s \ {Picked(s)} \in upTo(n - 1) /\ s \ {Picked(s)} \in upTo(n)
      <4>1. /\ Cardinality(s \ {Picked(s)}) = Cardinality(s) - 1 /\ Cardinality(s) \in Nat
        BY <1>1, <3>3, PickedSmaller
      <4>2. Cardinality(s \ {Picked(s)}) <= n - 1 /\ Cardinality(s \ {Picked(s)}) <= n
        BY <2>3, <4>1
      <4> QED
        BY <4>2
    <3>4. ASSUME NEW s \in upTo(n - 1), s \in upTo(n)
          PROVE  g1[s] = g[s]
      BY <3>2, <3>4
    <3>5. ASSUME NEW s \in upTo(n)
          PROVE  g1[s] = IF s = {} THEN 0 ELSE h[Picked(s)] + g1[s \ {Picked(s)}]
      <4>1. CASE s = {}
        BY <4>1
      <4>2. CASE s # {}
        <5>1. g1[s] = h[Picked(s)] + g[s \ {Picked(s)}]
          BY <4>2
        <5>2. g1[s \ {Picked(s)}] = g[s \ {Picked(s)}]
          BY <3>3, <3>4, <4>2
        <5> QED
          BY <4>2, <5>1, <5>2
      <4> QED
        BY <4>1, <4>2
    <3>6. good(g1, n)
      <4> DEFINE g2 == [s \in upTo(n) |->
                          IF s = {} THEN 0 ELSE h[Picked(s)] + g1[s \ {Picked(s)}]]
      <4>1. g1 = g2
        BY <3>5
      <4> QED
        BY <4>1
    <3> HIDE DEF good, g1
    <3> QED
      BY <2>3, <3>6
  <2> QED
    BY <2>4, <2>5
<1>3. PICK n : n = Cardinality(S)
  OBVIOUS
<1>4. n \in Nat
  BY <1>3, FS_CardinalityType
<1>5. PICK g : good(g, n)
  BY <1>2, <1>4
<1>6. upTo(n) = SUBSET S
  BY <1>3, FS_Subset
<1>7. IsSum(g, h, S)
  BY <1>5, <1>6 DEF IsSum
<1> QED
  BY <1>7

\* The sums of the subsets, element by element.
LEMMA SumUnfolds ==
    ASSUME NEW S, IsFiniteSet(S), NEW h
    PROVE  /\ SumsOf(h, S)[{}] = 0
           /\ \A s \in SUBSET S : s # {} =>
                 SumsOf(h, S)[s] = h[Picked(s)] + SumsOf(h, S)[s \ {Picked(s)}]
<1>1. PICK g : g = SumsOf(h, S)
  OBVIOUS
<1>2. IsSum(g, h, S)
  BY <1>1, SumExists DEF SumsOf
<1>3. g = [s \in SUBSET S |-> IF s = {} THEN 0 ELSE h[Picked(s)] + g[s \ {Picked(s)}]]
  BY <1>2 DEF IsSum
<1>4. g[{}] = 0
  BY <1>3
<1>5. ASSUME NEW s \in SUBSET S, s # {}
      PROVE  g[s] = h[Picked(s)] + g[s \ {Picked(s)}]
  BY <1>3, <1>5
<1> QED
  BY <1>1, <1>4, <1>5

LEMMA SumOfZeros ==
    ASSUME NEW S, IsFiniteSet(S), NEW h, \A x \in S : h[x] = 0
    PROVE  Sum(h, S) = 0
<1> DEFINE g == SumsOf(h, S)
           T == {s \in SUBSET S : g[s] = 0}
<1>1. {} \in T
  BY SumUnfolds
<1>2. ASSUME NEW s \in SUBSET S, s # {}, s \ {Picked(s)} \in T
      PROVE  s \in T
  <2>1. Picked(s) \in S
    BY <1>2 DEF Picked
  <2>2. g[s] = h[Picked(s)] + g[s \ {Picked(s)}]
    BY <1>2, SumUnfolds
  <2> QED
    BY <1>2, <2>1, <2>2
<1>3. SUBSET S \subseteq T
  <2> HIDE DEF T
  <2> QED
    BY <1>1, <1>2, SubsetInduction
<1> QED
  BY <1>3 DEF Sum

LEMMA SumTyped ==
    ASSUME NEW S, IsFiniteSet(S), NEW h, \A x \in S : h[x] \in Int
    PROVE  Sum(h, S) \in Int
<1> DEFINE g == SumsOf(h, S)
           T == {s \in SUBSET S : g[s] \in Int}
<1>1. {} \in T
  BY SumUnfolds
<1>2. ASSUME NEW s \in SUBSET S, s # {}, s \ {Picked(s)} \in T
      PROVE  s \in T
  <2>1. Picked(s) \in S
    BY <1>2 DEF Picked
  <2>2. g[s] = h[Picked(s)] + g[s \ {Picked(s)}]
    BY <1>2, SumUnfolds
  <2> QED
    BY <1>2, <2>1, <2>2
<1>3. SUBSET S \subseteq T
  <2> HIDE DEF T
  <2> QED
    BY <1>1, <1>2, SubsetInduction
<1> QED
  BY <1>3 DEF Sum

\* Where one summand changes, the sum changes by as much.
LEMMA SumChanges ==
    ASSUME NEW S, IsFiniteSet(S), NEW h, NEW k, NEW i \in S,
           \A x \in S : h[x] \in Int /\ k[x] \in Int,
           \A x \in S \ {i} : k[x] = h[x]
    PROVE  Sum(h, S) \in Int /\ Sum(k, S) = Sum(h, S) + (k[i] - h[i])
<1> DEFINE g == SumsOf(h, S)
           f == SumsOf(k, S)
           T == {s \in SUBSET S : /\ g[s] \in Int
                                  /\ i \in s => f[s] = g[s] + (k[i] - h[i])
                                  /\ i \notin s => f[s] = g[s]}
<1>1. {} \in T
  BY SumUnfolds
<1>2. ASSUME NEW s \in SUBSET S, s # {}, s \ {Picked(s)} \in T
      PROVE  s \in T
  <2>1. PICK x : x = Picked(s)
    OBVIOUS
  <2>2. x \in s /\ x \in S
    BY <1>2, <2>1 DEF Picked
  <2>3. g[s] = h[x] + g[s \ {x}] /\ f[s] = k[x] + f[s \ {x}]
    <3>1. g[s] = h[Picked(s)] + g[s \ {Picked(s)}]
      BY <1>2, SumUnfolds
    <3>2. f[s] = k[Picked(s)] + f[s \ {Picked(s)}]
      BY <1>2, SumUnfolds
    <3> QED
      BY <2>1, <3>1, <3>2, Zenon
  <2>4. PICK a, b, c, d, u, v :
           a = g[s] /\ b = f[s] /\ c = g[s \ {x}] /\ d = f[s \ {x}] /\ u = k[i] /\ v = h[i]
    OBVIOUS
  <2>5. s \ {x} \in T
    BY <1>2, <2>1
  <2>6. /\ c \in Int /\ u \in Int /\ v \in Int
        /\ i \in s \ {x} => d = c + (u - v)
        /\ i \notin s \ {x} => d = c
    BY <2>4, <2>5
  <2>7. a \in Int /\ (i \in s => b = a + (u - v)) /\ (i \notin s => b = a)
    <3>1. CASE i = x
      <4>1. a = v + c /\ b = u + d /\ d = c
        BY <2>3, <2>4, <2>6, <3>1
      <4> QED
        BY <2>2, <2>6, <3>1, <4>1
    <3>2. CASE i # x
      <4>1. PICK y : y = h[x] /\ y \in Int
        BY <2>2
      <4>2. k[x] = y
        BY <2>2, <3>2, <4>1
      <4>3. a = y + c /\ b = y + d
        BY <2>3, <2>4, <4>1, <4>2
      <4>4. i \in s <=> i \in s \ {x}
        BY <3>2
      <4> QED
        BY <2>6, <4>1, <4>3, <4>4
    <3> QED
      BY <3>1, <3>2
  <2> QED
    BY <2>4, <2>7
<1>3. SUBSET S \subseteq T
  <2> HIDE DEF T
  <2> QED
    BY <1>1, <1>2, SubsetInduction
<1> QED
  BY <1>3 DEF Sum

-----------------------------------------------------------------------------
(* Bytes are conserved.                                                      *)

\* The bytes of the counters, none where there is no counter.
Counts == [i \in Imsis |-> Plus(byIMSI[i], 0)]

Balanced == carried - forgotten = unknown + Sum(Counts, Imsis)

LEMMA Conserved == BytesConserved <=> (source = "upf" => Balanced)
<1>1. MapThenSumSet(LAMBDA i : Plus(byIMSI[i], 0), Imsis) = Sum(Counts, Imsis)
  BY Zenon DEF MapThenSumSet, MapThenFoldSet, Sum, SumsOf, IsSum, Picked, Counts
<1> QED
  BY <1>1, Zenon DEF BytesConserved, Balanced

\* The counters as they were, or one of them a byte larger.
LEMMA CountsKept ==
    ASSUME SourceInv, SourceInv', Balanced, UNCHANGED <<carried, forgotten, unknown>>,
           \A i \in Imsis : Plus(byIMSI'[i], 0) = Plus(byIMSI[i], 0)
    PROVE  Balanced'
<1>1. Counts' = Counts
  BY Zenon DEF Counts
<1> QED
  BY <1>1, Zenon DEF Balanced

LEMMA CountsGrow ==
    ASSUME SourceInv, Balanced, NEW u \in Imsis, unknown' = unknown, forgotten' = forgotten,
           carried' = carried + 1, byIMSI' = [byIMSI EXCEPT ![u] = Plus(@, 1)]
    PROVE  Balanced'
<1>0. /\ byIMSI \in [Imsis -> Nat \cup {-1}] /\ unknown \in Nat /\ carried \in Nat /\ forgotten \in Nat
  BY SourceAssumption DEF SourceInv, SourceTypeOK, Readings, Absent
<1>1. PICK h, k : h = Counts /\ k = Counts'
  OBVIOUS
<1>2. \A x \in Imsis : h[x] = Plus(byIMSI[x], 0) /\ k[x] = Plus(byIMSI'[x], 0)
  BY <1>1 DEF Counts
<1>3. \A x \in Imsis : byIMSI'[x] = IF x = u THEN Plus(byIMSI[x], 1) ELSE byIMSI[x]
  BY <1>0
<1>4. /\ \A x \in Imsis : h[x] \in Int /\ k[x] \in Int
      /\ \A x \in Imsis \ {u} : k[x] = h[x]
      /\ k[u] - h[u] = 1
  BY <1>0, <1>2, <1>3 DEF Plus, Absent
<1>5. Sum(h, Imsis) \in Int /\ Sum(k, Imsis) = Sum(h, Imsis) + (k[u] - h[u])
  BY <1>4, SumChanges, SourceAssumption
<1>6. PICK a, b : a = Sum(h, Imsis) /\ b = Sum(k, Imsis)
  OBVIOUS
<1>7. a \in Int /\ b = a + 1 /\ carried - forgotten = unknown + a
  BY <1>1, <1>4, <1>5, <1>6 DEF Balanced
<1>8. carried' - forgotten' = unknown' + b
  BY <1>0, <1>7
<1> QED
  BY <1>1, <1>6, <1>8, Zenon DEF Balanced

LEMMA SourceBalance ==
    ASSUME SourceInv, SourceSteps, source = "upf", Balanced
    PROVE  Balanced'
<1>0. /\ byIMSI \in [Imsis -> Nat \cup {-1}] /\ byTEID \in [Teids -> Imsis \cup {None}]
      /\ SourceInv' /\ unknown \in Nat /\ carried \in Nat /\ forgotten \in Nat
  BY SourceStep, SourceAssumption DEF SourceInv, SourceTypeOK, Readings, Absent
<1>1. ASSUME NEW i \in Imsis, NEW ts \in SUBSET Teids, Learn(i, ts) PROVE Balanced'
  <2>1. \A j \in Imsis : Plus(byIMSI'[j], 0) = Plus(byIMSI[j], 0)
    BY <1>0, <1>1 DEF Learn, Plus, Absent
  <2> QED
    BY <1>0, <1>1, <2>1, CountsKept DEF Learn
<1>2. ASSUME NEW i \in Imsis, Forget(i) PROVE Balanced'
  BY <1>0, <1>2, CountsKept DEF Forget
<1>3. ASSUME NEW t \in Teids, Count(t) PROVE Balanced'
  <2>0. carried' = carried + 1 /\ forgotten' = forgotten
    BY <1>3 DEF Count
  <2>1. CASE byTEID[t] = None /\ unknown' = unknown + 1 /\ UNCHANGED <<byIMSI, metered>>
    <3>1. Counts' = Counts
      BY <2>1 DEF Counts
    <3>2. PICK a : a = Sum(Counts, Imsis)
      OBVIOUS
    <3>3. a \in Int
      <4>1. PICK h : h = Counts
        OBVIOUS
      <4>2. \A x \in Imsis : h[x] \in Int
        BY <1>0, <4>1 DEF Counts, Plus, Absent
      <4> QED
        BY <3>2, <4>1, <4>2, SumTyped, SourceAssumption
    <3>4. carried - forgotten = unknown + a
      BY <3>2 DEF Balanced
    <3>5. carried' - forgotten' = unknown' + a
      BY <1>0, <2>0, <2>1, <3>3, <3>4
    <3> QED
      BY <3>1, <3>2, <3>5, Zenon DEF Balanced
  <2>2. CASE /\ byTEID[t] # None
             /\ byIMSI' = [byIMSI EXCEPT ![byTEID[t]] = Plus(@, 1)]
             /\ UNCHANGED unknown
    <3>1. byTEID[t] \in Imsis
      BY <1>0, <2>2
    <3> QED
      BY <2>0, <2>2, <3>1, CountsGrow
  <2> QED
    BY <1>3, <2>1, <2>2 DEF Count
<1>4. CASE TapEnds \/ StartFails
  BY <1>0, <1>4, CountsKept DEF TapEnds, StartFails
<1>5. CASE CoreChanges
  BY <1>5 DEF CoreChanges
<1> QED
  BY <1>1, <1>2, <1>3, <1>4, <1>5 DEF SourceSteps

LEMMA RestartBalance ==
    ASSUME SourceInv, SourceRestart
    PROVE  Balanced'
<1>1. PICK h : h = Counts'
  OBVIOUS
<1>2. \A i \in Imsis : h[i] = 0
  BY <1>1 DEF Counts, SourceRestart, NoReadings, Plus, Absent
<1>3. Sum(h, Imsis) = 0
  BY <1>2, SumOfZeros, SourceAssumption
<1>4. carried' - forgotten' = unknown' + 0
  BY SourceAssumption DEF SourceRestart, SourceInv, SourceTypeOK
<1> QED
  BY <1>1, <1>3, <1>4, Zenon DEF Balanced

\* Only the source itself, a poll and a restart touch the counters.
LEMMA SourceFrame ==
    ASSUME [Next]_vars
    PROVE  UNCHANGED sourceVars \/ SourceSteps \/ CollectOnce \/ Restart
<1>1. Accounting => UNCHANGED sourceVars
  BY DEF Accounting, AccumulateUsage, Folding, FoldReads, FoldAdds, EnforceQuota, FoldEnds
<1>2. ASSUME NEW p \in Clients, NEW i \in Sims, Reconcile(p, i) \/ SetQuota(p, i) \/ Resume(p, i)
      PROVE  UNCHANGED sourceVars
  BY <1>2 DEF Reconcile, SetQuota, Resume
<1>3. ASSUME NEW p \in Clients, Handling(p) PROVE UNCHANGED sourceVars
  BY <1>3 DEF Handling, ReconcileWrites, SetQuotaWrites
<1>4. UNCHANGED vars => UNCHANGED sourceVars
  BY DEF vars
<1> QED
  BY <1>1, <1>2, <1>3, <1>4 DEF Next

LEMMA SourceNeverChanges ==
    ASSUME [Next]_vars
    PROVE  source' = source
<1>1. UNCHANGED sourceVars => source' = source
  BY DEF sourceVars, coreVars
<1>2. SourceSteps => source' = source
  BY DEF SourceSteps, Learn, Forget, Count, TapEnds, StartFails, CoreChanges, coreVars
<1>3. CollectOnce => source' = source
  BY DEF CollectOnce, Poll
<1>4. Restart => source' = source
  BY DEF Restart, SourceRestart, coreVars
<1> QED
  BY <1>1, <1>2, <1>3, <1>4, SourceFrame

LEMMA BalanceKept ==
    ASSUME FairUseInv, FairUseInv', [Next]_vars, source = "upf", Balanced
    PROVE  Balanced'
<1>0. SourceInv /\ SourceInv'
  BY DEF FairUseInv
<1>1. CASE UNCHANGED sourceVars
  <2>1. UNCHANGED <<carried, forgotten, unknown, byIMSI>>
    BY <1>1 DEF sourceVars, tapVars
  <2> QED
    BY <1>0, <2>1, CountsKept
<1>2. CASE SourceSteps
  BY <1>0, <1>2, SourceBalance
<1>3. CASE CollectOnce
  <2>1. PICK table : Poll(table)
    BY <1>3 DEF CollectOnce
  <2>2. byIMSI' = Kept
    BY <2>1 DEF Poll
  <2>3. \A i \in Imsis : Plus(Kept[i], 0) = Plus(byIMSI[i], 0)
    BY DEF Kept, Plus, Absent
  <2>4. UNCHANGED <<carried, forgotten, unknown>>
    BY <2>1 DEF Poll
  <2> QED
    BY <1>0, <2>2, <2>3, <2>4, CountsKept
<1>4. CASE Restart
  BY <1>0, <1>4, RestartBalance DEF Restart
<1> QED
  BY <1>1, <1>2, <1>3, <1>4, SourceFrame

\* Whatever tunnels are learned, moved, released or reused, whenever the table is
\* polled and whenever the process restarts, every byte the tap has observed in
\* this run is on the counter of a UE or among the unattributed ones.
THEOREM BytesKept == Spec => []BytesConserved
<1> DEFINE Conserves == source = "upf" => Balanced
<1>1. Init => Conserves
  <2> SUFFICES ASSUME Init PROVE Balanced
    OBVIOUS
  <2>1. PICK h : h = Counts
    OBVIOUS
  <2>2. \A i \in Imsis : h[i] = 0
    BY <2>1 DEF Counts, Init, SourceInit, NoReadings, Plus, Absent
  <2>3. Sum(h, Imsis) = 0
    BY <2>2, SumOfZeros, SourceAssumption
  <2>4. carried - forgotten = unknown + 0
    BY DEF Init, SourceInit
  <2> QED
    BY <2>1, <2>3, <2>4, Zenon DEF Balanced
<1>2. FairUseInv /\ FairUseInv' /\ Conserves /\ [Next]_vars => Conserves'
  BY SourceNeverChanges, BalanceKept
<1>3. Conserves => BytesConserved
  BY Conserved
<1> QED
  BY <1>1, <1>2, <1>3, FairUseInvariant, PTL DEF Spec
=============================================================================
