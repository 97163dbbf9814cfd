-------------------------------- MODULE Alerts -------------------------------
(***************************************************************************)
(* Node telemetry and the alert engine of the control plane: heartbeats of  *)
(* the on-box agents (fairwave-agent), the health table, the map of fired   *)
(* alerts, the alert log in memory and on disk (internal/api server.go and  *)
(* routes.go, internal/store).                                              *)
(*                                                                          *)
(* EvaluateAlerts holds s.mu while telemetry requests keep arriving: it     *)
(* reads the health table, the SIMs and the sessions one after the other    *)
(* and fires or resolves one alert at a time, each with a save of its own.  *)
(*                                                                          *)
(* Abstractions.  Of an alert only its key and whether it is active are     *)
(* kept, so the log is the number of active alerts per key.  Which SIMs are *)
(* near their expiry and whether the cell is near its capacity is decided   *)
(* by the ledger and the session table; here they change at will.  Webhooks *)
(* are fire and forget and nothing reads them back; they are left out.      *)
(***************************************************************************)
EXTENDS Integers, FiniteSets

CONSTANTS
    Nodes,         \* nodes whose agents report
    Complaints,    \* what a heartbeat may complain of: sdr-temp, watchdog, freq
    Sims,          \* IMSIs
    AlertsEnabled, \* alerts.enabled, which the ticker asks; the default is TRUE
    StaleAfter,    \* telemetry.stale_after, in ticks
    MaxTime,       \* bound: ticks of the clock
    MaxBeats,      \* bound: heartbeats on their way at once
    MaxChanges,    \* bound: changes of the ledger's and the cell's conditions
    MaxLives,      \* bound: runs of the process
    MaxFailures    \* bound: failed saves

ASSUME AlertsAssumption ==
    /\ Complaints \subseteq {"sdr-temp", "watchdog", "freq"}
    /\ AlertsEnabled \in BOOLEAN
    /\ StaleAfter \in Nat /\ MaxTime \in Nat /\ MaxBeats \in Nat /\ MaxChanges \in Nat
    /\ MaxLives \in Nat \ {0} /\ MaxFailures \in Nat

VARIABLES
    now,         \* the clock
    beats,       \* heartbeats sent and not yet handled
    health,      \* store.health: the last heartbeat handled, per node
    healthFile,  \* health.json
    nearing,     \* SIMs within the expiry warning
    crowded,     \* the cell is at its UE alert threshold
    fired,       \* s.fired, in memory only
    active,      \* store.alerts: how many active alerts each key has
    alertsFile,  \* alerts.json
    job,         \* what holds s.mu: the stage, the keys or SIMs still to do, the keys seen
    changes, lives, failures

telemetry == <<now, beats, health, healthFile>>
conditions == <<nearing, crowded>>
alertLog == <<fired, active, alertsFile>>
bounds == <<changes, lives, failures>>
alertVars == <<telemetry, conditions, alertLog, job, bounds>>

Heartbeats == [node : Nodes, ts : 0 .. MaxTime, bad : SUBSET Complaints]
NoReport == [ts |-> -1, bad |-> {}]

Keys ==
    (({"node-down"} \cup Complaints) \X Nodes)
        \cup ({"sim-expiry", "quota"} \X Sims) \cup {<<"ues-capacity">>}

Unlocked == [stage |-> "idle", todo |-> {}, seen |-> {}]

AlertsInit ==
    /\ now = 0 /\ beats = {}
    /\ health = [n \in Nodes |-> NoReport] /\ healthFile = health
    /\ nearing = {} /\ crowded = FALSE
    /\ fired = {} /\ active = [k \in Keys |-> 0] /\ alertsFile = active
    /\ job = Unlocked
    /\ changes = 0 /\ lives = 1 /\ failures = 0

\* A save that may fail.
Saves(ok) ==
    /\ IF ok THEN UNCHANGED failures ELSE failures < MaxFailures /\ failures' = failures + 1
    /\ UNCHANGED <<changes, lives>>

-----------------------------------------------------------------------------
(* Telemetry.                                                                *)

\* The agent stamps and posts a heartbeat.  It does not repeat one, and after a
\* client timeout the next one may overtake it.
Beat(n) ==
    /\ Cardinality(beats) < MaxBeats
    /\ \E bad \in SUBSET Complaints :
          beats' = beats \cup {[node |-> n, ts |-> now, bad |-> bad]}
    /\ UNCHANGED <<now, health, healthFile, conditions, alertLog, job, bounds>>

BeatLost ==
    /\ \E h \in beats : beats' = beats \ {h}
    /\ UNCHANGED <<now, health, healthFile, conditions, alertLog, job, bounds>>

\* handleTelemetry: the report is the node's last one, whatever its time.
Telemetry(h) ==
    /\ beats' = beats \ {h}
    /\ health' = [health EXCEPT ![h.node] = [ts |-> h.ts, bad |-> h.bad]]
    /\ \E ok \in BOOLEAN :
          Saves(ok) /\ healthFile' = IF ok THEN health' ELSE healthFile
    /\ UNCHANGED <<now, conditions, alertLog, job>>

Tick ==
    /\ now < MaxTime
    /\ now' = now + 1
    /\ UNCHANGED <<beats, health, healthFile, conditions, alertLog, job, bounds>>

\* Issues, revocations, the calendar, attaching UEs and policy updates.
ConditionsChange ==
    /\ changes < MaxChanges
    /\ changes' = changes + 1
    /\ nearing' \in SUBSET Sims /\ crowded' \in BOOLEAN
    /\ <<nearing', crowded'>> # conditions
    /\ UNCHANGED <<telemetry, alertLog, job, lives, failures>>

-----------------------------------------------------------------------------
(* The alert log.                                                            *)

\* Mutant: fires again while the alert is still on.
FireRepeats(k, ok) ==
    /\ fired' = fired \cup {k}
    /\ active' = [active EXCEPT ![k] = @ + 1]
    /\ alertsFile' = IF ok THEN active' ELSE alertsFile

\* fireAlertLocked: once until it is resolved.  The key is marked before the
\* alert is saved, and an error is only logged.
FireAlertLocked(k, ok) ==
    IF k \in fired THEN ok /\ UNCHANGED alertLog
    ELSE /\ fired' = fired \cup {k}
         /\ active' = [active EXCEPT ![k] = @ + 1]
         /\ alertsFile' = IF ok THEN active' ELSE alertsFile

\* Mutant: the key stays marked.
ResolveKeepsMark(k, ok) ==
    /\ UNCHANGED fired
    /\ active' = [active EXCEPT ![k] = IF @ = 0 THEN 0 ELSE @ - 1]
    /\ alertsFile' = IF ok THEN active' ELSE alertsFile

\* resolveAlertLocked: the first active alert of the key, if there is one.
ResolveAlertLocked(k, ok) ==
    /\ fired' = fired \ {k}
    /\ IF active[k] = 0 THEN ok /\ UNCHANGED <<active, alertsFile>>
       ELSE /\ active' = [active EXCEPT ![k] = @ - 1]
            /\ alertsFile' = IF ok THEN active' ELSE alertsFile

-----------------------------------------------------------------------------
(* EvaluateAlerts.                                                           *)

Stale(n) == health[n] # NoReport /\ now - health[n].ts > StaleAfter

\* The conditions each stage finds.
NodeKeys ==
    {<<"node-down", n>> : n \in {m \in Nodes : Stale(m)}}
        \cup UNION {health[n].bad \X {n} : n \in Nodes}
SimKeys == {"sim-expiry"} \X nearing
UeKeys == IF crowded THEN {<<"ues-capacity">>} ELSE {}

KeysOf(stage) ==
    CASE stage = "nodes" -> NodeKeys [] stage = "sims" -> SimKeys [] stage = "ues" -> UeKeys

Enter(stage) ==
    job' = [stage |-> stage, todo |-> KeysOf(stage), seen |-> job.seen \cup KeysOf(stage)]

EvaluateAlerts ==
    /\ AlertsEnabled
    /\ job = Unlocked
    /\ Enter("nodes")
    /\ UNCHANGED <<telemetry, conditions, alertLog, bounds>>

EvaluateFires ==
    /\ job.stage \in {"nodes", "sims", "ues"}
    /\ \E k \in job.todo, ok \in BOOLEAN :
          /\ FireAlertLocked(k, ok)
          /\ Saves(ok)
          /\ job' = [job EXCEPT !.todo = @ \ {k}]
    /\ UNCHANGED <<telemetry, conditions>>

\* Mutant: what the node table reports is not remembered as seen.
EvaluateForgetsSeen ==
    /\ job.todo = {}
    /\ \/ job.stage = "nodes" /\ job' = [stage |-> "sims", todo |-> SimKeys, seen |-> SimKeys]
       \/ job.stage = "sims" /\ Enter("ues")
       \/ /\ job.stage = "ues"
          /\ job' = [stage |-> "resolve", todo |-> fired \ job.seen, seen |-> {}]
    /\ UNCHANGED <<telemetry, conditions, alertLog, bounds>>

EvaluateGoesOn ==
    /\ job.todo = {}
    /\ \/ job.stage = "nodes" /\ Enter("sims")
       \/ job.stage = "sims" /\ Enter("ues")
       \/ /\ job.stage = "ues"
          /\ job' = [stage |-> "resolve", todo |-> fired \ job.seen, seen |-> {}]
    /\ UNCHANGED <<telemetry, conditions, alertLog, bounds>>

\* Every fired key that was not seen, the quota alerts among them.
EvaluateResolves ==
    /\ job.stage = "resolve"
    /\ \E k \in job.todo, ok \in BOOLEAN :
          /\ ResolveAlertLocked(k, ok)
          /\ Saves(ok)
          /\ job' = [job EXCEPT !.todo = @ \ {k}]
    /\ UNCHANGED <<telemetry, conditions>>

EvaluateEnds ==
    /\ job.stage = "resolve" /\ job.todo = {}
    /\ job' = Unlocked
    /\ UNCHANGED <<telemetry, conditions, alertLog, bounds>>

Evaluation ==
    EvaluateAlerts \/ EvaluateFires \/ EvaluateGoesOn \/ EvaluateResolves \/ EvaluateEnds

-----------------------------------------------------------------------------
\* The process stops and starts again: fired is forgotten, the files are read.
AlertsRestart ==
    /\ lives < MaxLives
    /\ lives' = lives + 1
    /\ health' = healthFile
    /\ fired' = {} /\ active' = alertsFile
    /\ job' = Unlocked
    /\ UNCHANGED <<now, beats, healthFile, conditions, alertsFile, changes, failures>>

AlertsSteps ==
    \/ \E n \in Nodes : Beat(n)
    \/ BeatLost
    \/ \E h \in beats : Telemetry(h)
    \/ Tick
    \/ ConditionsChange
    \/ Evaluation

AlertsNext == AlertsSteps \/ AlertsRestart

AlertsSpec == AlertsInit /\ [][AlertsNext]_alertVars

(* Where alerts are enabled, the 30-second ticker keeps calling             *)
(* EvaluateAlerts, which runs to its end.                                    *)
(* Nobody has to send a heartbeat, nothing has to change or to fail.         *)
AlertsFairSpec == AlertsSpec /\ WF_alertVars(Evaluation)

-----------------------------------------------------------------------------
(* The types of the health table, the alert log and the job holding s.mu.    *)
AlertsTypeOK ==
    /\ now \in 0 .. MaxTime
    /\ beats \subseteq Heartbeats
    /\ \A n \in Nodes : \A h \in {health[n], healthFile[n]} :
          h.ts \in -1 .. now /\ h.bad \subseteq Complaints
    /\ nearing \subseteq Sims /\ crowded \in BOOLEAN
    /\ fired \subseteq Keys
    /\ active \in [Keys -> Nat] /\ alertsFile \in [Keys -> Nat]
    /\ lives \in 1 .. MaxLives /\ failures \in 0 .. MaxFailures

(* A key is marked as fired only while an alert of that key is active: were  *)
(* it otherwise, fireAlertLocked (server.go:556) would swallow the next      *)
(* occurrence.  Failed saves, restarts and alerts of earlier runs included.  *)
FiredIsActive == \A k \in fired : active[k] > 0

(* Alerts are edge-triggered (server.go:476-477): one run of the process adds*)
(* at most one active alert per key to those it found in the log.  The bound *)
(* is exact: a restart forgets what has fired, so every run may add one, and *)
(* resolveAlertLocked takes back one of them only.                           *)
OneAlertPerRun ==
    \A k \in Keys : active[k] <= lives /\ alertsFile[k] <= lives

(* A node whose heartbeats have stopped is reported ("node stopped reporting *)
(* heartbeats", server.go:494) and stays so: with alerts enabled, once its   *)
(* last heartbeat is stale for good, a node-down alert is active from some   *)
(* time on, whatever other alerts are fired and resolved, saves fail and the *)
(* process is restarted.                                                     *)
SilentNodeReported ==
    AlertsEnabled => \A n \in Nodes : <>[]Stale(n) => <>[](active[<<"node-down", n>>] > 0)

(* "resolve alerts whose condition cleared" (server.go:543): once nothing is *)
(* wrong with a node any more, its alerts are resolved in the end.  The code *)
(* breaks it: an alert raised before a restart is not in s.fired, and the one*)
(* raised again after it takes its place when the condition clears.          *)
ClearedIsResolved ==
    \A n \in Nodes : ~Stale(n) ~> (active[<<"node-down", n>>] = 0 \/ Stale(n))

(* "UpsertHealth records the latest agent heartbeat for a node"              *)
(* (store.go:232).  The code breaks it: a delayed heartbeat replaces a later *)
(* one.                                                                      *)
LatestHeartbeatKept ==
    [][lives' = lives => \A n \in Nodes : health'[n].ts >= health[n].ts]_alertVars
=============================================================================
