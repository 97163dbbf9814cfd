# Fairwave-Sim in TLA+

Models, model checks and proofs for the stateful core of Fairwave-Sim: the Hydra
bonded data plane and its administration, eSIM profile download, and the control
plane: SIM ledger, transmit gate, usage metering and quotas, alerts, tokens, tables,
backup and restore. Paths below are relative to the repository root.

## 1. Inventory of the system

| Component | State it keeps | Operations | Interacts with | What is hard |
|---|---|---|---|---|
| Reassembler, `core/hydra/reorder` | `next`, `slots`, `gapSince`, `staleRun`, `stats` | `Push` | one per weave, called by `Engine.Ingest` | arrival order, gap timeout, restart of the far end, window limits |
| Fabric engine, `core/hydra/fabric`, `bearer` | weaves (sequence counter, reassembler, `sendMu`), threads with health and backlog | `Strip`, `Ingest`, `Complete`, `SetThreadHealth`, administration, `Bench` | node loops, control plane | concurrent readers, accounting over several exits |
| Node, `core/hydra/node` | per thread: endpoint, `txq`, probe state | ingress, write, read and probe loops | engine, UDP sockets | goroutine interleavings, full queues, failing sends, stale verdicts |
| Transport, `core/hydra/transport`; framing, `shim`; scheduler, `sched` | token bucket, learned peer; none; none | `Send`, `Recv`; codec; `Pick` | node | datagram semantics |
| eSIM registry, `core/esim/registry` | codes with profile, expiry, download mark; one JSON file | add, resolve, mark, revoke | SM-DP+, control plane | encryption at rest, restart |
| SM-DP+, `core/esim/smdp` | download sessions in memory or files | the ES9+ operations | registry by callbacks, eUICC by HTTP | overlapping sessions, restarts, failed writes |
| Software eUICC, `core/esim/euicc` | installed profiles | `Download`, enable, disable | SM-DP+ | lost answers, clean-up on failure |
| Control plane, `core/fairwave-control`: ledger and gate | nodes, SIMs, armed flag | REST handlers, expiry and collection rounds | HSS writers | no lock across a handler, shared pointers, memory and file apart, HSS failures |
| - metering, `internal/collector`, `AccumulateUsage` | tunnels and counters of the tap, sessions, last readings, usage records, quotas | `Poll`, fold, quota, reconcile, resume | mobile core, SIM ledger, alerts | counters that start over, readings torn by a writer, handlers beside the fold |
| - telemetry and alerts | health table, fired keys, alert log | heartbeats, `EvaluateAlerts` | node agents, ledger, sessions | late heartbeats, state in memory beside state on disk |
| - Hydra interface, `internal/api/hydra.go` | an engine, tables of threads and weaves | administration, health reports, lab traffic, `Bench`, restore at start | nodes' `ReportLoop` | engine and store changed in separate steps |
| - tokens, peers, policy, audit, backup | one JSON table each; the data directory | handlers behind `authMW`, `createBackup`, `restoreBackup` | operators | files replaced under a backup, a directory swapped under a running process |
| HSS writers, `core/sim-ops/hsswrite` | none (external database) | `Add`, `Remove` | control plane | errors with or without effect |
| Policy engine, peering configuration, identity, events, CLI, UI, portal | little or none | pure checks, configuration, snapshots, user interface | control plane | - |

What makes the modelled parts correct:

* reassembler: bounded, releases in order and at most once, loses nothing it can
  still deliver, counts exactly, and comes back after gaps and restarts;
* weave: an ordered, unreliable datagram channel, whatever the paths, the
  scheduler and the goroutines do; backlog figures that are exact;
* probing: the registry's view of a thread follows its path in the end;
* eSIM: a failed download leaves no profile and a successful one is confirmed;
  sessions only move forward; codes are spent exactly when served;
* SIM ledger: an answered request holds, in memory, on disk and in the HSS;
* transmit gate: a disarm stays in force and its nodes silent until somebody arms
  again, every attempt is audited, lab mode never transmits;
* metering: every observed byte ends on a counter and every counted byte on a record,
  no more often than the counter started over; a SIM that meets its quota stops;
* alerts: none is swallowed, none is raised twice in a run, a silent node is reported;
* Hydra interface: a restart finds what was declared, and sender and reassembler of a
  weave stay in step;
* tables: what was answered is kept, the log never runs ahead, a revoked secret stays
  out.

`PROJECT.json` lists every component (also those left out, with the reason) and
every hazard at the line where it bites.

## 2. Modules and their correspondence to the code

```
Reorder            the Buffer: state and Push            (reorder.go)
  ReorderBuffer    the Buffer alone, with Stats, under any arrivals
  HydraReceiver    one reader per thread, Ingest, egress (fabric.go, node.go)
HydraLinks         UDP paths (external)
HydraSender        Strip, queues, writers, backlog       (fabric.go, bearer.go, node.go)
HydraWeave         HydraSender + HydraLinks + HydraReceiver
  HydraDelivery    HydraWeave with the drops at full queues and windows on record
WeaveChannel       what a weave promises (abstract specification)
HydraProbe         liveness probing of one thread        (node.go)
EsimRegistry       activation codes and their file       (registry.go)
  EsimDownload     SM-DP+ server and eUICCs              (smdp.go, filestore.go, euicc.go)
SimLifecycle       SIM ledger, HSS, handlers, rounds     (routes.go, server.go, ops.go, store.go)
TxGate             transmit gate, node life cycle        (routes.go, server.go, store.go, lifecycle.go, backup.go)
UsageSource        tap, AMF/MME lists, charging records  (collector/*.go)
Alerts             heartbeats, alert rounds, alert log   (server.go, routes.go, store.go, agent.go)
  FairUse          UsageSource + Alerts + sessions, usage, quotas   (server.go, ops.go, store.go)
HydraAdmin         engine, scheduler, stored copies      (hydra.go, fabric.go, bearer.go, sched.go, reorder.go)
ControlTables      tokens, peers, policy, audit, backup  (routes.go, ops.go, server.go, backup.go, store.go)
ReorderBufferProofs, HydraWeaveProofs, HydraEngineProofs,
  TxGateProofs, SimLifecycleProofs, EsimDownloadProofs,
  FairUseProofs, ControlTablesProofs                      proofs
MC*                instances for TLC
```

**Reorder.** One variable per field of `Buffer`; payloads are model values. The clock
is abstracted to three values of `gapSince`: `zero`, `running` and `overdue`
(older than the gap timeout); `GapElapses` is the passage of time. `Push` is
`BufferPush`, one disjunct per way out of the function (stale, refused, accepted);
the gap check at its top is `NextAfterGap` and `GapAfterGap`, which every disjunct
uses. The drain loop is closed form: `FirstMissing`. A released packet carries the
number of re-alignments before it (`era`), because order is promised only between
re-alignments.

**HydraReceiver.** `readLoop` is `Recv`, then `Ingest`, then one `EgressSend` per
released payload; `sendMu` is held from `Ingest` to `Return`. A failed egress send
drops the rest of the batch, as the early return in `Ingest` does. A restart of the
process is `ReceiverRestart`.

**HydraSender.** `Strip` takes the sequence number before it knows whether the
scheduler finds a thread (`StripUnpicked` burns it); `Enqueue`, `WriterTake`,
`WriterSend`/`WriterFails`, `WriterComplete` are the steps of `enqueue` and
`writeLoop`. The scheduler's ranking is abstracted to a free choice among candidates
with capacity. Frames have size one.

**HydraWeave** composes the three; its only synchronisation is the wire.
**WeaveChannel** knows two things: what was accepted and what came out. It may deliver
an accepted payload that follows everything already out, and restart.
**HydraDelivery** adds one history variable, the payloads dropped at a full transmit
queue or beyond a full window, and asks what else is lost on paths that lose nothing.
In that run no frame lags by more than the gap timeout (`SlowPaths = FALSE`: the timer
runs out only for a number that is nowhere on its way, `GapIsReal`). A packet that
triggers the gap skip and is itself stale or refused returns before the drain loop, so
that a deliverable packet can stay until the next `Push`; `Waiting` allows for it.

**HydraProbe** cuts `probeOnce` and `handleProbe` at each unlock of `p.mu`: `ProbeReap`
takes the snapshot, `ProbeJudge` acts on it, `ProbeIssue` and `ProbeSend` follow;
`EchoMatch`, `EchoCredit`, `EchoReport` are the reader. Probe numbers wrap at
`SeqMod`, and a path does not hold a datagram for `SeqMod - 1` probes. A probe may
expire while it or its echo is on the way (`ExpiresInFlight`); only
`GoodPathComesBack` assumes that this stops in the end, which is what a path that
answers within `ProbeTimeout` means.

**EsimRegistry/EsimDownload.** An entry is three Booleans: profile in memory, cipher
text present, marked as downloaded; `Saved` is what `encEntry` really writes. Each
request with its handler and the client's reaction is one step, except
`getBoundProfilePackage`, which is cut between the policy check and the mark.
Cryptography is its verdict. Every request and answer can be lost, every file write
can fail, the server can restart at any point. The variable `setup` never changes: it
is the configuration (key, single use, session files), so that one run covers several.
The control plane and the command line open the registry without a key
(`registry.Open`); the keyed setups are those the library offers (`OpenWithKey`).

**SimLifecycle.** SIM objects are modelled as objects: the store hands out pointers,
handlers change the object in place and put it back. A handler is `Begin` (read and
check), `HssFirst`, `WriteSim`, `HssLast`, with other processes in between. The
history variable `settled` records what the last undisturbed answer promised.

**TxGate.** The flag in memory, its file, the nodes' table, its file and the audit log;
arm and disarm are cut at the assignment, the save, `ListNodes` and every `UpsertNode` of
the loop, with other requests in between. A node is an object: a loop writes the object
it listed, which changes what other requests see as long as the object is the one in the
table, and puts it back if the node has left or was registered again (`old` holds those
objects). `Restore` replaces the files by those of an archive, which may have been taken
while armed; a restart then reads them. `solo` is the disarm that has met no other arm
or disarm since it began, `kept` says that the last answer was one of these, and
`excused` are the nodes that were registered with the flag after the loop had passed
them, or whose cleared flag no save has brought to the file. Outside `solo` the
properties claim nothing; what goes wrong there is listed in section 3.

**UsageSource.** `source` never changes and is the configured source: the tap on the
user plane, a list of UEs without bytes, or free5GC's list merged with its charging
records. `Learn`, `Forget` and `Count` are `learn` and `count` of the accountant, `Kept`
its `snapshot`. The tap is started by the first poll (`tap`: off, on, ended); a start that
fails makes that poll an error and, as it is done under a `sync.Once`, is never repeated:
later polls succeed and report nothing (`StartFails`). A record that is being written is
unreadable for one poll. One counter stands for uplink and downlink.

**FairUse.** The background goroutine takes one job at a time (`job`, which is also the
holder of `s.mu`): `CollectOnce`, the fold (`AccumulateUsage`, `FoldReads`, `FoldAdds`,
`EnforceQuota`) or an alert round. `FoldReads` takes the reading and the record,
`FoldAdds` writes it back; the reconcile handler does the same without the lock, so
either may overwrite the other, and `raced` remembers where. `excused` remembers the
SIMs whose quota the operator or a fault has interfered with since it was last enforced.

**Alerts.** A round takes the health table, then the SIMs, then the session count, and
fires or resolves one key at a time with a save each, while heartbeats are handled
beside it. `AlertsEnabled` is `alerts.enabled`, which the ticker asks before a round. The alert log is the number of active alerts per key.

**HydraAdmin.** A request is cut between the engine and the store, and where it copies a
thread out of the engine. Strip is one step; Bench is one per packet stripped and one
per packet fed back, every second one first, with `sendMu` held. The reassembler is
`Push` of `Reorder` without payloads and counters: window, gap timer, skip, stale run and
re-alignment are all there (`rb`), because a bench and the lab's frames go through the
same one. `Pick` and `Projected` are the scheduler's, over integers. `contested`
remembers ids two requests of this run worked on at once, `leftOut` ids that the last
restart found in the tables and did not bring into the engine, `disturbed` weaves to
which something happened that loses a number for good: a Strip that failed after taking
one, a weave replaced under a bench, a frame of an earlier weave of the same name, a
number refused as too far ahead, a re-alignment.

**ControlTables.** Every change has a number, and a table is its value and the numbers
it contains, so that losing or resurrecting a change shows. A request is `Begin`
(authentication), `Change` (table and save), `Audit` (log and answer). A backup copies one
file per step in the order of their names; a restore removes the directory, possibly only
in part (`RestoreStops`), and renames the staging directory in two steps.

## 3. Runs

Bounds are constants named `Max...` in the modules. Deadlock is not checked where
these bounds let a behaviour run out of inputs, which is every run except
`hydra_probe`: probing never stops and there deadlock is checked.

| Run | What holds | Bounds, and why they are enough |
|---|---|---|
| `reorder_buffer` | the reassembler is bounded, releases in order and counts exactly | window 3, seven sequence numbers, threshold 2, 7 packets: a skip, a refusal, a re-alignment and a second gap fit into one behaviour |
| `hydra_weave` | order at egress, one sender at a time, exact backlog, refinement of `WeaveChannel` | 2 threads, 3 payloads per run of the sender, window 2, queue of 1, one loss, one fault (a failed send, a health change or a restart of either node): a full queue, a skipped gap, two readers with payloads at once and a re-alignment to a restarted sender occur |
| `hydra_delivery` | on paths that only reorder and duplicate, a payload is lost only to a full queue or a full window | 4 payloads, window 2, queues of 1, one duplicate, 2 threads and readers: both overflows, gap skips behind a dropped number and a refused packet that skips a gap occur |
| `hydra_probe` | one probe outstanding; the registry's view follows a path that stays good or black | two misses, three probe numbers |
| `esim_download` | clean failure, confirmed success, forward sessions, served codes marked | 2 eUICCs, 1 code, 3 sessions, 2 faults; three configurations of key, single use and session store |
| `esim_live` | a device that keeps trying succeeds | 5 sessions, 3 faults: more sessions than faults can spoil |
| `sim_lifecycle` | answered requests hold; due SIMs are marked in the end | 1 IMSI, 2 clients and the background rounds, 3 requests, 2 faults (failed HSS calls, failed saves, restarts) |
| `tx_gate` | an undisturbed disarm silences every node and survives restarts | 2 clients, 2 nodes, 5 requests, one failed save, one restart into either mode, an archive of an armed server: nodes come, leave and are replaced under the loop |
| `alerts` | no alert is swallowed or raised twice in a run; a silent node is reported for good | 1 node, 1 SIM, two heartbeats on their way (one overtakes the other), 1 tick, one change of the other conditions, one failed save, one restart |
| `fair_use` | bytes conserved, charged as often as a counter starts over, none skipped; quotas stop a SIM | all three sources, 1 SIM and 1 foreign UE, a tunnel that moves between them, 2 bytes, and any three of: two requests, a torn or restarted record, a failed save, a restart, the end of the tap or its failed start |
| `hydra_admin` | a restart finds what was declared; numbering and reassembler in step | 2 threads, one of them from an earlier run, a weave from an earlier run or none, 3 requests by 2 clients, links that work, have no rate or are invalid, 4 numbers, window 2, threshold 2: two benches fit beside one another, and one of 3 packets is larger than the window, so that refusals, gap skips and re-alignments occur; two restarts: one that gives up at an invalid measurement and one after it was corrected |
| `control_tables` | the log never ahead, answers kept, revoked secrets out | an admin and a scoped caller, two secrets with the same id, 3 changes, one backup, one restore that may stop at any file, one failed save, one restart |

Symmetry over threads is used in `hydra_weave` and over clients in `tx_gate` and `hydra_admin`, whose
temporal properties are safety properties; no run with a liveness property uses it.

### Where the code and its documentation disagree

The modules state sentences of the code's documentation that are false of the code.
They are in no run; put the name into the configuration named here, under INVARIANTS or
PROPERTIES, to see the trace.

| Definition | Configuration | What the trace shows |
|---|---|---|
| `NeverDeaf` | `MCHydraWeave`, `MaxLost = 2`, no symmetry | the loss of a whole window makes the receiver drop everything from then on (`reorder.go:140`, against "keep the weave live on unreliable links", 7) |
| `CodeHasProfile` | `MCEsimDownload` | without a key the profile is missing from the registry file and a restart forgets it (`registry.go:304`, against 27-31); with a key it is missing from memory until a restart (`registry.go:215`, against 302-303) |
| `ExpiredLosesAccess` | `MCSimLifecycle` | an expired SIM keeps its network access when one HSS call or save fails (`server.go:311`, against 298) |
| `NoSilentRearm` | `MCTxGate` | a second disarm is acknowledged before the first is saved, and a restart re-arms the radio (`routes.go:648`, against `store.go:288-289`) |
| `ChargedOnce` | `MCFairUse` | after a restart, or after a charging record was read while being written, the whole counter is charged again (`server.go:409`, against 406-408 and `cdr.go:14-16`) |
| `QuotaAlertStays` | `MCFairUse` | the next alert round resolves the alert of a SIM that is still suspended for its quota (`server.go:544`, against 451-452) |
| `ClearedIsResolved` | `MCAlerts` | an alert raised before a restart is raised again after it and one of the two stays active for good (`server.go:578-587`, against 543) |
| `LatestHeartbeatKept` | `MCAlerts` | a delayed heartbeat replaces a later one (`routes.go:683`, against `store.go:232`) |
| `BenchInLockstep` | `MCHydraAdmin` | a bench whose threads go down midway leaves sequence numbers that never arrive (`fabric.go:473`, against 483-485); so does a bench of many more packets than the window (4096 in the code), whose far packets are refused (`fabric.go:498-507`, `reorder.go:140`) |
| `WeaveSurvives` | `MCHydraAdmin` | a reported measurement that `Upsert` refuses makes `Restore` leave out every weave (`fabric.go:399`, against `server.go:148`) |
| `RecordStays` | `MCControlTables` | a new token with the same id replaces a revoked token's record (`server.go:363`, against `store.go:339`) |
| `RestoreTakesEffect` | `MCControlTables` | between a restore and the restart the process saves its own tables over the restored ones (`backup.go:140-143`, against 137-139) |
| `FailedRestoreIsHarmless` | `MCControlTables` | a rename that fails leaves no data directory, and a removal that stops halfway a part of it (`backup.go:140`, against 79-81) |
| `NothingDeliverableLeft` | `MCReorderBuffer` | a packet that triggers the gap skip and is itself discarded leaves a deliverable packet behind, against "returns every payload that is now deliverable" (`reorder.go:103`) |
| `WaitersAreTimed` | `MCReorderBuffer` | a drain up to a second gap stops the gap timer although packets wait (`reorder.go:175`, against 16-19) |
| `StaleRowRealigns` | `MCReorderBuffer` | a leftover packet keeps the window from re-aligning to a restarted far end (`reorder.go:124`, against 72-75) |
| `WaitersAreReleased` | `MCHydraDelivery` | packets behind the last gap of a burst are not released by time alone, against "the weave does not stall" (`docs/architecture/hydra.md:181-183`) |
| `BrokenPathGoesDown` | `MCHydraProbe` | a thread on whose path every send fails stays up while the scheduler gives it no frame: a probe that cannot be sent is no miss (`node.go:490-494`, against `docs/architecture/hydra.md`, "Liveness probes") |
| `DownMeansMissed` | `MCHydraProbe` | a stale verdict marks down a thread that has just answered (`node.go:473`, against 458-460) |
| `UnprobedStaysDeclared` | `MCHydraProbe`, `Probing = FALSE` | without probing, a failed send marks a thread down for good (`node.go:400`, against 47-48) |
| `SingleUseOnce` | `MCEsimDownload` | two overlapping downloads of a single-use code are both served (`smdp.go:307`, against `registry.go:246-247`) |
| `CancelReleases` | `MCEsimDownload` | a cancelled download leaves its single-use code spent (`smdp.go:396-409`) |
| `FailureCancels` | `MCEsimDownload` | a refused confirmation does not cancel the session (`euicc.go:199`, against 59-60) |
| `RevokedIsGone` | `MCSimLifecycle` | a concurrent issue leaves a revoked SIM in the HSS (`routes.go:499-501`) |
| `RevokedStaysRevoked` | `MCSimLifecycle` | a suspend that began before a revoke ends after it (`routes.go:403`) |
| `DisarmSilencesAll` | `MCTxGate` | an arm granted before a disarm goes on flagging nodes after the disarm was answered (`routes.go:629-632`, against "it can only reduce risk", 646) |
| `LeaveIsFinal` | `MCTxGate` | the loop of an arm or a disarm puts back a node that left (`routes.go:629-632`, 657-660) |
| `LabNeverArmed` | `MCTxGate` | a restart into lab mode restores the armed flag (`server.go:131`, against `docs/adr/0008-spectrum-gate.md:39`) |
| `EveryAttemptAudited` | `MCTxGate` | an arm whose save fails is not audited (`routes.go:625`, against 635-636) |
| `PhasesStepForward` | `MCTxGate` | enrolling a node on air moves it back a phase (`routes.go:354`, against `lifecycle.go:11-12`) |

## 4. Fairness

* `HydraWeave`: the node's goroutines run, traffic keeps arriving, paths deliver what
  they do not lose, time passes. All are started by `start` and loop until `Close`.
  Losses, failed sends, health changes and restarts have no fairness.
* `HydraProbe`: prober, reader, peer, timeouts and the draining of dead paths. Nothing is
  owed of the writer: `sched.Pick` gives a frame to the thread that would finish it
  first, and a slow one may never get any.
* `EsimDownload`: the device retries and the operator issues; faults are not fair.
* `SimLifecycle`: a handler that began runs to its end and the minute ticker of
  `RunBackground` keeps calling `ExpireOnce`.
* `Alerts`: with alerts enabled (the default), the 30-second ticker keeps calling `EvaluateAlerts`, which runs to its end
  (weak fairness of its steps together). Heartbeats, their loss, time, changes, failed
  saves and restarts have no fairness.
* `FairUse`, `HydraAdmin`, `ControlTables`: none; their properties are safety.

## 5. Proofs

The constants are arbitrary, under the named assumptions of the modules
(`WindowAssumption`, `ResyncAssumption`, `SeqsAssumption`, `FramesAssumption`,
`SenderAssumption`, `WeaveAssumption`, `TxAssumption`, `SimAssumption`,
`RegistryAssumption`, `DownloadAssumption`, `AlertsAssumption`, `SourceAssumption`,
`FairUseAssumption`, `TablesAssumption`, `NoneAssumption`, `ProbeAssumption`,
`AdminAssumption`). They give the bounds and sizes their types (a window, a threshold
and a queue hold at least one), keep special values apart from ordinary ones, and say
which operations and values there are. The concurrent requests of `SimLifecycle`, the
UEs and tunnels of `UsageSource` and the threads of `HydraAdmin` are finite sets; nothing
else is assumed of a number of things. TLC evaluates every assumption on the instances.

Every inductive invariant below was checked with TLC before it was proved.

| Module | Theorem | Property |
|---|---|---|
| `ReorderBufferProofs` | `TypeCorrect`, `WindowBounded`, `ReleaseOrder`, `PacketAccounting`, `SequenceAccounting` | `ReorderTypeOK`, `WithinWindow`, `ReleasedInOrder`, `EveryPacketCounted`, `EverySequenceExplained` |
| `HydraWeaveProofs` | `ReceiverTypeCorrect`, `LockExcludes`, `EgressOrder`, `NothingSentTwice` (receiver on any network) | `ReceiverTypeOK`, `OneSender`, `EgressInOrder`, `SentIsBehind` |
| | `WeaveKeepsOrder`, `BacklogIsExact` (end to end) | the last three, `QueueBytesIsBacklog` |
| | `WeaveImplementsChannel` | `IsOrderedChannel`: the weave refines `WeaveChannel` |
| `HydraEngineProofs` | `ProbeTyped`, `OneProbe` (probing) | `ProbeTypeOK`, `OneProbeOutstanding` |
| | `AdminTyped`, `LockstepHolds`, `RestartsKeep` (control interface) | `TypeOK`, `Lockstep`, `RestartKeeps` (action property) |
| `TxGateProofs` | `GateTypeCorrect`, `DisarmQuietsNodes`, `DisarmOutlivesRestarts` | `TypeOK`, `DisarmSilences`, `DisarmSurvives` |
| `SimLifecycleProofs` | `LedgerTyped`, `AnswersKept` | `TypeOK`, `AnswersHold` |
| `EsimDownloadProofs` | `DownloadTyped`, `DownloadsAreWhole`, `BothEndsAgree`, `MarksHold`, `SessionsForward` | `TypeOK`, `FailedLeavesNothing`, `SuccessIsConfirmed`, `ServedIsMarked`, `SessionsMoveForward` (action property) |
| `FairUseProofs` | `FiredKeysActive`, `AlertsBounded` (alert engine) | `FiredIsActive`, `OneAlertPerRun` |
| | `MeterTyped`, `BytesKept`, `ChargesBounded`, `ReadingsCharged`, `QuotasEnforced` | `TypeOK`, `BytesConserved`, `ChargedPerReading`, `ReadIsCharged`, `OverQuotaStopped` |
| `ControlTablesProofs` | `TablesTyped`, `AuditFollows`, `AnswersAreKept`, `RevocationHolds` | `TypeOK`, `AuditNeverAhead`, `AnsweredIsKept`, `RevokedStaysOut` (action property) |

**The reassembler.** `ReleasedInOrder` alone is not inductive: that the next release
follows the earlier ones needs those to be behind `next` (`ReleasedIsBehind`), and that
the drain loop ends inside the range of `FirstMissing` needs the window
(`WithinWindow`). `Inv` is the conjunction. The accounting facts rest on the cardinality
of an interval and of a set with one element more (`FiniteSetTheorems`).
The first half of `ReorderBufferProofs` is what this and the receiver rest on: what `FirstMissing` returns,
that `Push` keeps the buffer's invariant, and that what it returns lies between the old
and the new position, in order.

**The weave.** The receiving node comes first, against a network that may hand any
frame to any reader at any time (`ReceiverSpec`). Its inductive invariant `Inv` adds to
`EgressInOrder` who holds the lock (`LockInv`), that a batch is in order, and that sent
and batched payloads are behind the buffer (`SentIsBehind`): a send keeps the order only
because no other reader can have pushed since the batch was released. End to end,
`WeaveInv` adds the sender's state with `QueueBytesIsBacklog` and `CarriedInv`: every
frame in a queue, with a writer, on a path, in a reader's hand, in the buffer or in a
batch carries a payload `Strip` accepted, under the number it was given. The refinement
then goes step by step: `Strip` is the channel's acceptance, `EgressSend` its delivery
(accepted by `CarriedInv`, in order by `EgressInOrder'`), a restart of the receiving
node its restart, everything else, a restart of the sending node included, a stutter.

**Probing.** A probe is issued on the strength of a snapshot taken before `p.mu` was
released, so `OneProbeOutstanding` is not inductive. `ProbeInv` adds that no probe is
outstanding where the snapshot said so, until the probe is issued: in between an echo
can only remove a probe, and only the prober adds one.

**The control interface.** `RestartKeeps` needs to know what engine and tables have to
do with one another at every stage of a request: where no request is at an id they
agree, and where one is, the engine agrees with what it will store (`KeptThread`,
`KeptWeave`; a delete: with nothing). That holds for ids that only one request works on.
The proof is what showed that a restart which gives up must be remembered too
(`leftOut`): the ids it left out are in the tables and not in the engine, and a later
restart brings them back once the bad measurement is corrected. With a single restart
the model checker could not see this. `Lockstep` follows from `LockstepInv`:
every number that an undisturbed weave has used is behind its reassembler's position, held
by it, in a frame in the lab, or with a bench that was called on this very weave and not
on an earlier one of the same name (`MadeInv`), and nothing else is; `InWindow` bounds
what a reassembler holds. What one `Push` does is a lemma of its own (`PushIs`): unless
it re-aligns it keeps what it had, and unless it also refuses it has the number pushed.
A gap skip is harmless to the invariant, as it only moves numbers behind the position.
That
`Strip` charges a thread which exists rests on `PickIsBest`: over a finite set of
threads the scheduler finds one that completes first, and it is a candidate with a rate.

**The transmit gate.** A disarm that has the gate to itself goes through stages.
`SoloInv` says for each what it has reached: the flag, then the file, then, inside the
loop, that a node is still to come, silent, or excused. That survives nodes being
registered, enrolled and removed meanwhile only because the loop's objects are followed
(`old`). At the answer this becomes `KeptInv`, which also says that no request is under
way: an arm that had still to save would break `DisarmSurvives`, which therefore is not
inductive, and an arm's loop `DisarmSilences`.

**The SIM ledger.** A handler writes through a pointer that it read long before.
`SimInv` says that an object belongs to one IMSI in the ledger and in every hand
(`OwnersInv`), that a handler that began alone and was not joined finds the HSS as its
own call left it (`AloneInv`), and that while a promise stands only handlers that cannot
break it are at work (`PromiseInv`). `FreshExists` shows, by counting, that there is
always an object nobody refers to, so that allocation in the model is never blocked and
never aliases.

**The eSIM download.** `DownloadInv` says that the file's copy of an entry carries every
saved mark and a code is never minted twice (`MarkInv`: a restart reads the file), that a
device holds what it won and, between installation and the last answer, the profile in
hand (`ClientInv`), and that a transaction belongs to one device whose place fits the
session's status (`SessionInv`: without it one download could disturb another's).

**Alerts, metering and quotas.** `AlertsInv` counts the active alerts of a key: those of
earlier runs, plus one if it has fired in this one. `FairUseInv` bounds every reading by
the bytes metered (`ReadingInv`) and every charge by `Ceiling`, which also covers what
the fold and a reconciliation have read and not yet written back: that is why a lost
update cannot lead above it (`ChargeInv`). `QuotaInv` is `OverQuotaStopped` at every
stage of a round, except for the SIM whose bytes have just been added. `BytesConserved`
is about a sum over the set of UEs. An induction theorem with an operator as a parameter
is out of the provers' reach; instead `SumExists` and `SumChanges` look at a smallest set
for which the claim would fail and take one UE out of it. A step that moves, adds or
releases one UE then changes the sum by what that UE's counter changes (`BalanceKept`).

**The tables.** `KeptInv` says that until a restore no file has more than memory, that
the log tells only of what is on disk, and that a change about to be logged is on disk.
`BackupInv` follows a backup through the files: whatever the log it has read tells of is
in a file that it has read, or will be when it gets there.

Every safety property that a run checks, invariant or action property, is a theorem.
Only model-checked are the liveness properties, because fairness and `ENABLED` are out
of the prover's reach: `LostOnlyWhenFull`, `BlackPathGoesDown`, `GoodPathComesBack`,
 `DeviceGetsProfile`, `DueIsMarked` and `SilentNodeReported`.

## 6. Not modelled

* Codecs and cryptography: frame headers, GTP and ASN.1 decoders, profiles, activation
  codes, certificates. A message is what it says or is unreadable.
* Pure tables and text: the policy engine's spectrum matrix (its verdict is free),
  WireGuard configuration, number generation, configuration files, metrics, logging.
* The event stream, listings and exports: they read the tables and change nothing.
* Webhooks: fire and forget, nothing reads them back.
* Pacing of an endpoint: a frame is one unit and a send takes any time, so the token
  bucket's limit (`transport.go:198`) does not show.
* mDNS discovery, raw sockets, sensors, the command line, the dashboard and the captive
  portal: I/O and user interface.

## 7. What could come next

* The sentences of section 3 that the code breaks, one by one as the code is changed:
  each is stated in its module and becomes a property of its run, and exceptions that
  `RestartKeeps`, `Lockstep` or `ChargedPerReading` make for it can go.
* The components that `PROJECT.json` lists as partly modelled.
* The token bucket of an endpoint (`transport.go:198`), with frame sizes.
