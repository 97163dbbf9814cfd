-------------------------------- MODULE TxGate -------------------------------
(***************************************************************************)
(* The RF transmit gate of the control plane and the node lifecycle behind  *)
(* it (internal/api routes.go, server.go; internal/lifecycle;               *)
(* internal/store): the armed flag in the server, its copy on disk, the     *)
(* nodes' own flags, and the audit log.                                     *)
(*                                                                          *)
(* The handlers share s.txArmed without a lock, so requests interleave      *)
(* between the assignment, the save and the update of each node.            *)
(*                                                                          *)
(* A node is an object that the store and the handlers share.  A loop over  *)
(* ListNodes works on the objects it was given: one that was replaced or    *)
(* removed meanwhile is put back by the loop's UpsertNode.                  *)
(***************************************************************************)
EXTENDS Integers, Sequences

CONSTANTS
    Clients,       \* concurrent REST requests
    Nodes,         \* node ids
    Modes,         \* server.mode values the operator may restart with
    Archives,      \* what an archive that is restored may hold of gate and nodes
    MaxRequests,   \* bound: REST requests in a behaviour
    MaxRestarts,   \* bound: restarts
    MaxFailures    \* bound: failed saves

Phases == <<"provision", "register", "on-air", "peer", "breakout">>
Node == [phase : {"none"} \cup {Phases[k] : k \in DOMAIN Phases}, tx : BOOLEAN]
NoNode == [phase |-> "none", tx |-> FALSE]

ASSUME TxAssumption ==
    /\ MaxRequests \in Nat /\ MaxRestarts \in Nat /\ MaxFailures \in Nat
    /\ Modes # {}
    /\ Archives \subseteq [tx : BOOLEAN, nodes : [Nodes -> Node]]
    /\ "nobody" \notin Clients

VARIABLES
    mode,        \* cfg.Server.Mode
    txArmed,     \* s.txArmed
    txFile,      \* tx.json
    nodes,       \* store.nodes: node -> phase ("none": no node) and tx flag
    nodesFile,   \* nodes.json
    at,          \* at[p]: the step p's request is at
    todo,        \* todo[p]: the nodes p's loop has still to flag,
    old,         \*   and old[p]: those of them whose listed object the table has lost
    disarmed,    \* history: a disarm was answered and no arm granted since,
    solo,        \*   the client whose disarm has had the gate to itself so far,
    kept,        \*   whether such a disarm was answered and no arm granted since,
    excused,     \*   nodes registered with the flag, or left with it on disk, since
    attempts,    \* history: arm requests answered or given up
    audited,     \* tx_arm entries in the audit log
    requests, restarts, failures

nodeVars == <<nodes, nodesFile>>
loops == <<todo, old>>
answers == <<disarmed, solo, kept>>
gateVars == <<mode, txArmed, txFile, answers, attempts, audited>>
bounds == <<requests, restarts, failures>>
vars == <<gateVars, nodeVars, at, loops, excused, bounds>>

Known == {n \in Nodes : nodes[n] # NoNode}

Idling == [p \in Clients |-> "idle"]
NoLoops == todo = [p \in Clients |-> {}] /\ old = [p \in Clients |-> [n \in Nodes |-> NoNode]]

Init ==
    /\ mode \in Modes
    /\ txArmed = FALSE /\ txFile = FALSE
    /\ nodes = [n \in Nodes |-> NoNode] /\ nodesFile = nodes
    /\ at = Idling /\ NoLoops
    /\ disarmed = FALSE /\ solo = "nobody" /\ kept = FALSE /\ excused = {}
    /\ attempts = 0 /\ audited = 0
    /\ requests = 0 /\ restarts = 0 /\ failures = 0

Request(p) ==
    /\ at[p] = "idle" /\ requests < MaxRequests
    /\ requests' = requests + 1
    /\ UNCHANGED <<restarts, failures>>

\* A save that may fail.
Saves(ok) ==
    /\ IF ok THEN UNCHANGED failures ELSE failures < MaxFailures /\ failures' = failures + 1
    /\ UNCHANGED <<requests, restarts>>

GoTo(p, place) == at' = [at EXCEPT ![p] = place]

\* UpsertNode and DeleteNode change the map in memory; the file follows when
\* the save succeeds.
SaveNodes(ok) == nodesFile' = IF ok THEN nodes' ELSE nodesFile

\* The object of node n leaves the table: a loop that has listed it keeps it.
Replaces(n) ==
    [q \in Clients |-> [old[q] EXCEPT ![n] =
        IF n \in todo[q] /\ old[q][n] = NoNode THEN nodes[n] ELSE @]]

\* ListNodes, from which a loop over the nodes starts.
ListNodes(p, from, to) ==
    /\ at[p] = from
    /\ todo' = [todo EXCEPT ![p] = Known]
    /\ GoTo(p, to)
    /\ UNCHANGED <<gateVars, nodeVars, old, excused, bounds>>

\* One turn of the loop: the listed object is flagged and put into the table,
\* be it still there or not; an error of the save is ignored.
FlagNode(p, n, flag) ==
    LET listed == IF old[p][n] = NoNode THEN nodes[n] ELSE old[p][n]
    IN /\ n \in todo[p]
       /\ nodes' = [nodes EXCEPT ![n] = [phase |-> listed.phase, tx |-> flag]]
       /\ \E ok \in BOOLEAN : Saves(ok) /\ SaveNodes(ok)
       /\ todo' = [todo EXCEPT ![p] = @ \ {n}]
       /\ old' = IF old[p][n] = NoNode THEN old
                 ELSE [Replaces(n) EXCEPT ![p] = [old[p] EXCEPT ![n] = NoNode]]
       /\ UNCHANGED <<gateVars, at>>

\* What the clients have been told: a disarm is answered; an arm is granted.
AnswerDisarm(alone) ==
    /\ disarmed' = TRUE
    /\ kept' = (kept \/ alone)
    /\ UNCHANGED solo
AnswerArm == disarmed' = FALSE /\ kept' = FALSE /\ solo' = "nobody"

-----------------------------------------------------------------------------
(* handleTxArm.                                                              *)

\* The gate: not in lab mode, and the acknowledgment phrase and the spectrum
\* check (permitted) are in order.
Grants(permitted) == mode # "lab" /\ permitted

\* A refusal is audited at once.
TxArmDenied(p) ==
    /\ Request(p)
    /\ \E permitted \in BOOLEAN : ~Grants(permitted)
    /\ attempts' = attempts + 1 /\ audited' = audited + 1
    /\ UNCHANGED <<mode, txArmed, txFile, answers, nodeVars, at, loops, excused>>

\* A grant sets the flag before anything is saved.
TxArm(p) ==
    /\ Request(p)
    /\ \E permitted \in BOOLEAN : Grants(permitted)
    /\ txArmed' = TRUE
    /\ AnswerArm
    /\ GoTo(p, "arm")
    /\ UNCHANGED <<mode, txFile, attempts, audited, nodeVars, loops, excused>>

\* SetTxArmed(true); an error ends the request, unaudited.
TxArmSave(p) ==
    /\ at[p] = "arm"
    /\ \E ok \in BOOLEAN :
          /\ Saves(ok)
          /\ txFile' = (txFile \/ ok)
          /\ GoTo(p, IF ok THEN "armNodes" ELSE "idle")
          /\ attempts' = IF ok THEN attempts ELSE attempts + 1
    /\ UNCHANGED <<mode, txArmed, answers, audited, nodeVars, loops, excused>>

TxArmNodes(p) == ListNodes(p, "armNodes", "armEach")

TxArmNode(p, n) == at[p] = "armEach" /\ FlagNode(p, n, TRUE) /\ UNCHANGED excused

\* After the loop the attempt is audited.
TxArmAudit(p) ==
    /\ at[p] = "armEach" /\ todo[p] = {}
    /\ attempts' = attempts + 1 /\ audited' = audited + 1
    /\ GoTo(p, "idle")
    /\ UNCHANGED <<mode, txArmed, txFile, answers, nodeVars, loops, excused, bounds>>

-----------------------------------------------------------------------------
(* handleTxDisarm.                                                           *)

\* When the flag is already clear it answers without saving anything.
TxDisarmed(p) ==
    /\ Request(p)
    /\ ~txArmed
    /\ AnswerDisarm(FALSE)
    /\ UNCHANGED <<mode, txArmed, txFile, attempts, audited, nodeVars, at, loops, excused>>

TxDisarm(p) ==
    /\ Request(p)
    /\ txArmed
    /\ txArmed' = FALSE
    /\ GoTo(p, "disarm")
    /\ solo' = IF at = Idling THEN p ELSE "nobody"
    /\ excused' = {}
    /\ UNCHANGED <<mode, txFile, disarmed, kept, attempts, audited, nodeVars, loops>>

\* Mutant: a disarm is not saved.
TxDisarmUnsaved(p) ==
    /\ at[p] = "disarm"
    /\ GoTo(p, "disarmNodes")
    /\ UNCHANGED <<gateVars, nodeVars, loops, excused, bounds>>

\* SetTxArmed(false).
TxDisarmSave(p) ==
    /\ at[p] = "disarm"
    /\ \E ok \in BOOLEAN :
          /\ Saves(ok)
          /\ txFile' = (txFile /\ ~ok)
          /\ GoTo(p, IF ok THEN "disarmNodes" ELSE "idle")
    /\ UNCHANGED <<mode, txArmed, answers, attempts, audited, nodeVars, loops, excused>>

TxDisarmNodes(p) == ListNodes(p, "disarmNodes", "disarmEach")

\* Mutant: a node that is still being provisioned is left as it is.
TxDisarmListed(p, n) ==
    /\ at[p] = "disarmEach" /\ n \in todo[p]
    /\ nodes' = IF nodes[n].phase = "provision" THEN nodes ELSE [nodes EXCEPT ![n].tx = FALSE]
    /\ \E ok \in BOOLEAN : Saves(ok) /\ SaveNodes(ok)
    /\ todo' = [todo EXCEPT ![p] = @ \ {n}]
    /\ excused' = excused \ {n}
    /\ UNCHANGED <<gateVars, at, old>>

TxDisarmNode(p, n) ==
    /\ at[p] = "disarmEach"
    /\ FlagNode(p, n, FALSE)
    /\ excused' = excused \ {n}

\* The answer counts only if nobody armed the radio meanwhile.
TxDisarmDone(p) ==
    /\ at[p] = "disarmEach" /\ todo[p] = {}
    /\ IF txArmed THEN UNCHANGED answers ELSE AnswerDisarm(solo = p)
    /\ excused' = excused \cup {n \in Nodes : nodesFile[n].tx}
    /\ GoTo(p, "idle")
    /\ UNCHANGED <<mode, txArmed, txFile, attempts, audited, nodeVars, loops, bounds>>

-----------------------------------------------------------------------------
(* Nodes.                                                                    *)

\* lifecycle.Transition accepts the same phase or the next one.
Transition(current, next) ==
    \E k \in DOMAIN Phases :
        /\ current = Phases[k]
        /\ next = current \/ (k < Len(Phases) /\ next = Phases[k + 1])

PutNode(n, node, ok) ==
    /\ requests < MaxRequests /\ requests' = requests + 1
    /\ nodes' = [nodes EXCEPT ![n] = node]
    /\ IF ok THEN UNCHANGED failures ELSE failures < MaxFailures /\ failures' = failures + 1
    /\ SaveNodes(ok)
    /\ UNCHANGED <<gateVars, at, todo, restarts>>

\* Mutant: the phase in the request is kept.
CreateNodeAsAsked(n) ==
    \E ok \in BOOLEAN :
        /\ PutNode(n, [phase |-> "planned", tx |-> FALSE], ok)
        /\ UNCHANGED <<old, excused>>

\* handleCreateNode: a new object, for a new node or an existing one started
\* over, with the flag as the request has it.
CreateNode(n) ==
    \E tx \in BOOLEAN, ok \in BOOLEAN :
        /\ PutNode(n, [phase |-> "provision", tx |-> tx], ok)
        /\ old' = Replaces(n)
        /\ excused' = IF tx THEN excused \cup {n} ELSE IF ok THEN excused \ {n} ELSE excused

\* handleEnrollNode checks the token, not the phase.
EnrollNode(n) ==
    /\ n \in Known
    /\ \E ok \in BOOLEAN : PutNode(n, [nodes[n] EXCEPT !.phase = "register"], ok)
    /\ UNCHANGED <<old, excused>>

\* handleLifecycle acts on the first node the map yields.
Lifecycle(n) ==
    /\ n \in Known
    /\ \E k \in DOMAIN Phases, ok \in BOOLEAN :
          /\ Transition(nodes[n].phase, Phases[k])
          /\ PutNode(n, [nodes[n] EXCEPT !.phase = Phases[k]], ok)
    /\ UNCHANGED <<old, excused>>

LeaveNode(n) ==
    /\ n \in Known
    /\ \E ok \in BOOLEAN :
          /\ PutNode(n, NoNode, ok)
          /\ excused' = IF ok THEN excused \ {n} ELSE excused
    /\ old' = Replaces(n)

-----------------------------------------------------------------------------
\* POST /v1/restore: the data directory becomes the archive's, under a server
\* that goes on as it is.
Restore ==
    /\ requests < MaxRequests /\ requests' = requests + 1
    /\ \E a \in Archives : txFile' = a.tx /\ nodesFile' = a.nodes
    /\ AnswerArm
    /\ UNCHANGED <<mode, txArmed, nodes, at, loops, excused, attempts, audited, restarts, failures>>

\* NewWithOptions and load: the gate comes up as the file says.
Restart ==
    /\ restarts < MaxRestarts /\ restarts' = restarts + 1
    /\ mode' \in Modes
    /\ txArmed' = txFile
    /\ nodes' = nodesFile
    /\ at' = Idling
    /\ todo' = [p \in Clients |-> {}] /\ old' = [p \in Clients |-> [n \in Nodes |-> NoNode]]
    /\ solo' = "nobody"
    /\ UNCHANGED <<txFile, nodesFile, disarmed, kept, excused, attempts, audited, requests, failures>>

Handle(p) ==
    \/ TxArmDenied(p) \/ TxArm(p) \/ TxArmSave(p) \/ TxArmNodes(p) \/ TxArmAudit(p)
    \/ TxDisarmed(p) \/ TxDisarm(p) \/ TxDisarmSave(p) \/ TxDisarmNodes(p) \/ TxDisarmDone(p)
    \/ \E n \in Nodes : TxArmNode(p, n) \/ TxDisarmNode(p, n)

Next ==
    \/ \E p \in Clients : Handle(p)
    \/ \E n \in Nodes : CreateNode(n) \/ EnrollNode(n) \/ Lifecycle(n) \/ LeaveNode(n)
    \/ Restore
    \/ Restart

Spec == Init /\ [][Next]_vars

-----------------------------------------------------------------------------
(* The types of the gate, the nodes and the requests in progress: every      *)
(* node is in a known phase.                                                 *)
TypeOK ==
    /\ mode \in Modes
    /\ txArmed \in BOOLEAN /\ txFile \in BOOLEAN
    /\ disarmed \in BOOLEAN /\ kept \in BOOLEAN
    /\ solo \in Clients \cup {"nobody"} /\ excused \subseteq Nodes
    /\ nodes \in [Nodes -> Node] /\ nodesFile \in [Nodes -> Node]
    /\ at \in [Clients -> {"idle", "arm", "armNodes", "armEach",
                           "disarm", "disarmNodes", "disarmEach"}]
    /\ todo \in [Clients -> SUBSET Nodes] /\ old \in [Clients -> [Nodes -> Node]]
    /\ attempts \in Nat /\ audited \in Nat
    /\ audited <= attempts

(* A disarm silences the nodes ("it can only reduce risk", routes.go:646):   *)
(* once a disarm that had the gate to itself is answered, no node carries    *)
(* the transmit flag, in the table or in its file, until an arm is granted or*)
(* an archive restored, although nodes are registered, enrolled and removed  *)
(* while its loop runs and a node that left may be put back by it.  Excused  *)
(* are the nodes that were registered with the flag after the loop had passed*)
(* them, and those whose cleared flag no save has brought to the file.       *)
DisarmSilences ==
    kept => \A n \in Nodes \ excused : ~nodes[n].tx /\ ~nodesFile[n].tx

(* The same for every answered disarm and every node it found.  The code     *)
(* breaks it: an arm that was granted before goes on flagging the nodes after*)
(* the disarm was answered (routes.go:629-632).                              *)
DisarmSilencesAll ==
    disarmed => \A n \in Nodes \ excused : ~nodes[n].tx

(* A node that left stays away ("node_leave", routes.go:374).  The code      *)
(* breaks it: an arm or a disarm that listed the node before puts it back.   *)
LeaveIsFinal == [][\A n \in Nodes \ Known : \A p \in Clients :
                      n \in todo[p] /\ n \notin todo'[p] => nodes'[n] = NoNode]_vars

(* "so a restart cannot silently re-arm the radio" (store.go:288-289), as far*)
(* as the code keeps it: a disarm that had the gate to itself and was        *)
(* answered after its save holds in memory and on disk, over restarts, until *)
(* an arm is granted or an archive, which has a tx.json of its own, restored.*)
DisarmSurvives == kept => ~txArmed /\ ~txFile

(* "so a restart cannot silently re-arm the radio" (store.go:288-289), for   *)
(* every answered disarm.  The code breaks it: a disarm that finds the flag  *)
(* already cleared by another one, whose save is still to come or has failed,*)
(* is answered without saving anything.                                      *)
NoSilentRearm == disarmed => ~txArmed

(* "Operators must deliberately re-arm after every config change touching    *)
(* radio" (docs/adr/0008-spectrum-gate.md:39) and "server.mode=lab: RF TX is *)
(* disabled by configuration" (routes.go:610).  The code breaks it: a restart*)
(* into lab mode restores the armed flag from the file.                      *)
LabNeverArmed == mode = "lab" => ~txArmed

(* "Every arm attempt lands in the audit log - including denials"            *)
(* (routes.go:635-636).  The code breaks it: the return after a failed save  *)
(* skips the audit, with the flag set.                                       *)
EveryAttemptAudited == attempts = audited

(* "Transitions may only move forward one step at a time" (lifecycle.go:     *)
(* 11-12).  The code breaks it: enrolling a node sets its phase whatever it  *)
(* was.                                                                      *)
PhasesStepForward ==
    [][\A n \in Known : nodes'[n] # NoNode /\ nodes'[n].phase # "provision" /\ restarts' = restarts
          => Transition(nodes[n].phase, nodes'[n].phase)]_vars
=============================================================================
