---------------------------- MODULE TxGateProofs -----------------------------
(***************************************************************************)
(* Proofs about the transmit gate, for any number of concurrent requests,   *)
(* nodes, archives, restarts and failed saves.                              *)
(*                                                                          *)
(* That a disarm survives a restart, and that it silences the nodes, is not *)
(* inductive.  Both hold because a disarm that has the gate to itself keeps *)
(* it: a second one finds the flag clear and an arm ends the claim.  SoloInv*)
(* says so while it runs, with the nodes its loop has passed; KeptInv after *)
(* its answer.                                                              *)
(***************************************************************************)
EXTENDS TxGate, TLAPS

\* The disarm of p runs alone; it is on disk once it has saved, and silent are
\* the nodes its loop has not still to flag.
SoloDisarm(p) ==
    /\ ~txArmed
    /\ \A q \in Clients : q # p => at[q] = "idle"
    /\ at[p] \in {"idle", "disarm", "disarmNodes", "disarmEach"}
    /\ at[p] \in {"disarmNodes", "disarmEach"} => ~txFile
    /\ at[p] = "disarmEach" => \A n \in Nodes \ excused : n \in todo[p] \/ ~nodes[n].tx

SoloInv == solo # "nobody" => SoloDisarm(solo)

\* After such a disarm was answered nothing is armed or about to be.
KeptInv == kept => /\ ~txArmed /\ ~txFile
                   /\ \A p \in Clients : at[p] = "idle"
                   /\ \A n \in Nodes \ excused : ~nodes[n].tx /\ ~nodesFile[n].tx

GateInv == TypeOK /\ SoloInv /\ KeptInv

-----------------------------------------------------------------------------
\* What the loops keep when an object leaves the table has the type of nodes.
LEMMA ReplacesType ==
    ASSUME TypeOK, NEW n \in Nodes
    PROVE  Replaces(n) \in [Clients -> [Nodes -> Node]]
BY DEF TypeOK, Replaces

\* The fields of the nodes that the operations put into the table.
LEMMA NodeFields ==
    ASSUME NEW k \in 1 .. 5, NEW f \in BOOLEAN, NEW it \in Node
    PROVE  /\ NoNode \in Node /\ ~NoNode.tx
           /\ [phase |-> it.phase, tx |-> f] \in Node
           /\ [phase |-> "provision", tx |-> f] \in Node
           /\ [it EXCEPT !.phase = Phases[k]] \in Node /\ [it EXCEPT !.phase = Phases[k]].tx = it.tx
           /\ [it EXCEPT !.phase = "register"] \in Node /\ [it EXCEPT !.phase = "register"].tx = it.tx
<1> USE DEF Node, NoNode, Phases
<1>1. NoNode \in Node /\ ~NoNode.tx
  OBVIOUS
<1>2. [phase |-> it.phase, tx |-> f] \in Node
  OBVIOUS
<1>3. [phase |-> "provision", tx |-> f] \in Node
  OBVIOUS
<1>4. [it EXCEPT !.phase = Phases[k]] \in Node /\ [it EXCEPT !.phase = Phases[k]].tx = it.tx
  OBVIOUS
<1>5. [it EXCEPT !.phase = "register"] \in Node /\ [it EXCEPT !.phase = "register"].tx = it.tx
  OBVIOUS
<1> QED
  BY <1>1, <1>2, <1>3, <1>4, <1>5

\* A node is put into the table: types are kept, and the flags of the others.
LEMMA PutNodeEffect ==
    ASSUME TypeOK, NEW n \in Nodes, NEW node \in Node, NEW ok \in BOOLEAN, PutNode(n, node, ok)
    PROVE  /\ nodes' \in [Nodes -> Node] /\ nodesFile' \in [Nodes -> Node]
           /\ nodes'[n] = node /\ \A m \in Nodes : m # n => nodes'[m] = nodes[m]
           /\ nodesFile' = IF ok THEN nodes' ELSE nodesFile
           /\ UNCHANGED <<gateVars, at, todo>>
BY DEF TypeOK, PutNode, SaveNodes

\* One turn of a loop over the nodes.
LEMMA FlagNodeEffect ==
    ASSUME TypeOK, NEW p \in Clients, NEW n \in Nodes, NEW flag \in BOOLEAN, FlagNode(p, n, flag)
    PROVE  /\ nodes' \in [Nodes -> Node] /\ nodesFile' \in [Nodes -> Node]
           /\ nodes'[n].tx = flag /\ \A m \in Nodes : m # n => nodes'[m] = nodes[m]
           /\ todo' \in [Clients -> SUBSET Nodes] /\ old' \in [Clients -> [Nodes -> Node]]
           /\ todo' = [todo EXCEPT ![p] = @ \ {n}]
           /\ UNCHANGED <<gateVars, at>>
<1> DEFINE listed == IF old[p][n] = NoNode THEN nodes[n] ELSE old[p][n]
           put == [phase |-> listed.phase, tx |-> flag]
<1>1. listed \in Node
  BY DEF TypeOK
<1>2. put \in Node /\ put.tx = flag /\ NoNode \in Node
  BY <1>1, NodeFields, 1 \in 1 .. 5
<1>3. /\ nodes' = [nodes EXCEPT ![n] = put]
      /\ \E ok \in BOOLEAN : nodesFile' = IF ok THEN nodes' ELSE nodesFile
      /\ todo' = [todo EXCEPT ![p] = @ \ {n}]
      /\ UNCHANGED <<gateVars, at>>
  BY DEF FlagNode, SaveNodes
<1>4. old' \in [Clients -> [Nodes -> Node]]
  BY <1>2, ReplacesType DEF FlagNode, TypeOK
<1> HIDE DEF put
<1> QED
  BY <1>2, <1>3, <1>4 DEF TypeOK

-----------------------------------------------------------------------------
LEMMA InitGate == Init => GateInv
<1> SUFFICES ASSUME Init PROVE GateInv
  OBVIOUS
<1>1. NoNode \in Node
  BY DEF NoNode, Node
<1>2. TypeOK
  <2>1. nodes \in [Nodes -> Node] /\ nodesFile \in [Nodes -> Node]
    BY <1>1 DEF Init
  <2>2. at \in [Clients -> {"idle", "arm", "armNodes", "armEach",
                            "disarm", "disarmNodes", "disarmEach"}]
    BY DEF Init, Idling
  <2>3. attempts \in Nat /\ audited \in Nat /\ audited <= attempts
    BY DEF Init
  <2>4. todo \in [Clients -> SUBSET Nodes] /\ old \in [Clients -> [Nodes -> Node]]
    BY <1>1 DEF Init, NoLoops
  <2> QED
    BY <2>1, <2>2, <2>3, <2>4, Zenon DEF Init, TypeOK
<1>3. SoloInv /\ KeptInv
  BY DEF Init, SoloInv, KeptInv
<1> QED
  BY <1>2, <1>3 DEF GateInv

\* The gate's part of a step that leaves nodes and loops alone.
LEMMA HandleGate ==
    ASSUME GateInv, NEW p \in Clients,
           \/ TxArmDenied(p) \/ TxArm(p) \/ TxArmSave(p) \/ TxArmNodes(p) \/ TxArmAudit(p)
           \/ TxDisarmed(p) \/ TxDisarm(p) \/ TxDisarmSave(p) \/ TxDisarmNodes(p) \/ TxDisarmDone(p)
    PROVE  GateInv'
<1> USE TxAssumption DEF GateInv
<1>1. CASE TxArmDenied(p)
  BY <1>1 DEF TxArmDenied, answers, nodeVars, loops, TypeOK, SoloInv, KeptInv, SoloDisarm
<1>2. CASE TxArm(p)
  BY <1>2 DEF TxArm, GoTo, AnswerArm, nodeVars, loops, TypeOK, SoloInv, KeptInv
<1>3. CASE TxArmSave(p)
  <2>1. solo = "nobody" /\ ~kept
    BY <1>3 DEF TxArmSave, SoloInv, KeptInv, SoloDisarm, TypeOK
  <2> QED
    BY <1>3, <2>1 DEF TxArmSave, GoTo, answers, nodeVars, loops, TypeOK, SoloInv, KeptInv
<1>4. CASE TxArmNodes(p)
  <2>1. solo = "nobody" /\ ~kept
    BY <1>4 DEF TxArmNodes, ListNodes, SoloInv, KeptInv, SoloDisarm, TypeOK
  <2> QED
    BY <1>4, <2>1
    DEF TxArmNodes, ListNodes, GoTo, gateVars, answers, nodeVars, TypeOK, SoloInv, KeptInv, Known
<1>5. CASE TxArmAudit(p)
  <2>1. solo = "nobody" /\ ~kept
    BY <1>5 DEF TxArmAudit, SoloInv, KeptInv, SoloDisarm, TypeOK
  <2> QED
    BY <1>5, <2>1 DEF TxArmAudit, GoTo, answers, nodeVars, loops, TypeOK, SoloInv, KeptInv
<1>6. CASE TxDisarmed(p)
  BY <1>6 DEF TxDisarmed, AnswerDisarm, nodeVars, loops, TypeOK, SoloInv, KeptInv, SoloDisarm
<1>7. CASE TxDisarm(p)
  <2>1. ~kept
    BY <1>7 DEF TxDisarm, KeptInv
  <2>2. TypeOK'
    BY <1>7 DEF TxDisarm, GoTo, nodeVars, loops, TypeOK
  <2>3. KeptInv'
    BY <1>7, <2>1 DEF TxDisarm, KeptInv
  <2>4. SoloInv'
    BY <1>7, <2>2 DEF TxDisarm, GoTo, Idling, TypeOK, SoloInv, SoloDisarm
  <2> QED
    BY <2>2, <2>3, <2>4
<1>8. CASE TxDisarmSave(p)
  <2>1. ~kept
    BY <1>8 DEF TxDisarmSave, KeptInv
  <2> QED
    BY <1>8, <2>1
    DEF TxDisarmSave, GoTo, answers, nodeVars, loops, TypeOK, SoloInv, KeptInv, SoloDisarm
<1>9. CASE TxDisarmNodes(p)
  <2>1. ~kept
    BY <1>9 DEF TxDisarmNodes, ListNodes, KeptInv
  <2>2. TypeOK' /\ KeptInv'
    BY <1>9, <2>1
    DEF TxDisarmNodes, ListNodes, GoTo, gateVars, answers, nodeVars, TypeOK, KeptInv, Known
  <2>3. \A n \in Nodes : n \in Known \/ ~nodes[n].tx
    BY DEF Known, NoNode
  <2>4. SoloInv'
    BY <1>9, <2>3
    DEF TxDisarmNodes, ListNodes, GoTo, gateVars, answers, nodeVars, TypeOK, SoloInv, SoloDisarm
  <2> QED
    BY <2>2, <2>4
<1>10. CASE TxDisarmDone(p)
  <2>1. ~kept
    BY <1>10 DEF TxDisarmDone, KeptInv
  <2>2. TypeOK'
    BY <1>10 DEF TxDisarmDone, GoTo, AnswerDisarm, answers, nodeVars, loops, TypeOK
  <2>3. SoloInv'
    BY <1>10 DEF TxDisarmDone, GoTo, AnswerDisarm, answers, nodeVars, loops, TypeOK, SoloInv, SoloDisarm
  <2>4. KeptInv'
    <3> SUFFICES ASSUME kept' PROVE KeptInv'
      BY DEF KeptInv
    <3>1. ~txArmed /\ solo = p
      BY <1>10, <2>1 DEF TxDisarmDone, AnswerDisarm, answers
    <3>2. SoloDisarm(p)
      BY <3>1 DEF SoloInv
    <3>3. ~txFile /\ \A n \in Nodes \ excused : ~nodes[n].tx
      BY <1>10, <3>2 DEF TxDisarmDone, SoloDisarm
    <3>4. \A q \in Clients : at'[q] = "idle"
      BY <1>10, <3>2 DEF TxDisarmDone, SoloDisarm, GoTo, TypeOK
    <3> QED
      BY <1>10, <3>1, <3>3, <3>4 DEF TxDisarmDone, nodeVars, KeptInv
  <2> QED
    BY <2>2, <2>3, <2>4
<1> QED
  BY <1>1, <1>2, <1>3, <1>4, <1>5, <1>6, <1>7, <1>8, <1>9, <1>10

\* One turn of an arm's or a disarm's loop.
LEMMA LoopGate ==
    ASSUME GateInv, NEW p \in Clients, NEW n \in Nodes, TxArmNode(p, n) \/ TxDisarmNode(p, n)
    PROVE  GateInv'
<1> USE TxAssumption DEF GateInv
<1>1. CASE TxArmNode(p, n)
  <2>1. solo = "nobody" /\ ~kept
    BY <1>1 DEF TxArmNode, SoloInv, KeptInv, SoloDisarm, TypeOK
  <2>2. /\ nodes' \in [Nodes -> Node] /\ nodesFile' \in [Nodes -> Node]
        /\ todo' \in [Clients -> SUBSET Nodes] /\ old' \in [Clients -> [Nodes -> Node]]
        /\ UNCHANGED <<gateVars, at>> /\ UNCHANGED excused
    BY <1>1, FlagNodeEffect DEF TxArmNode
  <2> QED
    BY <2>1, <2>2 DEF gateVars, answers, TypeOK, SoloInv, KeptInv
<1>2. CASE TxDisarmNode(p, n)
  <2>1. ~kept
    BY <1>2 DEF TxDisarmNode, KeptInv
  <2>2. /\ nodes' \in [Nodes -> Node] /\ nodesFile' \in [Nodes -> Node]
        /\ nodes'[n].tx = FALSE /\ \A m \in Nodes : m # n => nodes'[m] = nodes[m]
        /\ todo' \in [Clients -> SUBSET Nodes] /\ old' \in [Clients -> [Nodes -> Node]]
        /\ todo' = [todo EXCEPT ![p] = @ \ {n}]
        /\ UNCHANGED <<gateVars, at>> /\ excused' = excused \ {n} /\ at[p] = "disarmEach"
    BY <1>2, FlagNodeEffect DEF TxDisarmNode
  <2>3. TypeOK' /\ KeptInv'
    BY <2>1, <2>2 DEF gateVars, answers, TypeOK, KeptInv
  <2>4. SoloInv'
    <3> SUFFICES ASSUME solo # "nobody" PROVE SoloDisarm(solo)'
      BY <2>2 DEF SoloInv, gateVars, answers
    <3>1. SoloDisarm(solo) /\ solo \in Clients
      BY DEF SoloInv, TypeOK
    <3>2. solo = p
      BY <2>2, <3>1 DEF SoloDisarm
    <3>3. \A m \in Nodes \ excused' : m \in todo'[p] \/ ~nodes'[m].tx
      BY <2>2, <3>1, <3>2 DEF SoloDisarm, TypeOK
    <3> QED
      BY <2>2, <3>1, <3>2, <3>3 DEF SoloDisarm, gateVars, answers
  <2> QED
    BY <2>3, <2>4
<1> QED
  BY <1>1, <1>2

\* The operations on nodes: what changes a flag is excused.
LEMMA NodeGate ==
    ASSUME GateInv, NEW n \in Nodes,
           CreateNode(n) \/ EnrollNode(n) \/ Lifecycle(n) \/ LeaveNode(n)
    PROVE  GateInv'
<1> USE TxAssumption DEF GateInv
<1>0. nodes[n] \in Node /\ DOMAIN Phases = 1 .. 5 /\ 1 \in 1 .. 5 /\ TRUE \in BOOLEAN
  BY DEF TypeOK, Phases
<1>1. \E node \in Node : \E ok \in BOOLEAN :
        /\ PutNode(n, node, ok)
        /\ old' \in [Clients -> [Nodes -> Node]]
        /\ excused' \in SUBSET Nodes
        /\ \A m \in Nodes : m \notin excused' => m \notin excused \/ (m = n /\ ok)
        /\ n \notin excused' => ~node.tx \/ (node.tx = nodes[n].tx /\ n \notin excused)
  <2>1. CASE CreateNode(n)
    <3>1. PICK tx \in BOOLEAN, ok \in BOOLEAN :
            /\ PutNode(n, [phase |-> "provision", tx |-> tx], ok)
            /\ old' = Replaces(n)
            /\ excused' = IF tx THEN excused \cup {n} ELSE IF ok THEN excused \ {n} ELSE excused
      BY <2>1 DEF CreateNode
    <3>2. [phase |-> "provision", tx |-> tx] \in Node
      BY <1>0, NodeFields
    <3>3. old' \in [Clients -> [Nodes -> Node]] /\ excused' \in SUBSET Nodes
      BY <3>1, ReplacesType DEF TypeOK
    <3> QED
      BY <3>1, <3>2, <3>3
  <2>2. CASE EnrollNode(n)
    <3>1. PICK ok \in BOOLEAN : PutNode(n, [nodes[n] EXCEPT !.phase = "register"], ok)
      BY <2>2 DEF EnrollNode
    <3>2. /\ [nodes[n] EXCEPT !.phase = "register"] \in Node
          /\ [nodes[n] EXCEPT !.phase = "register"].tx = nodes[n].tx
      BY <1>0, NodeFields
    <3>3. old' = old /\ excused' = excused
      BY <2>2 DEF EnrollNode
    <3> DEFINE node == [nodes[n] EXCEPT !.phase = "register"]
    <3>4. node \in Node /\ node.tx = nodes[n].tx /\ PutNode(n, node, ok)
      BY <3>1, <3>2
    <3> HIDE DEF node
    <3> QED
      BY <3>3, <3>4 DEF TypeOK
  <2>3. CASE Lifecycle(n)
    <3>1. PICK k \in 1 .. 5, ok \in BOOLEAN : PutNode(n, [nodes[n] EXCEPT !.phase = Phases[k]], ok)
      BY <1>0, <2>3 DEF Lifecycle
    <3>2. /\ [nodes[n] EXCEPT !.phase = Phases[k]] \in Node
          /\ [nodes[n] EXCEPT !.phase = Phases[k]].tx = nodes[n].tx
      BY <1>0, NodeFields
    <3>3. old' = old /\ excused' = excused
      BY <2>3 DEF Lifecycle
    <3> DEFINE node == [nodes[n] EXCEPT !.phase = Phases[k]]
    <3>4. node \in Node /\ node.tx = nodes[n].tx /\ PutNode(n, node, ok)
      BY <3>1, <3>2
    <3> HIDE DEF node
    <3> QED
      BY <3>3, <3>4 DEF TypeOK
  <2>4. CASE LeaveNode(n)
    <3>1. PICK ok \in BOOLEAN :
            PutNode(n, NoNode, ok) /\ excused' = IF ok THEN excused \ {n} ELSE excused
      BY <2>4 DEF LeaveNode
    <3>2. NoNode \in Node /\ ~NoNode.tx
      BY <1>0, NodeFields
    <3>3. old' \in [Clients -> [Nodes -> Node]] /\ excused' \in SUBSET Nodes
      BY <2>4, <3>1, ReplacesType DEF LeaveNode, TypeOK
    <3> QED
      BY <3>1, <3>2, <3>3
  <2> QED
    BY <2>1, <2>2, <2>3, <2>4
<1>2. PICK node \in Node, ok \in BOOLEAN :
        /\ PutNode(n, node, ok)
        /\ old' \in [Clients -> [Nodes -> Node]]
        /\ excused' \in SUBSET Nodes
        /\ \A m \in Nodes : m \notin excused' => m \notin excused \/ (m = n /\ ok)
        /\ n \notin excused' => ~node.tx \/ (node.tx = nodes[n].tx /\ n \notin excused)
  BY <1>1
<1>3. /\ nodes' \in [Nodes -> Node] /\ nodesFile' \in [Nodes -> Node]
      /\ nodes'[n] = node /\ \A m \in Nodes : m # n => nodes'[m] = nodes[m]
      /\ nodesFile' = IF ok THEN nodes' ELSE nodesFile
      /\ UNCHANGED <<gateVars, at, todo>>
  BY <1>2, PutNodeEffect
<1>4. TypeOK'
  BY <1>2, <1>3 DEF TypeOK, gateVars, answers
<1>5. \A m \in Nodes \ excused' : ~nodes'[m].tx \/ (m \notin excused /\ nodes'[m].tx = nodes[m].tx)
  BY <1>2, <1>3
<1>6. KeptInv'
  <2> SUFFICES ASSUME kept PROVE KeptInv'
    BY <1>3 DEF KeptInv, gateVars, answers
  <2>1. \A m \in Nodes \ excused' : ~nodes'[m].tx
    BY <1>5 DEF KeptInv
  <2>2. \A m \in Nodes \ excused' : ~nodesFile'[m].tx
    BY <1>2, <1>3, <2>1 DEF KeptInv
  <2> QED
    BY <1>3, <2>1, <2>2 DEF KeptInv, gateVars, answers
<1>7. SoloInv'
  <2> SUFFICES ASSUME solo # "nobody" PROVE SoloDisarm(solo)'
    BY <1>3 DEF SoloInv, gateVars, answers
  <2>1. SoloDisarm(solo)
    BY DEF SoloInv
  <2>2. solo' = solo /\ txArmed' = txArmed /\ txFile' = txFile /\ at' = at /\ todo' = todo
    BY <1>3 DEF gateVars, answers
  <2>3. at[solo] = "disarmEach" => \A m \in Nodes \ excused' : m \in todo[solo] \/ ~nodes'[m].tx
    BY <1>5, <2>1 DEF SoloDisarm
  <2> QED
    BY <2>1, <2>2, <2>3 DEF SoloDisarm
<1> QED
  BY <1>4, <1>6, <1>7

LEMMA NextGate == GateInv /\ [Next]_vars => GateInv'
<1> SUFFICES ASSUME GateInv, [Next]_vars PROVE GateInv'
  OBVIOUS
<1>1. ASSUME NEW p \in Clients, Handle(p) PROVE GateInv'
  BY <1>1, HandleGate, LoopGate DEF Handle
<1>2. ASSUME NEW n \in Nodes, CreateNode(n) \/ EnrollNode(n) \/ Lifecycle(n) \/ LeaveNode(n)
      PROVE  GateInv'
  BY <1>2, NodeGate
<1>3. CASE Restore
  <2>1. PICK a \in Archives : txFile' = a.tx /\ nodesFile' = a.nodes
    BY <1>3 DEF Restore
  <2>2. txFile' \in BOOLEAN /\ nodesFile' \in [Nodes -> Node]
    BY <2>1, TxAssumption
  <2> QED
    BY <1>3, <2>2 DEF Restore, AnswerArm, loops, GateInv, TypeOK, SoloInv, KeptInv
<1>4. CASE Restart
  <2>1. NoNode \in Node
    BY DEF NoNode, Node
  <2>2. /\ at' = Idling /\ \A p \in Clients : at'[p] = "idle"
        /\ todo' \in [Clients -> SUBSET Nodes] /\ old' \in [Clients -> [Nodes -> Node]]
    BY <1>4, <2>1 DEF Restart, Idling
  <2> QED
    BY <1>4, <2>2 DEF Restart, Idling, GateInv, TypeOK, SoloInv, KeptInv
<1>5. CASE UNCHANGED vars
  BY <1>5 DEF vars, gateVars, answers, nodeVars, loops, GateInv, TypeOK, SoloInv, KeptInv, SoloDisarm
<1> QED
  BY <1>1, <1>2, <1>3, <1>4, <1>5 DEF Next

(* What the results below rest on: the types, what a disarm that has the gate*)
(* to itself has done up to where it stands, and what its answer left behind.*)
THEOREM GateInvariant == Spec => []GateInv
BY InitGate, NextGate, PTL DEF Spec

(* The types of the gate, for any clients, nodes and bounds.                 *)
THEOREM GateTypeCorrect == Spec => []TypeOK
<1>1. GateInv => TypeOK
  BY DEF GateInv
<1> QED
  BY <1>1, GateInvariant, PTL

(* After a disarm that had the gate to itself no node carries the transmit   *)
(* flag, in memory or on disk, however many nodes are registered, enrolled   *)
(* and removed beside its loop, and over restarts, but for the nodes excused.*)
THEOREM DisarmQuietsNodes == Spec => []DisarmSilences
<1>1. GateInv => DisarmSilences
  BY DEF GateInv, KeptInv, DisarmSilences
<1> QED
  BY <1>1, GateInvariant, PTL

(* A disarm that had the gate to itself, was saved and answered, is in force *)
(* in memory and on disk, over any number of restarts and failed saves, until*)
(* an arm is granted or an archive restored.                                 *)
THEOREM DisarmOutlivesRestarts == Spec => []DisarmSurvives
<1>1. GateInv => DisarmSurvives
  BY DEF GateInv, KeptInv, DisarmSurvives
<1> QED
  BY <1>1, GateInvariant, PTL
=============================================================================
