------------------------------ MODULE HydraAdmin -----------------------------
(***************************************************************************)
(* The Hydra interface of the control plane (internal/api hydra.go): its    *)
(* own engine (hydra/fabric), the registry of threads (hydra/bearer), the   *)
(* scheduler (hydra/sched), and the tables that make threads and weaves     *)
(* survive a restart (internal/store).                                      *)
(*                                                                          *)
(* A request changes the engine, then the store, which has a lock of its    *)
(* own; a thread is copied out of the engine in between.  Reports of the    *)
(* data-plane nodes (hydra/node ReportLoop) arrive beside the operators'    *)
(* requests.                                                                *)
(*                                                                          *)
(* Abstractions.  service is the time a unit of bytes takes, retransmissions*)
(* included, 0 where the rate is zero; delay is the one-way delay, negative *)
(* where the measurement in the request is not valid; every frame is one    *)
(* unit.  A weave's reassembler is Reorder's buffer as a record without the *)
(* payloads, Push an operator on it.  A Strip is one step: the registry may *)
(* change between its choice of a thread and the addition to the thread's   *)
(* queue, which only that thread's counter would show.  The entries in the  *)
(* audit log are left out (ControlTables has the log).                      *)
(***************************************************************************)
EXTENDS Integers, FiniteSets

CONSTANTS
    None,          \* no thread, weave or id
    Threads,       \* thread ids, ordered
    Weaves,        \* weave ids
    Links,         \* what can be declared or measured of a thread
    Clients,       \* concurrent requests
    BenchPackets,  \* bound: packets a bench may ask for
    Window,        \* the window of a reassembler
    ResyncAfter,   \* consecutive stale packets that re-align it
    MaxSeq,        \* bound: sequence numbers of one weave
    MaxLab,        \* bound: frames the lab holds at once
    MaxRequests,   \* bound: requests in a behaviour
    MaxLives,      \* bound: runs of the process
    MaxFailures    \* bound: failed saves

LinkType == [service : Nat, delay : Int, up : BOOLEAN]
ThreadType == [link : LinkType, queue : Nat]
WeaveType == [threads : (SUBSET Threads) \ {{}}, made : Nat, seq : 0 .. MaxSeq]
BufferType == [next : Nat, held : SUBSET Nat, gap : {"zero", "running", "overdue"}, stale : Nat]

ASSUME AdminAssumption ==
    /\ Threads \subseteq Nat /\ IsFiniteSet(Threads)
    /\ Threads \cap Weaves = {}
    /\ None \notin Threads \cup Weaves \cup ThreadType \cup WeaveType
    /\ \A ts \in SUBSET Threads : None # ts
    /\ Links \subseteq LinkType
    /\ BenchPackets \in Nat \ {0} /\ MaxSeq \in Nat /\ MaxLab \in Nat /\ MaxRequests \in Nat
    /\ Window \in Nat \ {0} /\ ResyncAfter \in Nat \ {0}
    /\ MaxLives \in Nat \ {0} /\ MaxFailures \in Nat

VARIABLES
    thread,      \* e.reg: the registry
    weave,       \* e.weaves: the weave and its numbering
    rb,          \* rb[w]: the reassembler of the weave w, if there is one
    threadTable, threadFile,  \* store.hydraThreads, hydra_threads.json
    weaveTable, weaveFile,    \* store.hydraWeaves, hydra_weaves.json
    lab,         \* frames handed out by Strip and not fed back
    req,         \* req[p]: what a request is doing
    contested,   \* history: ids two requests of this run worked on at the same time,
    leftOut,     \*   ids in the tables that Restore left out of the engine,
    disturbed,   \*   weaves whose numbering was disturbed (Disturbs, LabStripFails, Bench...),
    weavesMade,  \*   weaves created, to tell one from its successor
    requests, lives, failures

engine == <<thread, weave, rb, weavesMade, disturbed>>
store == <<threadTable, threadFile, weaveTable, weaveFile>>
history == <<contested, leftOut>>
bounds == <<lives, failures>>
vars == <<engine, store, lab, req, history, requests, bounds>>

Idle == [at |-> "idle", id |-> None, copy |-> None, made |-> 0, seqs |-> {}]

\* A thread: what it is declared or measured to be, and its outstanding bytes.
Declared(l, queue) == [link |-> l, queue |-> queue]

Valid(l) == l.delay >= 0

\* A weave, with its sender's and its receiver's numbering at the start.
NewWeaveState(ts, made) == [threads |-> ts, made |-> made, seq |-> 0]
NewBuffer == [next |-> 1, held |-> {}, gap |-> "zero", stale |-> 0]

\* The first run on record: threads and weaves may have been declared before it.
Init ==
    /\ threadFile \in [Threads -> {None} \cup {Declared(l, 0) : l \in {k \in Links : Valid(k)}}]
    /\ weaveFile \in [Weaves -> {None} \cup ((SUBSET Threads) \ {{}})]
    /\ threadTable = threadFile /\ thread = threadFile
    /\ weaveTable = weaveFile
    /\ weave = [w \in Weaves |->
                  IF weaveFile[w] = None THEN None ELSE NewWeaveState(weaveFile[w], 0)]
    /\ rb = [w \in Weaves |-> NewBuffer]
    /\ lab = {} /\ req = [p \in Clients |-> Idle]
    /\ contested = {} /\ leftOut = {} /\ disturbed = {}
    /\ weavesMade = 0 /\ requests = 0 /\ lives = 1 /\ failures = 0

-----------------------------------------------------------------------------
(* Requests.                                                                 *)

\* Request p begins to work on an id, possibly beside another.
Begin(p, id) ==
    /\ req[p] = Idle /\ requests < MaxRequests
    /\ requests' = requests + 1
    /\ contested' = contested \cup {x \in {id} : \E q \in Clients \ {p} : req[q].id = x}
    /\ leftOut' = leftOut \ {id}

Goes(p, at, id, copy) ==
    req' = [req EXCEPT ![p] = [Idle EXCEPT !.at = at, !.id = id, !.copy = copy]]
Ends(p) == req' = [req EXCEPT ![p] = Idle]

Saves(ok) ==
    /\ IF ok THEN UNCHANGED failures ELSE failures < MaxFailures /\ failures' = failures + 1
    /\ UNCHANGED lives

-----------------------------------------------------------------------------
(* Threads.                                                                  *)

\* AddThread: an invalid declaration is refused; the queue starts empty.
AddThread(p, t, l) ==
    /\ Begin(p, t)
    /\ Valid(l)
    /\ thread' = [thread EXCEPT ![t] = Declared(l, 0)]
    /\ Goes(p, "get", t, None)
    /\ UNCHANGED <<weave, rb, weavesMade, disturbed, store, lab, bounds>>

\* SetThreadHealth: a report changes a thread that exists, valid or not, and
\* leaves the declared rate where it measured none.
ThreadHealth(p, t, l) ==
    /\ Begin(p, t)
    /\ thread[t] # None
    /\ thread' = [thread EXCEPT ![t].link =
                    [l EXCEPT !.service = IF @ = 0 THEN thread[t].link.service ELSE @]]
    /\ Goes(p, "get", t, None)
    /\ UNCHANGED <<weave, rb, weavesMade, disturbed, store, lab, bounds>>

\* Both then copy the thread, if it is still there ...
GetThread(p) ==
    LET t == req[p].id
    IN /\ req[p].at = "get"
       /\ IF thread[t] = None THEN Ends(p) ELSE Goes(p, "put", t, thread[t])
       /\ UNCHANGED <<engine, store, lab, history, requests, bounds>>

\* ... and store the copy.
PutThread(p) ==
    /\ req[p].at = "put"
    /\ threadTable' = [threadTable EXCEPT ![req[p].id] = req[p].copy]
    /\ \E ok \in BOOLEAN : Saves(ok) /\ threadFile' = IF ok THEN threadTable' ELSE threadFile
    /\ Ends(p)
    /\ UNCHANGED <<engine, weaveTable, weaveFile, lab, history, requests>>

\* DeleteThread: weaves keep its id.
DeleteThread(p, t) ==
    /\ Begin(p, t)
    /\ thread[t] # None
    /\ thread' = [thread EXCEPT ![t] = None]
    /\ Goes(p, "drop", t, None)
    /\ UNCHANGED <<weave, rb, weavesMade, disturbed, store, lab, bounds>>

DropThread(p) ==
    /\ req[p].at = "drop"
    /\ threadTable' = [threadTable EXCEPT ![req[p].id] = None]
    /\ \E ok \in BOOLEAN : Saves(ok) /\ threadFile' = IF ok THEN threadTable' ELSE threadFile
    /\ Ends(p)
    /\ UNCHANGED <<engine, weaveTable, weaveFile, lab, history, requests>>

-----------------------------------------------------------------------------
(* Weaves.                                                                   *)

\* Mutant: validateThreads does not look for an empty list.
CreateWeaveEmpty(p, w, ts) ==
    /\ Begin(p, w)
    /\ weave[w] = None
    /\ \A t \in ts : thread[t] # None
    /\ weavesMade' = weavesMade + 1
    /\ weave' = [weave EXCEPT ![w] = NewWeaveState(ts, weavesMade')]
    /\ rb' = [rb EXCEPT ![w] = NewBuffer]
    /\ disturbed' = disturbed \ {w}
    /\ Goes(p, "putWeave", w, ts)
    /\ UNCHANGED <<thread, store, lab, bounds>>

\* CreateWeave: at least one thread, and every one known.
CreateWeave(p, w, ts) ==
    /\ Begin(p, w)
    /\ weave[w] = None
    /\ ts # {} /\ \A t \in ts : thread[t] # None
    /\ weavesMade' = weavesMade + 1
    /\ weave' = [weave EXCEPT ![w] = NewWeaveState(ts, weavesMade')]
    /\ rb' = [rb EXCEPT ![w] = NewBuffer]
    /\ disturbed' = disturbed \ {w}
    /\ Goes(p, "putWeave", w, ts)
    /\ UNCHANGED <<thread, store, lab, bounds>>

PutWeave(p) ==
    /\ req[p].at = "putWeave"
    /\ weaveTable' = [weaveTable EXCEPT ![req[p].id] = req[p].copy]
    /\ \E ok \in BOOLEAN : Saves(ok) /\ weaveFile' = IF ok THEN weaveTable' ELSE weaveFile
    /\ Ends(p)
    /\ UNCHANGED <<engine, threadTable, threadFile, lab, history, requests>>

DeleteWeave(p, w) ==
    /\ Begin(p, w)
    /\ weave[w] # None
    /\ weave' = [weave EXCEPT ![w] = None]
    /\ Goes(p, "dropWeave", w, None)
    /\ UNCHANGED <<thread, rb, weavesMade, disturbed, store, lab, bounds>>

\* Mutant: only the engine forgets the weave.
DropWeaveNot(p) ==
    /\ req[p].at = "dropWeave"
    /\ Ends(p)
    /\ UNCHANGED <<engine, store, lab, history, requests, bounds>>

DropWeave(p) ==
    /\ req[p].at = "dropWeave"
    /\ weaveTable' = [weaveTable EXCEPT ![req[p].id] = None]
    /\ \E ok \in BOOLEAN : Saves(ok) /\ weaveFile' = IF ok THEN weaveTable' ELSE weaveFile
    /\ Ends(p)
    /\ UNCHANGED <<engine, threadTable, threadFile, lab, history, requests>>

-----------------------------------------------------------------------------
(* The scheduler.                                                            *)

Candidates(ts) == {t \in ts : thread[t] # None /\ thread[t].link.up}

\* sched.Projected, for a thread with a rate.
Projected(t) == (thread[t].queue + 1) * thread[t].link.service + thread[t].link.delay

\* sched.Pick: the earliest completion, then the smallest id; none when no
\* candidate has a rate.
Pick(ts) ==
    LET able == {t \in ts : thread[t].link.service > 0}
        earliest == {t \in able : \A u \in able : Projected(t) <= Projected(u)}
    IN IF able = {} THEN None ELSE CHOOSE t \in earliest : \A u \in earliest : t <= u

-----------------------------------------------------------------------------
(* The reassembler, with its gap timer "zero", "running" or "overdue".       *)

Lowest(S) == CHOOSE n \in S : \A m \in S : n <= m

\* The gap check at the top of Push: an overdue gap is skipped.
Skips(b) == b.held # {} /\ b.gap = "overdue"
NextOf(b) == IF Skips(b) /\ Lowest(b.held) > b.next THEN Lowest(b.held) ELSE b.next
GapOf(b) == IF Skips(b) THEN "zero" ELSE b.gap

\* A stale number at which it re-aligns; a number beyond its window.
Realigns(b, n) == n < NextOf(b) /\ b.held = {} /\ b.stale + 1 >= ResyncAfter
Refuses(b, n) == n >= NextOf(b) + Window

\* The number is stored and the run from the expected one on is released.
FirstMissing(S, n) == CHOOSE k \in n .. (n + Window) : k \notin S /\ (n .. (k - 1)) \subseteq S

Stored(b, n) ==
    LET from == IF n < NextOf(b) THEN n ELSE NextOf(b)
        all == b.held \cup {n}
        to == FirstMissing(all, from)
    IN [next |-> to, held |-> {m \in all : m >= to}, stale |-> 0,
        gap |-> IF to > from THEN "zero" ELSE IF GapOf(b) = "zero" THEN "running" ELSE GapOf(b)]

Push(b, n) ==
    IF n < NextOf(b) /\ ~Realigns(b, n)
    THEN [next |-> NextOf(b), held |-> b.held, gap |-> GapOf(b),
          stale |-> IF b.held = {} THEN b.stale + 1 ELSE b.stale]
    ELSE IF Refuses(b, n) \/ n \in b.held
    THEN [next |-> NextOf(b), held |-> b.held, gap |-> GapOf(b), stale |-> b.stale]
    ELSE Stored(b, n)

\* The gap timeout of a weave's reassembler passes.
GapElapses(w) ==
    /\ weave[w] # None /\ rb[w].gap = "running"
    /\ rb' = [rb EXCEPT ![w].gap = "overdue"]
    /\ UNCHANGED <<thread, weave, weavesMade, disturbed, store, lab, req, history, requests, bounds>>

-----------------------------------------------------------------------------
(* The data path of the lab.                                                 *)

\* Strip succeeds: the next number, on the thread Pick chooses.
Strips(w) ==
    LET ws == weave[w]
        t == Pick(Candidates(ws.threads))
    IN /\ ws # None /\ Candidates(ws.threads) # {} /\ t # None
       /\ ws.seq < MaxSeq
       /\ weave' = [weave EXCEPT ![w].seq = @ + 1]
       /\ thread' = [thread EXCEPT ![t].queue = @ + 1]

\* Strip fails: no weave, no candidate, or, after the number was taken, no
\* candidate with a rate.
StripFails(w) ==
    LET ws == weave[w]
    IN /\ \/ ws = None /\ UNCHANGED weave
          \/ /\ ws # None /\ Candidates(ws.threads) = {}
             /\ UNCHANGED weave
          \/ /\ ws # None /\ Candidates(ws.threads) # {}
             /\ Pick(Candidates(ws.threads)) = None
             /\ ws.seq < MaxSeq
             /\ weave' = [weave EXCEPT ![w].seq = @ + 1]
       /\ UNCHANGED thread

LabStrip(w) ==
    /\ Cardinality(lab) < MaxLab
    /\ Strips(w)
    /\ lab' = lab \cup {[weave |-> w, made |-> weave[w].made, seq |-> weave'[w].seq]}
    /\ UNCHANGED <<rb, weavesMade, disturbed, store, req, history, requests, bounds>>

LabStripFails(w) ==
    /\ StripFails(w) /\ weave' # weave
    /\ disturbed' = disturbed \cup {w}
    /\ UNCHANGED <<rb, weavesMade, store, lab, req, history, requests, bounds>>

\* The bench that holds sendMu of the weave w.
Holds(p, w) == req[p].at = "feed" /\ req[p].copy = w /\ req[p].made = weave[w].made

\* A Push that leaves a number out for good: too far ahead, or a re-alignment.
Disturbs(w, n) == Refuses(rb[w], n) \/ Realigns(rb[w], n)

\* Ingest, under sendMu: a frame names its weave, not which weave of that name.
LabIngest(f) ==
    LET w == f.weave
    IN /\ f \in lab /\ weave[w] # None
       /\ \A p \in Clients : ~Holds(p, w)
       /\ lab' = lab \ {f}
       /\ rb' = [rb EXCEPT ![w] = Push(rb[w], f.seq)]
       /\ disturbed' = IF f.made # weave[w].made \/ Disturbs(w, f.seq)
                       THEN disturbed \cup {w} ELSE disturbed
       /\ UNCHANGED <<thread, weave, weavesMade, store, req, history, requests, bounds>>

-----------------------------------------------------------------------------
(* Bench: strip a batch, then feed it to the reassembler found at the start. *)
(* seqs has the packets <<i, n>>, the i-th of the batch, numbered n.  How    *)
(* many packets were asked for shows when the bench stops stripping.         *)

Bench(p, w) ==
    /\ req[p] = Idle /\ requests < MaxRequests
    /\ requests' = requests + 1
    /\ weave[w] # None /\ Candidates(weave[w].threads) # {}
    /\ req' = [req EXCEPT ![p] = [at |-> "bench", id |-> None, copy |-> w,
                                  made |-> weave[w].made, seqs |-> {}]]
    /\ UNCHANGED <<engine, store, lab, history, bounds>>

\* The next packet, on whatever weave has the name now.
BenchStrips(p) ==
    LET w == req[p].copy
        i == Cardinality(req[p].seqs) + 1
    IN /\ req[p].at = "bench" /\ i <= BenchPackets
       /\ \/ /\ Strips(w)
             /\ req' = [req EXCEPT ![p].seqs = @ \cup {<<i, weave'[w].seq>>}]
             /\ disturbed' = IF weave[w].made = req[p].made THEN disturbed
                             ELSE disturbed \cup {w}
          \/ StripFails(w) /\ Ends(p) /\ disturbed' = disturbed \cup {w}
       /\ UNCHANGED <<rb, weavesMade, store, lab, history, requests, bounds>>

\* The order of feeding: results[0], [2], [4] ..., then [1], [3] ...
FedBefore(i, j) == i % 2 > j % 2 \/ (i % 2 = j % 2 /\ i <= j)

\* The batch is as large as was asked for, and the bench holds sendMu or finds it free.
FeedTurn(p) ==
    \/ req[p].at = "feed"
    \/ /\ req[p].at = "bench" /\ req[p].seqs # {}
       /\ \A q \in Clients :
             ~(req[q].at = "feed" /\ req[q].copy = req[p].copy /\ req[q].made = req[p].made)

\* The weave of the bench is still the one in the engine.
SameWeave(p) == weave[req[p].copy] # None /\ weave[req[p].copy].made = req[p].made

Fed(p, x) ==
    LET left == req[p].seqs \ {x}
    IN req' = [req EXCEPT ![p] = IF left = {} THEN Idle ELSE [@ EXCEPT !.at = "feed", !.seqs = left]]

\* Mutant: a throwaway buffer is fed.
BenchFeedsThrowaway(p) ==
    /\ FeedTurn(p)
    /\ \E x \in req[p].seqs : (\A y \in req[p].seqs : FedBefore(x[1], y[1])) /\ Fed(p, x)
    /\ UNCHANGED <<engine, store, lab, history, requests, bounds>>

\* The next packet of the batch is pushed; into a weave that was deleted or
\* replaced meanwhile, to no effect on the engine.
BenchFeeds(p) ==
    LET w == req[p].copy
    IN /\ FeedTurn(p)
       /\ \E x \in req[p].seqs :
             /\ \A y \in req[p].seqs : FedBefore(x[1], y[1])
             /\ Fed(p, x)
             /\ rb' = IF SameWeave(p) THEN [rb EXCEPT ![w] = Push(rb[w], x[2])] ELSE rb
             /\ disturbed' = IF SameWeave(p) /\ Disturbs(w, x[2])
                             THEN disturbed \cup {w} ELSE disturbed
       /\ UNCHANGED <<thread, weave, weavesMade, store, lab, history, requests, bounds>>

-----------------------------------------------------------------------------
(* Restart: the files are read and Engine.Restore declares the threads in the*)
(* order of their ids; at the first that is not valid it gives up, the rest  *)
(* of the threads and every weave left out, and the process goes on.         *)
Restored == {t \in Threads : \A u \in Threads :
                u <= t /\ threadFile[u] # None => Valid(threadFile[u].link)}

Restart ==
    /\ lives < MaxLives /\ lives' = lives + 1
    /\ threadTable' = threadFile /\ weaveTable' = weaveFile
    /\ thread' = [t \in Threads |-> IF t \in Restored THEN threadFile[t] ELSE None]
    /\ weave' = [w \in Weaves |->
                    IF weaveFile[w] = None \/ Restored # Threads THEN None
                    ELSE NewWeaveState(weaveFile[w], weavesMade + 1)]
    /\ weavesMade' = weavesMade + 1
    /\ rb' = [w \in Weaves |-> NewBuffer]
    /\ lab' = {} /\ req' = [p \in Clients |-> Idle] /\ disturbed' = {}
    /\ contested' = {}
    /\ leftOut' = {t \in Threads : threadFile[t] # None /\ t \notin Restored}
                      \cup {w \in Weaves : weaveFile[w] # None /\ Restored # Threads}
    /\ UNCHANGED <<threadFile, weaveFile, requests, failures>>

Next ==
    \/ \E p \in Clients, t \in Threads :
          \/ \E l \in Links : AddThread(p, t, l) \/ ThreadHealth(p, t, l)
          \/ DeleteThread(p, t)
    \/ \E p \in Clients : GetThread(p) \/ PutThread(p) \/ DropThread(p)
    \/ \E p \in Clients, w \in Weaves :
          \/ \E ts \in SUBSET Threads : CreateWeave(p, w, ts)
          \/ DeleteWeave(p, w)
          \/ Bench(p, w)
    \/ \E p \in Clients : PutWeave(p) \/ DropWeave(p) \/ BenchStrips(p) \/ BenchFeeds(p)
    \/ \E w \in Weaves : LabStrip(w) \/ LabStripFails(w) \/ GapElapses(w)
    \/ \E f \in lab : LabIngest(f)
    \/ Restart

Spec == Init /\ [][Next]_vars

-----------------------------------------------------------------------------
(* The types of the engine's tables and of their copies.                     *)
TypeOK ==
    /\ \A t \in Threads : \A x \in {thread[t], threadTable[t], threadFile[t]} :
          x # None => x.link \in LinkType /\ x.queue \in Nat
    /\ \A w \in Weaves :
          /\ rb[w] \in BufferType
          /\ weave[w] # None => weave[w].threads # {} /\ weave[w].seq \in 0 .. MaxSeq
          /\ \A ts \in {weaveTable[w], weaveFile[w]} : ts # None => ts \in (SUBSET Threads) \ {{}}
    /\ \A p \in Clients : req[p].at \in {"get", "put"} => req[p].id \in Threads

Quiet == \A p \in Clients : req[p] = Idle

(* "Restore persisted threads and weaves so a weave survives a restart"      *)
(* (server.go:148): a restart finds every thread and every weave that the    *)
(* engine had and no other, each as it was.  The exceptions are exact: a save*)
(* that failed and was not made up for by a later one of the same table, a   *)
(* request under way, an id that two requests of this run worked on at once  *)
(* (the copy stored last need not be the last one taken), a reported         *)
(* measurement that was stored and that AddThread would have refused, and,   *)
(* where the restart before gave up at such a measurement, what it left out  *)
(* and nobody has declared again: the tables still have it, and it comes back*)
(* once the measurement is corrected.                                        *)
RestartKeeps ==
    [][lives' # lives /\ Quiet /\ threadFile = threadTable /\ weaveFile = weaveTable
          /\ (\A t \in Threads : threadFile[t] # None => Valid(threadFile[t].link))
        => /\ \A t \in Threads \ (contested \cup leftOut) :
                /\ thread'[t] = None <=> thread[t] = None
                /\ thread[t] # None => thread'[t].link = thread[t].link
           /\ \A w \in Weaves \ (contested \cup leftOut) :
                /\ weave'[w] = None <=> weave[w] = None
                /\ weave[w] # None => weave'[w].threads = weave[w].threads]_vars

\* The next number Strip gives out is the first one missing at the reassembler,
\* and is not beyond its window.
InStep(w) ==
    LET b == rb[w]
        seq == weave[w].seq
    IN b.next <= seq + 1 /\ b.held = b.next .. seq /\ seq + 1 < b.next + Window

NothingOut(w) == (\A f \in lab : f.weave # w) /\ (\A p \in Clients : req[p].copy # w)

(* "keeps the sender's sequence and the receiver's expectation in lockstep,  *)
(* so a bench never desynchronises live traffic on the same weave"           *)
(* (fabric.go:483-485): once the frames handed out are fed back, the receiver*)
(* lacks no number that was used and takes the next one, with benches beside *)
(* one another, beside the lab's traffic, gap timeouts and changes of threads*)
(* and weaves.  What disturbs a weave is exact: a Strip that failed after    *)
(* taking a number, a weave replaced under a bench, a frame of the weave that*)
(* had the name before, a packet that Push refused as too far ahead, and a   *)
(* re-alignment to late packets.                                             *)
Lockstep ==
    \A w \in Weaves \ disturbed : weave[w] # None /\ NothingOut(w) => InStep(w)

(* The same without the exceptions.  The code breaks it: a bench whose Strip *)
(* fails midway has used numbers that it never feeds back, and a bench of    *)
(* many more packets than the window holds feeds every second one first, so  *)
(* that the far ones are refused (fabric.go:498-507, reorder.go:140).        *)
BenchInLockstep == \A w \in Weaves : weave[w] # None /\ NothingOut(w) => InStep(w)

(* "so a weave survives a restart" (server.go:148), whatever was reported.   *)
(* The code breaks it: SetThreadHealth takes measurements that Upsert refuses*)
(* when they are read back, and Restore then leaves out every weave.         *)
WeaveSurvives ==
    [][lives' # lives /\ Quiet /\ failures = 0 /\ contested = {}
        => \A w \in Weaves : weave[w] # None => weave'[w] # None]_vars
=============================================================================
