------------------------ MODULE ControlTablesProofs -------------------------
(***************************************************************************)
(* Proofs about the control plane's tables, for any number of requests,     *)
(* callers, tokens, peers, changes, failed saves, backups, restores and     *)
(* restarts.                                                                *)
(*                                                                          *)
(* Neither AuditNeverAhead nor AnsweredIsKept is inductive.  KeptInv says   *)
(* what makes them so while no restore has touched the files: no table on   *)
(* disk has more than memory has, all that the log in memory tells of is on *)
(* disk, and so is the change of a request that is about to be told of.     *)
(* BackupInv follows a backup through the files: whatever the log it has    *)
(* read tells of is in a table that it has read or has yet to read.         *)
(***************************************************************************)
EXTENDS ControlTables, TLAPS

\* The contents a file may have after n changes: a policy in force admits
\* somebody, a token is filed under the id of its own secret.
Vals ==
    [audit |-> {None}, peers |-> SUBSET Peers, policy |-> (MaxUEs \cup {DefaultUEs}) \ {0},
     tokens |-> {val \in [Ids -> Tokens \cup {None}] :
                    \A i \in Ids : val[i] # None => IdOf[val[i].secret] = i}]
File(t, n) == [val : Vals[t], has : SUBSET (1 .. n)]
AnyFile(n) == UNION {File(t, n) : t \in Tables}
Sound(tables, n) == tables \in Stores /\ \A t \in Tables : tables[t] \in File(t, n)

TablesInv ==
    /\ changes \in Nat
    /\ answered \subseteq 1 .. changes
    /\ Sound(memory, changes)
    /\ disk = None \/ Sound(disk, changes)
    /\ archive = None \/ Sound(archive, changes)

\* Only a change that was saved waits for the log; only a backup reads files,
\* in their order.
Request(n) ==
    [at : {"idle", "handler", "audit", "rename"}, does : Requests \cup {None},
     change : 0 .. n, read : Seq(AnyFile(n))]

InOrder(r, n) ==
    /\ r.at # "idle" => r.does \in Requests
    /\ r.change # 0 => r.at = "audit"
    /\ r.read # <<>> => r.at = "handler" /\ r.does.op = "backup"
    /\ Len(r.read) <= Len(Files)
    /\ \A k \in 1 .. Len(r.read) : r.read[k] \in File(Files[k], n)

RequestInv ==
    req \in [Clients -> Request(changes)] /\ \A p \in Clients : InOrder(req[p], changes)

KeptInv ==
    ~restored =>
        /\ disk # None
        /\ \A t \in Tables : disk[t].has \subseteq memory[t].has
        /\ memory.audit.has \subseteq Contained(disk)
        /\ answered \subseteq Contained(disk)
        /\ \A p \in Clients :
              /\ req[p].at # "rename"
              /\ req[p].change # 0 => req[p].change \in Contained(disk)

\* A backup that has read the log finds what it tells of.
Covered(read, tables) ==
    \A c \in read[1].has : \E k \in 2 .. 4 :
        /\ c \in tables[Files[k]].has
        /\ k <= Len(read) => c \in read[k].has

BackupInv ==
    ~restored =>
        /\ \A p \in Clients : req[p].read # <<>> => Covered(req[p].read, disk)
        /\ archive # None => archive.audit.has \subseteq Contained(archive)

ControlInv == TablesInv /\ RequestInv /\ KeptInv /\ BackupInv

-----------------------------------------------------------------------------
(* The operators.                                                            *)

\* What the provers need to know of the names of the files.
LEMMA FileNames ==
    /\ Tables = {"audit", "peers", "policy", "tokens"}
    /\ Len(Files) = 4 /\ \A k \in 1 .. 4 : Files[k] \in Tables
    /\ Files[1] = "audit" /\ \A k \in 2 .. 4 : Files[k] # "audit"
    /\ \A t \in Tables \ {"audit"} : \E k \in 2 .. 4 : Files[k] = t
    /\ \A t \in Tables : \E k \in 1 .. 4 : Files[k] = t
    /\ \A j, k \in 1 .. 4 : Files[j] = Files[k] => j = k
BY DEF Files, Tables

\* The values of a table are of the table's type.
LEMMA ValueTypes ==
    /\ Vals["audit"] = {None} /\ Vals["peers"] = SUBSET Peers
    /\ Vals["policy"] \subseteq Nat \ {0}
    /\ Vals["tokens"] \subseteq [Ids -> Tokens \cup {None}]
<1>1. (MaxUEs \cup {DefaultUEs}) \ {0} \subseteq Nat \ {0}
  BY TablesAssumption DEF DefaultUEs
<1> QED
  BY <1>1 DEF Vals

\* A file that is sound after some changes is so after more.
LEMMA FileGrows ==
    ASSUME NEW m \in Nat, NEW n \in Nat, m <= n, NEW t
    PROVE  File(t, m) \subseteq File(t, n)
<1>1. SUBSET (1 .. m) \subseteq SUBSET (1 .. n)
  OBVIOUS
<1> QED
  BY <1>1 DEF File

LEMMA SoundGrows ==
    ASSUME NEW m \in Nat, NEW n \in Nat, m <= n, NEW tables, Sound(tables, m)
    PROVE  Sound(tables, n)
BY FileGrows DEF Sound

LEMMA FreshSound ==
    ASSUME NEW n \in Nat
    PROVE  Sound(Fresh, n)
<1>1. Fresh \in Stores
  BY DEF Fresh, Stores, Contents, Table, DefaultUEs
<1>2. \A t \in Tables : Fresh[t] \in File(t, n)
  BY FileNames DEF Fresh, File, Vals, Table, DefaultUEs
<1> QED
  BY <1>1, <1>2 DEF Sound

\* A table a request changed: its new value, and one change more.
Changed(m, t, val, k) == [m EXCEPT ![t] = [val |-> val, has |-> @.has \cup {k}]]

LEMMA ChangedSound ==
    ASSUME NEW n \in Nat, NEW k \in Nat, k = n + 1, NEW m, Sound(m, n),
           NEW t \in Tables, NEW val \in Vals[t]
    PROVE  /\ Sound(Changed(m, t, val, k), k)
           /\ Changed(m, t, val, k)[t].has = m[t].has \cup {k}
           /\ Changed(m, t, val, k)[t].val = val
           /\ \A u \in Tables \ {t} : Changed(m, t, val, k)[u] = m[u]
<1>0. PICK after : after = Changed(m, t, val, k)
  OBVIOUS
<1>1. DOMAIN m = Tables /\ m \in Stores /\ m[t] \in File(t, n)
  BY FileNames DEF Sound, Stores
<1> DEFINE file == [val |-> val, has |-> m[t].has \cup {k}]
<1>2. file \in File(t, k)
  <2>1. m[t].has \cup {k} \in SUBSET (1 .. k)
    BY <1>1 DEF File
  <2> QED
    BY <2>1 DEF File
<1>3. Sound(m, k)
  <2>1. n <= k
    OBVIOUS
  <2> QED
    BY <2>1, SoundGrows
<1>4. \A u \in Tables : after[u] = IF u = t THEN file ELSE m[u]
  BY <1>0, <1>1, FileNames DEF Stores, Changed
<1>5. file.has \subseteq Nat
  BY <1>1 DEF File
<1>6. after \in Stores
  BY <1>0, <1>1, <1>4, <1>5, ValueTypes, FileNames DEF Stores, Contents, Changed
<1>7. \A u \in Tables : after[u] \in File(u, k)
  BY <1>2, <1>3, <1>4 DEF Sound
<1>8. Sound(after, k)
  BY <1>6, <1>7 DEF Sound
<1>9. after[t].has = m[t].has \cup {k}
  BY <1>4
<1>10. after[t].val = val /\ \A u \in Tables \ {t} : after[u] = m[u]
  BY <1>4
<1> QED
  BY <1>0, <1>8, <1>9, <1>10

\* The log with an entry more.
Told(m, told) == [m EXCEPT !.audit.has = @ \cup told]

LEMMA ToldKeeps ==
    ASSUME NEW m \in Stores, NEW told
    PROVE  /\ Told(m, told).audit.has = m.audit.has \cup told
           /\ \A u \in Tables \ {"audit"} : Told(m, told)[u] = m[u]
<1>1. m.audit \in [val : {None}, has : SUBSET Nat]
  BY DEF Stores, Contents
<1>2. /\ Told(m, told).audit = [m.audit EXCEPT !.has = @ \cup told]
      /\ \A u \in Tables \ {"audit"} : Told(m, told)[u] = m[u]
  BY FileNames DEF Stores, Told
<1> QED
  BY <1>1, <1>2

LEMMA ToldSound ==
    ASSUME NEW n \in Nat, NEW m, Sound(m, n), NEW told, told \subseteq 1 .. n
    PROVE  Sound(Told(m, told), n)
<1>0. PICK after : after = Told(m, told)
  OBVIOUS
<1>1. m \in Stores /\ m.audit \in File("audit", n)
  BY FileNames DEF Sound
<1>2. after.audit = [m.audit EXCEPT !.has = @ \cup told] /\ \A u \in Tables \ {"audit"} : after[u] = m[u]
  BY <1>0, <1>1, FileNames DEF Stores, Told
<1>3. after.audit \in File("audit", n)
  BY <1>1, <1>2 DEF File
<1>4. after \in Stores
  BY <1>0, <1>1, <1>2, <1>3, FileNames DEF Stores, Contents, File, Vals, Told
<1>5. Sound(after, n)
  BY <1>1, <1>2, <1>3, <1>4, FileNames DEF Sound
<1> QED
  BY <1>0, <1>5

\* The value a request gives its table is one the table may have.
LEMMA OutcomesSound ==
    ASSUME NEW n \in Nat, Sound(memory, n), NEW r \in Requests, r.table # None,
           NEW val \in Outcomes(r)
    PROVE  r.table \in Tables \ {"audit"} /\ val \in Vals[r.table]
<1> DEFINE old == memory[r.table].val
<1>1. CASE r.op \in {"addPeer", "deletePeer"}
  <2>1. r.table = "peers" /\ r.peer \in Peers
    BY <1>1 DEF Requests
  <2>2. old \in SUBSET Peers
    BY <2>1, FileNames DEF Sound, File, Vals
  <2>3. val = old \cup {r.peer} \/ val = old \ {r.peer}
    BY <1>1 DEF Outcomes
  <2> QED
    BY <2>1, <2>2, <2>3, FileNames DEF Vals
<1>2. CASE r.op = "putPolicy"
  <2>1. r.table = "policy" /\ r.max \in MaxUEs
    BY <1>2 DEF Requests
  <2>2. val = PolicyFor(r.max)
    BY <1>2 DEF Outcomes
  <2> QED
    BY <2>1, <2>2, FileNames, TablesAssumption DEF Vals, PolicyFor, DefaultUEs
<1>3. CASE r.op = "createToken"
  <2>1. r.table = "tokens" /\ r.secret \in Secrets /\ r.role \in Roles
    BY <1>3 DEF Requests
  <2>2. val = WithToken(old, r.secret, r.role)
    BY <1>3 DEF Outcomes
  <2>3. old \in Vals["tokens"]
    BY <2>1, FileNames DEF Sound, File
  <2> QED
    BY <2>1, <2>2, <2>3, FileNames, TablesAssumption DEF Vals, WithToken, Tokens
<1>4. CASE r.op = "revokeToken"
  <2>1. r.table = "tokens" /\ r.id \in Ids
    BY <1>4 DEF Requests
  <2>2. old[r.id] # None /\ val = [old EXCEPT ![r.id].revoked = TRUE]
    BY <1>4 DEF Outcomes
  <2>3. old \in Vals["tokens"]
    BY <2>1, FileNames DEF Sound, File
  <2> DEFINE token == [old[r.id] EXCEPT !.revoked = TRUE]
  <2>4. old[r.id] \in Tokens /\ IdOf[old[r.id].secret] = r.id
    BY <2>1, <2>2, <2>3 DEF Vals
  <2>5. token \in Tokens /\ token.secret = old[r.id].secret
    BY <2>4 DEF Tokens
  <2>6. val = [old EXCEPT ![r.id] = token]
    BY <2>2
  <2>7. val \in Vals["tokens"]
    <3> HIDE DEF token, old
    <3> QED
      BY <2>1, <2>3, <2>4, <2>5, <2>6 DEF Vals
  <2> QED
    BY <2>1, <2>7, FileNames
<1>5. r.op \in {"addPeer", "deletePeer", "putPolicy", "createToken", "revokeToken"}
  BY DEF Requests
<1> QED
  BY <1>1, <1>2, <1>3, <1>4, <1>5

-----------------------------------------------------------------------------
(* Saving, and what a request is doing.                                      *)

\* A save replaces one file by the table in memory, or does nothing.
LEMMA SaveSound ==
    ASSUME NEW n \in Nat, disk = None \/ Sound(disk, n), Sound(memory', n),
           NEW t \in Tables, NEW ok \in BOOLEAN, Save(t, ok)
    PROVE  /\ disk' = None \/ Sound(disk', n)
           /\ disk' = None <=> disk = None
           /\ disk # None => \A u \in Tables :
                 disk'[u] = IF Saved(ok) /\ u = t THEN memory'[u] ELSE disk[u]
<1>1. CASE Saved(ok)
  <2>1. disk' = [disk EXCEPT ![t] = memory'[t]] /\ disk # None /\ Sound(disk, n)
    BY <1>1, Zenon DEF Saved, Save
  <2>2. DOMAIN disk = Tables /\ disk \in Stores /\ memory' \in Stores
    BY <2>1, FileNames DEF Sound, Stores
  <2>3. disk' \in Stores
    BY <2>1, <2>2, FileNames DEF Stores
  <2>4. \A u \in Tables : disk'[u] = IF u = t THEN memory'[t] ELSE disk[u]
    BY <2>1, <2>2, FileNames DEF Stores
  <2>5. Sound(disk', n)
    BY <2>1, <2>3, <2>4 DEF Sound
  <2> QED
    BY <1>1, <2>1, <2>3, <2>4, <2>5, NoneAssumption
<1>2. CASE ~Saved(ok)
  <2>1. disk' = disk
    BY <1>2 DEF Saved, Save
  <2> QED
    BY <1>2, <2>1
<1> QED
  BY <1>1, <1>2

\* More in every table is more in all of them.
LEMMA ContainedGrows ==
    ASSUME NEW a, NEW b, \A t \in Tables : a[t].has \subseteq b[t].has
    PROVE  Contained(a) \subseteq Contained(b)
BY DEF Contained

LEMMA CoveredGrows ==
    ASSUME NEW a, NEW b, \A t \in Tables : a[t].has \subseteq b[t].has,
           NEW read, Covered(read, a)
    PROVE  Covered(read, b)
BY FileNames DEF Covered

\* What a request is doing stays in order as changes are made.
LEMMA RequestGrows ==
    ASSUME NEW m \in Nat, NEW n \in Nat, m <= n, NEW r \in Request(m), InOrder(r, m)
    PROVE  r \in Request(n) /\ InOrder(r, n)
<1>1. AnyFile(m) \subseteq AnyFile(n)
  BY FileGrows DEF AnyFile
<1>2. r.read \in Seq(AnyFile(n))
  BY <1>1 DEF Request
<1>3. r.change \in 0 .. n
  BY DEF Request
<1>4. r \in Request(n)
  BY <1>2, <1>3 DEF Request
<1>5. InOrder(r, n)
  BY FileGrows DEF InOrder
<1> QED
  BY <1>4, <1>5

\* The others' requests are in order; so is this one's.
LEMMA RequestsKept ==
    ASSUME RequestInv, changes \in Nat, changes' \in Nat, changes <= changes',
           NEW p \in Clients, NEW r \in Request(changes'), InOrder(r, changes'),
           req' = [req EXCEPT ![p] = r]
    PROVE  RequestInv'
<1>1. \A q \in Clients : req[q] \in Request(changes') /\ InOrder(req[q], changes')
  BY RequestGrows DEF RequestInv
<1>2. req \in [Clients -> Request(changes')]
  BY <1>1 DEF RequestInv
<1> QED
  BY <1>1, <1>2 DEF RequestInv

LEMMA IdleInOrder ==
    ASSUME NEW n \in Nat
    PROVE  Idle \in Request(n) /\ InOrder(Idle, n)
<1>1. <<>> \in Seq(AnyFile(n))
  OBVIOUS
<1> QED
  BY <1>1, FileNames DEF Idle, Doing, Request, InOrder

\* A request that has read nothing is in order.
LEMMA DoingInOrder ==
    ASSUME NEW n \in Nat, NEW at \in {"handler", "audit", "rename"}, NEW r \in Requests,
           NEW change \in 0 .. n, change # 0 => at = "audit"
    PROVE  Doing(at, r, change) \in Request(n) /\ InOrder(Doing(at, r, change), n)
<1>1. <<>> \in Seq(AnyFile(n)) /\ Len(<<>>) = 0
  OBVIOUS
<1> QED
  BY <1>1, FileNames DEF Doing, Request, InOrder

-----------------------------------------------------------------------------
(* The steps.                                                                *)

LEMMA InitInv == Init => ControlInv
<1> SUFFICES ASSUME Init PROVE ControlInv
  OBVIOUS
<1>1. Sound(Fresh, 0) /\ Idle \in Request(0) /\ InOrder(Idle, 0)
  BY FreshSound, IdleInOrder
<1>2. TablesInv
  BY <1>1 DEF Init, TablesInv
<1>3. RequestInv
  BY <1>1 DEF Init, RequestInv
<1>4. Fresh # None /\ Fresh.audit.has = {}
  BY <1>1, NoneAssumption DEF Sound, Fresh, Table
<1>5. \A p \in Clients : req[p].at = "idle" /\ req[p].change = 0 /\ req[p].read = <<>>
  BY DEF Init, Idle, Doing
<1>6. KeptInv
  BY <1>4, <1>5 DEF Init, KeptInv
<1>7. BackupInv
  BY <1>5 DEF Init, BackupInv
<1> QED
  BY <1>2, <1>3, <1>6, <1>7 DEF ControlInv

\* A request that begins or ends without touching the tables.
LEMMA RequestStep ==
    ASSUME ControlInv, NEW p \in Clients,
           UNCHANGED <<memory, disk, archive, minted, answered, changes>>,
           restored' = restored,
           \/ req' = [req EXCEPT ![p] = Idle]
           \/ \E r \in Requests : req' = [req EXCEPT ![p] = Doing("handler", r, 0)]
    PROVE  ControlInv'
<1> DEFINE Quiet(r) == /\ r \in Request(changes') /\ InOrder(r, changes')
                       /\ r.at # "rename" /\ r.change = 0 /\ r.read = <<>>
<1>0. changes \in Nat /\ changes' \in Nat /\ changes <= changes'
  BY DEF ControlInv, TablesInv
<1>1. PICK r : Quiet(r) /\ req' = [req EXCEPT ![p] = r]
  <2>1. CASE req' = [req EXCEPT ![p] = Idle]
    <3>1. Quiet(Idle)
      BY <1>0, IdleInOrder DEF Idle, Doing
    <3> QED
      BY <2>1, <3>1
  <2>2. ASSUME NEW r \in Requests, req' = [req EXCEPT ![p] = Doing("handler", r, 0)]
        PROVE  \E x : Quiet(x) /\ req' = [req EXCEPT ![p] = x]
    <3>1. Quiet(Doing("handler", r, 0))
      <4>1. Doing("handler", r, 0) \in Request(changes') /\ InOrder(Doing("handler", r, 0), changes')
        BY <1>0, DoingInOrder
      <4> QED
        BY <4>1 DEF Doing
    <3> QED
      BY <2>2, <3>1
  <2> QED
    BY <2>1, <2>2
<1>2. RequestInv'
  BY <1>0, <1>1, RequestsKept DEF ControlInv
<1>3. \A q \in Clients : req'[q] = IF q = p THEN r ELSE req[q]
  BY <1>1 DEF ControlInv, RequestInv
<1>4. TablesInv'
  BY DEF ControlInv, TablesInv
<1>5. KeptInv'
  BY <1>1, <1>3 DEF ControlInv, KeptInv
<1>6. BackupInv'
  BY <1>1, <1>3 DEF ControlInv, BackupInv
<1> QED
  BY <1>2, <1>4, <1>5, <1>6 DEF ControlInv

LEMMA ChangeStep ==
    ASSUME ControlInv, NEW p \in Clients, Change(p)
    PROVE  ControlInv'
<1> DEFINE r == req[p].does
<1> DEFINE t == r.table
<1>0. /\ changes \in Nat /\ changes' = changes + 1 /\ changes' \in Nat /\ changes <= changes'
      /\ r \in Requests /\ t # None
      /\ UNCHANGED <<archive, answered, restored>>
  BY DEF ControlInv, TablesInv, RequestInv, InOrder, Change
<1>1. PICK val \in Outcomes(r), ok \in BOOLEAN :
         /\ memory' = [memory EXCEPT ![t] = [val |-> val, has |-> @.has \cup {changes'}]]
         /\ Save(t, ok)
         /\ req' = IF Saved(ok)
                   THEN [req EXCEPT ![p] = Doing("audit", r, changes')]
                   ELSE [req EXCEPT ![p] = Idle]
  BY DEF Change
<1>2. t \in Tables \ {"audit"} /\ val \in Vals[t]
  BY <1>0, <1>1, OutcomesSound DEF ControlInv, TablesInv
<1>3. /\ Sound(memory', changes')
      /\ \A u \in Tables :
            memory'[u].has = IF u = t THEN memory[u].has \cup {changes'} ELSE memory[u].has
  <2>1. /\ Sound(memory, changes) /\ t \in Tables
        /\ memory' = Changed(memory, t, val, changes')
    BY <1>1, <1>2 DEF ControlInv, TablesInv, Changed
  <2>2. changes \in Nat /\ changes' \in Nat /\ changes' = changes + 1 /\ val \in Vals[t]
    BY <1>0, <1>2
  <2> HIDE DEF t
  <2> QED
    <3>1. /\ Sound(memory', changes')
          /\ memory'[t].has = memory[t].has \cup {changes'}
          /\ \A u \in Tables \ {t} : memory'[u] = memory[u]
      BY <2>1, <2>2, ChangedSound
    <3> QED
      BY <2>1, <3>1
<1>4. /\ disk = None \/ Sound(disk, changes')
      /\ archive = None \/ Sound(archive, changes')
  BY <1>0, SoundGrows DEF ControlInv, TablesInv
<1>5. /\ disk' = None \/ Sound(disk', changes')
      /\ disk' = None <=> disk = None
      /\ disk # None => \A u \in Tables :
            disk'[u] = IF Saved(ok) /\ u = t THEN memory'[u] ELSE disk[u]
  BY <1>0, <1>1, <1>2, <1>3, <1>4, SaveSound
<1>6. TablesInv'
  BY <1>0, <1>3, <1>4, <1>5 DEF ControlInv, TablesInv
<1>7. PICK x : /\ x \in Request(changes') /\ InOrder(x, changes')
               /\ x = IF Saved(ok) THEN Doing("audit", r, changes') ELSE Idle
               /\ req' = [req EXCEPT ![p] = x]
  <2>1. changes' \in 0 .. changes'
    BY <1>0
  <2>2. Doing("audit", r, changes') \in Request(changes') /\ InOrder(Doing("audit", r, changes'), changes')
    BY <1>0, <2>1, DoingInOrder
  <2> QED
    BY <1>0, <1>1, <2>2, IdleInOrder
<1>8. RequestInv'
  BY <1>0, <1>7, RequestsKept DEF ControlInv
<1>9. /\ \A q \in Clients : req'[q] = IF q = p THEN x ELSE req[q]
      /\ x.at # "rename" /\ x.read = <<>>
      /\ x.change # 0 => Saved(ok) /\ x.change = changes'
  BY <1>7 DEF ControlInv, RequestInv, Doing, Idle
<1>10. ASSUME ~restored'
       PROVE  /\ disk # None
              /\ \A u \in Tables : disk[u].has \subseteq disk'[u].has /\ disk'[u].has \subseteq memory'[u].has
              /\ Contained(disk) \subseteq Contained(disk')
              /\ Saved(ok) => changes' \in Contained(disk')
  <2>1. ~restored /\ disk # None /\ \A u \in Tables : disk[u].has \subseteq memory[u].has
    BY <1>0, <1>10 DEF ControlInv, KeptInv
  <2>2. \A u \in Tables : disk[u].has \subseteq disk'[u].has /\ disk'[u].has \subseteq memory'[u].has
    BY <1>3, <1>5, <2>1
  <2>3. Saved(ok) => changes' \in disk'[t].has
    BY <1>2, <1>3, <1>5, <2>1
  <2>4. Saved(ok) => changes' \in Contained(disk')
    BY <1>2, <2>3 DEF Contained
  <2>5. Contained(disk) \subseteq Contained(disk')
    BY <2>2, ContainedGrows
  <2> QED
    BY <2>1, <2>2, <2>4, <2>5
<1>11. KeptInv'
  BY <1>0, <1>2, <1>3, <1>5, <1>9, <1>10, FileNames DEF ControlInv, KeptInv
<1>12. BackupInv'
  BY <1>0, <1>9, <1>10, CoveredGrows DEF ControlInv, BackupInv
<1> QED
  BY <1>6, <1>8, <1>11, <1>12 DEF ControlInv

LEMMA AuditStep ==
    ASSUME ControlInv, NEW p \in Clients, Audit(p)
    PROVE  ControlInv'
<1> DEFINE told == IF req[p].change = 0 THEN {} ELSE {req[p].change}
<1>0. /\ changes \in Nat /\ changes' = changes /\ changes' \in Nat /\ changes <= changes'
      /\ told \subseteq 1 .. changes
      /\ UNCHANGED <<archive, restored>> /\ answered' = answered \cup told
      /\ req' = [req EXCEPT ![p] = Idle]
  BY DEF ControlInv, TablesInv, RequestInv, Request, Audit
<1>1. PICK ok \in BOOLEAN : Save("audit", ok)
  BY DEF Audit
<1>2. /\ Sound(memory', changes')
      /\ memory'.audit.has = memory.audit.has \cup told
      /\ \A u \in Tables \ {"audit"} : memory'[u] = memory[u]
  <2>1. memory' = Told(memory, told) /\ Sound(memory, changes)
    BY DEF Audit, Told, ControlInv, TablesInv
  <2>2. changes \in Nat /\ changes' = changes /\ told \subseteq 1 .. changes
    BY <1>0
  <2> HIDE DEF told
  <2> QED
    <3>1. Sound(memory', changes)
      BY <2>1, <2>2, ToldSound
    <3>2. memory \in Stores
      BY <2>1 DEF Sound
    <3>3. /\ Told(memory, told).audit.has = memory.audit.has \cup told
          /\ \A u \in Tables \ {"audit"} : Told(memory, told)[u] = memory[u]
      BY <3>2, ToldKeeps
    <3> QED
      BY <2>1, <2>2, <3>1, <3>3
<1>3. "audit" \in Tables
  BY FileNames
<1>4. /\ disk' = None \/ Sound(disk', changes')
      /\ disk' = None <=> disk = None
      /\ disk # None => \A u \in Tables :
            disk'[u] = IF Saved(ok) /\ u = "audit" THEN memory'[u] ELSE disk[u]
  BY <1>0, <1>1, <1>2, <1>3, SaveSound DEF ControlInv, TablesInv
<1>5. TablesInv'
  BY <1>0, <1>2, <1>4 DEF ControlInv, TablesInv
<1>6. Idle \in Request(changes') /\ InOrder(Idle, changes')
  BY <1>0, IdleInOrder
<1>7. RequestInv'
  BY <1>0, <1>6, RequestsKept DEF ControlInv
<1>8. /\ \A q \in Clients : req'[q] = IF q = p THEN Idle ELSE req[q]
      /\ Idle.at # "rename" /\ Idle.read = <<>> /\ Idle.change = 0
  BY <1>0 DEF ControlInv, RequestInv, Doing, Idle
<1>9. ASSUME ~restored'
      PROVE  /\ disk # None
             /\ \A u \in Tables : disk[u].has \subseteq disk'[u].has /\ disk'[u].has \subseteq memory'[u].has
             /\ Contained(disk) \subseteq Contained(disk')
             /\ told \subseteq Contained(disk)
  <2>1. /\ ~restored /\ disk # None /\ \A u \in Tables : disk[u].has \subseteq memory[u].has
        /\ told \subseteq Contained(disk)
    BY <1>0, <1>9 DEF ControlInv, KeptInv
  <2>2. \A u \in Tables : disk[u].has \subseteq disk'[u].has /\ disk'[u].has \subseteq memory'[u].has
    BY <1>2, <1>4, <2>1
  <2>3. Contained(disk) \subseteq Contained(disk')
    BY <2>2, ContainedGrows
  <2> QED
    BY <2>1, <2>2, <2>3
<1>10. KeptInv'
  <2> HIDE DEF told
  <2> QED
    BY <1>0, <1>2, <1>4, <1>8, <1>9 DEF ControlInv, KeptInv
<1>11. BackupInv'
  BY <1>0, <1>8, <1>9, CoveredGrows DEF ControlInv, BackupInv
<1> QED
  BY <1>5, <1>7, <1>10, <1>11 DEF ControlInv

\* A request that has read more and is otherwise the same.
LEMMA RequestReads ==
    ASSUME NEW n \in Nat, NEW r \in Request(n), NEW f
    PROVE  [r EXCEPT !.read = f] = [at |-> r.at, does |-> r.does, change |-> r.change, read |-> f]
<1>1. PICK a, b, c, g : r = [at |-> a, does |-> b, change |-> c, read |-> g]
  BY DEF Request
<1> DEFINE s == [at |-> a, does |-> b, change |-> c, read |-> g]
<1>2. [s EXCEPT !.read = f] = [at |-> s.at, does |-> s.does, change |-> s.change, read |-> f]
  OBVIOUS
<1>3. r = s
  BY <1>1
<1> HIDE DEF s
<1> QED
  BY <1>2, <1>3, Zenon

\* The next file of a backup.
LEMMA BackupReadsStep ==
    ASSUME ControlInv, NEW p \in Clients, BackupReads(p)
    PROVE  ControlInv'
<1> DEFINE read == req[p].read
<1> DEFINE k == Len(read) + 1
<1> DEFINE file == disk[Files[k]]
<1>0. /\ changes \in Nat /\ Sound(disk, changes) /\ disk # None
      /\ UNCHANGED <<memory, disk, archive, minted, answered, restored, changes>>
      /\ req[p] \in Request(changes) /\ InOrder(req[p], changes)
      /\ req[p].at = "handler" /\ req[p].does \in Requests /\ req[p].does.op = "backup"
      /\ req[p].change = 0
  BY DEF ControlInv, TablesInv, RequestInv, InOrder, BackupReads, history, counters
<1>1. read \in Seq(AnyFile(changes)) /\ k \in 1 .. 4 /\ Len(read) \in Nat
  BY <1>0, FileNames DEF Request, BackupReads
<1>2. file \in File(Files[k], changes) /\ file \in AnyFile(changes)
  BY <1>0, <1>1, FileNames DEF Sound, AnyFile
<1>3. /\ Append(read, file) \in Seq(AnyFile(changes)) /\ Len(Append(read, file)) = k
      /\ \A j \in 1 .. k : Append(read, file)[j] = IF j = k THEN file ELSE read[j]
  BY <1>1, <1>2
<1> DEFINE x == [at |-> "handler", does |-> req[p].does, change |-> 0, read |-> Append(read, file)]
<1>4. req' = [req EXCEPT ![p] = x]
  <2>1. req' = [req EXCEPT ![p] = [req[p] EXCEPT !.read = Append(read, file)]]
    BY DEF BackupReads
  <2>2. [req[p] EXCEPT !.read = Append(read, file)]
            = [at |-> req[p].at, does |-> req[p].does, change |-> req[p].change, read |-> Append(read, file)]
    BY <1>0, RequestReads
  <2> QED
    BY <1>0, <2>1, <2>2
<1>5. x \in Request(changes) /\ InOrder(x, changes)
  BY <1>0, <1>1, <1>2, <1>3, FileNames DEF Request, InOrder
<1>6. RequestInv'
  <2>1. changes' \in Nat /\ changes <= changes' /\ x \in Request(changes') /\ InOrder(x, changes')
    BY <1>0, <1>5
  <2> HIDE DEF x
  <2> QED
    BY <1>0, <1>4, <2>1, RequestsKept DEF ControlInv
<1>7. \A q \in Clients : req'[q] = IF q = p THEN x ELSE req[q]
  BY <1>4 DEF ControlInv, RequestInv
<1>8. TablesInv'
  BY <1>0 DEF ControlInv, TablesInv
<1>9. KeptInv'
  BY <1>0, <1>7 DEF ControlInv, KeptInv
<1>10. ~restored => Covered(Append(read, file), disk)
  <2> SUFFICES ASSUME ~restored PROVE Covered(Append(read, file), disk)
    OBVIOUS
  <2>1. CASE k = 1
    <3>1. file = disk.audit /\ Append(read, file)[1] = file
      BY <1>1, <1>3, <2>1, FileNames
    <3>2. disk.audit.has \subseteq Contained(disk)
      BY <1>3, FileNames DEF ControlInv, KeptInv
    <3>3. \A c \in Contained(disk) : \E j \in 2 .. 4 : c \in disk[Files[j]].has
      BY FileNames DEF Contained
    <3> QED
      BY <1>3, <2>1, <3>1, <3>2, <3>3 DEF Covered
  <2>2. CASE k > 1
    <3>1. Covered(read, disk) /\ Append(read, file)[1] = read[1]
      BY <1>1, <1>3, <2>2 DEF ControlInv, BackupInv
    <3>2. \A j \in 2 .. 4 : j <= Len(Append(read, file)) =>
             \/ j <= Len(read) /\ Append(read, file)[j] = read[j]
             \/ j = k /\ Append(read, file)[j] = disk[Files[j]]
      BY <1>1, <1>3
    <3> QED
      BY <3>1, <3>2 DEF Covered
  <2> QED
    BY <1>1, <2>1, <2>2
<1>11. BackupInv'
  <2>1. ASSUME ~restored', NEW q \in Clients, req'[q].read # <<>>
        PROVE  Covered(req'[q].read, disk')
    <3>1. CASE q = p
      <4>1. req'[q].read = Append(read, file)
        BY <1>7, <3>1
      <4> QED
        BY <1>0, <1>10, <2>1, <4>1
    <3>2. CASE q # p
      BY <1>0, <1>7, <2>1, <3>2 DEF ControlInv, BackupInv
    <3> QED
      BY <3>1, <3>2
  <2> QED
    BY <1>0, <2>1 DEF ControlInv, BackupInv
<1> QED
  BY <1>6, <1>8, <1>9, <1>11 DEF ControlInv

\* A request that goes on to its next stage while the tables stay as they are,
\* or the files are gone or replaced by a restore.
LEMMA StageStep ==
    ASSUME ControlInv, NEW p \in Clients, NEW at \in {"audit", "rename"}, req[p].at # "idle",
           req' = [req EXCEPT ![p] = Doing(at, @.does, 0)],
           UNCHANGED <<memory, minted, answered, changes>>, TablesInv',
           \/ restored'
           \/ /\ ~restored /\ ~restored' /\ disk' = disk /\ at = "audit"
              /\ archive' # None => archive'.audit.has \subseteq Contained(archive')
    PROVE  ControlInv'
<1> DEFINE x == Doing(at, req[p].does, 0)
<1>0. changes \in Nat /\ changes' \in Nat /\ changes <= changes' /\ req[p].does \in Requests
  BY DEF ControlInv, TablesInv, RequestInv, InOrder
<1>1. x \in Request(changes') /\ InOrder(x, changes')
  <2>1. 0 \in 0 .. changes'
    BY <1>0
  <2> QED
    BY <1>0, <2>1, DoingInOrder
<1>2. req' = [req EXCEPT ![p] = x]
  OBVIOUS
<1>3. x.at = at /\ x.change = 0 /\ x.read = <<>>
  BY DEF Doing
<1> HIDE DEF x
<1>4. RequestInv'
  BY <1>0, <1>1, <1>2, RequestsKept DEF ControlInv
<1>5. \A q \in Clients : req'[q] = IF q = p THEN x ELSE req[q]
  BY <1>2 DEF ControlInv, RequestInv
<1>6. KeptInv'
  BY <1>3, <1>5 DEF ControlInv, KeptInv
<1>7. BackupInv'
  BY <1>3, <1>5 DEF ControlInv, BackupInv
<1> QED
  BY <1>4, <1>6, <1>7 DEF ControlInv

LEMMA BackupEndsStep ==
    ASSUME ControlInv, NEW p \in Clients, BackupEnds(p)
    PROVE  ControlInv'
<1> DEFINE read == req[p].read
<1>0. /\ changes \in Nat /\ InOrder(req[p], changes) /\ read # <<>> /\ Len(read) = 4
      /\ req[p].at # "idle"
      /\ UNCHANGED <<memory, disk, minted, answered, restored, changes>>
      /\ req' = [req EXCEPT ![p] = Doing("audit", @.does, 0)]
  BY FileNames DEF ControlInv, TablesInv, RequestInv, InOrder, BackupEnds, history
<1>1. \A k \in 1 .. 4 : archive'[Files[k]] = read[k]
  <2> SUFFICES ASSUME NEW k \in 1 .. 4 PROVE archive'[Files[k]] = read[k]
    OBVIOUS
  <2>1. archive'[Files[k]] = read[CHOOSE j \in 1 .. 4 : Files[j] = Files[k]]
    BY FileNames DEF BackupEnds
  <2>2. (CHOOSE j \in 1 .. 4 : Files[j] = Files[k]) = k
    BY FileNames
  <2> QED
    BY <2>1, <2>2
<1>2. \A k \in 1 .. 4 : archive'[Files[k]] \in File(Files[k], changes)
  BY <1>0, <1>1 DEF InOrder
<1>3. \A t \in Tables : archive'[t] \in File(t, changes)
  BY <1>2, FileNames
<1>4. archive' = [t \in Tables |-> archive'[t]]
  BY DEF BackupEnds
<1>5. archive' \in Stores
  BY <1>0, <1>3, <1>4, ValueTypes, FileNames DEF Stores, Contents, File
<1>6. TablesInv'
  BY <1>0, <1>3, <1>5 DEF ControlInv, TablesInv, Sound
<1>7. ~restored => archive'.audit.has \subseteq Contained(archive')
  <2> SUFFICES ASSUME ~restored, NEW c \in archive'.audit.has PROVE c \in Contained(archive')
    OBVIOUS
  <2>1. c \in read[1].has
    BY <1>1, FileNames
  <2>2. PICK k \in 2 .. 4 : c \in read[k].has
    BY <1>0, <2>1 DEF ControlInv, BackupInv, Covered
  <2>3. Files[k] \in Tables \ {"audit"} /\ c \in archive'[Files[k]].has
    BY <1>1, <2>2, FileNames
  <2> QED
    BY <2>3 DEF Contained
<1> QED
  BY <1>0, <1>6, <1>7, StageStep

LEMMA RestoreStep ==
    ASSUME ControlInv, NEW p \in Clients, RestoreRemoves(p) \/ RestoreRenames(p)
    PROVE  ControlInv'
<1>1. CASE RestoreRemoves(p)
  <2>1. /\ req' = [req EXCEPT ![p] = Doing("rename", @.does, 0)] /\ req[p].at # "idle"
        /\ UNCHANGED <<memory, archive, minted, answered, changes>>
        /\ restored' = TRUE /\ disk' = None
    BY <1>1 DEF RestoreRemoves
  <2>2. TablesInv'
    BY <2>1 DEF ControlInv, TablesInv
  <2> QED
    BY <2>1, <2>2, StageStep
<1>2. CASE RestoreRenames(p)
  <2>1. /\ UNCHANGED <<memory, archive, minted, answered, changes>>
        /\ restored /\ restored' = restored /\ req[p].at # "idle"
    BY <1>2 DEF RestoreRenames, history, ControlInv, KeptInv
  <2>2. CASE disk' = archive /\ req' = [req EXCEPT ![p] = Doing("audit", @.does, 0)]
    <3>1. TablesInv'
      BY <2>1, <2>2 DEF ControlInv, TablesInv
    <3> QED
      BY <2>1, <2>2, <3>1, StageStep
  <2>3. CASE req' = [req EXCEPT ![p] = Idle] /\ disk' = disk
    BY <2>1, <2>3, RequestStep
  <2> QED
    BY <1>2, <2>2, <2>3 DEF RestoreRenames
<1> QED
  BY <1>1, <1>2

\* A restore that removed some files and gave up.
LEMMA RestoreStopsStep ==
    ASSUME ControlInv, NEW p \in Clients, RestoreStops(p)
    PROVE  ControlInv'
<1>0. /\ changes \in Nat /\ changes' \in Nat /\ changes <= changes' /\ changes' = changes
      /\ UNCHANGED <<memory, archive, answered>> /\ restored' = TRUE
      /\ req' = [req EXCEPT ![p] = Idle]
      /\ Sound(disk, changes)
  BY DEF ControlInv, TablesInv, RestoreStops
<1>1. PICK gone : disk' = [t \in Tables |-> IF t \in gone THEN Fresh[t] ELSE disk[t]]
  BY DEF RestoreStops
<1>2. \A t \in Tables : disk'[t] \in File(t, changes)
  BY <1>0, <1>1, FreshSound DEF Sound
<1>3. disk' = [t \in Tables |-> disk'[t]]
  BY <1>1
<1>4. disk' \in Stores
  BY <1>0, <1>2, <1>3, ValueTypes, FileNames DEF Stores, Contents, File
<1>5. TablesInv'
  BY <1>0, <1>2, <1>4 DEF ControlInv, TablesInv, Sound
<1>6. Idle \in Request(changes') /\ InOrder(Idle, changes')
  BY <1>0, IdleInOrder
<1>7. RequestInv'
  BY <1>0, <1>6, RequestsKept DEF ControlInv
<1> QED
  BY <1>0, <1>5, <1>7 DEF ControlInv, KeptInv, BackupInv

LEMMA RestartStep ==
    ASSUME ControlInv, Restart
    PROVE  ControlInv'
<1>0. /\ changes \in Nat /\ changes' = changes
      /\ UNCHANGED <<archive, minted, answered, restored, changes>>
      /\ disk' = (IF disk = None THEN Fresh ELSE disk) /\ memory' = disk'
      /\ req' = [p \in Clients |-> Idle]
  BY DEF Restart, history, ControlInv, TablesInv
<1>1. Sound(Fresh, changes) /\ Idle \in Request(changes) /\ InOrder(Idle, changes)
  BY <1>0, FreshSound, IdleInOrder
<1>2. TablesInv'
  BY <1>0, <1>1 DEF ControlInv, TablesInv
<1>3. RequestInv'
  BY <1>0, <1>1 DEF RequestInv
<1>4. \A p \in Clients : req'[p].at = "idle" /\ req'[p].change = 0 /\ req'[p].read = <<>>
  BY <1>0 DEF Idle, Doing
<1>5. KeptInv'
  BY <1>0, <1>4, FileNames DEF ControlInv, KeptInv
<1>6. BackupInv'
  BY <1>0, <1>4 DEF ControlInv, BackupInv
<1> QED
  BY <1>2, <1>3, <1>5, <1>6 DEF ControlInv

LEMMA NextInv == ControlInv /\ [Next]_vars => ControlInv'
<1> SUFFICES ASSUME ControlInv, [Next]_vars PROVE ControlInv'
  OBVIOUS
<1>1. ASSUME NEW p \in Clients, NEW r \in Requests, Begin(p, r) PROVE ControlInv'
  BY <1>1, RequestStep DEF Begin, history, counters
<1>2. ASSUME NEW p \in Clients, Change(p) PROVE ControlInv'
  BY <1>2, ChangeStep
<1>3. ASSUME NEW p \in Clients, Refuse(p) PROVE ControlInv'
  BY <1>3, RequestStep DEF Refuse, history, counters
<1>4. ASSUME NEW p \in Clients, Audit(p) PROVE ControlInv'
  BY <1>4, AuditStep
<1>5. ASSUME NEW p \in Clients, BackupReads(p) PROVE ControlInv'
  BY <1>5, BackupReadsStep
<1>6. ASSUME NEW p \in Clients, BackupFails(p) PROVE ControlInv'
  BY <1>6, RequestStep DEF BackupFails, history
<1>7. ASSUME NEW p \in Clients, BackupEnds(p) PROVE ControlInv'
  BY <1>7, BackupEndsStep
<1>8. ASSUME NEW p \in Clients, RestoreRemoves(p) \/ RestoreStops(p) \/ RestoreRenames(p)
      PROVE  ControlInv'
  BY <1>8, RestoreStep, RestoreStopsStep
<1>9. CASE Restart
  BY <1>9, RestartStep
<1>10. CASE UNCHANGED vars
  BY <1>10 DEF vars, history, counters, ControlInv, TablesInv, RequestInv, KeptInv, BackupInv
<1> QED
  BY <1>1, <1>2, <1>3, <1>4, <1>5, <1>6, <1>7, <1>8, <1>9, <1>10 DEF Next

-----------------------------------------------------------------------------
(* The theorems.                                                             *)

\* The invariant the results below rest on: the tables in memory, on disk and in
\* the archive are sound, what requests are doing is in order, and, until a
\* restore, memory, files, log and backups agree as KeptInv and BackupInv say.
THEOREM ControlInvariant == Spec => []ControlInv
BY InitInv, NextInv, PTL DEF Spec

\* The tables have their types in memory, on disk and in an archive, whatever is
\* saved, lost, backed up and restored: a token is filed under the id of its own
\* secret, no policy in force admits nobody.
THEOREM TablesTyped == Spec => []TypeOK
<1>1. ControlInv => TypeOK
  <2> SUFFICES ASSUME ControlInv PROVE TypeOK
    OBVIOUS
  <2>1. \A tables \in {memory, disk, archive} \ {None} : Sound(tables, changes)
    BY DEF ControlInv, TablesInv
  <2>2. ASSUME NEW tables, Sound(tables, changes)
        PROVE  /\ \A t \in Tables : tables[t].has \subseteq 1 .. changes
               /\ tables.peers.val \subseteq Peers
               /\ tables.policy.val \in MaxUEs \cup {DefaultUEs} /\ tables.policy.val > 0
               /\ \A i \in Ids : tables.tokens.val[i] # None => IdOf[tables.tokens.val[i].secret] = i
    <3>1. \A t \in Tables : tables[t].val \in Vals[t] /\ tables[t].has \subseteq 1 .. changes
      BY <2>2 DEF Sound, File
    <3>2. tables.policy.val \in Vals["policy"] /\ tables.peers.val \in Vals["peers"]
      BY <3>1, FileNames
    <3>3. tables.policy.val \in MaxUEs \cup {DefaultUEs}
      BY <3>2 DEF Vals
    <3>4. tables.policy.val > 0
      BY <3>2, ValueTypes
    <3>5. tables.tokens.val \in Vals["tokens"]
      BY <3>1, FileNames
    <3>6. \A i \in Ids : tables.tokens.val[i] # None => IdOf[tables.tokens.val[i].secret] = i
      BY <3>5 DEF Vals
    <3> QED
      BY <3>1, <3>2, <3>3, <3>4, <3>6, ValueTypes
  <2>3. answered \subseteq 1 .. changes
    BY DEF ControlInv, TablesInv
  <2> QED
    BY <2>1, <2>2, <2>3 DEF TypeOK
<1> QED
  BY <1>1, ControlInvariant, PTL

\* Until a restore, no log on disk or in an archive tells of a change that is not
\* there: handlers save before they append, and a backup reads the log first.
THEOREM AuditFollows == Spec => []AuditNeverAhead
<1>1. ControlInv => AuditNeverAhead
  BY FileNames DEF ControlInv, KeptInv, BackupInv, AuditNeverAhead
<1> QED
  BY <1>1, ControlInvariant, PTL

\* Until a restore, a change whose request was answered with success is in memory
\* and on disk, after every failed save and every restart.
THEOREM AnswersAreKept == Spec => []AnsweredIsKept
<1>1. ControlInv => AnsweredIsKept
  <2> SUFFICES ASSUME ControlInv, ~restored PROVE answered \subseteq Contained(memory) \cap Contained(disk)
    BY DEF AnsweredIsKept
  <2>1. Contained(disk) \subseteq Contained(memory)
    BY ContainedGrows DEF ControlInv, KeptInv
  <2> QED
    BY <2>1 DEF ControlInv, KeptInv
<1> QED
  BY <1>1, ControlInvariant, PTL

\* A step of the token map lets no secret in that was drawn before and is refused.
LEMMA ChangeLetsNobodyIn ==
    ASSUME ControlInv, NEW p \in Clients, Change(p), NEW s \in minted,
           TokenByHash(memory.tokens.val, s) = {}
    PROVE  TokenByHash(memory'.tokens.val, s) = {}
<1> DEFINE r == req[p].does
<1> DEFINE old == memory.tokens.val
<1>0. changes \in Nat /\ changes' = changes + 1 /\ changes' \in Nat /\ r \in Requests /\ r.table # None
      /\ Sound(memory, changes)
  BY DEF ControlInv, TablesInv, RequestInv, InOrder, Change
<1>1. PICK val \in Outcomes(r) : memory' = Changed(memory, r.table, val, changes')
  BY DEF Change, Changed
<1>2. r.table \in Tables \ {"audit"} /\ val \in Vals[r.table]
  BY <1>0, OutcomesSound
<1>3. memory'[r.table].val = val /\ \A u \in Tables \ {r.table} : memory'[u] = memory[u]
  <2> HIDE DEF r
  <2> QED
    BY <1>0, <1>1, <1>2, ChangedSound
<1>4. CASE r.table # "tokens"
  BY <1>3, <1>4, FileNames
<1>5. CASE r.table = "tokens"
  <2>1. old \in Vals["tokens"] /\ memory'.tokens.val = val /\ memory[r.table].val = old
    BY <1>0, <1>3, <1>5, FileNames DEF Sound, File
  <2>2. old \in [Ids -> Tokens \cup {None}]
    BY <2>1, ValueTypes
  <2>3. CASE r.op = "createToken"
    <3>1. r.secret \notin minted /\ val = WithToken(old, r.secret, r.role) /\ r.secret \in Secrets
      BY <2>1, <2>3, <1>0 DEF Outcomes, Requests
    <3>2. val = [old EXCEPT ![IdOf[r.secret]] = [secret |-> r.secret, role |-> r.role, revoked |-> FALSE]]
      BY <3>1 DEF WithToken
    <3>3. \A i \in Ids : val[i] = old[i] \/ val[i].secret = r.secret
      BY <2>2, <3>2
    <3> QED
      BY <2>1, <3>1, <3>3 DEF TokenByHash
  <2>4. CASE r.op = "revokeToken"
    <3>1. r.id \in Ids /\ old[r.id] # None /\ val = [old EXCEPT ![r.id] = [old[r.id] EXCEPT !.revoked = TRUE]]
      BY <2>1, <2>4, <1>0 DEF Outcomes, Requests
    <3>2. [old[r.id] EXCEPT !.revoked = TRUE].revoked = TRUE
      BY <2>2, <3>1 DEF Tokens
    <3>3. \A i \in Ids : val[i] = old[i] \/ val[i].revoked = TRUE
      BY <2>2, <3>1, <3>2
    <3> QED
      BY <2>1, <3>3 DEF TokenByHash
  <2> QED
    BY <1>0, <1>5, <2>3, <2>4 DEF Requests
<1> QED
  BY <1>4, <1>5

\* Once neither memory nor the file lets a secret in that was drawn before, no
\* creation under the same id, no failed save and no restart lets it in again.
THEOREM RevocationHolds == Spec => RevokedStaysOut
<1>1. ControlInv /\ [Next]_vars
         => [~restored' => \A s \in minted :
                /\ TokenByHash(memory.tokens.val, s) = {} /\ TokenByHash(disk.tokens.val, s) = {}
                => TokenByHash(memory'.tokens.val, s) = {}]_vars
  <2> SUFFICES ASSUME ControlInv, [Next]_vars, NEW s \in minted,
                      TokenByHash(memory.tokens.val, s) = {}, TokenByHash(disk.tokens.val, s) = {}
               PROVE  TokenByHash(memory'.tokens.val, s) = {}
    OBVIOUS
  <2>1. ASSUME NEW p \in Clients, Change(p) PROVE TokenByHash(memory'.tokens.val, s) = {}
    BY <2>1, ChangeLetsNobodyIn
  <2>2. ASSUME NEW p \in Clients, Audit(p) PROVE TokenByHash(memory'.tokens.val, s) = {}
    <3>1. memory \in Stores
      BY DEF ControlInv, TablesInv, Sound
    <3>2. memory'.tokens = memory.tokens
      BY <2>2, <3>1 DEF Audit, Stores
    <3> QED
      BY <3>2
  <2>3. CASE Restart
    <3>1. memory' = disk \/ memory' = Fresh
      BY <2>3 DEF Restart
    <3>2. TokenByHash(Fresh.tokens.val, s) = {}
      BY DEF TokenByHash, Fresh, Table
    <3> QED
      BY <3>1, <3>2
  <2>4. CASE UNCHANGED memory
    BY <2>4
  <2> QED
    BY <2>1, <2>2, <2>3, <2>4
    DEF Next, vars, Begin, Refuse, BackupReads, BackupFails, BackupEnds, RestoreRemoves, RestoreStops, RestoreRenames
<1> QED
  BY <1>1, ControlInvariant, PTL DEF Spec, RevokedStaysOut
=============================================================================
