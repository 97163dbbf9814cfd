---------------------------- MODULE ControlTables ----------------------------
(***************************************************************************)
(* The control plane's tables as an operator meets them: scoped tokens and  *)
(* their roles, peers, the policy, the audit log, and backup and restore of *)
(* the data directory (internal/api routes.go, ops.go, server.go, backup.go;*)
(* internal/store).                                                         *)
(*                                                                          *)
(* A request is authenticated first.  Its handler then changes one table in *)
(* memory, saves that table, and, when that succeeded, appends to the audit *)
(* log and saves the log; between those steps other requests run.  A backup *)
(* reads the files one after another in the order of their names while they *)
(* are being replaced; a restore removes the directory and puts the unpacked*)
(* archive in its place, while the process keeps working on its memory.     *)
(*                                                                          *)
(* Abstractions.  Every change has a number; beside its value a table keeps *)
(* the numbers of the changes it contains, and the log those of the changes *)
(* it tells of.  The entries that backups and restores themselves add to the*)
(* log are not told apart; saving it is kept.  Unpacking, encryption and an *)
(* archive that does not unpack change nothing and are left out.            *)
(***************************************************************************)
EXTENDS Integers, FiniteSets, Sequences

CONSTANTS
    None,
    Clients,      \* concurrent requests,
    Scoped,       \*   those of callers who do not have the admin token
    Secrets,      \* token secrets that are drawn
    Ids,          \* token ids
    IdOf,         \* the id of a secret: three characters of it
    Roles,        \* roles scoped tokens are given
    Peers,        \* peer ids
    MaxUEs,       \* values of max_ues a policy may ask for
    MaxChanges,   \* bound: changes in a behaviour
    MaxBackups,   \* bound: backups
    MaxRestores,  \* bound: restores
    MaxLives,     \* bound: runs of the process
    MaxFailures   \* bound: failed saves, backups and renames

ASSUME TablesAssumption ==
    /\ Scoped \subseteq Clients
    /\ IdOf \in [Secrets -> Ids]
    /\ Roles \subseteq {"admin", "operator", "viewer"}
    /\ MaxUEs \subseteq Nat
    /\ MaxChanges \in Nat /\ MaxBackups \in Nat /\ MaxRestores \in Nat
    /\ MaxLives \in Nat \ {0} /\ MaxFailures \in Nat

VARIABLES
    memory,    \* the store's tables
    disk,      \* their files; None while the directory is gone
    archive,   \* the last archive handed out
    req,       \* req[p]: what a request is doing
    minted,    \* history: secrets drawn,
    answered,  \*   changes whose requests were answered with success,
    changes,   \*   changes made,
    restored,  \*   whether a restore has touched the files
    backups, restores, lives, failures

history == <<minted, answered, restored>>
counters == <<changes, backups, restores, lives, failures>>
vars == <<memory, disk, archive, req, history, counters>>

\* Mutant: the log is read last.
FilesLogLast == <<"peers", "policy", "tokens", "audit">>

\* The files, in the order filepath.Walk meets them.
Files == <<"audit", "peers", "policy", "tokens">>
Tables == {Files[k] : k \in 1 .. 4}

DefaultUEs == 128
Table(val) == [val |-> val, has |-> {}]
Fresh == [audit |-> Table(None), peers |-> Table({}), policy |-> Table(DefaultUEs),
          tokens |-> Table([i \in Ids |-> None])]

\* The states of the tables.
Tokens == [secret : Secrets, role : Roles, revoked : BOOLEAN]
Contents(vals) == [val : vals, has : SUBSET Nat]
Stores ==
    [audit : Contents({None}), peers : Contents(SUBSET Peers), policy : Contents(Nat),
     tokens : Contents([Ids -> Tokens \cup {None}])]

ASSUME NoneAssumption == None \notin Stores

Doing(at, does, change) == [at |-> at, does |-> does, change |-> change, read |-> <<>>]
Idle == Doing("idle", None, 0)

Init ==
    /\ memory = Fresh /\ disk = Fresh /\ archive = None
    /\ req = [p \in Clients |-> Idle]
    /\ minted = {} /\ answered = {} /\ restored = FALSE
    /\ changes = 0 /\ backups = 0 /\ restores = 0 /\ lives = 1 /\ failures = 0

-----------------------------------------------------------------------------
(* Authentication and authorization.                                         *)

\* TokenByHash: the records a secret is good for.
TokenByHash(tokens, s) ==
    {i \in Ids : tokens[i] # None /\ tokens[i].secret = s /\ ~tokens[i].revoked}

\* The roles a caller can act in: the admin token's, or those of the scoped
\* tokens that were handed out.
CallerRoles(p) ==
    IF p \notin Scoped THEN {"admin"}
    ELSE UNION {{memory.tokens.val[i].role : i \in TokenByHash(memory.tokens.val, s)} : s \in minted}

\* What requests do; each but the last two changes one table.
Requests ==
    [op : {"addPeer", "deletePeer"}, table : {"peers"}, peer : Peers]
        \cup [op : {"putPolicy"}, table : {"policy"}, max : MaxUEs]
        \cup [op : {"createToken"}, table : {"tokens"}, secret : Secrets, role : Roles]
        \cup [op : {"revokeToken"}, table : {"tokens"}, id : Ids]
        \cup [op : {"backup", "restore"}, table : {None}]

\* authorize, for the requests above: none is a GET of a public surface.
Authorized(role, r) ==
    \/ role = "admin"
    \/ r.op \notin {"createToken", "revokeToken", "backup", "restore"} /\ role = "operator"

\* authMW: the role is looked up once, before the handler runs.
Begin(p, r) ==
    /\ req[p] = Idle
    /\ \E role \in CallerRoles(p) : Authorized(role, r)
    /\ req' = [req EXCEPT ![p] = Doing("handler", r, 0)]
    /\ UNCHANGED <<memory, disk, archive, history, counters>>

-----------------------------------------------------------------------------
(* Changes.                                                                  *)

\* Mutant: max_ues is taken as it comes.
PolicyAsAsked(max) == max

\* handlePutPolicy's normalisation.
PolicyFor(max) == IF max <= 0 THEN DefaultUEs ELSE max

\* Mutant: a record of the same id is put back in force.
WithTokenRenewed(tokens, s, role) ==
    [tokens EXCEPT ![IdOf[s]] =
        IF @ = None THEN [secret |-> s, role |-> role, revoked |-> FALSE]
        ELSE [@ EXCEPT !.revoked = FALSE]]

\* The token map after a creation: a record of the same id is replaced.
WithToken(tokens, s, role) ==
    [tokens EXCEPT ![IdOf[s]] = [secret |-> s, role |-> role, revoked |-> FALSE]]

\* The values a request may give its table.
Outcomes(r) ==
    LET val == memory[r.table].val
    IN CASE r.op = "addPeer" -> {val \cup {r.peer}}
         [] r.op = "deletePeer" -> {val \ {r.peer}}
         [] r.op = "putPolicy" -> {PolicyFor(r.max)}
         [] r.op = "createToken" ->
              IF r.secret \in minted THEN {} ELSE {WithToken(val, r.secret, r.role)}
         [] r.op = "revokeToken" ->
              IF val[r.id] = None THEN {} ELSE {[val EXCEPT ![r.id].revoked = TRUE]}

\* Mutant: what is written was taken before the change.
SaveStale(table, ok) ==
    /\ ok /\ disk # None
    /\ disk' = [disk EXCEPT ![table] = memory[table]] /\ UNCHANGED failures

\* save: without a directory it fails.
Save(table, ok) ==
    IF disk # None /\ ok
    THEN disk' = [disk EXCEPT ![table] = memory'[table]] /\ UNCHANGED failures
    ELSE /\ UNCHANGED disk
         /\ IF disk = None THEN ok /\ UNCHANGED failures
            ELSE failures < MaxFailures /\ failures' = failures + 1

Saved(ok) == disk # None /\ ok

\* The handler changes its table and saves it; an error is the answer.
Change(p) ==
    LET r == req[p].does
    IN /\ req[p].at = "handler" /\ r.table # None /\ changes < MaxChanges
       /\ changes' = changes + 1
       /\ minted' = IF r.op = "createToken" THEN minted \cup {r.secret} ELSE minted
       /\ \E val \in Outcomes(r), ok \in BOOLEAN :
             /\ memory' = [memory EXCEPT ![r.table] = [val |-> val, has |-> @.has \cup {changes'}]]
             /\ Save(r.table, ok)
             /\ req' = IF Saved(ok)
                       THEN [req EXCEPT ![p] = Doing("audit", r, changes')]
                       ELSE [req EXCEPT ![p] = Idle]
       /\ UNCHANGED <<archive, answered, restored, backups, restores, lives>>

\* No such token: the request is answered with an error.
Refuse(p) ==
    /\ req[p].at = "handler" /\ req[p].does.table # None /\ Outcomes(req[p].does) = {}
    /\ req' = [req EXCEPT ![p] = Idle]
    /\ UNCHANGED <<memory, disk, archive, history, counters>>

\* auditReq, whose errors are only logged, and the answer.
Audit(p) ==
    LET told == IF req[p].change = 0 THEN {} ELSE {req[p].change}
    IN /\ req[p].at = "audit"
       /\ memory' = [memory EXCEPT !.audit.has = @ \cup told]
       /\ \E ok \in BOOLEAN : Save("audit", ok)
       /\ answered' = answered \cup told
       /\ req' = [req EXCEPT ![p] = Idle]
       /\ UNCHANGED <<archive, minted, restored, changes, backups, restores, lives>>

-----------------------------------------------------------------------------
(* Backup and restore.                                                       *)

\* createBackup: the next file.
BackupReads(p) ==
    LET read == req[p].read
    IN /\ req[p].at = "handler" /\ req[p].does.op = "backup"
       /\ backups < MaxBackups
       /\ disk # None
       /\ Len(read) < Len(Files)
       /\ req' = [req EXCEPT ![p].read = Append(@, disk[Files[Len(read) + 1]])]
       /\ UNCHANGED <<memory, disk, archive, history, counters>>

\* A file that vanished, or changed its size between the header and the copy.
BackupFails(p) ==
    /\ req[p].at = "handler" /\ req[p].does.op = "backup"
    /\ failures < MaxFailures /\ failures' = failures + 1
    /\ req' = [req EXCEPT ![p] = Idle]
    /\ UNCHANGED <<memory, disk, archive, history, changes, backups, restores, lives>>

\* The archive is complete.
BackupEnds(p) ==
    LET read == req[p].read
    IN /\ Len(read) = Len(Files)
       /\ archive' = [t \in Tables |-> read[CHOOSE k \in 1 .. Len(Files) : Files[k] = t]]
       /\ backups' = backups + 1
       /\ req' = [req EXCEPT ![p] = Doing("audit", @.does, 0)]
       /\ UNCHANGED <<memory, disk, history, changes, restores, lives, failures>>

\* restoreBackup: the archive has been unpacked; the directory is removed ...
RestoreRemoves(p) ==
    /\ req[p].at = "handler" /\ req[p].does.op = "restore"
    /\ restores < MaxRestores /\ archive # None
    /\ restores' = restores + 1
    /\ disk' = None /\ restored' = TRUE
    /\ req' = [req EXCEPT ![p] = Doing("rename", @.does, 0)]
    /\ UNCHANGED <<memory, archive, minted, answered, changes, backups, lives, failures>>

\* ... or only in part: the error is the answer, and a file that is gone is, to
\* whoever reads the directory, a table that was never saved.
RestoreStops(p) ==
    /\ req[p].at = "handler" /\ req[p].does.op = "restore"
    /\ restores < MaxRestores /\ archive # None /\ disk # None
    /\ failures < MaxFailures /\ failures' = failures + 1
    /\ restores' = restores + 1 /\ restored' = TRUE
    /\ \E gone \in SUBSET Tables :
          disk' = [t \in Tables |-> IF t \in gone THEN Fresh[t] ELSE disk[t]]
    /\ req' = [req EXCEPT ![p] = Idle]
    /\ UNCHANGED <<memory, archive, minted, answered, changes, backups, lives>>

\* ... and the staging directory renamed into its place.
RestoreRenames(p) ==
    /\ req[p].at = "rename"
    /\ \/ /\ disk' = archive /\ UNCHANGED failures
          /\ req' = [req EXCEPT ![p] = Doing("audit", @.does, 0)]
       \/ /\ failures < MaxFailures /\ failures' = failures + 1
          /\ req' = [req EXCEPT ![p] = Idle] /\ UNCHANGED disk
    /\ UNCHANGED <<memory, archive, history, changes, backups, restores, lives>>

-----------------------------------------------------------------------------
\* Open: the directory is made if it is missing, and what is in it is read.
Restart ==
    /\ lives < MaxLives /\ lives' = lives + 1
    /\ disk' = IF disk = None THEN Fresh ELSE disk
    /\ memory' = disk'
    /\ req' = [p \in Clients |-> Idle]
    /\ UNCHANGED <<archive, history, changes, backups, restores, failures>>

Next ==
    \/ \E p \in Clients : \E r \in Requests : Begin(p, r)
    \/ \E p \in Clients :
          \/ Change(p) \/ Refuse(p) \/ Audit(p)
          \/ BackupReads(p) \/ BackupFails(p) \/ BackupEnds(p)
          \/ RestoreRemoves(p) \/ RestoreStops(p) \/ RestoreRenames(p)
    \/ Restart

Spec == Init /\ [][Next]_vars

-----------------------------------------------------------------------------
\* The changes a set of tables contains.
Contained(tables) == UNION {tables[t].has : t \in Tables \ {"audit"}}

(* The types of the tables, in memory and on disk: a token is filed under    *)
(* the id of its own secret, and no policy in force admits nobody.           *)
TypeOK ==
    /\ \A tables \in {memory, disk, archive} \ {None} :
          /\ \A t \in Tables : tables[t].has \subseteq 1 .. changes
          /\ tables.peers.val \subseteq Peers
          /\ tables.policy.val \in MaxUEs \cup {DefaultUEs} /\ tables.policy.val > 0
          /\ \A i \in Ids : tables.tokens.val[i] # None => IdOf[tables.tokens.val[i].secret] = i
    /\ answered \subseteq 1 .. changes

(* The log never tells of a change that is not there: each handler saves its *)
(* table before it appends (routes.go:531-535, ops.go:45-49), and a backup   *)
(* reads audit.json before the tables, so neither a crash between the two nor*)
(* a change made while a backup is running leaves, on disk or in an archive, *)
(* an entry without its change.  After a restore the running process writes  *)
(* its own log over the archive's, and this ends.                            *)
AuditNeverAhead ==
    ~restored => \A tables \in {disk, archive} \ {None} :
        tables.audit.has \subseteq Contained(tables)

(* A request that was answered with success has its change on disk, whatever *)
(* other saves failed and whenever the process was stopped: memory and files *)
(* contain it from then on, until a restore.                                 *)
AnsweredIsKept ==
    ~restored => answered \subseteq Contained(memory) \cap Contained(disk)

(* A secret that is refused stays refused: once neither memory nor the file  *)
(* lets it in, which an answered revocation ensures (store.go:340-349 marks  *)
(* and saves before ops.go:49 answers), no creation under the same id, no    *)
(* failed save and no restart lets it in again, until a restore.             *)
RevokedStaysOut ==
    [][~restored' => \A s \in minted :
          /\ TokenByHash(memory.tokens.val, s) = {} /\ TokenByHash(disk.tokens.val, s) = {}
          => TokenByHash(memory'.tokens.val, s) = {}]_vars

(* "RevokeToken disables a token; the record stays for audit" (store.go:339).*)
(* The code breaks it: the id has three hex digits of entropy, and a new     *)
(* token with the same id replaces the record.                               *)
RecordStays ==
    [][~restored' /\ lives' = lives => \A i \in Ids :
          memory.tokens.val[i] # None
              => memory'.tokens.val[i] # None
                 /\ memory'.tokens.val[i].secret = memory.tokens.val[i].secret]_vars

(* "a restart is required for the restored data to take effect"              *)
(* (backup.go:137-139): a restart after a successful restore finds the       *)
(* archive.  The code breaks it: until then the process saves its own tables *)
(* over the restored files, its log first of all.                            *)
RestoreTakesEffect ==
    [][lives' # lives /\ restored /\ disk # None => memory' = archive]_vars

(* "it is unpacked into a fresh staging dir that is only swapped in once the *)
(* whole archive has been read successfully" (backup.go:79-81): a restore    *)
(* that failed has left the state as it was.  The code breaks it: the data   *)
(* directory is removed before the rename, which fails for one when the      *)
(* staging directory is on another file system.                              *)
FailedRestoreIsHarmless ==
    (\A p \in Clients : req[p].at # "rename") => disk # None
=============================================================================
