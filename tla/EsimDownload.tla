---------------------------- MODULE EsimDownload -----------------------------
(***************************************************************************)
(* The ES9+ profile download: software eUICCs running EUICC.Download        *)
(* (core/esim/euicc) against the SM-DP+ server (core/esim/smdp) and its     *)
(* registry, over HTTP that may lose a request or a response, with a server *)
(* that may restart and a session file that may fail to be written.         *)
(*                                                                          *)
(* A request, its handler and the client's reaction are one step, except for*)
(* getBoundProfilePackage, where the registry is asked first and marked     *)
(* last, and other downloads run in between.  ECDH, CMAC and AES are        *)
(* abstracted to their verdict; clients are honest, so the proof of         *)
(* authenticateClient verifies.                                             *)
(***************************************************************************)
EXTENDS EsimRegistry, Sequences

CONSTANTS
    Euiccs,         \* the eUICCs
    Allowed,        \* Allowed[c]: the eUICCs the profile behind c is not pinned away from
    Again,          \* whether an eUICC may download a code it has installed
    DiskFails,      \* whether writing a file may fail
    MaxSessions,    \* bound: download sessions opened in a behaviour
    MaxFaults       \* bound: lost messages, garbled packages, failed writes, restarts

ASSUME DownloadAssumption ==
    /\ Again \in BOOLEAN /\ DiskFails \in BOOLEAN
    /\ Allowed \in [Codes -> SUBSET Euiccs]
    /\ MaxSessions \in Nat /\ MaxFaults \in Nat

VARIABLES
    sessions,    \* the session store: transaction -> session
    opened,      \* transactions numbered so far
    lpa,         \* lpa[e]: where Download is, its transaction and its code
    installed,   \* installed[e]: codes whose profile is in e.Profiles
    won,         \* won[e]: history, codes whose Download returned a profile
    fate,        \* fate[e]: history, how e's last Download ended
    served,      \* history: every package produced, and whether its mark was saved
    faults       \* faults so far

clientVars == <<lpa, installed, won, fate>>
vars == <<registryVars, sessions, opened, clientVars, served, faults>>

FileStore == setup.fileStore   \* sessions are kept in a fileStore, else a MemStore
Statuses == {"pending", "authenticated", "confirmed", "cancelled"}
Idle == [at |-> "idle", tx |-> 0, code |-> "none"]

Init ==
    /\ RegistryInit
    /\ sessions = <<>> /\ opened = 0
    /\ lpa = [e \in Euiccs |-> Idle]
    /\ installed = [e \in Euiccs |-> {}]
    /\ won = [e \in Euiccs |-> {}]
    /\ fate = [e \in Euiccs |-> "none"]
    /\ served = {}
    /\ faults = 0

Faults(n) == faults + n <= MaxFaults /\ faults' = faults + n
Fault == Faults(1)
NoFault == Faults(0)

\* Whether a file write succeeds.
Write(ok) == IF ok THEN NoFault ELSE DiskFails /\ Fault

-----------------------------------------------------------------------------
(* Download, on the client: how it reacts to an answer.                      *)

\* Mutant: a failed confirmation leaves the profile installed.
GiveUpKeepsProfile(e, why) ==
    /\ lpa' = [lpa EXCEPT ![e].at = "idle"]
    /\ fate' = [fate EXCEPT ![e] = why]
    /\ UNCHANGED <<installed, won>>

\* Download returns an error.  Once the profile is installed, a failed
\* confirmOrder or handleNotification removes it again.
GiveUp(e, why) ==
    /\ lpa' = [lpa EXCEPT ![e].at = "idle"]
    /\ fate' = [fate EXCEPT ![e] = why]
    /\ installed' = [installed EXCEPT ![e] =
                        IF lpa[e].at \in {"confirm", "notify"} THEN @ \ {lpa[e].code} ELSE @]
    /\ UNCHANGED won

\* The server answered with an error status.
Refused(e) ==
    IF lpa[e].at \in {"auth", "bpp", "serving"}
    THEN lpa' = [lpa EXCEPT ![e].at = "cancel"] /\ UNCHANGED <<installed, won, fate>>
    ELSE GiveUp(e, "protocol")

\* The server answered 200 and Download goes on at place, or the answer is
\* lost on the way and Download returns a transport error.
Answered(e, place) ==
    \/ /\ lpa' = [lpa EXCEPT ![e].at = place]
       /\ UNCHANGED <<installed, won, fate>>
       /\ NoFault
    \/ GiveUp(e, "transport") /\ Fault

\* initiateAuthentication failed: there is no transaction to speak of.
NoSession(e, why) ==
    /\ lpa' = [lpa EXCEPT ![e] = Idle]
    /\ fate' = [fate EXCEPT ![e] = why]
    /\ UNCHANGED <<installed, won>>

-----------------------------------------------------------------------------
(* The server's handlers, each with the client's reaction.                   *)

Known(e) == lpa[e].tx \in DOMAIN sessions
Status(e) == sessions[lpa[e].tx].status

\* Mutant: a cancellation opens the session again.
SetReopened(e, status) ==
    sessions' = [sessions EXCEPT ![lpa[e].tx].status =
                    IF status = "cancelled" THEN "pending" ELSE status]

SetStatus(e, status) == sessions' = [sessions EXCEPT ![lpa[e].tx].status = status]

\* InitiateAuthentication opens a session, unless the code does not resolve
\* or is pinned to another eUICC.
Initiate(e, c) ==
    /\ lpa[e].at = "idle"
    /\ c \in minted
    /\ Again \/ c \notin installed[e]
    /\ \/ /\ Resolves(c) /\ e \in Allowed[c] /\ opened < MaxSessions
          /\ opened' = opened + 1
          /\ sessions' = [t \in DOMAIN sessions \cup {opened + 1} |->
                             IF t = opened + 1
                             THEN [eid |-> e, code |-> c, status |-> "pending", seq |-> 0]
                             ELSE sessions[t]]
          /\ \/ /\ lpa' = [lpa EXCEPT ![e] = [at |-> "auth", tx |-> opened + 1, code |-> c]]
                /\ UNCHANGED <<installed, won, fate>>
                /\ NoFault
             \/ NoSession(e, "transport") /\ Fault
       \/ /\ ~(Resolves(c) /\ e \in Allowed[c])
          /\ NoSession(e, "protocol")
          /\ NoFault
          /\ UNCHANGED <<sessions, opened>>
    /\ UNCHANGED <<registryVars, served>>

\* AuthenticateClient: the session is authenticated and stored before the
\* registry is asked again, so a refusal leaves it authenticated.
AuthenticateClient(e) ==
    /\ lpa[e].at = "auth"
    /\ \/ /\ Known(e) /\ Status(e) = "pending"
          /\ SetStatus(e, "authenticated")
          /\ IF Resolves(lpa[e].code) THEN Answered(e, "bpp") ELSE Refused(e) /\ NoFault
       \/ /\ ~(Known(e) /\ Status(e) = "pending")
          /\ Refused(e) /\ NoFault
          /\ UNCHANGED sessions
    /\ UNCHANGED <<registryVars, opened, served>>

\* GetBoundProfilePackage, first half: the session and the registry are asked.
BPPResolve(e) ==
    /\ lpa[e].at = "bpp"
    /\ IF Known(e) /\ Status(e) \in {"authenticated", "confirmed"} /\ Resolves(lpa[e].code)
       THEN lpa' = [lpa EXCEPT ![e].at = "serving"] /\ UNCHANGED <<installed, won, fate>>
       ELSE Refused(e)
    /\ UNCHANGED <<registryVars, sessions, opened, served, faults>>

\* The client checks the package (counter, MAC, decryption, profile, pinned
\* EID) and installs it, unless it is already there.  n: faults so far in this
\* step.
Install(e, n) ==
    LET c == lpa[e].code
    IN \/ /\ c \notin installed[e]
          /\ installed' = [installed EXCEPT ![e] = @ \cup {c}]
          /\ lpa' = [lpa EXCEPT ![e].at = "confirm"]
          /\ UNCHANGED <<won, fate>>
          /\ Faults(n)
       \/ c \in installed[e] /\ Refused(e) /\ Faults(n)
       \/ Refused(e) /\ Faults(n + 1)               \* a check of the package fails
       \/ GiveUp(e, "transport") /\ Faults(n + 1)   \* the answer is lost

\* Second half: the counter is stepped and stored, the code is marked, and the
\* package is answered.  A failure to save the mark is swallowed.
BPPDeliver(e) ==
    /\ lpa[e].at = "serving"
    /\ sessions' = [sessions EXCEPT ![lpa[e].tx].seq = @ + 1]
    /\ \E ok \in BOOLEAN :
          /\ ok \/ DiskFails
          /\ served' = served \cup {[code |-> lpa[e].code, tx |-> lpa[e].tx,
                                     saved |-> ok /\ lpa[e].code \in Registered]}
          /\ MarkDownloaded(lpa[e].code, ok)
          /\ Install(e, IF ok THEN 0 ELSE 1)
    /\ UNCHANGED opened

\* Mutant: the install result is acknowledged and not recorded.
ConfirmUnrecorded(e) ==
    /\ lpa[e].at = "confirm"
    /\ Known(e)
    /\ Answered(e, "notify")
    /\ UNCHANGED <<registryVars, sessions, opened, served>>

\* ConfirmOrder.
ConfirmOrder(e) ==
    /\ lpa[e].at = "confirm"
    /\ \/ /\ Known(e) /\ Status(e) \in {"authenticated", "confirmed"}
          /\ SetStatus(e, "confirmed")
          /\ Answered(e, "notify")
       \/ /\ ~(Known(e) /\ Status(e) \in {"authenticated", "confirmed"})
          /\ Refused(e) /\ NoFault
          /\ UNCHANGED sessions
    /\ UNCHANGED <<registryVars, opened, served>>

\* HandleNotification; Download returns the installed profile.
HandleNotification(e) ==
    /\ lpa[e].at = "notify"
    /\ \/ /\ Known(e) /\ Status(e) # "cancelled"
          /\ \/ /\ lpa' = [lpa EXCEPT ![e].at = "idle"]
                /\ fate' = [fate EXCEPT ![e] = "ok"]
                /\ won' = [won EXCEPT ![e] = @ \cup {lpa[e].code}]
                /\ UNCHANGED installed
                /\ NoFault
             \/ GiveUp(e, "transport") /\ Fault
       \/ /\ ~(Known(e) /\ Status(e) # "cancelled")
          /\ Refused(e) /\ NoFault
    /\ UNCHANGED <<registryVars, sessions, opened, served>>

\* The client's cancel, whose outcome it ignores, and CancelSession.
CancelSession(e) ==
    /\ lpa[e].at = "cancel"
    /\ \/ /\ Known(e) /\ Status(e) # "cancelled"
          /\ SetStatus(e, "cancelled")
          /\ GiveUp(e, "protocol") /\ NoFault
       \/ /\ ~(Known(e) /\ Status(e) # "cancelled")
          /\ UNCHANGED sessions
          /\ GiveUp(e, "protocol") /\ NoFault
       \/ /\ UNCHANGED sessions                     \* lost, or the store fails
          /\ GiveUp(e, "transport") /\ Fault
    /\ UNCHANGED <<registryVars, opened, served>>

\* A request is lost before the server sees it.
RequestLost(e) ==
    /\ lpa[e].at \in {"auth", "bpp", "confirm", "notify"}
    /\ GiveUp(e, "transport")
    /\ Fault
    /\ UNCHANGED <<registryVars, sessions, opened, served>>

\* UpdateSession fails: the handler answers 500 and the file keeps the session
\* as it was.
SessionWriteFails(e) ==
    /\ FileStore /\ DiskFails
    /\ lpa[e].at \in {"auth", "serving", "confirm", "notify"}
    /\ Known(e)
    /\ Refused(e)
    /\ Fault
    /\ UNCHANGED <<registryVars, sessions, opened, served>>

-----------------------------------------------------------------------------
\* issueEsim and revokeEsim.
IssueEsim ==
    /\ \E c \in Codes, ok \in BOOLEAN : AddWithExpiry(c, ok) /\ Write(ok)
    /\ UNCHANGED <<sessions, opened, clientVars, served>>

RevokeEsim ==
    /\ \E c \in Codes, ok \in BOOLEAN : Revoke(c, ok) /\ Write(ok)
    /\ UNCHANGED <<sessions, opened, clientVars, served>>

CodeTTLPasses ==
    /\ \E c \in Codes : CodeExpires(c)
    /\ UNCHANGED <<sessions, opened, clientVars, served, faults>>

\* The server restarts.  The handler a client is waiting for dies with it.
Restart ==
    /\ Fault
    /\ RegistryRestart
    /\ sessions' = IF FileStore THEN sessions ELSE <<>>
    /\ lpa' = [e \in Euiccs |->
                  IF lpa[e].at = "serving" THEN [lpa[e] EXCEPT !.at = "idle"] ELSE lpa[e]]
    /\ fate' = [e \in Euiccs |-> IF lpa[e].at = "serving" THEN "transport" ELSE fate[e]]
    /\ UNCHANGED <<opened, installed, won, served>>

Step(e) ==
    \/ \E c \in Codes : Initiate(e, c)
    \/ AuthenticateClient(e)
    \/ BPPResolve(e)
    \/ BPPDeliver(e)
    \/ ConfirmOrder(e)
    \/ HandleNotification(e)
    \/ CancelSession(e)

Next ==
    \/ \E e \in Euiccs : Step(e) \/ RequestLost(e) \/ SessionWriteFails(e)
    \/ IssueEsim
    \/ RevokeEsim
    \/ CodeTTLPasses
    \/ Restart

Spec == Init /\ [][Next]_vars

(* A device keeps trying and its requests are answered; the operator issues  *)
(* codes.  Nothing obliges a code to be revoked or to expire, a message to be*)
(* lost or the server to restart.                                            *)
FairSpec == Spec /\ WF_vars(IssueEsim) /\ \A e \in Euiccs : WF_vars(Step(e))

-----------------------------------------------------------------------------
Places == {"idle", "auth", "bpp", "serving", "confirm", "notify", "cancel"}

(* The types of the session store, the LPAs and the ghost records: every     *)
(* transaction a device holds is one the server opened, and every session's  *)
(* status is one of the four.                                                *)
TypeOK ==
    /\ RegistryTypeOK
    /\ opened \in 0 .. MaxSessions
    /\ DOMAIN sessions \subseteq 1 .. opened
    /\ \A t \in DOMAIN sessions :
          sessions[t] \in [eid : Euiccs, code : Codes, status : Statuses, seq : Nat]
    /\ \A e \in Euiccs :
          /\ lpa[e].at \in Places /\ lpa[e].tx \in 0 .. opened
          /\ fate[e] \in {"none", "ok", "protocol", "transport"}
          /\ installed[e] \subseteq Codes /\ won[e] \subseteq Codes

(* Download is all or nothing (euicc.go:59-60 "the profile is not            *)
(* installed", and the removals at 203 and 208): whatever is lost, refused or*)
(* restarted, between two downloads a device holds exactly the profiles whose*)
(* Download succeeded, a second attempt at an installed one included.        *)
FailedLeavesNothing == \A e \in Euiccs : lpa[e].at = "idle" => installed[e] = won[e]

(* The two ends agree on a finished download: the device that succeeded has  *)
(* a confirmed session with exactly one package, or one the server lost in a *)
(* restart.                                                                  *)
SuccessIsConfirmed ==
    \A e \in Euiccs : (fate[e] = "ok" /\ lpa[e].at = "idle" /\ Known(e)) =>
        /\ sessions[lpa[e].tx].status = "confirmed"
        /\ sessions[lpa[e].tx].seq = 1
        /\ sessions[lpa[e].tx].eid = e

(* A delivered package leaves its mark (smdp.go:334-339, registry.go:267):   *)
(* once saved, a code the registry still knows, or knows again after a failed*)
(* revocation and a restart, is marked downloaded.  Single use rests on it.  *)
ServedIsMarked ==
    \A s \in served : (s.saved /\ s.code \in Registered) => entries[s.code].downloaded

(* The session state machine (smdp.go:34-42) only moves forward, and a       *)
(* cancelled session is never served again (smdp.go:300, 366, 389, 403).     *)
SessionsMoveForward ==
    [][\A t \in DOMAIN sessions \cap DOMAIN sessions' :
          /\ sessions[t].status = "cancelled" => sessions'[t] = sessions[t]
          /\ sessions'[t].status = "pending" => sessions[t].status = "pending"
          /\ sessions[t].status = "confirmed" => sessions'[t].status # "authenticated"]_vars

(* Without single use, a device that keeps trying gets its profile whatever  *)
(* was lost on the way, unless the code goes away or the registry lost it.   *)
DeviceGetsProfile ==
    \A c \in Codes : \A e \in Allowed[c] : <>[]Resolves(c) => <>(c \in won[e])

(* "single-use codes refuse a second download" (registry.go:246-247).  The   *)
(* code breaks it: two sessions can both pass ResolvePolicy before either is *)
(* marked by OnDelivered.                                                    *)
SingleUseOnce ==
    SingleUse => \A s, r \in served : s.code = r.code => s = r

(* "CancelSession aborts a download session and releases the profile for     *)
(* another attempt" (smdp.go:396-397): a cancelled session leaves its code   *)
(* usable, unless someone got the profile or the code went away.  The code   *)
(* breaks it for single use: the mark set on delivery is never taken back.   *)
CancelReleases ==
    \A t \in DOMAIN sessions :
        LET c == sessions[t].code
        IN (/\ sessions[t].status = "cancelled"
            /\ c \in Registered \ expired
            /\ \A e \in Euiccs : c \notin installed[e])
           => ResolvePolicy(c) \/ \E e \in Euiccs : lpa[e].at # "idle"

(* "On any crypto or protocol failure the session is cancelled and the       *)
(* profile is not installed" (euicc.go:59-60).  The code breaks it: a refused*)
(* confirmOrder or handleNotification removes the profile without cancelling.*)
FailureCancels ==
    \A e \in Euiccs :
        (lpa[e].at = "idle" /\ fate[e] = "protocol" /\ Known(e)) => Status(e) = "cancelled"
=============================================================================
