-------------------------- MODULE EsimDownloadProofs --------------------------
(***************************************************************************)
(* The profile download, for any number of eUICCs, codes and sessions and   *)
(* any configuration: a failed Download leaves nothing behind, both ends    *)
(* agree on one that succeeded, a package delivered leaves its mark, and    *)
(* sessions only move forward.                                              *)
(***************************************************************************)
EXTENDS EsimDownload, TLAPS

LPAs == [at : Places, tx : Nat, code : Codes \cup {"none"}]
Sessions == [eid : Euiccs, code : Codes, status : Statuses, seq : Nat]
Fates == {"none", "ok", "protocol", "transport"}

(* ServedIsMarked is not inductive: a restart reads the file, so a mark that *)
(* was saved must be in the file's copy of the entry too, and the code of a  *)
(* package can never be minted again.                                        *)
MarkInv ==
    /\ RegistryTypeOK
    /\ ServedIsMarked
    /\ \A s \in served : /\ s.code \in minted
                         /\ (s.saved /\ s.code \in DOMAIN regFile) => regFile[s.code].downloaded

\* What a device holds: the profiles it won, and from the installation to the
\* last answer the one it is downloading.
Holds(e) ==
    IF lpa[e].at \in {"confirm", "notify"}
    THEN lpa[e].code \notin won[e] /\ installed[e] = won[e] \cup {lpa[e].code}
    ELSE installed[e] = won[e]

ClientInv ==
    /\ lpa \in [Euiccs -> LPAs]
    /\ installed \in [Euiccs -> SUBSET Codes]
    /\ won \in [Euiccs -> SUBSET Codes]
    /\ fate \in [Euiccs -> Fates]
    /\ \A e \in Euiccs : lpa[e].at # "idle" => lpa[e].code \in minted
    /\ \A e \in Euiccs : Holds(e)

\* The session s a device has at place at, its last Download having ended so.
Fits(at, why, s) ==
    /\ at = "auth" => s.status = "pending" /\ s.seq = 0
    /\ at \in {"bpp", "serving"} => s.status = "authenticated" /\ s.seq = 0
    /\ at = "confirm" => s.status = "authenticated" /\ s.seq = 1
    /\ at = "notify" \/ (at = "idle" /\ why = "ok") => s.status = "confirmed" /\ s.seq = 1

(* A transaction belongs to one device: that is what keeps one download from *)
(* disturbing the session of another.                                        *)
SessionInv ==
    /\ opened \in 0 .. MaxSessions
    /\ DOMAIN sessions \subseteq 1 .. opened
    /\ \A t \in DOMAIN sessions : sessions[t] \in Sessions
    /\ \A e \in Euiccs : lpa[e].tx \in 0 .. opened
    /\ \A e, f \in Euiccs : (lpa[e].tx = lpa[f].tx /\ lpa[e].tx # 0) => e = f
    /\ \A e \in Euiccs : lpa[e].at = "serving" => lpa[e].tx \in DOMAIN sessions
    /\ \A e \in Euiccs : lpa[e].tx \in DOMAIN sessions =>
          /\ sessions[lpa[e].tx].eid = e
          /\ Fits(lpa[e].at, fate[e], sessions[lpa[e].tx])

DownloadInv == MarkInv /\ ClientInv /\ SessionInv

-----------------------------------------------------------------------------
(* Records with one field changed.                                           *)

LEMMA PlaceField ==
    ASSUME NEW l \in LPAs, NEW x
    PROVE  [l EXCEPT !.at = x] = [at |-> x, tx |-> l.tx, code |-> l.code]
<1>1. PICK a, b, c : l = [at |-> a, tx |-> b, code |-> c]
  BY DEF LPAs
<1> DEFINE s == [at |-> a, tx |-> b, code |-> c]
<1>2. [s EXCEPT !.at = x] = [at |-> x, tx |-> s.tx, code |-> s.code]
  OBVIOUS
<1>3. l = s
  BY <1>1
<1> HIDE DEF s
<1> QED
  BY <1>2, <1>3, Zenon

LEMMA SessionFields ==
    ASSUME NEW r \in Sessions, NEW x
    PROVE  /\ [r EXCEPT !.status = x] = [eid |-> r.eid, code |-> r.code, status |-> x, seq |-> r.seq]
           /\ [r EXCEPT !.seq = x] = [eid |-> r.eid, code |-> r.code, status |-> r.status, seq |-> x]
<1>1. PICK a, b, c, d : r = [eid |-> a, code |-> b, status |-> c, seq |-> d]
  BY DEF Sessions
<1> DEFINE s == [eid |-> a, code |-> b, status |-> c, seq |-> d]
<1>2. /\ [s EXCEPT !.status = x] = [eid |-> s.eid, code |-> s.code, status |-> x, seq |-> s.seq]
      /\ [s EXCEPT !.seq = x] = [eid |-> s.eid, code |-> s.code, status |-> s.status, seq |-> x]
  OBVIOUS
<1>3. r = s
  BY <1>1
<1> HIDE DEF s
<1> QED
  BY <1>2, <1>3, Zenon

LEMMA MarkField ==
    ASSUME NEW r \in Entry, NEW x
    PROVE  [r EXCEPT !.downloaded = x] =
              [profile |-> r.profile, cipher |-> r.cipher, downloaded |-> x]
<1>1. PICK a, b, c : r = [profile |-> a, cipher |-> b, downloaded |-> c]
  BY DEF Entry
<1> DEFINE s == [profile |-> a, cipher |-> b, downloaded |-> c]
<1>2. [s EXCEPT !.downloaded = x] = [profile |-> s.profile, cipher |-> s.cipher, downloaded |-> x]
  OBVIOUS
<1>3. r = s
  BY <1>1
<1> HIDE DEF s
<1> QED
  BY <1>2, <1>3, Zenon

-----------------------------------------------------------------------------
(* The registry and the marks.                                               *)

\* An entry read back from the file is marked if it was.
LEMMA SavedKeepsMark ==
    ASSUME NEW r \in Entry, setup \in Setups
    PROVE  Saved(r) \in Entry /\ (Saved(r).downloaded <=> r.downloaded)
<1>1. PICK k \in BOOLEAN : k = setup.keyed
  BY RegistryAssumption
<1>2. PICK a \in BOOLEAN, b \in BOOLEAN, c \in BOOLEAN : r = [profile |-> a, cipher |-> b, downloaded |-> c]
  BY DEF Entry
<1>3. r.profile = a /\ r.cipher = b /\ r.downloaded = c
  BY <1>2
<1>4. Saved(r) = [profile |-> b \/ (k /\ a), cipher |-> b \/ (k /\ a), downloaded |-> c]
  BY <1>1, <1>3, Zenon DEF Saved, Keyed
<1> QED
  BY <1>3, <1>4 DEF Entry

\* The marks, as they are kept in the registry r and the file g.
Marks(r, g, m) ==
    /\ DOMAIN r \subseteq m /\ DOMAIN g \subseteq m /\ m \subseteq Codes
    /\ \A c \in DOMAIN r : r[c] \in Entry
    /\ \A c \in DOMAIN g : g[c] \in Entry
    /\ \A s \in served : /\ s.code \in m
                         /\ (s.saved /\ s.code \in DOMAIN r) => r[s.code].downloaded
                         /\ (s.saved /\ s.code \in DOMAIN g) => g[s.code].downloaded

LEMMA MarksAre ==
    MarkInv <=> Marks(entries, regFile, minted) /\ expired \subseteq Codes /\ setup \in Setups
BY Zenon DEF MarkInv, Marks, RegistryTypeOK, ServedIsMarked, Registered

\* A save puts the entries, their marks included, into the file.
LEMMA SaveKeepsMarks ==
    ASSUME setup \in Setups, NEW r, NEW m, Marks(r, regFile, m)
    PROVE  Marks(r, [c \in DOMAIN r |-> Saved(r[c])], m)
<1> DEFINE g == [c \in DOMAIN r |-> Saved(r[c])]
<1>1. DOMAIN g = DOMAIN r /\ \A c \in DOMAIN r : g[c] = Saved(r[c])
  OBVIOUS
<1>2. \A c \in DOMAIN r : Saved(r[c]) \in Entry /\ (Saved(r[c]).downloaded <=> r[c].downloaded)
  BY SavedKeepsMark DEF Marks
<1> HIDE DEF g
<1>3. Marks(r, g, m)
  BY <1>1, <1>2, Zenon DEF Marks
<1> QED
  BY <1>3 DEF g

LEMMA MarksPrimed ==
    ASSUME NEW r, NEW g, NEW m, Marks(r, g, m), r = entries', g = regFile', m = minted',
           expired' \subseteq Codes, setup' \in Setups, served' = served
    PROVE  MarkInv'
BY Zenon DEF MarkInv, Marks, RegistryTypeOK, ServedIsMarked, Registered

LEMMA RegistrySteps ==
    ASSUME MarkInv, NEW c, NEW ok \in BOOLEAN, AddWithExpiry(c, ok) \/ Revoke(c, ok), c \in Codes,
           served' = served
    PROVE  MarkInv'
<1>0. Marks(entries, regFile, minted) /\ expired \subseteq Codes /\ setup \in Setups
  BY MarksAre
<1>1. UNCHANGED <<setup, expired>> /\ saveLocked(ok)
  BY DEF AddWithExpiry, Revoke
<1>2. PICK r, m : r = entries' /\ m = minted'
  OBVIOUS
<1>3. Marks(r, regFile, m)
  <2>1. CASE AddWithExpiry(c, ok)
    <3>1. c \notin minted /\ m = minted \cup {c} /\ m \subseteq Codes
      BY <1>0, <1>2, <2>1, Zenon DEF AddWithExpiry, Marks
    <3>2. PICK k \in BOOLEAN, l \in BOOLEAN : k = setup.keyed /\ l = ~k
      BY <1>0, RegistryAssumption
    <3> DEFINE new == [profile |-> l, cipher |-> k, downloaded |-> FALSE]
    <3>3. new \in Entry
      BY DEF Entry
    <3>4. r = [k1 \in Registered \cup {c} |-> IF k1 = c THEN new ELSE entries[k1]]
      BY <1>2, <2>1, <3>2, Zenon DEF AddWithExpiry, Keyed
    <3> HIDE DEF new
    <3>5. DOMAIN r = Registered \cup {c} /\ r[c] = new /\ \A d \in Registered \ {c} : r[d] = entries[d]
      BY <3>4
    <3>6. \A d \in DOMAIN r : r[d] \in Entry
      BY <1>0, <3>3, <3>5, Zenon DEF Marks, Registered
    <3>7. \A s \in served : s.code # c /\ s.code \in minted
      BY <1>0, <3>1, Zenon DEF Marks
    <3>8. \A s \in served : (s.saved /\ s.code \in DOMAIN r) => r[s.code].downloaded
      BY <1>0, <3>5, <3>7, Zenon DEF Marks, Registered
    <3>9. DOMAIN r \subseteq m /\ DOMAIN regFile \subseteq m
      BY <1>0, <3>1, <3>5, Zenon DEF Marks, Registered
    <3> QED
      BY <1>0, <3>1, <3>6, <3>7, <3>8, <3>9, Zenon DEF Marks
  <2>2. CASE Revoke(c, ok)
    <3>1. m = minted /\ r = [k \in Registered \ {c} |-> entries[k]]
      BY <1>2, <2>2 DEF Revoke
    <3>2. DOMAIN r = Registered \ {c} /\ \A d \in DOMAIN r : r[d] = entries[d]
      BY <3>1
    <3> QED
      BY <1>0, <3>1, <3>2, Zenon DEF Marks, Registered
  <2> QED
    BY <2>1, <2>2
<1>4. Marks(r, [d \in DOMAIN r |-> Saved(r[d])], m)
  BY <1>0, <1>3, SaveKeepsMarks
<1>5. PICK g : g = regFile'
  OBVIOUS
<1>6. g = [d \in DOMAIN r |-> Saved(r[d])] \/ g = regFile
  BY <1>1, <1>2, <1>5 DEF saveLocked
<1>7. Marks(r, g, m)
  BY <1>3, <1>4, <1>6
<1> QED
  BY <1>0, <1>1, <1>2, <1>5, <1>7, MarksPrimed

\* A package is delivered: its code is marked, and the mark saved or lost.
LEMMA MarkStep ==
    ASSUME MarkInv, NEW c \in minted, NEW tx, NEW ok \in BOOLEAN, MarkDownloaded(c, ok),
           served' = served \cup {[code |-> c, tx |-> tx, saved |-> ok /\ c \in Registered]}
    PROVE  MarkInv'
<1>0. Marks(entries, regFile, minted) /\ expired \subseteq Codes /\ setup \in Setups
  BY MarksAre
<1>1. UNCHANGED <<setup, minted, expired>>
  BY DEF MarkDownloaded
<1>2. PICK b \in BOOLEAN, s0 \in served' :
         s0.code = c /\ s0.saved = b /\ (b <=> ok /\ c \in Registered) /\ served' = served \cup {s0}
  <2>1. PICK b \in BOOLEAN : b <=> ok /\ c \in Registered
    OBVIOUS
  <2>2. b = (ok /\ c \in Registered)
    BY <2>1, Zenon
  <2> DEFINE s0 == [code |-> c, tx |-> tx, saved |-> b]
  <2>3. s0.code = c /\ s0.saved = b
    OBVIOUS
  <2>4. served' = served \cup {s0}
    BY <2>2, Zenon
  <2> HIDE DEF s0
  <2> QED
    BY <2>1, <2>3, <2>4, Zenon
<1>3. CASE c \notin Registered
  <2>1. UNCHANGED <<entries, regFile>> /\ b = FALSE
    BY <1>2, <1>3, Zenon DEF MarkDownloaded
  <2> QED
    BY <1>0, <1>1, <1>2, <2>1, Zenon DEF MarkInv, Marks, RegistryTypeOK, ServedIsMarked, Registered
<1>4. CASE c \in Registered
  <2>1. entries' = [entries EXCEPT ![c] = [entries[c] EXCEPT !.downloaded = TRUE]] /\ saveLocked(ok)
    BY <1>4, Zenon DEF MarkDownloaded
  <2>2. entries[c] \in Entry /\ c \in DOMAIN entries
    BY <1>0, <1>4, Zenon DEF Marks, Registered
  <2> DEFINE new == [profile |-> entries[c].profile, cipher |-> entries[c].cipher, downloaded |-> TRUE]
  <2>3. [entries[c] EXCEPT !.downloaded = TRUE] = new
    BY <2>2, MarkField, Zenon
  <2>4. new \in Entry /\ new.downloaded
    BY <2>2 DEF Entry
  <2>5. entries' = [entries EXCEPT ![c] = new]
    BY <2>1, <2>3, Zenon
  <2> HIDE DEF new
  <2>6. PICK r, g : r = entries' /\ g = regFile'
    OBVIOUS
  <2>7. DOMAIN r = DOMAIN entries /\ r[c] = new /\ \A d \in DOMAIN entries \ {c} : r[d] = entries[d]
    BY <2>2, <2>5, <2>6
  <2>8. \A d \in DOMAIN r : r[d] \in Entry /\ (d = c => r[d].downloaded)
                            /\ (d # c => r[d] = entries[d])
    BY <1>0, <2>4, <2>7, Zenon DEF Marks
  <2>9. Marks(r, regFile, minted)
    BY <1>0, <2>7, <2>8, Zenon DEF Marks
  <2>10. CASE ok
    <3>1. g = [d \in DOMAIN r |-> Saved(r[d])]
      BY <2>1, <2>6, <2>10 DEF saveLocked
    <3>2. DOMAIN g = DOMAIN r /\ \A d \in DOMAIN r : g[d] = Saved(r[d])
      BY <3>1
    <3>3. g[c].downloaded
      <4>1. c \in DOMAIN r /\ r[c] \in Entry /\ r[c].downloaded
        BY <2>2, <2>7, <2>8, Zenon
      <4>2. Saved(r[c]).downloaded <=> r[c].downloaded
        BY <1>0, <4>1, SavedKeepsMark
      <4> QED
        BY <3>2, <4>1, <4>2, Zenon
    <3>4. Marks(r, g, minted)
      BY <1>0, <2>9, <3>1, SaveKeepsMarks
    <3> QED
      BY <1>0, <1>1, <1>2, <2>6, <2>7, <2>8, <3>3, <3>4, Zenon
         DEF MarkInv, Marks, RegistryTypeOK, ServedIsMarked, Registered
  <2>11. CASE ~ok
    <3>1. g = regFile /\ b = FALSE
      BY <1>2, <2>1, <2>6, <2>11, Zenon DEF saveLocked
    <3> QED
      BY <1>0, <1>1, <1>2, <2>6, <2>9, <3>1, Zenon
         DEF MarkInv, Marks, RegistryTypeOK, ServedIsMarked, Registered
  <2> QED
    BY <2>10, <2>11
<1> QED
  BY <1>3, <1>4

\* Expiry changes no entry, and a restart reads the file.
LEMMA QuietRegistry ==
    ASSUME MarkInv, served' = served,
           \/ UNCHANGED registryVars
           \/ \E c \in Codes : CodeExpires(c)
           \/ RegistryRestart
    PROVE  MarkInv'
<1>0. Marks(entries, regFile, minted) /\ expired \subseteq Codes /\ setup \in Setups
  BY MarksAre
<1>1. UNCHANGED <<setup, regFile, minted>>
  BY DEF registryVars, CodeExpires, RegistryRestart
<1>2. expired' \subseteq Codes
  BY <1>0, Zenon DEF registryVars, CodeExpires, RegistryRestart
<1>3. entries' = entries \/ entries' = regFile
  BY DEF registryVars, CodeExpires, RegistryRestart
<1>4. PICK r : r = entries'
  OBVIOUS
<1>5. Marks(r, regFile, minted)
  BY <1>0, <1>3, <1>4, Zenon DEF Marks
<1> QED
  BY <1>0, <1>1, <1>2, <1>4, <1>5, MarksPrimed

-----------------------------------------------------------------------------
(* What a step of device e does to the devices.                              *)

\* Download of e goes on at place, with the same transaction.
Goes(e, place) ==
    /\ lpa' \in [Euiccs -> LPAs]
    /\ lpa'[e].at = place /\ lpa'[e].tx = lpa[e].tx /\ lpa'[e].code = lpa[e].code
    /\ \A f \in Euiccs \ {e} : lpa'[f] = lpa[f]

LEMMA PlaceGoes ==
    ASSUME ClientInv, NEW e \in Euiccs, NEW place \in Places, lpa' = [lpa EXCEPT ![e].at = place]
    PROVE  Goes(e, place)
<1>1. lpa \in [Euiccs -> LPAs] /\ lpa[e] \in LPAs
  BY DEF ClientInv
<1> DEFINE new == [at |-> place, tx |-> lpa[e].tx, code |-> lpa[e].code]
<1>2. [lpa[e] EXCEPT !.at = place] = new
  BY <1>1, PlaceField
<1>3. lpa' = [lpa EXCEPT ![e] = new]
  BY <1>2, Zenon
<1>4. new \in LPAs /\ new.at = place /\ new.tx = lpa[e].tx /\ new.code = lpa[e].code
  BY <1>1 DEF LPAs
<1> HIDE DEF new
<1> QED
  BY <1>1, <1>3, <1>4 DEF Goes

\* Profiles and fates of the others stay.
OthersKeep(e) ==
    \A f \in Euiccs \ {e} :
        installed'[f] = installed[f] /\ won'[f] = won[f] /\ fate'[f] = fate[f]

\* ClientInv after a step of e, from what the step did to e.
LEMMA ClientStep ==
    ASSUME ClientInv, NEW e \in Euiccs, minted \subseteq minted',
           lpa' \in [Euiccs -> LPAs], installed' \in [Euiccs -> SUBSET Codes],
           won' \in [Euiccs -> SUBSET Codes], fate' \in [Euiccs -> Fates],
           \A f \in Euiccs \ {e} : lpa'[f] = lpa[f], OthersKeep(e),
           lpa'[e].at # "idle" => lpa'[e].code \in minted', Holds(e)'
    PROVE  ClientInv'
<1>1. ASSUME NEW f \in Euiccs PROVE Holds(f)' /\ (lpa'[f].at # "idle" => lpa'[f].code \in minted')
  <2>1. CASE f = e
    BY <2>1
  <2>2. CASE f # e
    BY <2>2 DEF OthersKeep, ClientInv, Holds
  <2> QED
    BY <2>1, <2>2
<1> QED
  BY <1>1 DEF ClientInv

\* Download goes on between two places on the same side of the installation.
LEMMA GoesOn ==
    ASSUME ClientInv, NEW e \in Euiccs, Goes(e, lpa'[e].at), UNCHANGED <<installed, won, fate, minted>>,
           lpa[e].at # "idle",
           lpa'[e].at \in {"confirm", "notify"} <=> lpa[e].at \in {"confirm", "notify"}
    PROVE  ClientInv' /\ OthersKeep(e) /\ fate'[e] = fate[e]
<1>1. OthersKeep(e)
  BY DEF OthersKeep
<1>2. Holds(e)'
  BY DEF Goes, ClientInv, Holds
<1>3. lpa'[e].at # "idle" => lpa'[e].code \in minted'
  BY DEF Goes, ClientInv
<1> QED
  BY <1>1, <1>2, <1>3, ClientStep DEF Goes, ClientInv

\* Download of e ends, or is about to, without a profile.
Stops(e) ==
    /\ ClientInv'
    /\ OthersKeep(e)
    /\ \/ Goes(e, "idle") /\ fate'[e] # "ok"
       \/ Goes(e, "cancel")

LEMMA GiveUpStops ==
    ASSUME ClientInv, NEW e \in Euiccs, NEW why \in Fates \ {"ok"}, GiveUp(e, why), minted' = minted
    PROVE  Stops(e)
<1>1. Goes(e, "idle")
  BY PlaceGoes DEF GiveUp, Places
<1>2. fate' \in [Euiccs -> Fates] /\ fate'[e] = why /\ \A f \in Euiccs \ {e} : fate'[f] = fate[f]
  BY DEF GiveUp, ClientInv
<1> DEFINE kept == IF lpa[e].at \in {"confirm", "notify"} THEN installed[e] \ {lpa[e].code}
                   ELSE installed[e]
<1>3. installed' = [installed EXCEPT ![e] = kept] /\ won' = won
  BY DEF GiveUp
<1>4. kept = won[e] /\ kept \in SUBSET Codes
  BY DEF ClientInv, Holds
<1> HIDE DEF kept
<1>5. /\ installed' \in [Euiccs -> SUBSET Codes] /\ installed'[e] = won'[e]
      /\ \A f \in Euiccs \ {e} : installed'[f] = installed[f]
  BY <1>3, <1>4 DEF ClientInv
<1>6. OthersKeep(e)
  BY <1>2, <1>3, <1>5 DEF OthersKeep
<1>7. Holds(e)'
  BY <1>1, <1>5 DEF Holds, Goes
<1>8. ClientInv'
  BY <1>1, <1>2, <1>3, <1>5, <1>6, <1>7, ClientStep DEF Goes, ClientInv
<1> QED
  BY <1>1, <1>2, <1>6, <1>8 DEF Stops

LEMMA RefusedStops ==
    ASSUME ClientInv, NEW e \in Euiccs, lpa[e].at # "idle", Refused(e), minted' = minted
    PROVE  Stops(e)
<1>1. CASE lpa[e].at \in {"auth", "bpp", "serving"}
  <2>1. lpa' = [lpa EXCEPT ![e].at = "cancel"] /\ UNCHANGED <<installed, won, fate>>
    BY <1>1 DEF Refused
  <2>2. Goes(e, "cancel") /\ lpa'[e].at = "cancel"
    BY <2>1, PlaceGoes DEF Places, Goes
  <2>3. ClientInv' /\ OthersKeep(e)
    BY <1>1, <2>1, <2>2, GoesOn
  <2> QED
    BY <2>2, <2>3 DEF Stops
<1>2. CASE lpa[e].at \notin {"auth", "bpp", "serving"}
  BY <1>2, GiveUpStops DEF Refused, Fates
<1> QED
  BY <1>1, <1>2

-----------------------------------------------------------------------------
(* What a step of device e does to the sessions.                             *)

\* Only the session of e's transaction changes, and it stays e's.
SessionsKept(e) ==
    /\ opened' = opened
    /\ DOMAIN sessions' = DOMAIN sessions
    /\ \A t \in DOMAIN sessions : sessions'[t] \in Sessions /\ sessions'[t].eid = sessions[t].eid
    /\ \A t \in DOMAIN sessions \ {lpa[e].tx} : sessions'[t] = sessions[t]

\* What SessionsMoveForward asks of one step.
Forward ==
    \A t \in DOMAIN sessions \cap DOMAIN sessions' :
        /\ sessions[t].status = "cancelled" => sessions'[t] = sessions[t]
        /\ sessions'[t].status = "pending" => sessions[t].status = "pending"
        /\ sessions[t].status = "confirmed" => sessions'[t].status # "authenticated"

LEMMA SessionsUntouched ==
    ASSUME SessionInv, NEW e, UNCHANGED <<sessions, opened>>
    PROVE  SessionsKept(e) /\ Forward
BY DEF SessionInv, SessionsKept, Forward

LEMMA StatusSet ==
    ASSUME SessionInv, NEW e \in Euiccs, NEW status \in Statuses, Known(e), SetStatus(e, status),
           opened' = opened, Status(e) # "cancelled", status # "pending",
           status = "authenticated" => Status(e) = "pending"
    PROVE  /\ SessionsKept(e) /\ Forward
           /\ sessions'[lpa[e].tx].status = status
           /\ sessions'[lpa[e].tx].seq = sessions[lpa[e].tx].seq
<1>1. PICK t : t = lpa[e].tx
  OBVIOUS
<1>2. t \in DOMAIN sessions /\ sessions[t] \in Sessions
  BY <1>1 DEF Known, SessionInv
<1> DEFINE new == [eid |-> sessions[t].eid, code |-> sessions[t].code, status |-> status,
                   seq |-> sessions[t].seq]
<1>3. [sessions[t] EXCEPT !.status = status] = new
  BY <1>2, SessionFields
<1>4. sessions' = [sessions EXCEPT ![t] = new]
  BY <1>1, <1>3, Zenon DEF SetStatus
<1>5. new \in Sessions /\ new.status = status /\ new.seq = sessions[t].seq /\ new.eid = sessions[t].eid
  BY <1>2 DEF Sessions
<1> HIDE DEF new
<1>6. /\ DOMAIN sessions' = DOMAIN sessions /\ sessions'[t] = new
      /\ \A u \in DOMAIN sessions \ {t} : sessions'[u] = sessions[u]
  BY <1>2, <1>4
<1>7. SessionsKept(e)
  <2>1. ASSUME NEW u \in DOMAIN sessions
        PROVE  sessions'[u] \in Sessions /\ sessions'[u].eid = sessions[u].eid
    BY <1>5, <1>6 DEF SessionInv
  <2> QED
    BY <1>1, <1>6, <2>1 DEF SessionsKept
<1>8. Forward
  <2>1. ASSUME NEW u \in DOMAIN sessions
        PROVE  /\ sessions[u].status = "cancelled" => sessions'[u] = sessions[u]
               /\ sessions'[u].status = "pending" => sessions[u].status = "pending"
               /\ sessions[u].status = "confirmed" => sessions'[u].status # "authenticated"
    <3>1. CASE u = t
      BY <1>1, <1>5, <1>6, <3>1 DEF Status
    <3>2. CASE u # t
      BY <1>6, <3>2
    <3> QED
      BY <3>1, <3>2
  <2> QED
    BY <2>1 DEF Forward
<1> QED
  BY <1>1, <1>5, <1>6, <1>7, <1>8

\* SessionInv after a step of e that opens no session.
LEMMA SessionStep ==
    ASSUME SessionInv, NEW e \in Euiccs, SessionsKept(e),
           \A f \in Euiccs \ {e} : lpa'[f] = lpa[f] /\ fate'[f] = fate[f],
           lpa'[e].tx = lpa[e].tx,
           lpa'[e].at = "serving" => Known(e),
           Known(e) => Fits(lpa'[e].at, fate'[e], sessions'[lpa[e].tx])
    PROVE  SessionInv'
<1>0. \A f \in Euiccs : lpa'[f].tx = lpa[f].tx
  OBVIOUS
<1>1. /\ opened' \in 0 .. MaxSessions /\ DOMAIN sessions' \subseteq 1 .. opened'
      /\ \A t \in DOMAIN sessions' : sessions'[t] \in Sessions
      /\ \A f \in Euiccs : lpa'[f].tx \in 0 .. opened'
      /\ \A f, g \in Euiccs : (lpa'[f].tx = lpa'[g].tx /\ lpa'[f].tx # 0) => f = g
  BY <1>0 DEF SessionInv, SessionsKept
<1>2. ASSUME NEW f \in Euiccs
      PROVE  /\ lpa'[f].at = "serving" => lpa'[f].tx \in DOMAIN sessions'
             /\ lpa'[f].tx \in DOMAIN sessions' =>
                   /\ sessions'[lpa'[f].tx].eid = f
                   /\ Fits(lpa'[f].at, fate'[f], sessions'[lpa'[f].tx])
  <2>1. CASE f = e
    BY <2>1 DEF SessionInv, SessionsKept, Known
  <2>2. CASE f # e
    <3>1. lpa'[f] = lpa[f] /\ fate'[f] = fate[f]
      BY <2>2
    <3>2. lpa[f].at = "serving" => lpa[f].tx \in DOMAIN sessions'
      BY DEF SessionInv, SessionsKept
    <3>3. ASSUME lpa[f].tx \in DOMAIN sessions PROVE sessions'[lpa[f].tx] = sessions[lpa[f].tx]
      <4>1. lpa[f].tx # 0
        BY <3>3 DEF SessionInv
      <4>2. lpa[f].tx # lpa[e].tx
        BY <2>2, <4>1 DEF SessionInv
      <4> QED
        BY <3>3, <4>2 DEF SessionsKept
    <3> QED
      BY <3>1, <3>2, <3>3 DEF SessionInv, SessionsKept
  <2> QED
    BY <2>1, <2>2
<1> QED
  BY <1>1, <1>2 DEF SessionInv

LEMMA StopKeepsSessions ==
    ASSUME SessionInv, NEW e \in Euiccs, Stops(e), SessionsKept(e)
    PROVE  SessionInv'
<1>1. /\ \A f \in Euiccs \ {e} : lpa'[f] = lpa[f] /\ fate'[f] = fate[f]
      /\ lpa'[e].tx = lpa[e].tx
      /\ lpa'[e].at = "cancel" \/ (lpa'[e].at = "idle" /\ fate'[e] # "ok")
  BY DEF Stops, Goes, OthersKeep
<1>2. Fits(lpa'[e].at, fate'[e], sessions'[lpa[e].tx])
  BY <1>1 DEF Fits
<1> QED
  BY <1>1, <1>2, SessionStep

\* A step of e that ends its Download, with or without a word to its session.
LEMMA StopStep ==
    ASSUME DownloadInv, NEW e \in Euiccs, Stops(e), SessionsKept(e), Forward,
           UNCHANGED <<registryVars, served>>
    PROVE  DownloadInv' /\ Forward
<1>1. SessionInv' /\ ClientInv'
  BY StopKeepsSessions DEF DownloadInv, Stops
<1>2. MarkInv'
  BY QuietRegistry DEF DownloadInv
<1> QED
  BY <1>1, <1>2 DEF DownloadInv

-----------------------------------------------------------------------------
(* The handlers.                                                             *)

\* Download goes on at place with a session that fits it.
LEMMA GoesOnStep ==
    ASSUME DownloadInv, NEW e \in Euiccs, NEW place \in Places, lpa[e].at # "idle",
           place \in {"confirm", "notify"} <=> lpa[e].at \in {"confirm", "notify"},
           lpa' = [lpa EXCEPT ![e].at = place], UNCHANGED <<installed, won, fate>>,
           Known(e), SessionsKept(e), Forward, Fits(place, fate[e], sessions'[lpa[e].tx]),
           UNCHANGED <<registryVars, served>>
    PROVE  DownloadInv' /\ Forward
<1>1. Goes(e, place) /\ lpa'[e].at = place
  BY PlaceGoes DEF DownloadInv, Goes
<1>2. minted' = minted
  BY DEF registryVars
<1>3. ClientInv'
  BY <1>1, <1>2, GoesOn DEF DownloadInv
<1>4. SessionInv'
  BY <1>1, SessionStep DEF DownloadInv, Goes
<1>5. MarkInv'
  BY QuietRegistry DEF DownloadInv
<1> QED
  BY <1>3, <1>4, <1>5 DEF DownloadInv

\* An answer takes Download on, or is lost and ends it.
LEMMA AnsweredStep ==
    ASSUME DownloadInv, NEW e \in Euiccs, NEW place \in Places, lpa[e].at # "idle",
           place \in {"confirm", "notify"} <=> lpa[e].at \in {"confirm", "notify"},
           Answered(e, place), Known(e), SessionsKept(e), Forward,
           Fits(place, fate[e], sessions'[lpa[e].tx]),
           UNCHANGED <<registryVars, served>>
    PROVE  DownloadInv' /\ Forward
<1>0. minted' = minted
  BY DEF registryVars
<1>1. CASE GiveUp(e, "transport")
  <2>1. Stops(e)
    BY <1>0, <1>1, GiveUpStops DEF DownloadInv, Fates
  <2> QED
    BY <2>1, StopStep
<1>2. CASE lpa' = [lpa EXCEPT ![e].at = place] /\ UNCHANGED <<installed, won, fate>>
  BY <1>2, GoesOnStep
<1> QED
  BY <1>1, <1>2 DEF Answered

LEMMA RefusedStep ==
    ASSUME DownloadInv, NEW e \in Euiccs, lpa[e].at # "idle", Refused(e), SessionsKept(e), Forward,
           UNCHANGED <<registryVars, served>>
    PROVE  DownloadInv' /\ Forward
<1>0. minted' = minted
  BY DEF registryVars
<1>1. Stops(e)
  BY <1>0, RefusedStops DEF DownloadInv
<1> QED
  BY <1>1, StopStep

LEMMA GiveUpStep ==
    ASSUME DownloadInv, NEW e \in Euiccs, NEW why \in Fates \ {"ok"}, GiveUp(e, why),
           SessionsKept(e), Forward, UNCHANGED <<registryVars, served>>
    PROVE  DownloadInv' /\ Forward
<1>0. minted' = minted
  BY DEF registryVars
<1>1. Stops(e)
  BY <1>0, GiveUpStops DEF DownloadInv
<1> QED
  BY <1>1, StopStep

\* The session at the place of a device whose transaction is known.
LEMMA KnownFits ==
    ASSUME DownloadInv, NEW e \in Euiccs, Known(e)
    PROVE  Fits(lpa[e].at, fate[e], sessions[lpa[e].tx])
BY DEF DownloadInv, SessionInv, Known

LEMMA AuthenticateStep ==
    ASSUME DownloadInv, NEW e \in Euiccs, AuthenticateClient(e)
    PROVE  DownloadInv' /\ Forward
<1>0. lpa[e].at = "auth" /\ UNCHANGED <<registryVars, served>> /\ opened' = opened
  BY DEF AuthenticateClient
<1>1. CASE Known(e) /\ Status(e) = "pending" /\ SetStatus(e, "authenticated")
  <2>1. /\ SessionsKept(e) /\ Forward
        /\ sessions'[lpa[e].tx].status = "authenticated"
        /\ sessions'[lpa[e].tx].seq = sessions[lpa[e].tx].seq
    BY <1>0, <1>1, StatusSet DEF DownloadInv, Statuses
  <2>2. sessions[lpa[e].tx].seq = 0
    BY <1>0, <1>1, KnownFits DEF Fits
  <2>3. Fits("bpp", fate[e], sessions'[lpa[e].tx])
    BY <2>1, <2>2 DEF Fits
  <2>4. CASE Answered(e, "bpp")
    BY <1>0, <1>1, <2>1, <2>3, <2>4, AnsweredStep DEF Places
  <2>5. CASE Refused(e)
    BY <1>0, <2>1, <2>5, RefusedStep
  <2> QED
    BY <1>0, <1>1, <2>4, <2>5 DEF AuthenticateClient
<1>2. CASE Refused(e) /\ UNCHANGED sessions
  <2>1. SessionsKept(e) /\ Forward
    BY <1>0, <1>2, SessionsUntouched DEF DownloadInv
  <2> QED
    BY <1>0, <1>2, <2>1, RefusedStep
<1> QED
  BY <1>1, <1>2 DEF AuthenticateClient

LEMMA BPPResolveStep ==
    ASSUME DownloadInv, NEW e \in Euiccs, BPPResolve(e)
    PROVE  DownloadInv' /\ Forward
<1>0. lpa[e].at = "bpp" /\ UNCHANGED <<registryVars, served>> /\ UNCHANGED <<sessions, opened>>
  BY DEF BPPResolve
<1>1. SessionsKept(e) /\ Forward
  BY <1>0, SessionsUntouched DEF DownloadInv
<1>2. CASE Refused(e)
  BY <1>0, <1>1, <1>2, RefusedStep
<1>3. CASE Known(e) /\ lpa' = [lpa EXCEPT ![e].at = "serving"] /\ UNCHANGED <<installed, won, fate>>
  <2>1. Fits("serving", fate[e], sessions'[lpa[e].tx])
    BY <1>0, <1>3, KnownFits DEF Fits
  <2> QED
    BY <1>0, <1>1, <1>3, <2>1, GoesOnStep DEF Places
<1> QED
  BY <1>2, <1>3 DEF BPPResolve

LEMMA ConfirmStep ==
    ASSUME DownloadInv, NEW e \in Euiccs, ConfirmOrder(e)
    PROVE  DownloadInv' /\ Forward
<1>0. lpa[e].at = "confirm" /\ UNCHANGED <<registryVars, served>> /\ opened' = opened
  BY DEF ConfirmOrder
<1>1. CASE Known(e) /\ SetStatus(e, "confirmed") /\ Answered(e, "notify")
  <2>0. Status(e) = "authenticated" /\ sessions[lpa[e].tx].seq = 1
    BY <1>0, <1>1, KnownFits DEF Fits, Status
  <2>1. /\ SessionsKept(e) /\ Forward
        /\ sessions'[lpa[e].tx].status = "confirmed"
        /\ sessions'[lpa[e].tx].seq = sessions[lpa[e].tx].seq
    BY <1>0, <1>1, <2>0, StatusSet DEF DownloadInv, Statuses
  <2>2. Fits("notify", fate[e], sessions'[lpa[e].tx])
    BY <2>0, <2>1 DEF Fits
  <2> QED
    BY <1>0, <1>1, <2>1, <2>2, AnsweredStep DEF Places
<1>2. CASE Refused(e) /\ UNCHANGED sessions
  <2>1. SessionsKept(e) /\ Forward
    BY <1>0, <1>2, SessionsUntouched DEF DownloadInv
  <2> QED
    BY <1>0, <1>2, <2>1, RefusedStep
<1> QED
  BY <1>1, <1>2 DEF ConfirmOrder

LEMMA NotificationStep ==
    ASSUME DownloadInv, NEW e \in Euiccs, HandleNotification(e)
    PROVE  DownloadInv' /\ Forward
<1>0. /\ lpa[e].at = "notify" /\ UNCHANGED <<registryVars, served>> /\ UNCHANGED <<sessions, opened>>
      /\ minted' = minted
  BY DEF HandleNotification, registryVars
<1>1. SessionsKept(e) /\ Forward
  BY <1>0, SessionsUntouched DEF DownloadInv
<1>2. CASE Refused(e)
  BY <1>0, <1>1, <1>2, RefusedStep
<1>3. CASE GiveUp(e, "transport")
  BY <1>0, <1>1, <1>3, GiveUpStep DEF Fates
<1>4. CASE /\ Known(e)
           /\ lpa' = [lpa EXCEPT ![e].at = "idle"]
           /\ fate' = [fate EXCEPT ![e] = "ok"]
           /\ won' = [won EXCEPT ![e] = won[e] \cup {lpa[e].code}]
           /\ UNCHANGED installed
  <2>1. Goes(e, "idle")
    BY <1>4, PlaceGoes DEF DownloadInv, Places
  <2>2. /\ fate' \in [Euiccs -> Fates] /\ fate'[e] = "ok"
        /\ \A f \in Euiccs \ {e} : fate'[f] = fate[f]
    BY <1>4 DEF DownloadInv, ClientInv, Fates
  <2>3. installed[e] = won[e] \cup {lpa[e].code} /\ installed[e] \in SUBSET Codes
    BY <1>0 DEF DownloadInv, ClientInv, Holds
  <2>4. /\ won' \in [Euiccs -> SUBSET Codes] /\ won'[e] = installed[e]
        /\ \A f \in Euiccs \ {e} : won'[f] = won[f]
    BY <1>4, <2>3 DEF DownloadInv, ClientInv
  <2>5. Holds(e)' /\ OthersKeep(e)
    BY <1>4, <2>1, <2>2, <2>4 DEF Holds, Goes, OthersKeep
  <2>6. ClientInv'
    BY <1>0, <1>4, <2>1, <2>2, <2>4, <2>5, ClientStep DEF DownloadInv, Goes, ClientInv
  <2>7. Fits(lpa'[e].at, fate'[e], sessions'[lpa[e].tx])
    BY <1>0, <1>4, <2>1, KnownFits DEF Fits, Goes
  <2>8. SessionInv'
    BY <1>1, <2>1, <2>2, <2>7, SessionStep DEF DownloadInv, Goes
  <2>9. MarkInv'
    BY <1>0, QuietRegistry DEF DownloadInv
  <2> QED
    BY <1>1, <2>6, <2>8, <2>9 DEF DownloadInv
<1> QED
  BY <1>2, <1>3, <1>4 DEF HandleNotification

LEMMA CancelStep ==
    ASSUME DownloadInv, NEW e \in Euiccs, CancelSession(e)
    PROVE  DownloadInv' /\ Forward
<1>0. lpa[e].at = "cancel" /\ UNCHANGED <<registryVars, served>> /\ opened' = opened
  BY DEF CancelSession
<1>1. SessionsKept(e) /\ Forward
  <2>1. CASE UNCHANGED sessions
    BY <1>0, <2>1, SessionsUntouched DEF DownloadInv
  <2>2. CASE Known(e) /\ Status(e) # "cancelled" /\ SetStatus(e, "cancelled")
    BY <1>0, <2>2, StatusSet DEF DownloadInv, Statuses
  <2> QED
    BY <2>1, <2>2 DEF CancelSession
<1>2. PICK why \in Fates \ {"ok"} : GiveUp(e, why)
  BY DEF CancelSession, Fates
<1> QED
  BY <1>0, <1>1, <1>2, GiveUpStep

\* Requests that are lost, and session files that cannot be written.
LEMMA FaultStep ==
    ASSUME DownloadInv, NEW e \in Euiccs, RequestLost(e) \/ SessionWriteFails(e)
    PROVE  DownloadInv' /\ Forward
<1>0. UNCHANGED <<registryVars, served>> /\ UNCHANGED <<sessions, opened>> /\ lpa[e].at # "idle"
  BY DEF RequestLost, SessionWriteFails
<1>1. SessionsKept(e) /\ Forward
  BY <1>0, SessionsUntouched DEF DownloadInv
<1>2. CASE RequestLost(e)
  BY <1>0, <1>1, <1>2, GiveUpStep DEF RequestLost, Fates
<1>3. CASE SessionWriteFails(e)
  BY <1>0, <1>1, <1>3, RefusedStep DEF SessionWriteFails
<1> QED
  BY <1>2, <1>3

\* The counter of e's session is stepped.
LEMMA SeqStepped ==
    ASSUME SessionInv, NEW e \in Euiccs, Known(e), opened' = opened, Status(e) = "authenticated",
           sessions[lpa[e].tx].seq = 0,
           sessions' = [sessions EXCEPT ![lpa[e].tx].seq = @ + 1]
    PROVE  /\ SessionsKept(e) /\ Forward
           /\ sessions'[lpa[e].tx].status = "authenticated" /\ sessions'[lpa[e].tx].seq = 1
<1>1. PICK t : t = lpa[e].tx
  OBVIOUS
<1>2. t \in DOMAIN sessions /\ sessions[t] \in Sessions /\ sessions[t].seq + 1 = 1
  BY <1>1 DEF Known, SessionInv
<1> DEFINE new == [eid |-> sessions[t].eid, code |-> sessions[t].code,
                   status |-> sessions[t].status, seq |-> 1]
<1>3. [sessions[t] EXCEPT !.seq = 1] = new
  BY <1>2, SessionFields
<1>4. sessions' = [sessions EXCEPT ![t] = new]
  BY <1>1, <1>2, <1>3, Zenon
<1>5. new \in Sessions /\ new.status = sessions[t].status /\ new.seq = 1 /\ new.eid = sessions[t].eid
  BY <1>2 DEF Sessions
<1> HIDE DEF new
<1>6. /\ DOMAIN sessions' = DOMAIN sessions /\ sessions'[t] = new
      /\ \A u \in DOMAIN sessions \ {t} : sessions'[u] = sessions[u]
  BY <1>2, <1>4
<1>7. SessionsKept(e)
  <2>1. ASSUME NEW u \in DOMAIN sessions
        PROVE  sessions'[u] \in Sessions /\ sessions'[u].eid = sessions[u].eid
    BY <1>5, <1>6 DEF SessionInv
  <2> QED
    BY <1>1, <1>6, <2>1 DEF SessionsKept
<1>8. Forward
  <2>1. ASSUME NEW u \in DOMAIN sessions
        PROVE  /\ sessions[u].status = "cancelled" => sessions'[u] = sessions[u]
               /\ sessions'[u].status = "pending" => sessions[u].status = "pending"
               /\ sessions[u].status = "confirmed" => sessions'[u].status # "authenticated"
    <3>1. CASE u = t
      BY <1>1, <1>5, <1>6, <3>1 DEF Status
    <3>2. CASE u # t
      BY <1>6, <3>2
    <3> QED
      BY <3>1, <3>2
  <2> QED
    BY <2>1 DEF Forward
<1> QED
  BY <1>1, <1>5, <1>6, <1>7, <1>8 DEF Status

LEMMA DeliverStep ==
    ASSUME DownloadInv, NEW e \in Euiccs, BPPDeliver(e)
    PROVE  DownloadInv' /\ Forward
<1>0. /\ lpa[e].at = "serving" /\ opened' = opened
      /\ sessions' = [sessions EXCEPT ![lpa[e].tx].seq = @ + 1]
  BY DEF BPPDeliver
<1>1. Known(e)
  BY <1>0 DEF DownloadInv, SessionInv, Known
<1>2. Status(e) = "authenticated" /\ sessions[lpa[e].tx].seq = 0
  BY <1>0, <1>1, KnownFits DEF Fits, Status
<1>3. /\ SessionsKept(e) /\ Forward
      /\ sessions'[lpa[e].tx].status = "authenticated" /\ sessions'[lpa[e].tx].seq = 1
  BY <1>0, <1>1, <1>2, SeqStepped DEF DownloadInv
<1>4. PICK c, tx : c = lpa[e].code /\ tx = lpa[e].tx
  OBVIOUS
<1>5. PICK ok \in BOOLEAN :
         /\ served' = served \cup {[code |-> c, tx |-> tx, saved |-> ok /\ c \in Registered]}
         /\ MarkDownloaded(c, ok)
         /\ Install(e, IF ok THEN 0 ELSE 1)
  BY <1>4, Zenon DEF BPPDeliver
<1>6. c \in minted
  BY <1>0, <1>4 DEF DownloadInv, ClientInv
<1>7. MarkInv'
  BY <1>5, <1>6, MarkStep DEF DownloadInv
<1>8. minted' = minted
  BY <1>5 DEF MarkDownloaded
<1>9. CASE Refused(e) \/ GiveUp(e, "transport")
  <2>1. Stops(e)
    BY <1>0, <1>8, <1>9, RefusedStops, GiveUpStops DEF DownloadInv, Fates
  <2>2. SessionInv' /\ ClientInv'
    BY <1>3, <2>1, StopKeepsSessions DEF DownloadInv, Stops
  <2> QED
    BY <1>3, <1>7, <2>2 DEF DownloadInv
<1>10. CASE /\ c \notin installed[e]
            /\ installed' = [installed EXCEPT ![e] = installed[e] \cup {c}]
            /\ lpa' = [lpa EXCEPT ![e].at = "confirm"]
            /\ UNCHANGED <<won, fate>>
  <2>1. Goes(e, "confirm")
    BY <1>10, PlaceGoes DEF DownloadInv, Places
  <2>2. installed[e] = won[e] /\ c \in Codes
    BY <1>0, <1>6 DEF DownloadInv, ClientInv, Holds, MarkInv, RegistryTypeOK
  <2>3. /\ installed' \in [Euiccs -> SUBSET Codes] /\ installed'[e] = won[e] \cup {c}
        /\ \A f \in Euiccs \ {e} : installed'[f] = installed[f]
    BY <1>10, <2>2 DEF DownloadInv, ClientInv
  <2>4. Holds(e)' /\ OthersKeep(e)
    BY <1>4, <1>10, <2>1, <2>2, <2>3 DEF Holds, Goes, OthersKeep
  <2>5. ClientInv'
    BY <1>4, <1>6, <1>8, <1>10, <2>1, <2>3, <2>4, ClientStep DEF DownloadInv, Goes, ClientInv
  <2>6. Fits(lpa'[e].at, fate'[e], sessions'[lpa[e].tx])
    BY <1>3, <2>1 DEF Fits, Goes
  <2>7. SessionInv'
    BY <1>3, <1>10, <2>1, <2>6, SessionStep DEF DownloadInv, Goes
  <2> QED
    BY <1>3, <1>7, <2>5, <2>7 DEF DownloadInv
<1> QED
  BY <1>4, <1>5, <1>9, <1>10 DEF Install

\* A new transaction is nobody else's.
LEMMA InitiateStep ==
    ASSUME DownloadInv, NEW e \in Euiccs, NEW c \in Codes, Initiate(e, c)
    PROVE  DownloadInv' /\ Forward
<1>0. /\ lpa[e].at = "idle" /\ c \in minted /\ UNCHANGED <<registryVars, served>> /\ minted' = minted
      /\ UNCHANGED <<installed, won>>
  BY DEF Initiate, NoSession, registryVars
<1>1. MarkInv'
  BY <1>0, QuietRegistry DEF DownloadInv
<1>2. PICK l \in LPAs :
         /\ lpa' = [lpa EXCEPT ![e] = l]
         /\ \/ l = Idle /\ fate' = [fate EXCEPT ![e] = "transport"]
            \/ l = Idle /\ fate' = [fate EXCEPT ![e] = "protocol"]
            \/ /\ l = [at |-> "auth", tx |-> opened + 1, code |-> c] /\ fate' = fate
               /\ opened' = opened + 1
  <2>1. CASE \E why \in {"transport", "protocol"} : NoSession(e, why)
    <3>1. Idle \in LPAs
      BY DEF Idle, LPAs, Places
    <3> QED
      BY <2>1, <3>1 DEF NoSession
  <2>2. CASE /\ lpa' = [lpa EXCEPT ![e] = [at |-> "auth", tx |-> opened + 1, code |-> c]]
             /\ fate' = fate /\ opened' = opened + 1
    <3>1. [at |-> "auth", tx |-> opened + 1, code |-> c] \in LPAs
      BY DownloadAssumption DEF DownloadInv, SessionInv, LPAs, Places
    <3> QED
      BY <2>2, <3>1
  <2> QED
    BY <2>1, <2>2 DEF Initiate
<1>3. /\ lpa' \in [Euiccs -> LPAs] /\ lpa'[e] = l
      /\ \A f \in Euiccs \ {e} : lpa'[f] = lpa[f]
  BY <1>2 DEF DownloadInv, ClientInv
<1>4. fate' \in [Euiccs -> Fates] /\ \A f \in Euiccs \ {e} : fate'[f] = fate[f]
  BY <1>2 DEF DownloadInv, ClientInv, Fates
<1>5. l.at \in {"idle", "auth"} /\ l.code \in {"none", c} /\ (l.at # "idle" => l.code = c)
  BY <1>2 DEF Idle
<1>6. ClientInv'
  <2>1. Holds(e)' /\ OthersKeep(e)
    BY <1>0, <1>3, <1>4, <1>5 DEF DownloadInv, ClientInv, Holds, OthersKeep
  <2> QED
    BY <1>0, <1>3, <1>4, <1>5, <2>1, ClientStep DEF DownloadInv, ClientInv
<1>7. CASE UNCHANGED <<sessions, opened>> /\ l = Idle /\ fate'[e] # "ok"
  <2>1. Forward
    BY <1>7, SessionsUntouched DEF DownloadInv
  <2>2. SessionInv'
    BY <1>3, <1>4, <1>7 DEF DownloadInv, SessionInv, Idle
  <2> QED
    BY <1>1, <1>6, <2>1, <2>2 DEF DownloadInv
<1>8. CASE /\ opened < MaxSessions /\ opened' = opened + 1
           /\ sessions' = [t \in DOMAIN sessions \cup {opened + 1} |->
                             IF t = opened + 1
                             THEN [eid |-> e, code |-> c, status |-> "pending", seq |-> 0]
                             ELSE sessions[t]]
           /\ l = Idle \/ l = [at |-> "auth", tx |-> opened + 1, code |-> c]
  <2> DEFINE new == [eid |-> e, code |-> c, status |-> "pending", seq |-> 0]
  <2>1. new \in Sessions /\ new.eid = e /\ new.status = "pending" /\ new.seq = 0
    BY DEF Sessions, Statuses
  <2>2. sessions' = [t \in DOMAIN sessions \cup {opened + 1} |->
                        IF t = opened + 1 THEN new ELSE sessions[t]]
    BY <1>8
  <2> HIDE DEF new
  <2>3. PICK n : n = opened + 1
    OBVIOUS
  <2>4. n \notin DOMAIN sessions /\ n \in 1 .. n /\ n \in 0 .. MaxSessions /\ n # 0
    BY <1>8, <2>3, DownloadAssumption DEF DownloadInv, SessionInv
  <2>5. /\ DOMAIN sessions' = DOMAIN sessions \cup {n} /\ sessions'[n] = new
        /\ \A t \in DOMAIN sessions : sessions'[t] = sessions[t]
    BY <2>2, <2>3, <2>4
  <2>6. Forward
    BY <2>4, <2>5 DEF Forward, DownloadInv, SessionInv
  <2>7. DOMAIN sessions' \subseteq 1 .. n /\ opened' = n /\ 0 \in 0 .. n
    BY <1>8, <2>3, <2>4, <2>5, DownloadAssumption DEF DownloadInv, SessionInv
  <2>8. \A t \in DOMAIN sessions' : sessions'[t] \in Sessions
    BY <2>1, <2>5 DEF DownloadInv, SessionInv
  <2>9. \A f \in Euiccs : lpa[f].tx \in 0 .. n /\ lpa[f].tx # n
    BY <2>3, DownloadAssumption DEF DownloadInv, SessionInv
  <2>10. l.tx \in {0, n} /\ (l.at = "auth" <=> l.tx = n)
    BY <1>8, <2>3, <2>4 DEF Idle
  <2>11. ASSUME NEW f \in Euiccs PROVE lpa'[f].tx \in 0 .. n
    BY <1>3, <2>4, <2>7, <2>9, <2>10
  <2>12. ASSUME NEW f \in Euiccs, NEW g \in Euiccs, lpa'[f].tx = lpa'[g].tx, lpa'[f].tx # 0
         PROVE  f = g
    BY <1>3, <2>9, <2>10, <2>12 DEF DownloadInv, SessionInv
  <2>13. ASSUME NEW f \in Euiccs
         PROVE  /\ lpa'[f].at = "serving" => lpa'[f].tx \in DOMAIN sessions'
                /\ lpa'[f].tx \in DOMAIN sessions' =>
                      /\ sessions'[lpa'[f].tx].eid = f
                      /\ Fits(lpa'[f].at, fate'[f], sessions'[lpa'[f].tx])
    <3>1. CASE f # e
      BY <1>3, <1>4, <2>5, <2>9, <3>1 DEF DownloadInv, SessionInv
    <3>2. CASE f = e /\ l.tx = 0
      BY <1>3, <1>5, <2>7, <2>10, <3>2
    <3>3. CASE f = e /\ l.tx = n
      <4>1. l.at = "auth"
        BY <2>10, <3>3
      <4> QED
        BY <1>3, <2>1, <2>5, <3>3, <4>1 DEF Fits
    <3> QED
      BY <2>10, <3>1, <3>2, <3>3
  <2>14. SessionInv'
    BY <2>4, <2>7, <2>8, <2>11, <2>12, <2>13 DEF SessionInv
  <2> QED
    BY <1>1, <1>6, <2>6, <2>14 DEF DownloadInv
<1> QED
  <2>1. l = Idle \/ l = [at |-> "auth", tx |-> opened + 1, code |-> c]
    BY <1>2
  <2>2. CASE UNCHANGED <<sessions, opened>> /\ NoSession(e, "protocol")
    <3>1. lpa' = [lpa EXCEPT ![e] = Idle] /\ fate' = [fate EXCEPT ![e] = "protocol"]
      BY <2>2 DEF NoSession
    <3>2. l = Idle /\ fate'[e] = "protocol"
      BY <1>3, <3>1 DEF DownloadInv, ClientInv
    <3> QED
      BY <1>7, <2>2, <3>2
  <2> QED
    BY <1>8, <2>1, <2>2 DEF Initiate

-----------------------------------------------------------------------------
(* The operator, time and restarts.                                          *)

\* Steps that leave the devices and their sessions alone.
LEMMA DevicesKept ==
    ASSUME DownloadInv, UNCHANGED <<sessions, opened, clientVars>>, minted \subseteq minted'
    PROVE  ClientInv' /\ SessionInv' /\ Forward
<1>1. UNCHANGED <<sessions, opened, lpa, installed, won, fate>>
  BY DEF clientVars
<1>2. ClientInv'
  BY <1>1 DEF DownloadInv, ClientInv, Holds
<1>3. SessionInv' /\ Forward
  BY <1>1 DEF DownloadInv, SessionInv, Forward
<1> QED
  BY <1>2, <1>3

LEMMA RegistryStep ==
    ASSUME DownloadInv, IssueEsim \/ RevokeEsim \/ CodeTTLPasses
    PROVE  DownloadInv' /\ Forward
<1>0. UNCHANGED <<sessions, opened, clientVars>> /\ served' = served
  BY DEF IssueEsim, RevokeEsim, CodeTTLPasses
<1>1. MarkInv' /\ minted \subseteq minted'
  <2>1. CASE IssueEsim \/ RevokeEsim
    <3>1. PICK c \in Codes, ok \in BOOLEAN : AddWithExpiry(c, ok) \/ Revoke(c, ok)
      BY <2>1 DEF IssueEsim, RevokeEsim
    <3>2. minted \subseteq minted'
      BY <3>1 DEF AddWithExpiry, Revoke
    <3>3. MarkInv'
      BY <1>0, <3>1, RegistrySteps DEF DownloadInv
    <3> QED
      BY <3>2, <3>3
  <2>2. CASE CodeTTLPasses
    <3>1. PICK c \in Codes : CodeExpires(c)
      BY <2>2 DEF CodeTTLPasses
    <3>2. MarkInv'
      BY <1>0, <3>1, QuietRegistry DEF DownloadInv
    <3> QED
      BY <3>1, <3>2 DEF CodeExpires
  <2> QED
    BY <2>1, <2>2
<1>2. ClientInv' /\ SessionInv' /\ Forward
  BY <1>0, <1>1, DevicesKept
<1> QED
  BY <1>1, <1>2 DEF DownloadInv

\* A restart ends the downloads being served, and may lose the sessions.
LEMMA RestartStep ==
    ASSUME DownloadInv, Restart
    PROVE  DownloadInv' /\ Forward
<1>0. /\ RegistryRestart /\ UNCHANGED <<opened, installed, won, served>> /\ minted' = minted
      /\ sessions' = sessions \/ sessions' = <<>>
      /\ lpa' = [e \in Euiccs |-> IF lpa[e].at = "serving" THEN [lpa[e] EXCEPT !.at = "idle"] ELSE lpa[e]]
      /\ fate' = [e \in Euiccs |-> IF lpa[e].at = "serving" THEN "transport" ELSE fate[e]]
  BY DEF Restart, RegistryRestart
<1>1. MarkInv'
  BY <1>0, QuietRegistry DEF DownloadInv
<1>2. ASSUME NEW e \in Euiccs
      PROVE  /\ lpa'[e] \in LPAs /\ lpa'[e].tx = lpa[e].tx /\ lpa'[e].code = lpa[e].code
             /\ fate'[e] \in Fates
             /\ \/ lpa'[e].at = lpa[e].at /\ fate'[e] = fate[e] /\ lpa[e].at # "serving"
                \/ lpa'[e].at = "idle" /\ fate'[e] = "transport" /\ lpa[e].at = "serving"
  <2>1. lpa[e] \in LPAs /\ fate[e] \in Fates
    BY DEF DownloadInv, ClientInv
  <2>2. CASE lpa[e].at = "serving"
    <3>1. lpa'[e] = [at |-> "idle", tx |-> lpa[e].tx, code |-> lpa[e].code] /\ fate'[e] = "transport"
      <4>1. lpa'[e] = [lpa[e] EXCEPT !.at = "idle"] /\ fate'[e] = "transport"
        BY <1>0, <2>2
      <4> QED
        BY <2>1, <4>1, PlaceField
    <3> QED
      BY <2>1, <2>2, <3>1 DEF LPAs, Places, Fates
  <2>3. CASE lpa[e].at # "serving"
    BY <1>0, <2>1, <2>3
  <2> QED
    BY <2>2, <2>3
<1>3. lpa' \in [Euiccs -> LPAs] /\ fate' \in [Euiccs -> Fates]
  <2>1. DOMAIN lpa' = Euiccs /\ DOMAIN fate' = Euiccs
    BY <1>0
  <2>2. lpa' = [e \in Euiccs |-> lpa'[e]] /\ fate' = [e \in Euiccs |-> fate'[e]]
    BY <1>0
  <2> QED
    BY <1>2, <2>2
<1>4. ClientInv'
  <2>1. ASSUME NEW e \in Euiccs
        PROVE  Holds(e)' /\ (lpa'[e].at # "idle" => lpa'[e].code \in minted')
    BY <1>0, <1>2 DEF DownloadInv, ClientInv, Holds
  <2> QED
    BY <1>0, <1>3, <2>1 DEF DownloadInv, ClientInv
<1>5. SessionInv'
  <2>1. /\ DOMAIN sessions' \subseteq DOMAIN sessions
        /\ \A t \in DOMAIN sessions' : sessions'[t] = sessions[t]
    BY <1>0
  <2>2. ASSUME NEW e \in Euiccs
        PROVE  /\ lpa'[e].at # "serving" /\ lpa'[e].tx \in 0 .. opened'
               /\ lpa'[e].tx \in DOMAIN sessions' =>
                     /\ sessions'[lpa'[e].tx].eid = e
                     /\ Fits(lpa'[e].at, fate'[e], sessions'[lpa'[e].tx])
    <3>1. CASE lpa[e].at = "serving"
      BY <1>0, <1>2, <2>1, <3>1 DEF DownloadInv, SessionInv, Fits
    <3>2. CASE lpa[e].at # "serving"
      BY <1>0, <1>2, <2>1, <3>2 DEF DownloadInv, SessionInv
    <3> QED
      BY <3>1, <3>2
  <2>3. \A e, f \in Euiccs : (lpa'[e].tx = lpa'[f].tx /\ lpa'[e].tx # 0) => e = f
    BY <1>2 DEF DownloadInv, SessionInv
  <2> QED
    BY <1>0, <2>1, <2>2, <2>3 DEF DownloadInv, SessionInv
<1>6. Forward
  BY <1>0 DEF Forward
<1> QED
  BY <1>1, <1>4, <1>5, <1>6 DEF DownloadInv

-----------------------------------------------------------------------------
LEMMA DownloadInit == Init => DownloadInv
<1> SUFFICES ASSUME Init PROVE DownloadInv
  OBVIOUS
<1>1. MarkInv
  BY DEF Init, RegistryInit, MarkInv, RegistryTypeOK, ServedIsMarked, Registered
<1>2. Idle \in LPAs /\ Idle.at = "idle" /\ Idle.tx = 0
  BY DEF Idle, LPAs, Places
<1>3. \A e \in Euiccs : lpa[e] = Idle /\ installed[e] = {} /\ won[e] = {} /\ fate[e] = "none"
  BY DEF Init
<1>4. ClientInv
  BY <1>2, <1>3 DEF Init, ClientInv, Holds, Fates
<1>5. SessionInv
  BY <1>2, <1>3, DownloadAssumption DEF Init, SessionInv
<1> QED
  BY <1>1, <1>4, <1>5 DEF DownloadInv

LEMMA DownloadNext == DownloadInv /\ [Next]_vars => DownloadInv' /\ Forward
<1> SUFFICES ASSUME DownloadInv, [Next]_vars PROVE DownloadInv' /\ Forward
  OBVIOUS
<1>1. ASSUME NEW e \in Euiccs, Step(e) PROVE DownloadInv' /\ Forward
  BY <1>1, InitiateStep, AuthenticateStep, BPPResolveStep, DeliverStep, ConfirmStep, NotificationStep,
     CancelStep DEF Step
<1>2. ASSUME NEW e \in Euiccs, RequestLost(e) \/ SessionWriteFails(e) PROVE DownloadInv' /\ Forward
  BY <1>2, FaultStep
<1>3. CASE IssueEsim \/ RevokeEsim \/ CodeTTLPasses
  BY <1>3, RegistryStep
<1>4. CASE Restart
  BY <1>4, RestartStep
<1>5. CASE UNCHANGED vars
  <2>1. UNCHANGED <<sessions, opened, clientVars>> /\ UNCHANGED registryVars /\ served' = served
    BY <1>5 DEF vars
  <2>2. MarkInv' /\ minted' = minted
    BY <2>1, QuietRegistry DEF DownloadInv, registryVars
  <2>3. ClientInv' /\ SessionInv' /\ Forward
    BY <2>1, <2>2, DevicesKept
  <2> QED
    BY <2>2, <2>3 DEF DownloadInv
<1> QED
  BY <1>1, <1>2, <1>3, <1>4, <1>5 DEF Next

(* The inductive invariant of the download.                                  *)
THEOREM DownloadInvariant == Spec => []DownloadInv
BY DownloadInit, DownloadNext, PTL DEF Spec

(* The types of the session store, the LPAs and the ghost records, for any   *)
(* number of devices and codes.                                              *)
THEOREM DownloadTyped == Spec => []TypeOK
<1>1. DownloadInv => TypeOK
  BY DEF DownloadInv, MarkInv, ClientInv, SessionInv, TypeOK, LPAs, Sessions, Fates
<1> QED
  BY <1>1, DownloadInvariant, PTL

(* Download is all or nothing (euicc.go:59-60, 203, 208): between downloads  *)
(* a device holds exactly the profiles whose Download succeeded.             *)
THEOREM DownloadsAreWhole == Spec => []FailedLeavesNothing
<1>1. DownloadInv => FailedLeavesNothing
  BY DEF DownloadInv, ClientInv, Holds, FailedLeavesNothing
<1> QED
  BY <1>1, DownloadInvariant, PTL

(* A Download that succeeded has, where the server still knows it, a         *)
(* confirmed session of that device with exactly one package.                *)
THEOREM BothEndsAgree == Spec => []SuccessIsConfirmed
<1>1. DownloadInv => SuccessIsConfirmed
  BY DEF DownloadInv, SessionInv, SuccessIsConfirmed, Known, Fits
<1> QED
  BY <1>1, DownloadInvariant, PTL

(* A package whose mark was saved leaves its code marked, over failed        *)
(* revocations and restarts (smdp.go:334-339, registry.go:267).              *)
THEOREM MarksHold == Spec => []ServedIsMarked
<1>1. DownloadInv => ServedIsMarked
  BY DEF DownloadInv, MarkInv
<1> QED
  BY <1>1, DownloadInvariant, PTL

(* No step takes a session back: a cancelled one is never touched again, and *)
(* none returns to pending or from confirmed to authenticated (smdp.go:34-42,*)
(* 300, 366, 389, 403).                                                      *)
THEOREM SessionsForward == Spec => SessionsMoveForward
<1>1. DownloadInv /\ [Next]_vars =>
         [\A t \in DOMAIN sessions \cap DOMAIN sessions' :
             /\ sessions[t].status = "cancelled" => sessions'[t] = sessions[t]
             /\ sessions'[t].status = "pending" => sessions[t].status = "pending"
             /\ sessions[t].status = "confirmed" => sessions'[t].status # "authenticated"]_vars
  BY DownloadNext DEF Forward
<1> QED
  BY <1>1, DownloadInvariant, PTL DEF Spec, SessionsMoveForward
=============================================================================
