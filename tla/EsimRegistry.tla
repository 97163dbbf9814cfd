---------------------------- MODULE EsimRegistry -----------------------------
(***************************************************************************)
(* The SM-DP+ profile registry (core/esim/registry): activation codes, the  *)
(* carrier profile behind each, and the file it is saved to on every change.*)
(* Every operation runs under r.mu and is one step.                         *)
(*                                                                          *)
(* The service opens the registry without a key (registry.Open, used by     *)
(* internal/api); the keyed setups are those of OpenWithKey, which the      *)
(* library offers and its tests use.                                        *)
(*                                                                          *)
(* A profile is told apart only by whether the entry has it: in memory      *)
(* (Entry.Profile) and encrypted (Entry.ProfileCipher).  AES-GCM, JSON and  *)
(* the choice of random tokens are left out.                                *)
(***************************************************************************)
EXTENDS Integers, FiniteSets

CONSTANTS
    Codes,       \* activation codes issueEsim can mint
    Setups       \* the configurations considered

ASSUME RegistryAssumption ==
    Setups \subseteq [keyed : BOOLEAN, singleUse : BOOLEAN, fileStore : BOOLEAN]

VARIABLES
    setup,      \* how the service is configured; never changes
    entries,    \* r.entries: registered code -> entry
    regFile,    \* the registry file, as OpenWithKey would read it back
    minted,     \* codes GenerateToken has returned so far
    expired     \* codes whose ExpiresAt has passed

registryVars == <<setup, entries, regFile, minted, expired>>

Keyed == setup.keyed           \* the registry was opened with an encryption key
SingleUse == setup.singleUse   \* ESIMOptions.SingleUse

Registered == DOMAIN entries
Entry == [profile : BOOLEAN, cipher : BOOLEAN, downloaded : BOOLEAN]

RegistryInit ==
    /\ setup \in Setups
    /\ entries = <<>> /\ regFile = <<>>
    /\ minted = {} /\ expired = {}

-----------------------------------------------------------------------------
\* Mutant: the download mark is not saved.
SavedWithoutMark(e) ==
    LET sealed == e.cipher \/ (Keyed /\ e.profile)
    IN [profile |-> sealed, cipher |-> sealed, downloaded |-> FALSE]

\* What saveLocked writes of an entry and OpenWithKey reads back.  The nil
\* Profile of encEntry shadows the entry's own, so a profile reaches the file
\* only as ciphertext, and comes back only from it.
Saved(e) ==
    LET sealed == e.cipher \/ (Keyed /\ e.profile)
    IN [profile |-> sealed, cipher |-> sealed, downloaded |-> e.downloaded]

saveLocked(ok) ==
    regFile' = IF ok THEN [c \in DOMAIN entries' |-> Saved(entries'[c])] ELSE regFile

\* AddWithExpiry: encryptEntry drops the profile of the entry kept in memory
\* when there is a key.  A failed save leaves the entry registered.
AddWithExpiry(c, ok) ==
    /\ c \notin minted
    /\ minted' = minted \cup {c}
    /\ entries' = [k \in Registered \cup {c} |->
                      IF k = c THEN [profile |-> ~Keyed, cipher |-> Keyed, downloaded |-> FALSE]
                      ELSE entries[k]]
    /\ saveLocked(ok)
    /\ UNCHANGED <<setup, expired>>

Revoke(c, ok) ==
    /\ c \in Registered
    /\ entries' = [k \in Registered \ {c} |-> entries[k]]
    /\ saveLocked(ok)
    /\ UNCHANGED <<setup, minted, expired>>

\* MarkDownloaded; an unknown code is an error and changes nothing.
MarkDownloaded(c, ok) ==
    /\ IF c \in Registered
       THEN entries' = [entries EXCEPT ![c].downloaded = TRUE] /\ saveLocked(ok)
       ELSE UNCHANGED <<entries, regFile>>
    /\ UNCHANGED <<setup, minted, expired>>

\* The code's validity window passes.
CodeExpires(c) ==
    /\ c \in Registered \ expired
    /\ expired' = expired \cup {c}
    /\ UNCHANGED <<setup, entries, regFile, minted>>

\* The process restarts: OpenWithKey loads the file.
RegistryRestart ==
    /\ entries' = regFile
    /\ UNCHANGED <<setup, regFile, minted, expired>>

-----------------------------------------------------------------------------
\* ResolvePolicy returns without an error.
ResolvePolicy(c) ==
    /\ c \in Registered
    /\ c \notin expired
    /\ ~(SingleUse /\ entries[c].downloaded)

\* It returned a profile, not a nil one (on which every handler panics, and
\* recoverMW answers 500).
Resolves(c) == ResolvePolicy(c) /\ entries[c].profile

(* The types of the in-memory entries and of the file saveLocked leaves.     *)
RegistryTypeOK ==
    /\ Registered \subseteq minted /\ DOMAIN regFile \subseteq minted
    /\ \A c \in Registered : entries[c] \in Entry
    /\ \A c \in DOMAIN regFile : regFile[c] \in Entry
    /\ minted \subseteq Codes /\ expired \subseteq Codes
    /\ setup \in Setups

(* "The sensitive carrier profile ... is stored either directly in Profile   *)
(* (plaintext, lab default) or ... as ProfileCipher" (registry.go:27-31) and *)
(* "the in-memory entries keep their plaintext Profile (callers read         *)
(* r.entries directly)" (registry.go:302-303): a registered code has its     *)
(* profile, before and after a restart.  The code breaks both: without a key *)
(* the profile never reaches the file, and with a key AddWithExpiry drops it *)
(* from memory until the next restart.                                       *)
CodeHasProfile == \A c \in Registered : entries[c].profile
=============================================================================
