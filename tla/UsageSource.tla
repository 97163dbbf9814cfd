----------------------------- MODULE UsageSource -----------------------------
(***************************************************************************)
(* The metering sources of the control plane (internal/collector).          *)
(*                                                                          *)
(* "upf": a tap on the user plane.  upfAccountant learns from the signalling*)
(* (GTP-C) which UE a tunnel (TEID) belongs to and adds the bytes of the    *)
(* user packets (GTP-U) to that UE's counter.  The counters live in the     *)
(* process.                                                                 *)
(*                                                                          *)
(* "live": the core's own list of UEs, from the MME of Open5GS or the AMF of*)
(* free5GC, which has no bytes.                                             *)
(*                                                                          *)
(* "cdr": free5GC with charging.  Multi merges the AMF's list and the totals*)
(* of the CHF's charging records.  The records live in the core network and *)
(* survive the control plane.                                               *)
(*                                                                          *)
(* Abstractions.  A packet carries one unit of bytes; uplink and downlink   *)
(* are counted alike, so one counter stands for both.  Parsing GTP and ASN.1*)
(* is left out: a message is what it says, and a charging record is readable*)
(* or, while it is being written, not.  A message without an IMSI and a     *)
(* frame that does not parse change nothing.                                *)
(***************************************************************************)
EXTENDS Integers, FiniteSetsExt

CONSTANTS
    Imsis,       \* UEs, the operator's SIMs and others
    Teids,       \* tunnel endpoints
    Sources,     \* the sources the operator may have configured
    MaxBytes,    \* bound: bytes carried in a behaviour
    MaxMishaps   \* bound: charging records started over or read while written

ASSUME SourceAssumption ==
    /\ Sources \subseteq {"upf", "live", "cdr"}
    /\ MaxBytes \in Nat /\ MaxMishaps \in Nat
    /\ IsFiniteSet(Imsis) /\ IsFiniteSet(Teids)

VARIABLES
    source,      \* the configured source; it never changes
    tap,         \* the tap goroutine: not started (u.once), running or ended
    byTEID,      \* acc.byTEID: tunnel -> the UE it was learned for
    byIMSI,      \* acc.byIMSI: UE -> cumulative bytes
    unknown,     \* acc.unknown: bytes on tunnels not learned
    registered,  \* the AMF's registered UEs (external)
    record,      \* the CHF's cumulative volumes (external)
    mishaps,
    carried,     \* history: the bytes the source has observed, in all runs,
    forgotten,   \*   those observed by earlier runs,
    metered      \*   and per UE, those put on its counter, in all runs

tapVars == <<tap, byTEID, byIMSI, unknown, forgotten>>
coreVars == <<source, registered, record, mishaps>>
sourceVars == <<tapVars, coreVars, carried, metered>>

None == "none"
Absent == -1
Readings == [Imsis -> Nat \cup {Absent}]
NoReadings == [i \in Imsis |-> Absent]

SourceInit ==
    /\ source \in Sources
    /\ tap = "off"
    /\ byTEID = [t \in Teids |-> None] /\ byIMSI = NoReadings /\ unknown = 0
    /\ registered = {} /\ record = NoReadings /\ mishaps = 0
    /\ carried = 0 /\ forgotten = 0 /\ metered = [i \in Imsis |-> 0]

-----------------------------------------------------------------------------
(* The tap.                                                                  *)

\* Bytes added to a counter, which is created at its first byte.
Plus(count, n) == IF count = Absent THEN n ELSE count + n

\* learn, on a Create Session or Modify Bearer message that names the UE.
Learn(i, ts) ==
    /\ tap = "on"
    /\ byIMSI' = [byIMSI EXCEPT ![i] = Plus(@, 0)]
    /\ byTEID' = [t \in Teids |-> IF t \in ts THEN i ELSE byTEID[t]]
    /\ UNCHANGED <<tap, unknown, forgotten, coreVars, carried, metered>>

\* learn, on a Delete Session message that names the UE.
Forget(i) ==
    /\ tap = "on"
    /\ byTEID' = [t \in Teids |-> IF byTEID[t] = i THEN None ELSE byTEID[t]]
    /\ UNCHANGED <<tap, byIMSI, unknown, forgotten, coreVars, carried, metered>>

\* count: a user packet on tunnel t.
Count(t) ==
    /\ tap = "on" /\ carried < MaxBytes
    /\ carried' = carried + 1
    /\ \/ /\ byTEID[t] = None
          /\ unknown' = unknown + 1
          /\ UNCHANGED <<byIMSI, metered>>
       \/ /\ byTEID[t] # None
          /\ byIMSI' = [byIMSI EXCEPT ![byTEID[t]] = Plus(@, 1)]
          /\ metered' = [metered EXCEPT ![byTEID[t]] = @ + 1]
          /\ UNCHANGED unknown
    /\ UNCHANGED <<tap, byTEID, forgotten, coreVars>>

\* tap: the packet source fails and the goroutine returns; nothing restarts it,
\* and Poll goes on reporting the counters.
TapEnds ==
    /\ tap = "on"
    /\ tap' = "ended"
    /\ UNCHANGED <<byTEID, byIMSI, unknown, forgotten, coreVars, carried, metered>>

\* start, at the first Poll, cannot open the packet source: that Poll returns the
\* error, and as u.once is done no later one tries again.
StartFails ==
    /\ source = "upf" /\ tap = "off"
    /\ tap' = "ended"
    /\ UNCHANGED <<byTEID, byIMSI, unknown, forgotten, coreVars, carried, metered>>

\* Mutant: a detached UE is dropped with its bytes.
KeptDetachedDropped == [i \in Imsis |->
    IF \A t \in Teids : byTEID[t] # i THEN Absent ELSE byIMSI[i]]

\* snapshot drops a UE that is detached, if it has no bytes.
Kept == [i \in Imsis |->
    IF byIMSI[i] = 0 /\ \A t \in Teids : byTEID[t] # i THEN Absent ELSE byIMSI[i]]

-----------------------------------------------------------------------------
(* The core network's own records.                                           *)

\* A UE registers or deregisters, the CHF rewrites the record of a UE, or
\* starts it again, with no volume in it yet.
CoreChanges ==
    /\ source # "upf"
    /\ \E i \in Imsis :
          \/ /\ registered' \in {registered \cup {i}, registered \ {i}}
             /\ UNCHANGED <<record, mishaps, carried, metered>>
          \/ /\ source = "cdr" /\ carried < MaxBytes /\ carried' = carried + 1
             /\ record' = [record EXCEPT ![i] = Plus(@, 1)]
             /\ metered' = [metered EXCEPT ![i] = @ + 1]
             /\ UNCHANGED <<registered, mishaps>>
          \/ /\ source = "cdr" /\ mishaps < MaxMishaps /\ mishaps' = mishaps + 1
             /\ record' = [record EXCEPT ![i] = 0]
             /\ UNCHANGED <<registered, carried, metered>>
    /\ UNCHANGED <<source, tapVars>>

\* Open5GS.Poll: the UEs the MME has, without bytes ...
LiveSessions == [i \in Imsis |-> IF i \in registered THEN 0 ELSE Absent]

\* ... and Free5GC.Poll: those the AMF has registered.
AmfSessions == [i \in Imsis |-> IF i \in registered THEN 0 ELSE Absent]

\* Free5GCCDR.Poll: a record that is being written is skipped.
CdrSessions(readable) == [i \in Imsis |->
    IF i \in readable THEN record[i] ELSE Absent]

\* Multi.Poll and mergeSessions: one session per UE, with the larger counter.
Merged(readable) == [i \in Imsis |-> Max({AmfSessions[i], CdrSessions(readable)[i]})]

-----------------------------------------------------------------------------
\* The session tables a successful Poll may report ...
PollTables ==
    CASE source = "upf" -> {Kept}
      [] source = "live" -> {LiveSessions}
      [] source = "cdr" -> {Merged(Imsis)} \cup {Merged(Imsis \ {i}) : i \in Imsis}

\* ... and what it leaves behind; the first one has started the tap.
Poll(table) ==
    /\ tap' = IF source = "upf" /\ tap = "off" THEN "on" ELSE tap
    /\ byIMSI' = IF source = "upf" THEN Kept ELSE byIMSI
    /\ \/ /\ source = "cdr" => table = Merged(Imsis)
          /\ UNCHANGED mishaps
       \/ /\ source = "cdr" /\ table # Merged(Imsis)
          /\ mishaps < MaxMishaps /\ mishaps' = mishaps + 1
    /\ UNCHANGED <<byTEID, unknown, forgotten, source, registered, record,
                   carried, metered>>

\* A new process has a new tap, not yet started; the core's records are as they were.
SourceRestart ==
    /\ tap' = "off"
    /\ byTEID' = [t \in Teids |-> None] /\ byIMSI' = NoReadings /\ unknown' = 0
    /\ forgotten' = carried
    /\ UNCHANGED <<coreVars, carried, metered>>

SourceSteps ==
    \/ \E i \in Imsis, ts \in SUBSET Teids : Learn(i, ts)
    \/ \E i \in Imsis : Forget(i)
    \/ \E t \in Teids : Count(t)
    \/ TapEnds
    \/ StartFails
    \/ CoreChanges

-----------------------------------------------------------------------------
SourceTypeOK ==
    /\ tap \in {"off", "on", "ended"}
    /\ byTEID \in [Teids -> Imsis \cup {None}]
    /\ byIMSI \in Readings /\ unknown \in Nat
    /\ registered \subseteq Imsis /\ record \in Readings
    /\ carried \in 0 .. MaxBytes /\ forgotten \in Nat /\ metered \in [Imsis -> Nat]

(* "billing must never lose a counter" (upf.go:341): whatever tunnels are    *)
(* learned, moved from one UE to another, released or reused, and however    *)
(* often the table is polled, every byte the tap has observed in this run is *)
(* on the counter of some UE or among the unattributed ones.                 *)
BytesConserved ==
    source = "upf" =>
        carried - forgotten
            = unknown + MapThenSumSet(LAMBDA i : Plus(byIMSI[i], 0), Imsis)
=============================================================================
