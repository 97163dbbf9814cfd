---------------------------- MODULE WeaveChannel -----------------------------
(***************************************************************************)
(* What a weave promises its users (docs/architecture/hydra.md, "UDP        *)
(* semantics"): it carries datagrams, preserving boundaries and order but   *)
(* not delivery.                                                            *)
(*                                                                          *)
(* A payload is <<epoch, seq>>.  The channel delivers only payloads it      *)
(* accepted, unchanged, each delivery ordered after the one before: within  *)
(* an era sequence numbers strictly increase, and a new era may begin only  *)
(* after the old one.                                                       *)
(***************************************************************************)
EXTENDS Naturals, Sequences

VARIABLES
    accepted,    \* payloads the channel has taken
    out          \* what it delivered since the far end last started

channelVars == <<accepted, out>>

ChannelInit == accepted = {} /\ out = <<>>

Accept ==
    /\ \E p \in accepted' \ accepted : accepted' = accepted \cup {p}
    /\ UNCHANGED out

After(q, p) == p.era < q.era \/ (p.era = q.era /\ p.seq < q.seq)

Deliver ==
    /\ Len(out') = Len(out) + 1
    /\ SubSeq(out', 1, Len(out)) = out
    /\ LET q == out'[Len(out')]
       IN /\ q.data \in accepted
          /\ q.seq = q.data[2]
          /\ out # <<>> => After(q, out[Len(out)])
    /\ UNCHANGED accepted

FarEndRestarts == out' = <<>> /\ UNCHANGED accepted

ChannelNext == Accept \/ Deliver \/ FarEndRestarts

ChannelSpec == ChannelInit /\ [][ChannelNext]_channelVars
=============================================================================
