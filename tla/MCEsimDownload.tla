---------------------------- MODULE MCEsimDownload ---------------------------
(* EsimDownload for TLC.                                                     *)
EXTENDS EsimDownload

\* No profile is pinned to an eUICC; or every one is pinned to one of them.
MCAnyEuicc == [c \in Codes |-> Euiccs]
MCOneEuicc == [c \in Codes |-> {CHOOSE e \in Euiccs : TRUE}]

\* The lab default; and sessions in files.
MCPlain == {[keyed |-> FALSE, singleUse |-> FALSE, fileStore |-> FALSE]}
MCAllSetups ==
    {[keyed |-> FALSE, singleUse |-> FALSE, fileStore |-> TRUE],
     [keyed |-> FALSE, singleUse |-> TRUE, fileStore |-> TRUE],
     [keyed |-> TRUE, singleUse |-> TRUE, fileStore |-> FALSE]}
=============================================================================
