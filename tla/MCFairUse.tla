------------------------------ MODULE MCFairUse ------------------------------
(* FairUse for TLC.                                                          *)
EXTENDS FairUse

CONSTANT MaxEvents   \* bound: requests, mishaps, failed saves, restarts and an
                     \*   ended tap, together

TapEnded == IF source = "upf" /\ tap = "ended" THEN 1 ELSE 0
Events == requests + mishaps + failures + (lives - 1) + TapEnded

MCNext == Next /\ Events' <= MaxEvents
MCSpec == Init /\ [][MCNext]_vars
=============================================================================
