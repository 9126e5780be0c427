------------------------------- MODULE MCFleet -------------------------------
(* Three rounds of one agent; the configuration says which report is fit   *)
(* to be stored.                                                           *)
EXTENDS Fleet

CONSTANTS n1, p1, p2, p3, none

NodeOfDef    == [p \in Push |-> n1]
RoundOfDef   == [p \in Push |-> CASE p = p1 -> 1 [] p = p2 -> 2 [] p = p3 -> 3]
ForwardClock == {1}

SaverDef    == Push \X {"ingest", "verify"}
MapDef      == [Node -> [push : Push, at : Time, verdicts : Push \cup {none}] \cup {none}]
EmptyMapDef == [n \in Node |-> none]

(* Here a write is one system call: MCPortal cuts them. *)
SizeDef(m) == 1
=============================================================================
