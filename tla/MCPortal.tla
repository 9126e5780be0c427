------------------------------ MODULE MCPortal ------------------------------
(* Two nodes: every push is of node n1 but p3, which is of n2.  The        *)
(* configurations choose the pushes.                                       *)
EXTENDS Portal, FiniteSets

CONSTANTS n1, n2, p1, p2, p3, p4, none

NodeOfDef == [p \in Push |-> IF p = p3 THEN n2 ELSE n1]
ForwardClock == {1}
AnyClock     == {1, -1}

SaverDef == Push \X {"ingest", "verify"}
MapDef   == [Node -> [push : Push, at : Time, verdicts : Push \cup {none}] \cup {none}]
EmptyMapDef == [n \in Node |-> none]

(* Reports of a node are equally long, and longer with their verdicts. *)
SizeDef(m) == 1 + Cardinality({n \in Node : m[n] # none /\ m[n].verdicts # none})
=============================================================================
