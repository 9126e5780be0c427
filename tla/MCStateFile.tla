----------------------------- MODULE MCStateFile -----------------------------
(* Three calls of save_state on three maps, two of them equally long.      *)
EXTENDS StateFile, TLC

CONSTANTS s1, s2, s3, empty, brief, long, none

SaverDef == {s1, s2, s3}
MapDef   == {empty, brief, long}
SizeDef(m) == CASE m = empty -> 2 [] m = brief -> 2 [] m = long -> 3

Calls == Permutations(SaverDef)
=============================================================================
