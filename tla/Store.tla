-------------------------------- MODULE Store --------------------------------
(***************************************************************************)
(* What the portal's map of reports promises to its readers, without       *)
(* clocks, locks, tasks or files: every entry is a report that was         *)
(* received for its node; an entry is later given verdicts of a report of  *)
(* that node received in the same second; and, when the process restarts,  *)
(* the whole map goes back to a map it was before, or to the empty one --  *)
(* or, when the bytes of several have met in the file, to anything: that   *)
(* is on record, and nothing but a restart does it.                        *)
(***************************************************************************)
EXTENDS Naturals

CONSTANTS Node, Push, NodeOf, None

VARIABLES reports,    \* node -> its entry, or None
          received,   \* push -> the second it was received in, or None
          past,       \* the maps a restart may go back to
          mixed       \* a restart has found bytes of several maps

storeVars == <<reports, received, past, mixed>>

Entry == [push : Push, at : Nat, verdicts : Push \cup {None}]

Absent == [n \in Node |-> None]

(* Some earlier map, or the one just made, may be gone back to from now on. *)
Remember == past' \in {past, past \cup {reports'}}

Receive ==
    \E p \in Push :
        /\ received[p] = None
        /\ received'[p] \in Nat
        /\ received' = [received EXCEPT ![p] = received'[p]]
        /\ UNCHANGED <<reports, past, mixed>>

Accept ==
    \E p \in Push :
        /\ received[p] # None
        /\ reports' = [reports EXCEPT ![NodeOf[p]] =
                           [push |-> p, at |-> received[p], verdicts |-> None]]
        /\ Remember
        /\ UNCHANGED <<received, mixed>>

Judge ==
    \E p \in Push :
        /\ received[p] # None
        /\ reports[NodeOf[p]] # None
        /\ reports[NodeOf[p]].at = received[p]
        /\ reports' = [reports EXCEPT ![NodeOf[p]].verdicts = p]
        /\ Remember
        /\ UNCHANGED <<received, mixed>>

GoBack ==
    /\ reports' \in past \cup {Absent}
    /\ UNCHANGED <<received, past, mixed>>

Splice ==
    /\ mixed' = TRUE
    /\ reports' \in [Node -> Entry \cup {None}]
    /\ UNCHANGED <<received, past>>

Init ==
    /\ reports = Absent
    /\ received = [p \in Push |-> None]
    /\ past = {Absent}
    /\ mixed = FALSE

Next == Receive \/ Accept \/ Judge \/ GoBack \/ Splice

Spec == Init /\ [][Next]_storeVars
=============================================================================
