---------------------------- MODULE Verification ----------------------------
(***************************************************************************)
(* What the verification of a report promises, without waits, services or  *)
(* a draft: verdicts are recorded one after another, in the order of the   *)
(* report's CVMs, never changed, each sound for its CVM, and an approval   *)
(* is what the contract's list says at the moment it is recorded.          *)
(***************************************************************************)
EXTENDS Evidence, Sequences

CONSTANT Reports

VARIABLES report, listed, verdicts

(* The verdict of the next CVM. *)
Record ==
    LET i == Len(verdicts) + 1
        c == report[i]
        v == verdicts'[i]
    IN  /\ i <= Len(report) /\ Len(verdicts') = i
        /\ verdicts' = Append(verdicts, v)
        /\ Sound(v, c)
        /\ v.approved # "none" =>
               (v.approved = "true" <=> <<ContractFor(c), c.measurements>> \in listed)
        /\ UNCHANGED <<report, listed>>

(* Measurements are approved and withdrawn at any time. *)
ListChanges == UNCHANGED <<report, verdicts>>

Init == report \in Reports /\ listed = {} /\ verdicts = <<>>

Next == Record \/ ListChanges

Spec == Init /\ [][Next]_<<report, listed, verdicts>>
=============================================================================
