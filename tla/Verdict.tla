------------------------------- MODULE Verdict -------------------------------
(***************************************************************************)
(* A CVM's verdict as server/src/verify.rs records it (CvmVerdict), and    *)
(* the two ways server/src/page.rs reads it: the chip of an index row      *)
(* (summary_of) and the colour of the detail card (build_verdict).         *)
(* Texts, advisories, FMSPC and times are left out; Option<bool> is one of *)
(* "true", "false" and "none"; of what is decoded from the quote, the five *)
(* registers are kept.                                                     *)
(***************************************************************************)
CONSTANT None

Tri == {"true", "false", "none"}
TcbStatus == {"UpToDate", "OutOfDate", "Revoked"}

(* CvmVerdict::new: all negative until a check succeeds. *)
NewVerdict(vm) ==
    [vm_id |-> vm, sig_valid |-> FALSE, tcb_status |-> None, decoded |-> None,
     match |-> "none", approved |-> "none", contract |-> None, error |-> None]

(* v.error.get_or_insert_with: the first failure is kept. *)
WithError(v, e) == [v EXCEPT !.error = IF @ = None THEN e ELSE @]

(* summary_of; a missing verdict is pending. *)
Passes(v) == /\ v.sig_valid
             /\ v.tcb_status = "UpToDate"
             /\ v.approved # "false"
             /\ v.match # "false"
             /\ v.error = None

Summary(v) == IF v = None THEN "pending"
              ELSE IF Passes(v) THEN "verified" ELSE "failed"

(* build_verdict: what the card says of a verdict.  The card is loud when  *)
(* a facet failed; the TCB status is coloured on its own.                  *)
OnChain(v) == CASE v.approved = "true"  -> "approved"
                [] v.approved = "false" -> "not_approved"
                [] OTHER -> "not_applicable"

TcbClass(status) ==
    CASE status = "UpToDate" -> "good"
      [] status = None -> "bad"
      [] OTHER -> "warn"

VerdictView(pending, sig_valid, tcb_class, match, on_chain, contract, failing) ==
    [pending |-> pending, sig_valid |-> sig_valid, tcb_class |-> tcb_class,
     match |-> match, on_chain |-> on_chain, contract |-> contract, failing |-> failing]

BuildVerdict(v) ==
    IF v = None
    THEN VerdictView(TRUE, FALSE, "bad", "none", "not_applicable", None, FALSE)
    ELSE VerdictView(FALSE, v.sig_valid, TcbClass(v.tcb_status), v.match, OnChain(v), v.contract,
                     \/ ~v.sig_valid
                     \/ OnChain(v) = "not_approved"
                     \/ v.match = "false"
                     \/ v.error # None)

Failing(v) == BuildVerdict(v).failing

(* The registers on the card: those decoded from the verified quote, and   *)
(* until there are such, the ones the report claims.                       *)
DecodedRows(v) == IF v = None THEN None ELSE v.decoded

(* Mutant: the report's registers, when it has some. *)
RegistersClaimed(v, claimed) == IF claimed # None THEN claimed ELSE DecodedRows(v)

Registers(v, claimed) == IF DecodedRows(v) # None THEN DecodedRows(v) ELSE claimed
=============================================================================
