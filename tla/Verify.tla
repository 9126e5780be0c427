------------------------------- MODULE Verify -------------------------------
(***************************************************************************)
(* The verification of one node report: verify_report and verify_cvm of    *)
(* server/src/verify.rs.  The CVMs are verified one after another; each    *)
(* verification waits twice, for the DCAP collateral from Intel's PCS and  *)
(* for the answer of a NEAR contract, and the world moves in between: TCB  *)
(* levels are recalled, measurements are approved and withdrawn, and both  *)
(* services come and go.  Quotes, collateral checks and the contract are   *)
(* external (see Evidence).                                                *)
(***************************************************************************)
EXTENDS Evidence, Sequences, Naturals

CONSTANTS
    Reports,      \* the reports, sequences of CVMs
    Listable      \* bound: the approvals that come and go

ASSUME VerifyAssumption ==
    /\ Reports \subseteq Seq(Cvm)
    /\ EvidenceTypes
    /\ Listable \subseteq Contract \X Claim

VARIABLES
    tcb,        \* the status Intel gives the platform
    listed,     \* contract and measurements, as is_measurements_approved knows them
    up,         \* the services that answer: "pcs", "rpc"
    report,     \* the report being verified
    at,         \* "next": about to take the next CVM, or what it waits for
    draft,      \* the verdict under construction
    verdicts    \* the verdicts so far

world == <<tcb, listed, up>>
task  == <<report, at, draft, verdicts>>
vars  == <<world, task>>

(* The CVM under verification. *)
Current == report[Len(verdicts) + 1]

-----------------------------------------------------------------------------
(* Mutant: the latest verdict is put first. *)
FinishInFront(v) ==
    /\ verdicts' = <<v>> \o verdicts
    /\ draft' = None
    /\ at' = "next"
    /\ UNCHANGED <<report, world>>

Finish(v) ==
    /\ verdicts' = Append(verdicts, v)
    /\ draft' = None
    /\ at' = "next"
    /\ UNCHANGED <<report, world>>

(* No certificate, or no quote in it. *)
NothingToVerify ==
    /\ at = "next" /\ Len(verdicts) < Len(report)
    /\ QuoteOf(Current) = None
    /\ Finish(WithError(NewVerdict(Current.vm_id), "no_quote"))

FetchCollateral ==
    /\ at = "next" /\ Len(verdicts) < Len(report)
    /\ QuoteOf(Current) # None
    /\ at' = "fetching"
    /\ draft' = NewVerdict(Current.vm_id)
    /\ UNCHANGED <<report, verdicts, world>>

(* Mutant: the fetch fails only on an answer, it never times out. *)
NoCollateralAnswered ==
    /\ at = "fetching"
    /\ "pcs" \in up
    /\ Finish(WithError(draft, "collateral"))

(* PCS is down, slow (its client times out), or answers with an error. *)
NoCollateral ==
    /\ at = "fetching"
    /\ Finish(WithError(draft, "collateral"))

(* dcap-qvl rejects: bad signature or chain, revoked TCB, stale collateral.*)
Rejected ==
    /\ at = "fetching" /\ "pcs" \in up
    /\ Finish(WithError(draft, "rejected"))

(* Mutant: claims are taken for what the quote says. *)
BoundUnchecked(v, c, q) ==
    IF c.measurements = None THEN v
    ELSE IF QuoteMeasurements(q) = None
    THEN WithError([v EXCEPT !.match = "false"], "not_td")
    ELSE [v EXCEPT !.match = "true"]

(* Mutant: what is not a TD is not compared. *)
BoundTdOnly(v, c, q) ==
    IF c.measurements = None \/ QuoteMeasurements(q) = None THEN v
    ELSE [v EXCEPT !.match = IF MeasurementsEq(QuoteMeasurements(q), c.measurements)
                             THEN "true" ELSE "false"]

(* The report's claims are compared with the quote's own registers. *)
Bound(v, c, q) ==
    IF c.measurements = None THEN v
    ELSE IF QuoteMeasurements(q) = None
    THEN WithError([v EXCEPT !.match = "false"], "not_td")
    ELSE [v EXCEPT !.match = IF MeasurementsEq(QuoteMeasurements(q), c.measurements)
                             THEN "true" ELSE "false"]

(* Mutant: the status is left to the collateral's checks. *)
SignedWithoutStatus(v, q) == [v EXCEPT !.sig_valid = TRUE, !.decoded = DecodeReport(q)]

Signed(v, q) == [v EXCEPT !.sig_valid = TRUE, !.tcb_status = tcb,
                          !.decoded = DecodeReport(q)]

(* Mutant: a missing claim passes the approval check without a word. *)
AcceptedQuietly ==
    LET c == Current
        q == QuoteOf(c)
        v == Bound(Signed(draft, q), c, q)
    IN  /\ at = "fetching" /\ "pcs" \in up
        /\ Kind[q] # "forged" /\ tcb # "Revoked"
        /\ IF ContractFor(c) = None \/ c.measurements = None THEN Finish(v)
           ELSE /\ draft' = [v EXCEPT !.contract = ContractFor(c)]
                /\ at' = "asking"
                /\ UNCHANGED <<report, verdicts, world>>

(* dcap-qvl accepts: a genuine quote whose TCB is not revoked.  Then the   *)
(* contract, if one applies, is asked about the claims.                    *)
Accepted ==
    LET c == Current
        q == QuoteOf(c)
        v == Bound(Signed(draft, q), c, q)
    IN  /\ at = "fetching" /\ "pcs" \in up
        /\ Kind[q] # "forged" /\ tcb # "Revoked"
        /\ IF ContractFor(c) = None THEN Finish(v)
           ELSE IF c.measurements = None
           THEN Finish(WithError([v EXCEPT !.contract = ContractFor(c)], "no_claims"))
           ELSE /\ draft' = [v EXCEPT !.contract = ContractFor(c)]
                /\ at' = "asking"
                /\ UNCHANGED <<report, verdicts, world>>

Answered ==
    /\ at = "asking" /\ "rpc" \in up
    /\ Finish([draft EXCEPT !.approved =
                  IF <<draft.contract, Current.measurements>> \in listed
                  THEN "true" ELSE "false"])

(* Mutant: the failed query is recorded and then tried again. *)
NoAnswerRetried ==
    /\ at = "asking"
    /\ verdicts' = Append(verdicts, WithError(draft, "rpc"))
    /\ UNCHANGED <<report, at, draft, world>>

(* Transport, decoding or contract error, or 15 s without an answer. *)
NoAnswer ==
    /\ at = "asking"
    /\ Finish(WithError(draft, "rpc"))

-----------------------------------------------------------------------------
(* The world. *)
TcbChanges    == tcb' \in TcbStatus /\ UNCHANGED <<listed, up, task>>
ListChanges   == /\ \E a \in Listable : listed' \in {listed \cup {a}, listed \ {a}}
                 /\ UNCHANGED <<tcb, up, task>>
ServiceChanges == up' \in SUBSET {"pcs", "rpc"} /\ UNCHANGED <<tcb, listed, task>>

Init ==
    /\ tcb = "UpToDate"
    /\ listed = {}
    /\ up = {"pcs", "rpc"}
    /\ report \in Reports
    /\ at = "next" /\ draft = None /\ verdicts = <<>>

Proceed == \/ NothingToVerify \/ FetchCollateral
           \/ NoCollateral \/ Rejected \/ Accepted
           \/ Answered \/ NoAnswer

Next == Proceed \/ TcbChanges \/ ListChanges \/ ServiceChanges

Spec == Init /\ [][Next]_vars

(* Every wait is bounded (RPC_TIMEOUT, dcap-qvl's own 180 s): the task is  *)
(* never stuck, whatever the services do.                                  *)
FairSpec == Spec /\ WF_vars(Proceed)

-----------------------------------------------------------------------------
(* Types; a verdict is under construction exactly while something is       *)
(* awaited, and it is that of the CVM next in order.                       *)
TypeOK ==
    /\ tcb \in TcbStatus /\ listed \subseteq Listable /\ up \subseteq {"pcs", "rpc"}
    /\ report \in Reports /\ at \in {"next", "fetching", "asking"}
    /\ verdicts \in Seq(Verdicts) /\ Len(verdicts) <= Len(report)
    /\ IF at = "next" THEN draft = None
       ELSE draft \in Verdicts /\ Len(verdicts) < Len(report) /\ draft.vm_id = Current.vm_id

(* A green chip is never wrong: when a verdict that summary_of calls       *)
(* verified is recorded, its quote was accepted as genuine and, where a    *)
(* contract applies, the registers in the quote itself -- not the report's *)
(* claims -- are on that contract's list at that moment.  This needs both  *)
(* the binding of step 4 and the query of step 5 of verify_cvm.            *)
Genuine(c) ==
    LET q == QuoteOf(c) IN
    /\ q # None /\ Kind[q] # "forged"
    /\ ContractFor(c) # None =>
           /\ Kind[q] = "td"
           /\ \E m \in Claim : /\ <<ContractFor(c), m>> \in listed
                               /\ Folded[m] = Folded[Regs[q]]
Judged == Len(verdicts') > Len(verdicts)
Newest == verdicts[Len(verdicts)]
GreenMeansGenuine == [][Judged /\ Passes(Newest') => Genuine(Current)]_vars

(* "Never a silent ok" (verify.rs:6): every verdict tells why it lacks a   *)
(* positive: an unverified quote, or an applicable approval that was not   *)
(* obtained, comes with an error, and only a report without claims leaves  *)
(* a verified quote uncompared.                                            *)
NoSilentOutcome ==
    \A i \in DOMAIN verdicts : Explained(verdicts[i], report[i])

(* What a card shows as registers is the report's own word only while the  *)
(* card is pending or says that something failed: the fallback of the page *)
(* is never taken for the quote's content (verify.rs:133-135).             *)
ClaimsAreMarked ==
    \A i \in DOMAIN verdicts :
        (DecodedRows(verdicts[i]) = None /\ Registers(verdicts[i], report[i].measurements) # None)
            => Failing(verdicts[i])

(* A card that says "approved", and of which nothing failed, shows the     *)
(* registers of this CVM's own quote, and they are the ones the contract   *)
(* was asked about, which are the report's.                                *)
ApprovedIsShown ==
    \A i \in DOMAIN verdicts :
        LET v == verdicts[i]
            c == report[i]
            card == BuildVerdict(v)
        IN  card.on_chain = "approved" /\ ~card.failing =>
                /\ card.contract = ContractFor(c)
                /\ c.measurements # None /\ QuoteOf(c) # None /\ Kind[QuoteOf(c)] = "td"
                /\ Registers(v, c.measurements) = Regs[QuoteOf(c)]
                /\ MeasurementsEq(Regs[QuoteOf(c)], c.measurements)

(* "The row chip and the detail card can never disagree" (page.rs:622), as *)
(* far as it goes: whenever the chip is red, the card is loud or its TCB   *)
(* badge warns, and only then.                                             *)
RedChipIsExplained ==
    \A i \in DOMAIN verdicts :
        Summary(verdicts[i]) = "failed" <=>
            \/ Failing(verdicts[i])
            \/ BuildVerdict(verdicts[i]).tcb_class = "warn"

(* The verification as a whole, with its two waits and whatever moves in   *)
(* between, is a Verification: verdicts are recorded one by one, each says *)
(* of its own CVM only what its quote and the contract's answer of that    *)
(* moment carry, and none is ever changed.                                 *)
Abstract == INSTANCE Verification
VerificationSpec == Abstract!Spec

(* Every CVM of the report gets its verdict, whatever PCS and RPC do. *)
ReportJudged == <>(Len(verdicts) = Len(report))

-----------------------------------------------------------------------------
(* What the comments promise and the code does not keep.                   *)

(* page.rs:620-623: the row chip and the detail card can never disagree.   *)
ChipAgreesWithCard ==
    \A i \in DOMAIN verdicts : (Summary(verdicts[i]) = "failed") <=> Failing(verdicts[i])
=============================================================================
