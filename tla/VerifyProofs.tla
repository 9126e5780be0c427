---------------------------- MODULE VerifyProofs ----------------------------
(***************************************************************************)
(* Proofs about Verify, for any reports, certificates and measurements,    *)
(* and whatever the world does between the two waits of a verification.    *)
(***************************************************************************)
EXTENDS Verify, TLAPS

Awaiting == at \in {"fetching", "asking"}

(* What the draft of a verification means while it waits: before the       *)
(* collateral is there it says nothing, and while a contract is asked it   *)
(* is backed by the quote, and the claims have been compared with it.      *)
DraftMeaning ==
    /\ Awaiting => Len(verdicts) < Len(report) /\ QuoteOf(Current) \in Quote
    /\ at = "fetching" => draft = NewVerdict(Current.vm_id)
    /\ at = "asking" =>
           /\ Backed(draft, Current) /\ draft.sig_valid
           /\ draft.match # "none" /\ draft.approved = "none"
           /\ ContractFor(Current) # None /\ draft.contract = ContractFor(Current)

AllSound == \A i \in DOMAIN verdicts : Sound(verdicts[i], report[i])

Inv == TypeOK /\ DraftMeaning /\ AllSound

LEMMA Types ==
  ASSUME Inv
  PROVE  /\ tcb \in TcbStatus /\ report \in Reports /\ report \in Seq(Cvm)
         /\ verdicts \in Seq(Verdicts) /\ Len(verdicts) \in Nat /\ Len(report) \in Nat
         /\ Awaiting => draft \in Verdicts /\ draft.vm_id = Current.vm_id
         /\ Len(verdicts) < Len(report) => Current \in Cvm /\ Current.vm_id \in Nat
<1>1. /\ tcb \in TcbStatus /\ report \in Reports /\ report \in Seq(Cvm)
      /\ verdicts \in Seq(Verdicts) /\ Len(verdicts) \in Nat /\ Len(report) \in Nat
      /\ Awaiting => draft \in Verdicts /\ draft.vm_id = Current.vm_id
  BY VerifyAssumption DEF Inv, TypeOK, Awaiting
<1>2. Len(verdicts) < Len(report) => Current \in Cvm
  BY <1>1 DEF Current
<1>3. QED
  BY <1>1, <1>2 DEF Cvm

LEMMA ContractType == \A c \in Cvm : ContractFor(c) \in Contract \cup {None}
  BY DEF ContractFor, Contract, Cvm

LEMMA QuoteType == \A c \in Cvm : QuoteOf(c) \in Quote \cup {None}
  BY VerifyAssumption DEF QuoteOf, Cvm, EvidenceTypes

LEMMA Absent ==
  /\ None \notin Quote /\ None \notin Claim /\ None \notin Contract
  /\ None \notin Errors /\ None \notin TcbStatus /\ None \notin Verdicts
  BY VerifyAssumption DEF EvidenceTypes

-----------------------------------------------------------------------------
(* Verdicts under construction.                                            *)
LEMMA NewType ==
  ASSUME NEW n \in Nat
  PROVE  NewVerdict(n) \in Verdicts
  BY DEF NewVerdict, Verdicts, Tri

(* An error that comes on top takes nothing away.                          *)
LEMMA ErrorOnTop ==
  ASSUME NEW v \in Verdicts, NEW e \in Errors
  PROVE  LET w == WithError(v, e)
         IN  /\ w \in Verdicts /\ w.error # None
             /\ w.vm_id = v.vm_id /\ w.sig_valid = v.sig_valid /\ w.match = v.match
             /\ w.tcb_status = v.tcb_status /\ w.decoded = v.decoded
             /\ w.approved = v.approved /\ w.contract = v.contract
  BY Absent DEF WithError, Verdicts

LEMMA BackedWithError ==
  ASSUME NEW v, NEW c, NEW e \in Errors, Backed(v, c)
  PROVE  Backed(WithError(v, e), c)
<1>1. v \in Verdicts
  BY DEF Backed
<1>2. QED
  BY <1>1, ErrorOnTop DEF Backed

(* Nothing has been shown, and it says why.                                *)
LEMMA FailedIsSound ==
  ASSUME NEW c, c.vm_id \in Nat, NEW e \in Errors
  PROVE  /\ Sound(WithError(NewVerdict(c.vm_id), e), c)
         /\ WithError(NewVerdict(c.vm_id), e).approved = "none"
<1> DEFINE n == NewVerdict(c.vm_id)
           v == WithError(n, e)
<1>1. /\ n \in Verdicts /\ n.vm_id = c.vm_id /\ n.sig_valid = FALSE
      /\ n.match = "none" /\ n.approved = "none"
  BY NewType DEF NewVerdict
<1> HIDE DEF n
<1>2. /\ v \in Verdicts /\ v.error # None /\ v.vm_id = c.vm_id /\ v.sig_valid = FALSE
      /\ v.match = "none" /\ v.approved = "none"
  BY <1>1, ErrorOnTop
<1> HIDE DEF v
<1>3. Sound(v, c)
  BY <1>2 DEF Sound, Backed, Explained
<1>4. QED
  BY <1>2, <1>3 DEF n, v

(* A genuine quote is accepted: the draft holds its registers, and the     *)
(* comparison with the claims if there are any.                            *)
LEMMA AcceptedDraft ==
  ASSUME Inv, at = "fetching", Kind[QuoteOf(Current)] # "forged",
         NEW v, v = Bound(Signed(draft, QuoteOf(Current)), Current, QuoteOf(Current))
  PROVE  /\ Backed(v, Current) /\ v.sig_valid = TRUE /\ v.approved = "none"
         /\ v.match = "none" <=> Current.measurements = None
<1> DEFINE c == Current
           q == QuoteOf(c)
           s == Signed(draft, q)
<1>1. /\ draft = NewVerdict(c.vm_id) /\ q \in Quote /\ Len(verdicts) < Len(report)
  BY DEF Inv, DraftMeaning, Awaiting
<1>2. c \in Cvm /\ c.vm_id \in Nat /\ tcb \in TcbStatus /\ draft \in Verdicts
  BY <1>1, Types, NewType
<1>3. DecodeReport(q) \in Claim \cup {None}
  BY <1>1, VerifyAssumption DEF DecodeReport, EvidenceTypes
<1>4. /\ s \in Verdicts /\ s.vm_id = c.vm_id /\ s.sig_valid = TRUE
      /\ s.match = "none" /\ s.approved = "none" /\ s.error = None
      /\ s.tcb_status # None /\ s.decoded = DecodeReport(q)
  <2>1. draft.vm_id = c.vm_id /\ draft.match = "none" /\ draft.approved = "none"
        /\ draft.error = None
    BY <1>1 DEF NewVerdict
  <2>2. QED
    BY <1>2, <1>3, <2>1, Absent DEF Signed, Verdicts
<1>5. v = Bound(s, c, q)
  OBVIOUS
<1>6. Kind[q] # "forged"
  OBVIOUS
<1> HIDE DEF c, q, s
<1>7. CASE c.measurements = None
  <2>1. v = s
    BY <1>5, <1>7 DEF Bound
  <2>2. QED
    BY <1>1, <1>4, <1>6, <1>7, <2>1 DEF Backed, c, q
<1>8. CASE c.measurements # None /\ Kind[q] # "td"
  <2> DEFINE w == [s EXCEPT !.match = "false"]
  <2>1. /\ w \in Verdicts /\ w.vm_id = s.vm_id /\ w.sig_valid = TRUE /\ w.match = "false"
        /\ w.approved = "none" /\ w.tcb_status # None /\ w.decoded = s.decoded
    BY <1>4 DEF Verdicts, Tri
  <2> HIDE DEF w
  <2>2. v = WithError(w, "not_td")
    BY <1>5, <1>8 DEF Bound, QuoteMeasurements, w
  <2>3. /\ v \in Verdicts /\ v.error # None /\ v.vm_id = c.vm_id /\ v.sig_valid = TRUE
        /\ v.match = "false" /\ v.approved = "none" /\ v.tcb_status # None
        /\ v.decoded = DecodeReport(q)
    BY <1>4, <2>1, <2>2, ErrorOnTop DEF Errors
  <2>4. QED
    BY <1>1, <1>6, <1>8, <2>3 DEF Backed, c, q
<1>9. CASE c.measurements # None /\ Kind[q] = "td"
  <2>1. QuoteMeasurements(q) = Regs[q] /\ Regs[q] # None
    BY <1>1, <1>9, VerifyAssumption DEF QuoteMeasurements, EvidenceTypes
  <2>2. v = [s EXCEPT !.match = IF MeasurementsEq(Regs[q], c.measurements)
                                THEN "true" ELSE "false"]
    BY <1>5, <1>9, <2>1 DEF Bound
  <2>3. /\ v \in Verdicts /\ v.vm_id = c.vm_id /\ v.sig_valid = TRUE /\ v.approved = "none"
        /\ v.tcb_status # None /\ v.decoded = DecodeReport(q)
        /\ v.match \in {"true", "false"}
        /\ v.match = "true" => MeasurementsEq(Regs[q], c.measurements)
    BY <1>4, <2>2 DEF Verdicts, Tri
  <2>4. QED
    BY <1>1, <1>6, <1>9, <2>3 DEF Backed, c, q
<1>10. QED
  BY <1>7, <1>8, <1>9 DEF c

-----------------------------------------------------------------------------
(* The steps of the task: a verdict is recorded, or a wait begins.         *)
Recorded(v) ==
    /\ Len(verdicts) < Len(report)
    /\ Finish(v)
    /\ Sound(v, Current)
    /\ v.approved # "none" =>
           (v.approved = "true" <=> <<ContractFor(Current), Current.measurements>> \in listed)

Waits ==
    /\ UNCHANGED <<report, verdicts, world>>
    /\ at' \in {"fetching", "asking"} /\ draft' \in Verdicts
    /\ draft'.vm_id = Current.vm_id /\ Len(verdicts) < Len(report)
    /\ QuoteOf(Current) \in Quote
    /\ at' = "fetching" => draft' = NewVerdict(Current.vm_id)
    /\ at' = "asking" =>
           /\ Backed(draft', Current) /\ draft'.sig_valid
           /\ draft'.match # "none" /\ draft'.approved = "none"
           /\ ContractFor(Current) # None /\ draft'.contract = ContractFor(Current)

LEMMA Steps ==
  ASSUME Inv, Proceed
  PROVE  Waits \/ \E v : Recorded(v)
<1>0. /\ Awaiting => draft \in Verdicts /\ Len(verdicts) < Len(report)
      /\ Len(verdicts) < Len(report) => Current \in Cvm /\ Current.vm_id \in Nat
  BY Types DEF Inv, DraftMeaning
<1>1. CASE NothingToVerify
  <2> DEFINE v == WithError(NewVerdict(Current.vm_id), "no_quote")
  <2>1. Sound(v, Current) /\ v.approved = "none"
    BY <1>0, <1>1, FailedIsSound DEF NothingToVerify, Errors
  <2>2. Recorded(v)
    BY <1>1, <2>1 DEF Recorded, NothingToVerify
  <2>3. QED
    BY <2>2
<1>2. CASE FetchCollateral
  <2>1. NewVerdict(Current.vm_id) \in Verdicts /\ QuoteOf(Current) \in Quote
        /\ NewVerdict(Current.vm_id).vm_id = Current.vm_id
    BY <1>0, <1>2, NewType, QuoteType DEF FetchCollateral, NewVerdict
  <2>2. QED
    BY <1>2, <2>1 DEF FetchCollateral, Waits
<1>3. CASE NoCollateral \/ Rejected
  <2>1. PICK e \in Errors : Finish(WithError(draft, e))
    BY <1>3 DEF NoCollateral, Rejected, Errors
  <2>2. draft = NewVerdict(Current.vm_id) /\ Len(verdicts) < Len(report)
    BY <1>0, <1>3 DEF NoCollateral, Rejected, Awaiting, Inv, DraftMeaning
  <2> DEFINE v == WithError(draft, e)
  <2>3. Sound(v, Current) /\ v.approved = "none"
    BY <1>0, <2>2, FailedIsSound
  <2>4. Recorded(v)
    BY <2>1, <2>2, <2>3 DEF Recorded
  <2>5. QED
    BY <2>4
<1>4. CASE Accepted
  <2> DEFINE v == Bound(Signed(draft, QuoteOf(Current)), Current, QuoteOf(Current))
             w == [v EXCEPT !.contract = ContractFor(Current)]
             x == WithError(w, "no_claims")
  <2>1. /\ Backed(v, Current) /\ v.sig_valid = TRUE /\ v.approved = "none"
        /\ v.match = "none" <=> Current.measurements = None
    BY <1>4, AcceptedDraft DEF Accepted
  <2>2. /\ Current \in Cvm /\ Len(verdicts) < Len(report) /\ QuoteOf(Current) \in Quote
    BY <1>0, <1>4 DEF Accepted, Awaiting, Inv, DraftMeaning
  <2>3. v \in Verdicts
    BY <2>1 DEF Backed
  <2> HIDE DEF v
  <2>4. /\ w \in Verdicts /\ w.vm_id = v.vm_id /\ w.sig_valid = v.sig_valid
        /\ w.match = v.match /\ w.approved = v.approved /\ w.tcb_status = v.tcb_status
        /\ w.decoded = v.decoded /\ w.error = v.error /\ w.contract = ContractFor(Current)
    BY <2>2, <2>3, ContractType DEF Verdicts
  <2> HIDE DEF w
  <2>5. Backed(w, Current) /\ w.sig_valid = TRUE /\ w.approved = "none"
    BY <2>1, <2>4 DEF Backed
  <2>6. Backed(x, Current) /\ x.error # None /\ x.match = w.match /\ x.approved = "none"
        /\ x.sig_valid = TRUE
    BY <2>4, <2>5, BackedWithError, ErrorOnTop DEF Errors
  <2> HIDE DEF x
  <2>7. CASE ContractFor(Current) = None /\ Finish(v)
    <3>1. Sound(v, Current)
      BY <2>1, <2>7 DEF Sound, Explained
    <3>2. Recorded(v)
      BY <2>1, <2>2, <2>7, <3>1 DEF Recorded
    <3>3. QED
      BY <3>2
  <2>8. CASE Current.measurements = None /\ Finish(x)
    <3>1. Sound(x, Current)
      BY <2>6, <2>8 DEF Sound, Explained
    <3>2. Recorded(x)
      BY <2>2, <2>6, <2>8, <3>1 DEF Recorded
    <3>3. QED
      BY <3>2
  <2>9. CASE /\ ContractFor(Current) # None /\ Current.measurements # None
             /\ draft' = w /\ at' = "asking" /\ UNCHANGED <<report, verdicts, world>>
    <3>1. w.vm_id = Current.vm_id
      BY <2>1, <2>4 DEF Backed
    <3>2. QED
      BY <2>1, <2>2, <2>4, <2>5, <2>9, <3>1 DEF Waits
  <2>10. QED
    BY <1>4, <2>7, <2>8, <2>9 DEF Accepted, v, w, x
<1>5. CASE Answered
  <2> DEFINE c == Current
             t == IF <<draft.contract, c.measurements>> \in listed THEN "true" ELSE "false"
             v == [draft EXCEPT !.approved = t]
  <2>1. /\ draft \in Verdicts /\ draft.sig_valid /\ draft.match # "none" /\ Backed(draft, c)
        /\ ContractFor(c) # None /\ draft.contract = ContractFor(c)
        /\ Len(verdicts) < Len(report)
    BY <1>0, <1>5 DEF Answered, Awaiting, Inv, DraftMeaning
  <2>2. /\ v \in Verdicts /\ v.vm_id = draft.vm_id /\ v.sig_valid = draft.sig_valid
        /\ v.match = draft.match /\ v.approved = t /\ v.tcb_status = draft.tcb_status
        /\ v.decoded = draft.decoded /\ v.error = draft.error /\ v.contract = draft.contract
    BY <2>1 DEF Verdicts, Tri
  <2>3. Finish(v)
    BY <1>5 DEF Answered
  <2>4. t # "none" /\ (t = "true" <=> <<ContractFor(c), c.measurements>> \in listed)
    BY <2>1
  <2> HIDE DEF v, t, c
  <2>5. Sound(v, c)
    BY <2>1, <2>2, <2>4 DEF Sound, Backed, Explained
  <2>6. Recorded(v)
    BY <2>1, <2>2, <2>3, <2>4, <2>5 DEF Recorded, c
  <2>7. QED
    BY <2>6
<1>6. CASE NoAnswer
  <2> DEFINE v == WithError(draft, "rpc")
  <2>1. /\ draft \in Verdicts /\ Backed(draft, Current) /\ draft.match # "none"
        /\ draft.approved = "none" /\ Len(verdicts) < Len(report)
    BY <1>0, <1>6 DEF NoAnswer, Awaiting, Inv, DraftMeaning
  <2>2. Backed(v, Current) /\ v.error # None /\ v.match # "none" /\ v.approved = "none"
    BY <2>1, BackedWithError, ErrorOnTop DEF Errors
  <2>3. Finish(v)
    BY <1>6 DEF NoAnswer
  <2> HIDE DEF v
  <2>4. Recorded(v)
    BY <2>1, <2>2, <2>3 DEF Recorded, Sound, Explained, Backed
  <2>5. QED
    BY <2>4
<1>7. QED
  BY <1>1, <1>2, <1>3, <1>4, <1>5, <1>6 DEF Proceed

(* What a recorded verdict leaves behind.                                  *)
LEMMA AfterRecorded ==
  ASSUME Inv, NEW v, Recorded(v)
  PROVE  /\ v \in Verdicts /\ verdicts' = Append(verdicts, v) /\ verdicts' \in Seq(Verdicts)
         /\ Len(verdicts') = Len(verdicts) + 1 /\ verdicts'[Len(verdicts) + 1] = v
         /\ \A i \in 1 .. Len(verdicts) : verdicts'[i] = verdicts[i]
         /\ UNCHANGED <<report, tcb, listed, up>> /\ draft' = None /\ at' = "next"
<1>1. /\ v \in Verdicts /\ verdicts' = Append(verdicts, v)
      /\ UNCHANGED <<report, tcb, listed, up>> /\ draft' = None /\ at' = "next"
  BY DEF Recorded, Finish, Sound, Backed, world
<1>2. verdicts \in Seq(Verdicts)
  BY Types
<1>3. QED
  BY <1>1, <1>2

LEMMA InvInit == Init => Inv
<1> SUFFICES ASSUME Init PROVE Inv
  OBVIOUS
<1>1. Len(report) \in Nat /\ Len(verdicts) = 0 /\ verdicts \in Seq(Verdicts)
      /\ DOMAIN verdicts = {}
  BY VerifyAssumption DEF Init
<1>2. QED
  BY <1>1 DEF Init, Inv, TypeOK, DraftMeaning, AllSound, Awaiting, TcbStatus

LEMMA InvStep == Inv /\ [Next]_vars => Inv'
<1> SUFFICES ASSUME Inv, [Next]_vars PROVE Inv'
  OBVIOUS
<1>0. /\ report \in Reports /\ verdicts \in Seq(Verdicts)
      /\ Len(verdicts) \in Nat /\ Len(report) \in Nat
  BY Types
<1>1. ASSUME NEW v, Recorded(v) PROVE Inv'
  <2>1. /\ v \in Verdicts /\ verdicts' \in Seq(Verdicts)
        /\ Len(verdicts') = Len(verdicts) + 1 /\ verdicts'[Len(verdicts) + 1] = v
        /\ \A i \in 1 .. Len(verdicts) : verdicts'[i] = verdicts[i]
        /\ UNCHANGED <<report, tcb, listed, up>> /\ draft' = None /\ at' = "next"
    BY <1>1, AfterRecorded
  <2>2. Sound(v, Current) /\ Len(verdicts) < Len(report)
    BY <1>1 DEF Recorded
  <2>3. TypeOK'
    BY <1>0, <2>1, <2>2 DEF Inv, TypeOK
  <2>4. DraftMeaning'
    BY <2>1 DEF DraftMeaning, Awaiting
  <2>5. ASSUME NEW i \in 1 .. Len(verdicts) + 1 PROVE Sound(verdicts'[i], report[i])
    <3>1. CASE i = Len(verdicts) + 1
      BY <2>1, <2>2, <3>1 DEF Current
    <3>2. CASE i # Len(verdicts) + 1
      <4>1. i \in DOMAIN verdicts /\ verdicts'[i] = verdicts[i]
        BY <1>0, <2>1, <3>2
      <4>2. QED
        BY <4>1 DEF Inv, AllSound
    <3>3. QED
      BY <3>1, <3>2
  <2>6. DOMAIN verdicts' = 1 .. Len(verdicts) + 1
    BY <1>0, <2>1
  <2>7. AllSound'
    BY <2>1, <2>5, <2>6 DEF AllSound
  <2>8. QED
    BY <2>3, <2>4, <2>7 DEF Inv
<1>2. CASE Waits
  <2>1. UNCHANGED <<report, verdicts, tcb, listed, up>> /\ Current' = Current
    BY <1>2 DEF Waits, world, Current
  <2>2. TypeOK'
    BY <1>2, <2>1 DEF Waits, Inv, TypeOK
  <2>3. DraftMeaning'
    BY <1>2, <2>1 DEF Waits, DraftMeaning, Awaiting
  <2>4. AllSound'
    BY <2>1 DEF Inv, AllSound
  <2>5. QED
    BY <2>2, <2>3, <2>4 DEF Inv
<1>3. CASE TcbChanges \/ ListChanges \/ ServiceChanges \/ UNCHANGED vars
  <2>1. UNCHANGED <<report, at, draft, verdicts>> /\ Current' = Current
    BY <1>3 DEF TcbChanges, ListChanges, ServiceChanges, vars, task, Current
  <2>2. tcb' \in TcbStatus /\ listed' \subseteq Listable /\ up' \subseteq {"pcs", "rpc"}
    BY <1>3 DEF TcbChanges, ListChanges, ServiceChanges, vars, world, Inv, TypeOK
  <2>3. QED
    BY <2>1, <2>2 DEF Inv, TypeOK, DraftMeaning, AllSound, Awaiting
<1>4. QED
  BY <1>1, <1>2, <1>3, Steps DEF Next

LEMMA AlwaysInv == Spec => []Inv
  BY InvInit, InvStep, PTL DEF Spec

(* Types, and the verdict under construction is always that of the CVM     *)
(* next in order.                                                          *)
THEOREM TypeCorrect == Spec => []TypeOK
<1>1. Inv => TypeOK
  BY DEF Inv
<1>2. QED
  BY AlwaysInv, <1>1, PTL

-----------------------------------------------------------------------------
(* Both modules mean the same by sound.                                    *)
LEMMA SameSound ==
  /\ \A c : Abstract!ContractFor(c) = ContractFor(c)
  /\ \A v, c : Abstract!Sound(v, c) <=> Sound(v, c)
<1>1. /\ \A c : Abstract!ContractFor(c) = ContractFor(c)
      /\ \A c : Abstract!QuoteOf(c) = QuoteOf(c)
      /\ \A q : Abstract!DecodeReport(q) = DecodeReport(q)
      /\ \A m, n : Abstract!MeasurementsEq(m, n) <=> MeasurementsEq(m, n)
      /\ Abstract!Verdicts = Verdicts
  BY DEF Abstract!ContractFor, ContractFor, Abstract!QuoteOf, QuoteOf,
         Abstract!DecodeReport, DecodeReport, Abstract!MeasurementsEq, MeasurementsEq,
         Abstract!Verdicts, Verdicts, Abstract!Contract, Contract, Abstract!Network, Network,
         Abstract!Errors, Errors, Abstract!TcbStatus, TcbStatus, Abstract!Tri, Tri
<1>2. \A v, c : Abstract!Backed(v, c) <=> Backed(v, c)
  BY <1>1 DEF Abstract!Backed, Backed
<1>3. \A v, c : Abstract!Explained(v, c) <=> Explained(v, c)
  BY <1>1 DEF Abstract!Explained, Explained
<1>4. QED
  BY <1>1, <1>2, <1>3 DEF Abstract!Sound, Sound

(* Verify implements Verification: its waits, and whatever moves during    *)
(* them, are invisible, and every verdict is recorded in order, sound, and *)
(* with the contract's answer of that moment (verify.rs:204-314).          *)
THEOREM VerifyImplementsVerification == Spec => VerificationSpec
<1>1. Init => Abstract!Init
  BY DEF Init, Abstract!Init
<1>2. Inv /\ [Next]_vars => [Abstract!Next]_<<report, listed, verdicts>>
  <2> SUFFICES ASSUME Inv, [Next]_vars
               PROVE  [Abstract!Next]_<<report, listed, verdicts>>
    OBVIOUS
  <2>1. ASSUME NEW v, Recorded(v) PROVE Abstract!Record
    <3>1. /\ verdicts' = Append(verdicts, v) /\ Len(verdicts') = Len(verdicts) + 1
          /\ verdicts'[Len(verdicts) + 1] = v /\ UNCHANGED <<report, listed>>
          /\ Len(verdicts) \in Nat /\ Len(report) \in Nat
      BY <2>1, AfterRecorded, Types
    <3>2. Len(verdicts) + 1 <= Len(report)
      BY <2>1, <3>1 DEF Recorded
    <3>3. Sound(v, report[Len(verdicts) + 1])
      BY <2>1 DEF Recorded, Current
    <3>4. v.approved # "none" =>
             (v.approved = "true" <=> <<ContractFor(report[Len(verdicts) + 1]),
                                        report[Len(verdicts) + 1].measurements>> \in listed)
      BY <2>1 DEF Recorded, Current
    <3>5. QED
      BY <3>1, <3>2, <3>3, <3>4, SameSound DEF Abstract!Record
  <2>2. CASE Waits
    BY <2>2 DEF Waits, world
  <2>3. CASE ListChanges
    BY <2>3 DEF ListChanges, task, Abstract!ListChanges, Abstract!Next
  <2>4. CASE TcbChanges \/ ServiceChanges \/ UNCHANGED vars
    BY <2>4 DEF TcbChanges, ServiceChanges, vars, world, task
  <2>5. QED
    BY <2>1, <2>2, <2>3, <2>4, Steps DEF Next, Abstract!Next
<1>3. QED
  BY AlwaysInv, <1>1, <1>2, PTL DEF Spec, VerificationSpec, Abstract!Spec

-----------------------------------------------------------------------------
(* What a sound verdict means that passes: where a contract applies, it    *)
(* was asked about the registers of the quote itself.                      *)
LEMMA PassingIsGenuine ==
  ASSUME NEW v, NEW c, Sound(v, c), Passes(v)
  PROVE  /\ QuoteOf(c) \in Quote /\ Kind[QuoteOf(c)] # "forged"
         /\ ContractFor(c) # None =>
                /\ v.approved = "true" /\ Kind[QuoteOf(c)] = "td"
                /\ c.measurements # None
                /\ MeasurementsEq(Regs[QuoteOf(c)], c.measurements)
<1>1. /\ v.sig_valid /\ v.error = None /\ v.match # "false" /\ v.approved # "false"
      /\ v.match \in Tri /\ v.approved \in Tri
  BY DEF Passes, Sound, Backed, Verdicts
<1>2. QED
  BY <1>1 DEF Sound, Backed, Explained, Tri

(* A verdict that turns a chip green is about a genuine quote whose own    *)
(* registers the applicable contract approves as the verdict is recorded,  *)
(* for every report and however the world moves during the verification    *)
(* (verify.rs:206-304, page.rs:624-636).                                   *)
THEOREM GreenMeansGenuineTheorem == Spec => GreenMeansGenuine
<1>1. Inv /\ [Next]_vars => [Judged /\ Passes(Newest') => Genuine(Current)]_vars
  <2> SUFFICES ASSUME Inv, [Next]_vars, Judged, Passes(Newest') PROVE Genuine(Current)
    OBVIOUS
  <2>1. ~ UNCHANGED verdicts
    BY Types DEF Judged
  <2>2. PICK v : Recorded(v)
    BY <2>1, Steps DEF Next, Waits, TcbChanges, ListChanges, ServiceChanges, vars, task
  <2>3. Newest' = v
    BY <2>2, AfterRecorded, Types DEF Newest
  <2>4. /\ Sound(v, Current) /\ Len(verdicts) < Len(report)
        /\ v.approved = "true" => <<ContractFor(Current), Current.measurements>> \in listed
    BY <2>2 DEF Recorded
  <2>5. /\ QuoteOf(Current) \in Quote /\ Kind[QuoteOf(Current)] # "forged"
        /\ ContractFor(Current) # None =>
               /\ v.approved = "true" /\ Kind[QuoteOf(Current)] = "td"
               /\ Current.measurements # None
               /\ MeasurementsEq(Regs[QuoteOf(Current)], Current.measurements)
    BY <2>3, <2>4, PassingIsGenuine
  <2>6. Current.measurements \in Claim \cup {None}
    BY <2>4, Types DEF Cvm
  <2>7. QED
    BY <2>4, <2>5, <2>6, Absent DEF Genuine, MeasurementsEq
<1>2. QED
  BY AlwaysInv, <1>1, PTL DEF Spec, GreenMeansGenuine

(* No verdict lacks a positive without saying why (verify.rs:4-7).         *)
THEOREM NoSilentOutcomeTheorem == Spec => []NoSilentOutcome
<1>1. Inv => NoSilentOutcome
  BY DEF Inv, AllSound, Sound, NoSilentOutcome
<1>2. QED
  BY AlwaysInv, <1>1, PTL

(* Every recorded verdict is sound, and of its type.                       *)
LEMMA SoundVerdict ==
  ASSUME Inv, NEW i \in DOMAIN verdicts
  PROVE  /\ verdicts[i] \in Verdicts /\ verdicts[i] # None
         /\ Sound(verdicts[i], report[i])
  BY Absent DEF Inv, AllSound, Sound, Backed

(* The page never shows the report's claims as if they had been verified:  *)
(* a finished card without the quote's registers is a failing one          *)
(* (verify.rs:264-278, page.rs:577-606).                                   *)
THEOREM ClaimsAreMarkedTheorem == Spec => []ClaimsAreMarked
<1>1. Inv => ClaimsAreMarked
  <2> SUFFICES ASSUME Inv, NEW i \in DOMAIN verdicts,
                      DecodedRows(verdicts[i]) = None,
                      Registers(verdicts[i], report[i].measurements) # None
               PROVE  Failing(verdicts[i])
    BY DEF ClaimsAreMarked
  <2> DEFINE v == verdicts[i]
             c == report[i]
  <2>1. v \in Verdicts /\ v # None /\ Sound(v, c)
    BY SoundVerdict
  <2>2. c.measurements # None
    BY DEF Registers
  <2>3. v.decoded = None
    BY <2>1 DEF DecodedRows
  <2>4. v.sig_valid /\ v.error = None => FALSE
    <3>1. \A q \in Quote : Regs[q] # None
      BY VerifyAssumption, Absent DEF EvidenceTypes
    <3>2. QED
      BY <2>1, <2>2, <2>3, <3>1 DEF Sound, Backed, DecodeReport
  <2> HIDE DEF v
  <2>5. Failing(v)
    BY <2>1, <2>2, <2>4 DEF Failing, BuildVerdict, VerdictView
  <2>6. QED
    BY <2>5 DEF v
<1>2. QED
  BY AlwaysInv, <1>1, PTL

(* A card that says "approved" and is not loud shows the registers of its  *)
(* own CVM's quote, and they are the report's, which the contract approved *)
(* (verify.rs:264-301, page.rs:577-618).                                   *)
THEOREM ApprovedIsShownTheorem == Spec => []ApprovedIsShown
<1>1. Inv => ApprovedIsShown
  <2> SUFFICES ASSUME Inv, NEW i \in DOMAIN verdicts,
                      BuildVerdict(verdicts[i]).on_chain = "approved",
                      ~BuildVerdict(verdicts[i]).failing
               PROVE  /\ BuildVerdict(verdicts[i]).contract = ContractFor(report[i])
                      /\ report[i].measurements # None
                      /\ QuoteOf(report[i]) # None /\ Kind[QuoteOf(report[i])] = "td"
                      /\ Registers(verdicts[i], report[i].measurements) = Regs[QuoteOf(report[i])]
                      /\ MeasurementsEq(Regs[QuoteOf(report[i])], report[i].measurements)
    BY DEF ApprovedIsShown
  <2> DEFINE v == verdicts[i]
             c == report[i]
  <2>1. v \in Verdicts /\ Sound(v, c) /\ v # None
    BY SoundVerdict
  <2> HIDE DEF v, c
  <2>2. /\ BuildVerdict(v).on_chain = OnChain(v) /\ BuildVerdict(v).contract = v.contract
        /\ BuildVerdict(v).failing = (\/ ~v.sig_valid \/ OnChain(v) = "not_approved"
                                      \/ v.match = "false" \/ v.error # None)
    BY <2>1 DEF BuildVerdict, VerdictView
  <2>3. OnChain(v) = "approved" /\ v.match # "false"
    BY <2>2 DEF v
  <2>4. v.approved = "true" /\ v.match \in Tri
    BY <2>1, <2>3 DEF OnChain, Verdicts, Tri
  <2>5. v.match = "true"
    BY <2>1, <2>3, <2>4 DEF Sound, Backed, Tri
  <2>6. /\ v.contract = ContractFor(c) /\ c.measurements # None
        /\ QuoteOf(c) \in Quote /\ Kind[QuoteOf(c)] = "td"
        /\ v.decoded = Regs[QuoteOf(c)] /\ MeasurementsEq(Regs[QuoteOf(c)], c.measurements)
    BY <2>1, <2>4, <2>5 DEF Sound, Backed, DecodeReport
  <2>7. Regs[QuoteOf(c)] # None /\ QuoteOf(c) # None
    BY <2>6, VerifyAssumption, Absent DEF EvidenceTypes
  <2>8. Registers(v, c.measurements) = Regs[QuoteOf(c)]
    BY <2>1, <2>6, <2>7 DEF Registers, DecodedRows
  <2>9. QED
    BY <2>2, <2>6, <2>7, <2>8 DEF v, c
<1>2. QED
  BY AlwaysInv, <1>1, PTL

(* Chip and card differ by the TCB badge and nothing else (page.rs:622).   *)
THEOREM RedChipIsExplainedTheorem == Spec => []RedChipIsExplained
<1>1. Inv => RedChipIsExplained
  <2> SUFFICES ASSUME Inv, NEW i \in DOMAIN verdicts
               PROVE  Summary(verdicts[i]) = "failed" <=>
                          \/ Failing(verdicts[i])
                          \/ BuildVerdict(verdicts[i]).tcb_class = "warn"
    BY DEF RedChipIsExplained
  <2> DEFINE v == verdicts[i]
  <2>1. v \in Verdicts /\ Sound(v, report[i]) /\ v # None
    BY SoundVerdict
  <2> HIDE DEF v
  <2>2. Summary(v) = "failed" <=> ~Passes(v)
    BY <2>1 DEF Summary
  <2>3. Failing(v) <=> \/ ~v.sig_valid \/ v.approved = "false"
                       \/ v.match = "false" \/ v.error # None
    BY <2>1 DEF Failing, BuildVerdict, VerdictView, OnChain
  <2>4. BuildVerdict(v).tcb_class = "warn" <=> v.tcb_status \notin {"UpToDate", None}
    BY <2>1 DEF BuildVerdict, VerdictView, TcbClass
  <2>5. v.sig_valid => v.tcb_status # None
    BY <2>1 DEF Sound, Backed
  <2>6. QED
    BY <2>2, <2>3, <2>4, <2>5 DEF Passes, v
<1>2. QED
  BY AlwaysInv, <1>1, PTL
=============================================================================
