------------------------------ MODULE Evidence ------------------------------
(***************************************************************************)
(* What a CVM brings to its verification, and what a verdict may say of    *)
(* it.  A certificate carries a quote, or none; a quote has a kind and,    *)
(* when it is a TD's, registers, and beside it the report claims some.     *)
(* Quotes, claims and the contracts that approve them are external; what   *)
(* is taken out of a quote, and which contract is asked, is verify.rs's.   *)
(***************************************************************************)
EXTENDS Verdict, Naturals

CONSTANTS
    Cert, Quote,
    QuoteIn,      \* [Cert -> Quote or None], extract_quote_from_app_cert
    Kind,         \* [Quote -> {"td", "sgx", "forged"}]
    Claim,        \* measurement sets as written, in either case
    Folded,       \* [Claim -> Claim], ASCII case folded away
    Regs          \* [Quote -> Claim], the registers, written in lower case

Role    == {"worker", "keystore", "kms", "gateway", "unknown"}
Network == {"mainnet", "testnet"}
Contract == {"worker", "keystore"} \X Network
Cvm == [vm_id : Nat, role : Role, network : Network \cup {None},
        cert : Cert \cup {None}, measurements : Claim \cup {None}]

Errors == {"no_quote", "collateral", "rejected", "not_td", "no_claims", "rpc"}

Verdicts ==
    [vm_id : Nat, sig_valid : BOOLEAN, tcb_status : TcbStatus \cup {None},
     decoded : Claim \cup {None}, match : Tri, approved : Tri,
     contract : Contract \cup {None},
     error : Errors \cup {None}]

EvidenceTypes ==
    /\ QuoteIn \in [Cert -> Quote \cup {None}]
    /\ Kind \in [Quote -> {"td", "sgx", "forged"}]
    /\ Folded \in [Claim -> Claim] /\ Regs \in [Quote -> Claim]
    /\ None \notin Cert /\ None \notin Quote /\ None \notin Claim
    /\ None \notin Contract /\ None \notin Errors /\ None \notin TcbStatus
    /\ None \notin Verdicts

-----------------------------------------------------------------------------
(* A CVM's quote, and the contract that holds the approvals for its role   *)
(* and network (approval_contract).                                        *)
QuoteOf(c) == IF c.cert = None THEN None ELSE QuoteIn[c.cert]
ContractFor(c) == IF c.role \in {"worker", "keystore"} /\ c.network # None
                  THEN <<c.role, c.network>> ELSE None

(* decode_report and quote_measurements: a quote that is not a TD's has no *)
(* such registers.  They are written in lower case, claims in either.      *)
DecodeReport(q)      == IF Kind[q] = "td" THEN Regs[q] ELSE None
QuoteMeasurements(q) == IF Kind[q] = "td" THEN Regs[q] ELSE None
MeasurementsEq(a, b) == Folded[a] = Folded[b]

-----------------------------------------------------------------------------
(* What a verdict says of a CVM is so: a valid signature is of a genuine   *)
(* quote, whose registers it holds; a match is one of the claims with that *)
(* quote; an answer is that of the contract that applies, about claims     *)
(* that were compared; and claims pass without an error only beside a TD.  *)
Backed(v, c) ==
    LET q == QuoteOf(c) IN
    /\ v \in Verdicts /\ v.vm_id = c.vm_id
    /\ v.sig_valid => /\ q \in Quote /\ Kind[q] # "forged"
                      /\ v.tcb_status # None /\ v.decoded = DecodeReport(q)
    /\ v.match # "none" => v.sig_valid /\ c.measurements # None
    /\ v.match = "true" => Kind[q] = "td" /\ MeasurementsEq(Regs[q], c.measurements)
    /\ v.approved # "none" => /\ v.match # "none"
                              /\ ContractFor(c) # None /\ v.contract = ContractFor(c)
    /\ v.sig_valid /\ v.error = None /\ c.measurements # None => Kind[q] = "td"

(* What a verdict does not say is explained: an unverified quote, or an    *)
(* applicable approval that was not obtained, comes with an error, and     *)
(* only a report without claims leaves a verified quote uncompared.        *)
Explained(v, c) ==
    /\ ~v.sig_valid => v.error # None
    /\ ContractFor(c) # None /\ v.approved = "none" => v.error # None
    /\ v.sig_valid /\ v.match = "none" => c.measurements = None

Sound(v, c) == Backed(v, c) /\ Explained(v, c)
=============================================================================
