------------------------------ MODULE MCVerify ------------------------------
(* Certificates without a quote and with a TD, an SGX and a forged quote;  *)
(* two measurement sets, one of them in both cases.                        *)
EXTENDS Verify

CONSTANTS bad, td, sgx, forged, m1, m1upper, m2, none

CertDef   == {bad, td, sgx, forged}
QuoteDef  == {td, sgx, forged}
QuoteInDef == [c \in CertDef |-> IF c = bad THEN none ELSE c]
KindDef   == [q \in QuoteDef |-> CASE q = td -> "td" [] q = sgx -> "sgx" [] q = forged -> "forged"]
ClaimDef  == {m1, m1upper, m2}
FoldedDef == [m \in ClaimDef |-> IF m = m1upper THEN m1 ELSE m]
RegsDef   == [q \in QuoteDef |-> m1]
ListableDef == {<<"worker", "mainnet">>} \X Claim

Cvms(vm, certs, claims) ==
    [vm_id : {vm}, role : {"worker", "kms"}, network : {"mainnet", none},
     cert : certs, measurements : claims]

(* Every kind of CVM, alone. *)
OneCvm == {<<c>> : c \in Cvms(1, CertDef \cup {none}, ClaimDef \cup {none})}

(* Two CVMs, to see the order. *)
TwoCvms == Cvms(1, {none, td}, {none, m1}) \X Cvms(2, {none, td}, {none, m1})

ReportsDef == OneCvm \cup TwoCvms
=============================================================================
