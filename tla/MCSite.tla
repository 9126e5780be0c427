------------------------------- MODULE MCSite -------------------------------
(* Node n1 runs a worker and the mainnet keystore; between its two pushes  *)
(* the keystore is redeployed: the new app comes up and the old CVM stays, *)
(* stopped.  Node n2 runs a second worker of the same app, rejected, and a *)
(* CVM whose app_id is not known.  p4 carries no token.                    *)
EXTENDS Site

CONSTANTS n1, n2, p1, p2, p3, p4, none

NodeOfDef == [p \in Push |-> IF p = p3 THEN n2 ELSE n1]
ForwardClock == {1}
SaverDef  == Push \X {"ingest", "verify"}
MapDef    == [Node -> [push : Push, at : Time, verdicts : Push \cup {none}] \cup {none}]
EmptyMapDef == [n \in Node |-> none]
SizeDef(m) == 1
NodeOrderDef == <<n1, n2>>

(* Quotes carry their number as registers, which claims write in upper     *)
(* case, ten above.  Certificate 4 has an SGX quote, 5 a forged one; the   *)
(* worker of n1 comes back with another quote.  A stopped CVM has none.    *)
Numbers   == 1 .. 6
QuoteInDef == [c \in Numbers |-> c]
KindDef   == [q \in Numbers |-> CASE q = 4 -> "sgx" [] q = 5 -> "forged" [] OTHER -> "td"]
ClaimDef  == 0 .. 16
FoldedDef == [m \in ClaimDef |-> m % 10]
RegsDef   == [q \in Numbers |-> q]

Vm(id, app, role, cert) ==
    [vm_id |-> id, app_id |-> app, role |-> role, network |-> "mainnet",
     status |-> IF cert = none THEN "stopped" ELSE "running", cert |-> cert,
     measurements |-> IF cert \in {none, 4} THEN none ELSE cert + 10]

Report == [p \in Push |->
    CASE p = p1 -> <<Vm(1, "worker", "worker", 1), Vm(2, "old", "keystore", 2)>>
      [] p = p2 -> <<Vm(1, "worker", "worker", 6), Vm(3, "new", "keystore", 3),
                     Vm(2, "old", "keystore", none)>>
      [] p = p3 -> <<Vm(4, "", "gateway", 4), Vm(5, "worker", "worker", 5)>>
      [] OTHER  -> <<>>]

(* What verify_report finds. *)
Outcome(c) ==
    LET new == NewVerdict(c.vm_id)
        signed == [new EXCEPT !.sig_valid = TRUE, !.tcb_status = "UpToDate"]
    IN  CASE c.cert = none -> WithError(new, "no_quote")
          [] c.cert = 4 -> signed
          [] c.cert = 5 -> WithError(new, "rejected")
          [] OTHER -> [signed EXCEPT !.decoded = Regs[c.cert], !.match = "true",
                                     !.approved = "true", !.contract = ContractFor(c)]
Outcomes == [p \in Push |-> [i \in DOMAIN Report[p] |-> Outcome(Report[p][i])]]
=============================================================================
