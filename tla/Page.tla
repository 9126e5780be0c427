-------------------------------- MODULE Page --------------------------------
(***************************************************************************)
(* What the public pages show of a snapshot of the stored reports: the     *)
(* index (build_fleet_list) and the detail page of one app (render_app) of *)
(* server/src/page.rs, and the keystore that the stable link of a network  *)
(* leads to (find_keystore_app_id of server/src/main.rs).                  *)
(*                                                                         *)
(* A node is a stored report as a page sees it, [at, cvms, verdicts]; a    *)
(* CVM has its evidence, an app_id and a status.  Names, ages in words,    *)
(* and compose files are left out.                                         *)
(***************************************************************************)
EXTENDS Evidence, Integers, SequencesExt

CONSTANTS LiveFor, StaleFor     \* seconds; 600 and 3600

(* The elements of s that pass a test, in their order (Iterator::filter).  *)
Selected(s, Test(_)) ==
    FlattenSeq([i \in DOMAIN s |-> IF Test(s[i]) THEN <<s[i]>> ELSE <<>>])

(* An instance: a CVM with its own node's verdicts and second of arrival.  *)
Instances(nodes) ==
    FlattenSeq([i \in DOMAIN nodes |->
        [j \in DOMAIN nodes[i].cvms |->
            [cvm |-> nodes[i].cvms[j], verdicts |-> nodes[i].verdicts, at |-> nodes[i].at]]])

(* The first verdict with the CVM's vm_id; none while it is verified. *)
VerdictOf(x) ==
    LET i == SelectInSeq(x.verdicts, LAMBDA v : v.vm_id = x.cvm.vm_id)
    IN  IF i = 0 THEN None ELSE x.verdicts[i]

Chip(x) == Summary(VerdictOf(x))

-----------------------------------------------------------------------------
(* The index. *)

(* Mutant: only the latest group is looked at. *)
AddToLastGroup(groups, x) ==
    IF groups # <<>> /\ Last(groups)[1].cvm.app_id = x.cvm.app_id
    THEN [groups EXCEPT ![Len(groups)] = Append(@, x)]
    ELSE Append(groups, <<x>>)

(* group_by_app_global: apps, and the instances of each, as first seen. *)
AddToGroup(groups, x) ==
    LET k == SelectInSeq(groups, LAMBDA g : g[1].cvm.app_id = x.cvm.app_id)
    IN  IF k = 0 THEN Append(groups, <<x>>)
        ELSE [groups EXCEPT ![k] = Append(@, x)]

GroupByApp(nodes) == FoldLeft(AddToGroup, <<>>, Instances(nodes))

(* Mutant: what is still being verified does not count. *)
AggregateJudged(chips) == IF "failed" \in chips THEN "failed" ELSE "verified"

(* One failed instance makes the row red, one pending one grey. *)
Aggregate(chips) ==
    CASE "failed" \in chips -> "failed"
      [] "failed" \notin chips /\ ("pending" \in chips \/ chips = {}) -> "pending"
      [] OTHER -> "verified"

AggregateStatus(g) ==
    LET status  == {x.cvm.status : x \in ToSet(g)}
        running == Len(Selected(g, LAMBDA x : x.cvm.status = "running"))
    IN  IF status = {g[1].cvm.status} THEN g[1].cvm.status
        ELSE IF running > 0 THEN <<running, Len(g)>> ELSE "mixed"

AppRow(g) ==
    [app_id |-> g[1].cvm.app_id, role |-> g[1].cvm.role, network |-> g[1].cvm.network,
     instance_count |-> Len(g), status |-> AggregateStatus(g),
     chip |-> Aggregate({Chip(x) : x \in ToSet(g)})]

Rows(nodes) == LET groups == GroupByApp(nodes)
               IN  [i \in DOMAIN groups |-> AppRow(groups[i])]

Infrastructure(role) == role \in {"kms", "gateway", "unknown"}

(* Two lists: OutLayer's apps, and below them the infrastructure. *)
FleetList(nodes) ==
    [primary |-> Selected(Rows(nodes), LAMBDA r : ~Infrastructure(r.role)),
     infra   |-> Selected(Rows(nodes), LAMBDA r : Infrastructure(r.role))]

-----------------------------------------------------------------------------
(* The detail page. *)

Freshness(now, at) ==
    LET age == IF now < at THEN 0 ELSE now - at
    IN  IF age < LiveFor THEN "live" ELSE IF age < StaleFor THEN "stale" ELSE "dead"

(* The gateway's domain of an app is made from its app_id. *)
GatewayDomain(c) ==
    IF c.app_id # "" /\ c.role \in {"keystore", "worker"} THEN c.app_id ELSE None

(* The first card is unfolded, and every failing one. *)
Card(x, i, total, now) ==
    [vm_id |-> x.cvm.vm_id, index |-> i, total |-> total,
     role |-> x.cvm.role, network |-> x.cvm.network, status |-> x.cvm.status,
     gateway |-> GatewayDomain(x.cvm),
     verdict |-> BuildVerdict(VerdictOf(x)), chip |-> Chip(x),
     registers |-> Registers(VerdictOf(x), x.cvm.measurements),
     open |-> i = 1 \/ Failing(VerdictOf(x)),
     last_seen |-> Freshness(now, x.at)]

(* Mutant: an instance is listed when its verdict is there. *)
RenderJudged(app, now, nodes) ==
    LET found == Selected(Instances(nodes),
                          LAMBDA x : x.cvm.app_id = app /\ VerdictOf(x) # None)
    IN  IF app = "" THEN <<>>
        ELSE [i \in DOMAIN found |-> Card(found[i], i, Len(found), now)]

(* The cards of an app; none is a 404. *)
RenderApp(app, now, nodes) ==
    LET found == Selected(Instances(nodes), LAMBDA x : x.cvm.app_id = app)
    IN  IF app = "" THEN <<>>
        ELSE [i \in DOMAIN found |-> Card(found[i], i, Len(found), now)]

-----------------------------------------------------------------------------
(* The stable link. *)

(* Mutant: any network's keystore will do. *)
IsKeystoreAnywhere(c, net) == c.role = "keystore"

IsKeystore(c, net) == c.role = "keystore" /\ c.network = net

(* The last match of a report received last.  Reports come in the order of *)
(* a HashMap: of those received in the same second any may be it.          *)
KeystoresFound(nodes, net) ==
    LET matches(n) == Selected(n.cvms, LAMBDA c : IsKeystore(c, net))
        with == {n \in ToSet(nodes) : matches(n) # <<>>}
    IN  {Last(matches(n)).app_id : n \in {m \in with : \A o \in with : o.at <= m.at}}
=============================================================================
