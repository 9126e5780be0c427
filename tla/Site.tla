-------------------------------- MODULE Site --------------------------------
(***************************************************************************)
(* The public site of server/src/main.rs: a visitor of the index, of the   *)
(* detail pages, of a network's stable keystore link and of the API, while *)
(* the portal receives reports, judges them and restarts.  Every request   *)
(* is answered from the map as it is at that moment (snapshot_reports);    *)
(* what it shows or links to may be gone when the next request is made.    *)
(***************************************************************************)
EXTENDS Portal, FiniteSets

CONSTANTS
    LiveFor, StaleFor,
    CvmsOf,       \* [Push -> sequence of CVMs], the report
    VerdictsOf,   \* [Push -> sequence of verdicts], what verify_report finds
    NodeOrder,    \* the nodes, sorted by node_id
    Networks,
    Cert, Quote, QuoteIn, Kind, Claim, Folded, Regs    \* of Evidence

INSTANCE Page

(* The CVMs that occur. *)
Cvms == UNION {ToSet(CvmsOf[p]) : p \in Push}

ASSUME SiteAssumption ==
    /\ NodeOrder \in Seq(Node)
    /\ \A n \in Node : \E i \in DOMAIN NodeOrder : NodeOrder[i] = n
    /\ \A i, j \in DOMAIN NodeOrder : NodeOrder[i] = NodeOrder[j] => i = j
    /\ CvmsOf \in [Push -> Seq(Cvms)]
    /\ VerdictsOf \in [Push -> Seq(Verdicts)]
    /\ EvidenceTypes
    /\ \A p \in Push : /\ Len(VerdictsOf[p]) = Len(CvmsOf[p])
                       /\ \A i \in DOMAIN CvmsOf[p] : Sound(VerdictsOf[p][i], CvmsOf[p][i])

VARIABLE screen     \* the page the visitor is on, the app it is about, the
                    \* links it offers and the map they were made from

siteVars == <<vars, screen>>

(* The stored reports as pages see them (snapshot_reports, borrow_nodes). *)
Snapshot(map) ==
    LET known == Selected(NodeOrder, LAMBDA n : map[n] # None)
    IN  [i \in DOMAIN known |->
            LET e == map[known[i]]
            IN  [at |-> e.at, cvms |-> CvmsOf[e.push],
                 verdicts |-> IF e.verdicts = None THEN <<>> ELSE VerdictsOf[e.verdicts]]]

Nodes == Snapshot(reports)

Show(page, app) ==
    screen' = [page |-> page, app |-> app, links |-> {}, from |-> EmptyMap]

Offer(page, links) ==
    screen' = [page |-> page, app |-> None, links |-> links, from |-> reports]

AppIds(rows) == {rows[i].app_id : i \in DOMAIN rows}

-----------------------------------------------------------------------------
(* GET /: every row, of either list, links to its app. *)
AllRows(nodes) == LET fleet == FleetList(nodes) IN fleet.primary \o fleet.infra

Index == Offer("index", AppIds(AllRows(Nodes)))

(* GET /app/:app_id, by a link or redirect.  No route matches "/app/".     *)
AppDetail ==
    \E app \in screen.links :
        IF RenderApp(app, clock, Nodes) # <<>>
        THEN Show("app", app)
        ELSE Show(IF app = "" THEN "no_route" ELSE "unknown_app", app)

(* GET /testnet-keystore and /mainnet-keystore *)
KeystoreRedirect ==
    \E net \in Networks :
        \/ \E app \in KeystoresFound(Nodes, net) \ {""} : Offer("redirect", {app})
        \/ /\ \/ KeystoresFound(Nodes, net) = {}
              \/ "" \in KeystoresFound(Nodes, net)
           /\ Show("no_keystore", None)

(* GET /api/attestation: the map itself, in the order of the nodes. *)
Api == Show("api", None)

Visit == Index \/ AppDetail \/ KeystoreRedirect \/ Api

SiteInit == /\ Init
            /\ screen = [page |-> "blank", app |-> None, links |-> {}, from |-> EmptyMap]

SiteNext == \/ Next /\ UNCHANGED screen
            \/ Visit /\ UNCHANGED vars

SiteSpec == SiteInit /\ [][SiteNext]_siteVars

-----------------------------------------------------------------------------
(* Every CVM of every stored report is in one row of the index, and an app *)
(* has one row, on however many nodes it runs and in whatever order its    *)
(* reports came (page.rs:135-137).                                         *)
IndexComplete ==
    LET nodes == Nodes
        rows  == AllRows(nodes)
        shown == Instances(nodes)
    IN  /\ \A i, j \in DOMAIN rows : rows[i].app_id = rows[j].app_id => i = j
        /\ \A i \in DOMAIN rows :
               rows[i].instance_count =
                   Cardinality({k \in DOMAIN shown : shown[k].cvm.app_id = rows[i].app_id})
        /\ \A k \in DOMAIN shown : shown[k].cvm.app_id \in AppIds(rows)

(* The index and the detail pages, which group and join on their own, tell *)
(* the same story of the same map: as many cards as the row counts, and    *)
(* the row has the colour of its worst card.                               *)
RowMatchesPage ==
    LET nodes == Nodes
        rows  == AllRows(nodes)
    IN  \A i \in DOMAIN rows : rows[i].app_id # "" =>
            LET cards == RenderApp(rows[i].app_id, clock, nodes)
                chips == {cards[k].chip : k \in DOMAIN cards}
            IN  /\ cards # <<>>
                /\ Len(cards) = rows[i].instance_count
                /\ rows[i].chip = IF "failed" \in chips THEN "failed"
                                  ELSE IF "pending" \in chips THEN "pending" ELSE "verified"

(* A green row is earned: every stored instance of the app has a passing   *)
(* verdict, computed for a report of its own node that was received in the *)
(* second of the report shown, unless a restart has found a mixture.       *)
Earned(n, c) ==
    \E p \in Push :
        /\ NodeOf[p] = n /\ received[p] = reports[n].at
        /\ \E k \in DOMAIN VerdictsOf[p] : /\ VerdictsOf[p][k].vm_id = c.vm_id
                                           /\ Passes(VerdictsOf[p][k])
GreenRowIsEarned ==
    LET rows  == AllRows(Nodes)
        green == {rows[i].app_id : i \in {j \in DOMAIN rows : rows[j].chip = "verified"}}
    IN  ~mixed => \A n \in Node : reports[n] # None =>
            LET cvms == CvmsOf[reports[n].push]
            IN  \A k \in DOMAIN cvms : cvms[k].app_id \in green => Earned(n, cvms[k])

(* What a green card says is so, from the quote to the page: whichever CVM *)
(* of the app the card is of, a report of its node received in the second  *)
(* of the one shown had a CVM of that vm_id with a genuine quote; if it is *)
(* a TD's, its registers are those on the card; and if a contract holds    *)
(* approvals for that CVM, the card names it, says "approved", and the     *)
(* claims it was asked about are the registers shown.                      *)
Attests(c, card) ==
    LET q == QuoteOf(c) IN
    /\ c.vm_id = card.vm_id
    /\ q \in Quote /\ Kind[q] # "forged"
    /\ Kind[q] = "td" => card.registers = Regs[q]
    /\ ContractFor(c) # None =>
           /\ Kind[q] = "td"
           /\ card.verdict.contract = ContractFor(c) /\ card.verdict.on_chain = "approved"
           /\ MeasurementsEq(card.registers, c.measurements)
GreenCardIsGenuine ==
    ~mixed => \A app \in AppIds(AllRows(Nodes)) :
        LET cards == RenderApp(app, clock, Nodes)
        IN  \A k \in {j \in DOMAIN cards : cards[j].chip = "verified"} :
                \E n \in Node, p \in Push :
                    /\ reports[n] # None
                    /\ \E c \in ToSet(CvmsOf[reports[n].push]) :
                           c.app_id = app /\ c.vm_id = cards[k].vm_id
                    /\ NodeOf[p] = n /\ received[p] = reports[n].at
                    /\ \E c \in ToSet(CvmsOf[p]) : Attests(c, cards[k])

(* "Never a redirect to a dead page" (main.rs:263), for the map the answer *)
(* is made from: the page the redirect leads to shows a keystore of that   *)
(* network.                                                                *)
RedirectResolves ==
    LET nodes == Nodes IN
    \A net \in Networks : \A app \in KeystoresFound(nodes, net) \ {""} :
        LET cards == RenderApp(app, clock, nodes)
        IN  /\ cards # <<>>
            /\ \E k \in DOMAIN cards : cards[k].role = "keystore" /\ cards[k].network = net

(* A link of the site leads to a 404 only if the world has moved on, or    *)
(* never led anywhere: it was made from a report that carried the app, and *)
(* if the app has an id, every report that carried it has been replaced    *)
(* since, or lost in a restart.  The links that never led anywhere are     *)
(* those of the rows without an app_id, "/app/" (index.html:40,69), though *)
(* "we never link to one" (page.rs:934).                                   *)
Carries(map, n, app) ==
    map[n] # None /\ \E k \in DOMAIN CvmsOf[map[n].push] : CvmsOf[map[n].push][k].app_id = app
DeadLinksAreOld ==
    [][AppDetail /\ screen'.page # "app" =>
          /\ \E n \in Node : Carries(screen.from, n, screen'.app)
          /\ screen'.app # "" =>
                 \A n \in Node : Carries(screen.from, n, screen'.app) =>
                     reports[n] = None \/ reports[n].push # screen.from[n].push]_siteVars

-----------------------------------------------------------------------------
(* What the comments promise and the code does not keep.                   *)

(* "Resolve the CURRENT keystore CVM ... survives keystore redeploys"      *)
(* (main.rs:254-257): as long as a report has a running keystore of the    *)
(* network, the link leads to a page with a running one.                   *)
RedirectIsCurrent ==
    \A net \in Networks :
        (\E i \in DOMAIN Nodes : \E j \in DOMAIN Nodes[i].cvms :
             IsKeystore(Nodes[i].cvms[j], net) /\ Nodes[i].cvms[j].status = "running")
        => \A app \in KeystoresFound(Nodes, net) :
               LET cards == RenderApp(app, clock, Nodes)
               IN  cards # <<>> /\ \E k \in DOMAIN cards :
                       IsKeystore(cards[k], net) /\ cards[k].status = "running"
=============================================================================
