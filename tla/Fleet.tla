-------------------------------- MODULE Fleet --------------------------------
(***************************************************************************)
(* The agents' push loops, the network and the portal together.            *)
(*                                                                         *)
(* An agent (push_loop and push_once of agent/src/main.rs) sends the       *)
(* report of a round and waits for the answer; only then does the next     *)
(* round begin.  It waits ten seconds at most: a push given up may still   *)
(* be under way, or in the portal's handler, and may arrive after the      *)
(* reports of later rounds.  The network delays, reorders and loses        *)
(* requests and answers; it does not repeat them, since a push is one POST *)
(* over one connection, which the client does not send twice.              *)
(*                                                                         *)
(* A report's collected_at is not read by the portal, which takes the      *)
(* report that arrives last for the newest.                                *)
(***************************************************************************)
EXTENDS Portal

CONSTANT RoundOf    \* [Push -> Nat], the round of the agent's loop a push belongs to

ASSUME FleetAssumption ==
    /\ RoundOf \in [Push -> Nat]
    /\ \A p, q \in Push : NodeOf[p] = NodeOf[q] /\ RoundOf[p] = RoundOf[q] => p = q

VARIABLES
    sent,   \* push -> what its agent knows of it
    net     \* the requests under way

fleetVars == <<vars, sent, net>>

Outcome == {"acked", "refused", "abandoned"}

Earlier(q, p) == NodeOf[q] = NodeOf[p] /\ RoundOf[q] < RoundOf[p]

-----------------------------------------------------------------------------
(* The agents. *)

(* Mutant: the loop does not wait for the answer (push_once is spawned). *)
SendOnSchedule(p) ==
    /\ sent[p] = "unsent"
    /\ \A q \in Push : Earlier(q, p) => sent[q] # "unsent"
    /\ sent' = [sent EXCEPT ![p] = "waiting"]
    /\ net' = net \cup {p}
    /\ UNCHANGED vars

(* The next round: the last push has been answered or given up. *)
Send(p) ==
    /\ sent[p] = "unsent"
    /\ \A q \in Push : Earlier(q, p) => sent[q] \in Outcome
    /\ sent' = [sent EXCEPT ![p] = "waiting"]
    /\ net' = net \cup {p}
    /\ UNCHANGED vars

(* Mutant: the handler answers as soon as the report is in the map. *)
AckedBeforeSaved(p) ==
    /\ sent[p] = "waiting"
    /\ job[p] \in {"saving", "verifying", "settled"}
    /\ sent' = [sent EXCEPT ![p] = "acked"]
    /\ UNCHANGED <<vars, net>>

(* The handler has run to its end and its answer, 200, arrives. *)
Acked(p) ==
    /\ sent[p] = "waiting"
    /\ job[p] \in {"verifying", "settled"}
    /\ sent' = [sent EXCEPT ![p] = "acked"]
    /\ UNCHANGED <<vars, net>>

(* The client's timeout, or a connection that fails: the agent logs it and *)
(* goes on to the next round.                                              *)
GiveUp(p) ==
    /\ sent[p] = "waiting"
    /\ sent' = [sent EXCEPT ![p] = "abandoned"]
    /\ UNCHANGED <<vars, net>>

-----------------------------------------------------------------------------
(* The network and the portal. *)

(* Mutant: a request that was handled is still under way. *)
ArriveAgain(p) ==
    /\ p \in net
    /\ Receive(p)
    /\ UNCHANGED <<sent, net>>

(* A request is handled whenever it arrives.  One that is lost is one that *)
(* stays under way for ever: no fairness is assumed of this step.          *)
Arrive(p) ==
    /\ p \in net
    /\ Receive(p)
    /\ net' = net \ {p}
    /\ UNCHANGED sent

(* 503, 401, 400 or 413; error_for_status makes it a failed push. *)
Rejected(p) ==
    /\ p \in net
    /\ Refuse(p)
    /\ net' = net \ {p}
    /\ sent' = [sent EXCEPT ![p] = IF @ = "waiting" THEN "refused" ELSE @]

Serve ==
    /\ \/ \E p \in Push : Handle(p)
       \/ \E s \in Saver : SaveStep(s)
       \/ Tick
       \/ Restart
    /\ UNCHANGED <<sent, net>>

-----------------------------------------------------------------------------
FleetInit ==
    /\ Init
    /\ sent = [p \in Push |-> "unsent"]
    /\ net = {}

FleetNext ==
    \/ \E p \in Push : Send(p) \/ Acked(p) \/ GiveUp(p)
    \/ \E p \in Push : Arrive(p) \/ Rejected(p)
    \/ Serve

FleetSpec == FleetInit /\ [][FleetNext]_fleetVars

(* The agent's ticker ticks and its client gives up after ten seconds; the *)
(* portal works as in Portal.  Nothing is assumed of the network.          *)
FleetFairness ==
    \A p \in Push :
        /\ WF_fleetVars(Send(p))
        /\ WF_fleetVars(Acked(p) \/ GiveUp(p))
        /\ WF_fleetVars(Work(p) /\ UNCHANGED <<sent, net>>)

FairFleetSpec == FleetSpec /\ FleetFairness

-----------------------------------------------------------------------------
(* Types; what is under way was sent and has not been handled.             *)
FleetTypeOK ==
    /\ TypeOK
    /\ sent \in [Push -> {"unsent", "waiting"} \cup Outcome]
    /\ net \in SUBSET Push
    /\ \A p \in net : sent[p] # "unsent" /\ job[p] = "unsent"

(* The map m holds p's report, or one of a later round; or the report of a *)
(* push that its agent had given up, which arrived late.                   *)
Covers(m, p) ==
    LET e == m[NodeOf[p]] IN
    e # None /\ (RoundOf[e.push] >= RoundOf[p] \/ sent[e.push] = "abandoned")

(* What an agent may conclude from an answer 200 (agent main.rs:143, main. *)
(* rs:155-166, "survive a restart" in main.rs:8-11): the portal shows the  *)
(* report or a newer one from then on -- across restarts, if the file is   *)
(* configured and works, saves have not overlapped and the power holds.    *)
(* Only the late arrival of an abandoned push can put an older one there.  *)
AckedSurvives ==
    (restarts = 0 \/ (Persist /\ ~IOErrors /\ ~clash /\ ~dark))
        => \A p \in Push : sent[p] = "acked" => Covers(reports, p)

(* The portal compares no rounds, and still an older report replaces a     *)
(* newer one of its node only if its agent has given it up, or when a      *)
(* restart goes back: the agent's wait for the answer (agent main.rs:127)  *)
(* is what keeps the reports in order.  (A map that a restart made of bytes*)
(* of several may hold a report that is yet to be sent.)                   *)
OnlyAbandonedOvertakes ==
    [][\A n \in Node :
          (~mixed /\ reports[n] # None /\ reports'[n] # None /\ restarts' = restarts
             /\ RoundOf[reports'[n].push] < RoundOf[reports[n].push])
          => sent[reports'[n].push] = "abandoned"]_fleetVars

(* Nothing verifies restored reports again (main.rs:82), but the next push *)
(* heals: once the last restart is over, a node whose push is neither lost *)
(* nor refused ends up with verdicts for good, whatever arrives late.      *)
Healed(n) == reports[n] # None /\ reports[n].verdicts # None
NextPushHeals ==
    \A p \in Push :
        (restarts = MaxRestarts /\ sent[p] = "unsent")
            ~> (sent[p] \in {"refused", "abandoned"} \/ []Healed(NodeOf[p]))
=============================================================================
