------------------------------- MODULE Portal -------------------------------
(***************************************************************************)
(* The portal server of server/src/main.rs: the map of the latest report   *)
(* per node, the ingest handler, the verification task it spawns, and the  *)
(* state file.                                                             *)
(*                                                                         *)
(* A push is one delivery of a node's report to POST /ingest.  Its handler *)
(* reads the clock, later takes the lock and inserts the report, saves the *)
(* map outside the lock, spawns the verification and answers.  The task    *)
(* verifies without the lock and then stamps its verdicts on the node's    *)
(* entry if the entry was received in the same second as its report.  All  *)
(* handlers and tasks run in parallel; the process may die at any point    *)
(* and starts again from the state file.                                   *)
(*                                                                         *)
(* Verdicts are abstracted to the push whose report they were computed     *)
(* from; how they are computed is the subject of Verify.                   *)
(***************************************************************************)
EXTENDS Integers, StateFile

CONSTANTS Node, Push,
          NodeOf,       \* [Push -> Node], report.node_id
          TokenSet,     \* INGEST_TOKEN is set and not empty
          Authorized,   \* the pushes that carry it
          WellFormed,   \* the pushes whose body parses
          Persist,      \* STATE_FILE is set and not empty
          MaxTime,      \* bound: the clock's last second
          ClockSteps,   \* {1}, or {1, -1} when the wall clock may be set back
          MaxRestarts,  \* bound: how often the process restarts
          PowerFails    \* what ends it is the power, not just a crash

Time  == 0 .. MaxTime
Entry == [push : Push, at : Time, verdicts : Push \cup {None}]

ASSUME PortalAssumption ==
    /\ NodeOf \in [Push -> Node]
    /\ MaxTime \in Nat /\ MaxRestarts \in Nat /\ ClockSteps \subseteq Int
    /\ TokenSet \in BOOLEAN /\ Persist \in BOOLEAN /\ PowerFails \in BOOLEAN
    /\ None \notin Push /\ None \notin Entry /\ None \notin Time
    /\ Saver = Push \X {"ingest", "verify"}
    /\ Map = [Node -> Entry \cup {None}]
    /\ EmptyMap = [n \in Node |-> None]

VARIABLES
    clock,      \* now_secs()
    reports,    \* AppState.reports
    job,        \* push -> where its handler, then its task, is
    received,   \* push -> the received_at its handler read
    restarts,   \* how often the process has restarted
    mixed       \* history: a restart has found bytes of several maps in the file

portalVars == <<clock, reports, job, received, restarts, mixed>>
vars       == <<portalVars, fileVars>>

(* The two calls of save_state a push can lead to. *)
Ingest(p) == <<p, "ingest">>
Verify(p) == <<p, "verify">>

Stages   == {"unsent", "received", "saving", "verifying", "settled", "lost"}
InFlight == {"received", "saving", "verifying"}

(* With STATE_FILE set, a handler that changed the map clones it under the *)
(* lock and saves the clone after unlocking.                               *)
Persisting(s, m) == IF Persist THEN Begin(s, m) ELSE UNCHANGED fileVars

-----------------------------------------------------------------------------
(* The guards ingest answers 503, 401 and 400 from.  A push that is refused*)
(* leaves no trace: this is a stutter of the portal, which Next need not   *)
(* list; it is of importance to the agent that waits for the answer (Fleet)*)
Admitted(p) == TokenSet /\ p \in Authorized /\ p \in WellFormed

Refuse(p) ==
    /\ job[p] = "unsent"
    /\ ~Admitted(p)
    /\ UNCHANGED vars

(* Mutant: the second of arrival is not kept. *)
ReceiveUndated(p) ==
    /\ job[p] = "unsent"
    /\ Admitted(p)
    /\ job' = [job EXCEPT ![p] = "received"]
    /\ UNCHANGED <<clock, reports, received, restarts, mixed, fileVars>>

(* The report is parsed and the clock read; the lock is not yet taken. *)
Receive(p) ==
    /\ job[p] = "unsent"
    /\ Admitted(p)
    /\ received' = [received EXCEPT ![p] = clock]
    /\ job' = [job EXCEPT ![p] = "received"]
    /\ UNCHANGED <<clock, reports, restarts, mixed, fileVars>>

(* Mutant: the old entry's verdicts are shown until there are new ones. *)
InsertKeepingVerdicts(p) ==
    LET old == reports[NodeOf[p]] IN
    /\ job[p] = "received"
    /\ reports' = [reports EXCEPT ![NodeOf[p]] =
                       [push |-> p, at |-> received[p],
                        verdicts |-> IF old = None THEN None ELSE old.verdicts]]
    /\ job' = [job EXCEPT ![p] = "saving"]
    /\ Persisting(Ingest(p), reports')
    /\ UNCHANGED <<clock, received, restarts, mixed>>

(* Under the lock the report replaces its node's entry, without verdicts. *)
Insert(p) ==
    /\ job[p] = "received"
    /\ reports' = [reports EXCEPT ![NodeOf[p]] =
                       [push |-> p, at |-> received[p], verdicts |-> None]]
    /\ job' = [job EXCEPT ![p] = "saving"]
    /\ Persisting(Ingest(p), reports')
    /\ UNCHANGED <<clock, received, restarts, mixed>>

(* Mutant: a failed save ends the handler before it spawns the task. *)
SpawnIfSaved(p) ==
    /\ job[p] = "saving"
    /\ ~Busy(Ingest(p))
    /\ job' = [job EXCEPT ![p] = IF failed THEN "settled" ELSE "verifying"]
    /\ UNCHANGED <<clock, reports, received, restarts, mixed, fileVars>>

(* Mutant: the task is given the second in which it is spawned. *)
SpawnRedated(p) ==
    /\ job[p] = "saving"
    /\ ~Busy(Ingest(p))
    /\ job' = [job EXCEPT ![p] = "verifying"]
    /\ received' = [received EXCEPT ![p] = clock]
    /\ UNCHANGED <<clock, reports, restarts, mixed, fileVars>>

(* The save has ended, well or not: the task is spawned, the push answered. *)
Spawn(p) ==
    /\ job[p] = "saving"
    /\ ~Busy(Ingest(p))
    /\ job' = [job EXCEPT ![p] = "verifying"]
    /\ UNCHANGED <<clock, reports, received, restarts, mixed, fileVars>>

(* Mutant: whatever entry the node has is stamped. *)
MatchesAny(p) == reports[NodeOf[p]] # None

(* The task's verdicts are ready: it takes the lock and compares seconds. *)
Matches(p) == /\ reports[NodeOf[p]] # None
              /\ reports[NodeOf[p]].at = received[p]

(* Mutant: the map is saved on ingest only. *)
StampUnsaved(p) ==
    /\ job[p] = "verifying"
    /\ Matches(p)
    /\ reports' = [reports EXCEPT ![NodeOf[p]].verdicts = p]
    /\ job' = [job EXCEPT ![p] = "settled"]
    /\ UNCHANGED <<clock, received, restarts, mixed, fileVars>>

(* The verdicts of p become the entry's. *)
Stamp(p) ==
    /\ job[p] = "verifying"
    /\ Matches(p)
    /\ reports' = [reports EXCEPT ![NodeOf[p]].verdicts = p]
    /\ job' = [job EXCEPT ![p] = "settled"]
    /\ Persisting(Verify(p), reports')
    /\ UNCHANGED <<clock, received, restarts, mixed>>

(* The entry is of another second, or gone: the verdicts are dropped. *)
Drop(p) ==
    /\ job[p] = "verifying"
    /\ ~Matches(p)
    /\ job' = [job EXCEPT ![p] = "settled"]
    /\ UNCHANGED <<clock, reports, received, restarts, mixed, fileVars>>

-----------------------------------------------------------------------------
(* A thread makes one system call of its save. *)
SaveStep(s) == Step(s) /\ UNCHANGED portalVars

Tick ==
    /\ \E d \in ClockSteps : clock + d \in Time /\ clock' = clock + d
    /\ UNCHANGED <<reports, job, received, restarts, mixed, fileVars>>

(* The process, or the machine, dies and main starts again: handlers and   *)
(* tasks are gone, the map is what load_state finds, and nothing is        *)
(* verified again.  (But for the history `dark`, a crash of the process is *)
(* a power failure that loses nothing.)                                    *)
Restart ==
    /\ restarts < MaxRestarts
    /\ restarts' = restarts + 1
    /\ IF PowerFails THEN PowerCut ELSE Crash
    /\ reports' \in IF Persist THEN Loadable' ELSE {EmptyMap}
    /\ mixed' = (mixed \/ (Persist /\ path' # None /\ Mixture(data'[path'])))
    /\ job' = [p \in Push |-> IF job[p] \in InFlight THEN "lost" ELSE job[p]]
    /\ UNCHANGED <<clock, received>>

-----------------------------------------------------------------------------
Init ==
    /\ clock = 0
    /\ reports = EmptyMap
    /\ job = [p \in Push |-> "unsent"]
    /\ received = [p \in Push |-> None]
    /\ restarts = 0
    /\ mixed = FALSE
    /\ FileInit

Handle(p) == Insert(p) \/ Spawn(p) \/ Stamp(p) \/ Drop(p)

Next ==
    \/ \E p \in Push : Receive(p) \/ Handle(p)
    \/ \E s \in Saver : SaveStep(s)
    \/ Tick
    \/ Restart

Spec == Init /\ [][Next]_vars

(* What has started runs on: the runtime schedules the handler and then    *)
(* the task of a push, system calls return, and a verification ends (its   *)
(* calls fail or answer).  Pushes, clock and crashes are the environment's.*)
Work(p) == Handle(p) \/ SaveStep(Ingest(p)) \/ SaveStep(Verify(p))
Fairness == \A p \in Push : WF_vars(Work(p))

FairSpec == Spec /\ Fairness

-----------------------------------------------------------------------------
(* Types; a report has a second of arrival once it has got past the checks. *)
PortalTypeOK ==
    /\ clock \in Time
    /\ reports \in Map
    /\ job \in [Push -> Stages]
    /\ received \in [Push -> Time \cup {None}]
    /\ \A p \in Push : received[p] = None <=> job[p] = "unsent"
    /\ restarts \in 0 .. MaxRestarts
    /\ mixed \in BOOLEAN

TypeOK == FileTypeOK /\ PortalTypeOK

(* What the check of received_at in verify_in_background (main.rs:181) is  *)
(* worth: an entry carries no verdicts, or those of a report of the same   *)
(* node received in the same second -- also after any restart from a map   *)
(* that was saved.  Verdicts of an older or newer second never stick.      *)
VerdictsOfSameSecond ==
    ~mixed => \A n \in Node : (reports[n] # None /\ reports[n].verdicts # None)
        => LET q == reports[n].verdicts
           IN  NodeOf[q] = n /\ received[q] = reports[n].at

(* "Verifying" on a page is no idle promise (main.rs:164, main.rs:82): an  *)
(* entry without verdicts has its own handler or task at work, and when    *)
(* that task is ready the entry will still be the one it looks for -- but  *)
(* for what a restart brought back, which nobody has in hand.              *)
PendingIsInHand ==
    ~mixed => \A n \in Node : (reports[n] # None /\ reports[n].verdicts = None)
        => LET p == reports[n].push
           IN  \/ job[p] \in {"saving", "verifying"} /\ Matches(p)
               \/ job[p] \in {"settled", "lost"} /\ restarts > 0

(* Durability (main.rs:8-11), where it holds: when no two saves have ever  *)
(* overlapped, none is running and the last one worked, a restart finds    *)
(* the very map that is in memory, verdicts included.                      *)
MirrorFaithful ==
    (Persist /\ ~clash /\ ~failed /\ Quiet) => Loaded = reports

(* The portal keeps the promise of Store: a restart goes back to a map that*)
(* was handed to save_state, whole, unless it finds bytes of several.      *)
Abstract == INSTANCE Store WITH past <- {EmptyMap} \cup Given
StoreSpec == Abstract!Spec

(* A report put in the map is judged in the end -- whatever becomes of the *)
(* saves -- unless a newer push of its node replaces it, or the process    *)
(* dies first.                                                             *)
Shown(p)  == reports[NodeOf[p]] # None /\ reports[NodeOf[p]].push = p
Judged(p) == reports[NodeOf[p]].verdicts # None
JudgedWhileAlive ==
    \A p \in Push : (Shown(p) /\ job[p] \in InFlight)
                       ~> (~Shown(p) \/ Judged(p) \/ job[p] = "lost")

-----------------------------------------------------------------------------
(* What the comments promise and the code does not keep.                   *)

(* "Only write if the stored entry is the very report we verified"         *)
(* (main.rs:179): verdicts shown with a report are its own.                *)
OwnVerdicts ==
    \A n \in Node : reports[n] # None => reports[n].verdicts \in {None, reports[n].push}
=============================================================================
