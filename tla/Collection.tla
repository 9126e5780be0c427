----------------------------- MODULE Collection -----------------------------
(***************************************************************************)
(* What the rounds of an agent promise, without ports, services or waits:  *)
(* the vmm's list is taken as it is at one moment; then every VM on it, in *)
(* its order, gets one entry, and only then is the list left.  An entry    *)
(* that lacks measurements says why: the VM was not listed as running, was *)
(* not found to run (which does not mean that it did not), or was seen     *)
(* running and did not answer well.  Evidence is of a VM that runs as it is*)
(* entered, and of the entry's own VM, unless this one has stopped since it*)
(* was seen running.                                                       *)
(***************************************************************************)
EXTENDS Naturals, Sequences

CONSTANTS VM, None

VARIABLES
    present, running,   \* the VMs that exist and those that run
    list,               \* what the vmm said: VMs, running or not
    report,             \* the entries so far
    seen,               \* the VM in turn has been seen running
    restarted           \* history: it has stopped since

collectionVars == <<present, running, list, report, seen, restarted>>

Complete == Len(report) = Len(list)
Turn     == list[Len(report) + 1]

(* Every VM that exists, once, and whether it runs. *)
Begin ==
    /\ Complete
    /\ {list'[i].vm : i \in DOMAIN list'} = present
    /\ \A i, j \in DOMAIN list' : list'[i].vm = list'[j].vm => i = j
    /\ \A i \in DOMAIN list' : list'[i].running <=> list'[i].vm \in running
    /\ report' = <<>>
    /\ UNCHANGED <<present, running, seen, restarted>>

(* The VM in turn, listed as running, is seen to run. *)
Look ==
    /\ ~Complete /\ ~seen
    /\ Turn.running /\ Turn.vm \in running
    /\ seen' = TRUE
    /\ restarted' = FALSE
    /\ UNCHANGED <<present, running, list, report>>

(* What an entry says of the VM in turn. *)
Fits(e) ==
    /\ e.vm = Turn.vm
    /\ e.measured <=> e.error = None
    /\ e.error = "not_running" <=> ~Turn.running
    /\ e.error \in {None, "no_info", "tcb_info"} <=> seen
    /\ e.evidence # None <=> e.error \in {None, "tcb_info"}
    /\ e.evidence # None => e.evidence \in running /\ (e.evidence = e.vm \/ restarted)

Enter ==
    LET e == report'[Len(report) + 1] IN
    /\ ~Complete
    /\ Len(report') = Len(report) + 1 /\ report' = Append(report, e)
    /\ Fits(e)
    /\ seen' = FALSE
    /\ UNCHANGED <<present, running, list, restarted>>

End == /\ Complete
       /\ list' = <<>> /\ report' = <<>>
       /\ UNCHANGED <<present, running, seen, restarted>>

(* VMs come, go, stop and start at any time. *)
WorldMoves ==
    /\ \/ restarted' = restarted
       \/ restarted' = TRUE /\ seen /\ ~Complete /\ Turn.vm \in running \ running'
    /\ UNCHANGED <<list, report, seen>>

Init == /\ present = {} /\ running = {}
        /\ list = <<>> /\ report = <<>>
        /\ seen = FALSE /\ restarted = FALSE

Next == Begin \/ Look \/ Enter \/ End \/ WorldMoves

Spec == Init /\ [][Next]_collectionVars
=============================================================================
