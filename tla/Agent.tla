-------------------------------- MODULE Agent --------------------------------
(***************************************************************************)
(* The attestation agent of a node: push_loop and collect of               *)
(* agent/src/main.rs.  A round asks the vmm for its list of VMs; then, VM  *)
(* after VM, finds the port of its guest agent in the command line of a    *)
(* live qemu process, asks the guest agent for its certificate and         *)
(* measurements, and at last pushes the report.  Meanwhile VMs stop and    *)
(* start, and a port that was given back is given to another VM.           *)
(*                                                                         *)
(* Evidence is the VM whose guest agent answered.  What becomes of a push  *)
(* is the subject of Portal; the agent only logs whether it worked.        *)
(***************************************************************************)
EXTENDS Naturals, Sequences, FiniteSets

CONSTANTS VM, Port, None

(* Why an entry has no measurements. *)
Errors == {"not_running", "no_port", "no_info", "tcb_info"}

ASSUME AgentAssumption ==
    /\ IsFiniteSet(VM)
    /\ Port \cap {None, "removed", "stopped"} = {}
    /\ None \notin VM /\ None \notin Errors

VARIABLES
    qemu,       \* VM -> "removed", "stopped", or the port of its guest agent
    up,         \* the services that answer: "vmm" and guest agents
    at,         \* what the agent is about to do, or waits for
    status,     \* the vmm's answer of this round: VMs, running or not
    port,       \* the port found for the current VM
    report      \* the entries of this round so far

VARIABLE restarted  \* history: the current VM has stopped since its port was found

world == <<qemu, up>>
agent == <<at, status, port, report>>
vars  == <<world, agent, restarted>>

(* The VM collect_vm is about. *)
Current == status[Len(report) + 1]
Collecting == at = "collect" /\ Len(report) < Len(status)

Entry(vm, evidence, measured, error) ==
    [vm |-> vm, evidence |-> evidence, measured |-> measured, error |-> error]

Add(e) == /\ report' = Append(report, e)
          /\ at' = "collect"
          /\ port' = None
          /\ UNCHANGED <<status, world, restarted>>

-----------------------------------------------------------------------------
(* A tick of the interval. *)
StartRound ==
    /\ at = "idle"
    /\ at' = "listing"
    /\ UNCHANGED <<status, port, report, world, restarted>>

(* Mutant: the list is asked for running VMs only. *)
ListedRunning ==
    /\ at = "listing" /\ "vmm" \in up
    /\ LET present == {v \in VM : qemu[v] \in Port}
       IN  \E list \in [1 .. Cardinality(present) -> present] :
               /\ present = {list[i] : i \in DOMAIN list}
               /\ status' = [i \in DOMAIN list |-> [vm |-> list[i], running |-> TRUE]]
    /\ report' = <<>>
    /\ at' = "collect"
    /\ UNCHANGED <<port, world, restarted>>

(* The vmm's answer: its VMs, in some order, and what each is right now. *)
Listed ==
    /\ at = "listing" /\ "vmm" \in up
    /\ LET present == {v \in VM : qemu[v] # "removed"}
       IN  \E list \in [1 .. Cardinality(present) -> present] :
               /\ present = {list[i] : i \in DOMAIN list}
               /\ status' = [i \in DOMAIN list |->
                                [vm |-> list[i], running |-> qemu[list[i]] \in Port]]
    /\ report' = <<>>
    /\ at' = "collect"
    /\ UNCHANGED <<port, world, restarted>>

(* The vmm is down, or does not answer in 10 s: the round is given up. *)
NotListed ==
    /\ at = "listing"
    /\ at' = "idle"
    /\ UNCHANGED <<status, port, report, world, restarted>>

NotRunning ==
    /\ Collecting
    /\ ~Current.running
    /\ Add(Entry(Current.vm, None, FALSE, "not_running"))

(* Mutant: any qemu process is taken for the VM's. *)
PortOfAny(v) == {None} \cup ({qemu[w] : w \in VM} \cap Port)

(* What find_agent_port may return: what the processes say now, not what   *)
(* the vmm said.  It finds nothing for a VM that runs, too: when /proc or  *)
(* the command line cannot be read, when this forwards no port to 8090, or *)
(* none that is a number of 16 bits.                                       *)
PortOf(v) == {None} \cup ({qemu[v]} \cap Port)

(* Mutant: a VM without a port is entered without a word. *)
NoPortSilent ==
    /\ Collecting
    /\ Current.running
    /\ None \in PortOf(Current.vm)
    /\ Add(Entry(Current.vm, None, FALSE, None))

NoPort ==
    /\ Collecting
    /\ Current.running
    /\ None \in PortOf(Current.vm)
    /\ Add(Entry(Current.vm, None, FALSE, "no_port"))

PortFound ==
    /\ Collecting
    /\ Current.running
    /\ port' \in PortOf(Current.vm) \ {None}
    /\ at' = "fetching"
    /\ restarted' = FALSE
    /\ UNCHANGED <<status, report, world>>

(* apply_info: the guest agent that listens on the port now answers.  Its  *)
(* tcb_info may not parse; the certificate is taken nevertheless.  Nothing *)
(* compares the answer's app or instance with the VM's.                    *)
Info ==
    /\ at = "fetching"
    /\ \E w \in VM \cap up :
           /\ qemu[w] = port
           /\ \/ Add(Entry(Current.vm, w, TRUE, None))
              \/ Add(Entry(Current.vm, w, FALSE, "tcb_info"))

(* Mutant: without a timeout, only a refused connection is a failure. *)
NoInfoRefused ==
    /\ at = "fetching"
    /\ \A w \in VM : qemu[w] # port
    /\ Add(Entry(Current.vm, None, FALSE, "no_info"))

(* Nobody listens, the answer is an error, or 10 s pass without one. *)
NoInfo ==
    /\ at = "fetching"
    /\ Add(Entry(Current.vm, None, FALSE, "no_info"))

(* push_once, well or not: a failure is logged, and the next round comes.  *)
Push ==
    /\ at = "collect" /\ Len(report) = Len(status)
    /\ at' = "pushing"
    /\ UNCHANGED <<status, port, report, world, restarted>>

PushEnds ==
    /\ at = "pushing"
    /\ at' = "idle"
    /\ report' = <<>> /\ status' = <<>>
    /\ UNCHANGED <<port, world, restarted>>

-----------------------------------------------------------------------------
(* The world: dstack's vmm gives a VM a free port at every start. *)
Boot(v) ==
    /\ qemu[v] = "stopped"
    /\ \E p \in Port : (\A w \in VM : qemu[w] # p) /\ qemu' = [qemu EXCEPT ![v] = p]
    /\ UNCHANGED <<up, agent, restarted>>

Stop(v) ==
    /\ qemu[v] \in Port
    /\ qemu' = [qemu EXCEPT ![v] = "stopped"]
    /\ restarted' = (restarted \/ (at = "fetching" /\ Current.vm = v))
    /\ UNCHANGED <<up, agent>>

Deploy(v) ==
    /\ qemu[v] = "removed"
    /\ qemu' = [qemu EXCEPT ![v] = "stopped"]
    /\ UNCHANGED <<up, agent, restarted>>

Remove(v) ==
    /\ qemu[v] = "stopped"
    /\ qemu' = [qemu EXCEPT ![v] = "removed"]
    /\ UNCHANGED <<up, agent, restarted>>

ServiceChanges == up' \in SUBSET (VM \cup {"vmm"}) /\ UNCHANGED <<qemu, agent, restarted>>

Init ==
    /\ qemu = [v \in VM |-> "removed"]
    /\ up = {}
    /\ at = "idle"
    /\ status = <<>> /\ port = None /\ report = <<>>
    /\ restarted = FALSE

Proceed == \/ StartRound
           \/ Listed \/ NotListed
           \/ NotRunning \/ NoPort \/ PortFound
           \/ Info \/ NoInfo
           \/ Push \/ PushEnds

Next == \/ Proceed
        \/ \E v \in VM : Boot(v) \/ Stop(v) \/ Deploy(v) \/ Remove(v)
        \/ ServiceChanges

Spec == Init /\ [][Next]_vars

(* The ticker ticks, and every call of the client ends within 10 s. *)
FairSpec == Spec /\ WF_vars(Proceed)

-----------------------------------------------------------------------------
(* Ports "must be discovered, not hard-coded" (main.rs:3-5), and they are  *)
(* discovered anew for every VM of every round: evidence entered for a VM  *)
(* is its own, unless that very VM stopped between the look at the         *)
(* processes and the answer.                                               *)
EvidenceIsOwn ==
    [][\A i \in DOMAIN report' \ DOMAIN report :
          report'[i].evidence # None =>
              report'[i].evidence = report'[i].vm \/ restarted]_vars

(* A report that is pushed has an entry for every VM of the vmm's list, in *)
(* its order, and one without measurements says why.                       *)
NothingLeftOut ==
    at = "pushing" =>
        /\ Len(report) = Len(status)
        /\ \A i \in DOMAIN report : /\ report[i].vm = status[i].vm
                                    /\ ~report[i].measured => report[i].error # None

(* Ports, waits and failures apart, the rounds are those of Collection:    *)
(* the list is taken at one moment and left only when every VM on it has   *)
(* its entry, which tells how far the agent got with it; a VM that was seen*)
(* running is never entered as one without a port, and the reverse.        *)
Abstract == INSTANCE Collection
                WITH present <- {v \in VM : qemu[v] # "removed"},
                     running <- {v \in VM : qemu[v] \in Port},
                     list <- status,
                     seen <- at = "fetching"
CollectionSpec == Abstract!Spec

(* Whatever the vmm and the guest agents do, the loop comes back to its    *)
(* ticker: one VM that hangs does not silence the node.                    *)
RoundsGoOn == []<>(at = "idle")
=============================================================================
