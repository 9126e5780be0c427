----------------------------- MODULE AgentProofs -----------------------------
(***************************************************************************)
(* Proofs about Agent, for any VMs and ports and any moment at which VMs   *)
(* stop, start, appear and disappear.                                      *)
(***************************************************************************)
EXTENDS Agent, FiniteSetTheorems, TLAPS

Listing == [vm : VM, running : BOOLEAN]
Entries == [vm : VM, evidence : VM \cup {None}, measured : BOOLEAN,
            error : Errors \cup {None}]
States == {"removed", "stopped"} \cup Port

(* The vmm never forwards one port to two VMs. *)
PortsDistinct ==
    \A v, w \in VM : qemu[v] \in Port /\ qemu[v] = qemu[w] => v = w

(* The report is a prefix of the vmm's list, and explains itself. *)
Follows ==
    /\ Len(report) <= Len(status)
    /\ \A i \in 1 .. Len(report) :
           /\ report[i].vm = status[i].vm
           /\ ~report[i].measured => report[i].error # None

(* While a guest agent is asked, the port is that of the current VM, as    *)
(* long as this one has not stopped.                                       *)
PortIsCurrents ==
    at = "fetching" =>
        /\ Len(report) < Len(status)
        /\ Current.running /\ port \in Port
        /\ ~restarted => qemu[Current.vm] = port

AgentTypes ==
    /\ qemu \in [VM -> States]
    /\ at \in {"idle", "listing", "collect", "fetching", "pushing"}
    /\ status \in Seq(Listing)
    /\ report \in Seq(Entries)
    /\ restarted \in BOOLEAN
    /\ at \in {"idle", "listing", "pushing"} => Len(report) = Len(status)

Inv == AgentTypes /\ PortsDistinct /\ Follows /\ PortIsCurrents

LEMMA CurrentType ==
  ASSUME status \in Seq(Listing),
         report \in Seq(Entries), Len(report) < Len(status)
  PROVE  Current \in Listing
<1>1. Len(report) \in Nat /\ Len(status) \in Nat
  OBVIOUS
<1>2. Len(report) + 1 \in 1 .. Len(status)
  BY <1>1
<1>3. QED
  BY <1>2 DEF Current

LEMMA InitInv == Init => Inv
<1> SUFFICES ASSUME Init PROVE Inv
  OBVIOUS
<1>1. status = <<>> /\ report = <<>> /\ at = "idle" /\ qemu = [v \in VM |-> "removed"]
      /\ restarted = FALSE
  BY DEF Init
<1>2. AgentTypes /\ Follows /\ PortIsCurrents
  <2>1. /\ Len(report) = 0 /\ Len(status) = 0
        /\ report \in Seq(Entries) /\ status \in Seq(Listing)
    BY <1>1
  <2>2. AgentTypes
    BY <1>1, <2>1 DEF AgentTypes, States
  <2>3. Follows /\ PortIsCurrents
    BY <1>1, <2>1 DEF Follows, PortIsCurrents
  <2>4. QED
    BY <2>2, <2>3
<1>3. PortsDistinct
  BY <1>1, AgentAssumption DEF PortsDistinct
<1>4. QED
  BY <1>2, <1>3 DEF Inv

(* Entering a VM keeps the invariant, if the entry is about the current VM *)
(* and explains itself.                                                    *)
LEMMA AddInv ==
  ASSUME Inv, Len(report) < Len(status), at \in {"collect", "fetching"},
         NEW e \in Entries, Add(e), e.vm = Current.vm,
         ~e.measured => e.error # None
  PROVE  Inv'
<1>1. /\ report' = Append(report, e) /\ at' = "collect"
      /\ UNCHANGED <<status, qemu, restarted>>
  BY DEF Add, world
<1>2. /\ report \in Seq(Entries) /\ status \in Seq(Listing)
      /\ Len(report) \in Nat /\ Len(status) \in Nat
  BY DEF Inv, AgentTypes
<1>3. /\ report' \in Seq(Entries) /\ Len(report') = Len(report) + 1
      /\ \A i \in 1 .. Len(report) : report'[i] = report[i]
      /\ report'[Len(report) + 1] = e
  BY <1>1, <1>2
<1>4. AgentTypes'
  BY <1>1, <1>3 DEF Inv, AgentTypes
<1>5. PortsDistinct'
  BY <1>1 DEF Inv, PortsDistinct
<1>6. Follows'
  <2>1. Len(report') <= Len(status')
    BY <1>1, <1>2, <1>3
  <2>2. ASSUME NEW i \in 1 .. Len(report')
        PROVE  /\ report'[i].vm = status'[i].vm
               /\ ~report'[i].measured => report'[i].error # None
    <3>1. CASE i = Len(report) + 1
      BY <3>1, <1>1, <1>3 DEF Current
    <3>2. CASE i # Len(report) + 1
      BY <3>2, <1>1, <1>2, <1>3 DEF Inv, Follows
    <3>3. QED
      BY <3>1, <3>2
  <2>3. QED
    BY <2>1, <2>2 DEF Follows
<1>7. PortIsCurrents'
  BY <1>1 DEF PortIsCurrents
<1>8. QED
  BY <1>4, <1>5, <1>6, <1>7 DEF Inv

(* The vmm's answer lists VMs, whatever their order. *)
LEMMA ListedInv == Inv /\ Listed => Inv'
<1> SUFFICES ASSUME Inv, Listed PROVE Inv'
  OBVIOUS
<1> DEFINE present == {v \in VM : qemu[v] # "removed"}
           n == Cardinality(present)
<1>1. IsFiniteSet(present) /\ n \in Nat
  BY AgentAssumption, FS_Subset, FS_CardinalityType, present \subseteq VM
<1>2. PICK list \in [1 .. n -> present] :
          status' = [i \in DOMAIN list |->
                        [vm |-> list[i], running |-> qemu[list[i]] \in Port]]
  BY DEF Listed
<1>3. report' = <<>> /\ at' = "collect" /\ qemu' = qemu /\ restarted' = restarted
  BY DEF Listed, world
<1> HIDE DEF n
<1>4. DOMAIN list = 1 .. n /\ \A i \in 1 .. n : list[i] \in VM
  BY <1>2
<1>5. status' \in [1 .. n -> Listing]
  BY <1>2, <1>4 DEF Listing
<1>6. status' \in Seq(Listing)
  BY <1>1, <1>5
<1>7. AgentTypes'
  BY <1>3, <1>6 DEF Inv, AgentTypes
<1>8. PortsDistinct' /\ PortIsCurrents'
  BY <1>3 DEF Inv, PortsDistinct, PortIsCurrents
<1>9. Follows'
  BY <1>3, <1>6 DEF Follows
<1>10. QED
  BY <1>7, <1>8, <1>9 DEF Inv

(* The steps of a collection. *)
LEMMA CollectInv ==
  ASSUME Inv, NotRunning \/ NoPort \/ PortFound \/ Info \/ NoInfo
  PROVE  Inv'
<1>1. Len(report) < Len(status) /\ at \in {"collect", "fetching"}
  BY DEF Inv, PortIsCurrents, Collecting, NotRunning, NoPort, PortFound, Info, NoInfo
<1>2. Current.vm \in VM
  BY <1>1, CurrentType DEF Inv, AgentTypes, Listing
<1>3. ASSUME NEW w \in VM \cup {None}, NEW m \in BOOLEAN,
             NEW x \in Errors \cup {None}, ~m => x # None,
             Add(Entry(Current.vm, w, m, x))
      PROVE  Inv'
  <2> DEFINE e == Entry(Current.vm, w, m, x)
  <2>1. e \in Entries /\ e.vm = Current.vm /\ e.measured = m /\ e.error = x
    BY <1>2 DEF Entry, Entries
  <2>2. Add(e) /\ (~e.measured => e.error # None)
    BY <1>3, <2>1
  <2> HIDE DEF e
  <2>3. QED
    BY <1>1, <2>1, <2>2, AddInv
<1>4. CASE NotRunning \/ NoPort \/ NoInfo
  <2>1. PICK x \in Errors : Add(Entry(Current.vm, None, FALSE, x))
    BY <1>4 DEF NotRunning, NoPort, NoInfo, Errors
  <2>2. QED
    BY <1>3, <2>1, AgentAssumption
<1>5. CASE Info
  <2>1. PICK w \in VM : \/ Add(Entry(Current.vm, w, TRUE, None))
                        \/ Add(Entry(Current.vm, w, FALSE, "tcb_info"))
    BY <1>5 DEF Info
  <2>2. "tcb_info" \in Errors /\ "tcb_info" # None
    BY AgentAssumption DEF Errors
  <2>3. QED
    BY <1>3, <2>1, <2>2
<1>6. CASE PortFound
  <2>1. /\ port' = qemu[Current.vm] /\ port' \in Port /\ Current.running
        /\ at' = "fetching" /\ restarted' = FALSE
        /\ UNCHANGED <<status, report, qemu>>
    BY <1>6 DEF PortFound, PortOf, world
  <2>2. Current' = Current
    BY <2>1 DEF Current
  <2>3. AgentTypes' /\ PortsDistinct' /\ Follows'
    BY <2>1 DEF Inv, AgentTypes, PortsDistinct, Follows
  <2>4. PortIsCurrents'
    BY <1>1, <2>1, <2>2 DEF PortIsCurrents
  <2>5. QED
    BY <2>3, <2>4 DEF Inv
<1>7. QED
  BY <1>4, <1>5, <1>6

(* A VM that starts gets a port nobody has; one that stops is remembered   *)
(* if it is the one being asked.                                           *)
LEMMA WorldInv ==
  ASSUME Inv, NEW v \in VM, Boot(v) \/ Stop(v) \/ Deploy(v) \/ Remove(v)
  PROVE  Inv'
<1>1. /\ UNCHANGED <<at, status, port, report>> /\ Current' = Current
      /\ qemu \in [VM -> States]
  BY DEF Boot, Stop, Deploy, Remove, agent, Current, Inv, AgentTypes
<1>2. PICK s \in States : /\ qemu' = [qemu EXCEPT ![v] = s]
                          /\ s \in Port => \A w \in VM : qemu[w] # s
  BY AgentAssumption DEF Boot, Stop, Deploy, Remove, States
<1>3. restarted' \in BOOLEAN
  BY <1>1 DEF Boot, Stop, Deploy, Remove, Inv, AgentTypes
<1>4. AgentTypes' /\ Follows'
  BY <1>1, <1>2, <1>3 DEF Inv, AgentTypes, Follows
<1>5. PortsDistinct'
  BY <1>1, <1>2 DEF Inv, PortsDistinct
<1>6. PortIsCurrents'
  <2>1. SUFFICES ASSUME at = "fetching", ~restarted'
                 PROVE  qemu'[Current.vm] = port
    BY <1>1 DEF Inv, PortIsCurrents
  <2>2. Len(report) < Len(status) /\ port \in Port
    BY <2>1 DEF Inv, PortIsCurrents
  <2>3. Current.vm \in VM
    BY <2>2, CurrentType DEF Inv, AgentTypes, Listing
  <2>4. ~restarted
    BY <2>1 DEF Boot, Stop, Deploy, Remove, Inv, AgentTypes
  <2>5. qemu[Current.vm] = port
    BY <2>1, <2>4 DEF Inv, PortIsCurrents
  <2>6. Current.vm # v
    BY <2>1, <2>2, <2>5, AgentAssumption DEF Boot, Stop, Deploy, Remove
  <2>7. QED
    BY <1>1, <1>2, <2>3, <2>5, <2>6
<1>7. QED
  BY <1>4, <1>5, <1>6 DEF Inv

LEMMA NextInv == Inv /\ [Next]_vars => Inv'
<1> SUFFICES ASSUME Inv, [Next]_vars PROVE Inv'
  OBVIOUS
<1>1. CASE StartRound
  BY <1>1 DEF StartRound, world, Inv, AgentTypes, PortsDistinct, Follows, PortIsCurrents
<1>2. CASE Listed
  BY <1>2, ListedInv
<1>3. CASE NotListed
  BY <1>3 DEF NotListed, world, Inv, AgentTypes, PortsDistinct, Follows, PortIsCurrents
<1>4. CASE NotRunning \/ NoPort \/ PortFound \/ Info \/ NoInfo
  BY <1>4, CollectInv
<1>5. CASE Push
  BY <1>5 DEF Push, world, Inv, AgentTypes, PortsDistinct, Follows, PortIsCurrents
<1>6. CASE PushEnds
  BY <1>6 DEF PushEnds, world, Inv, AgentTypes, PortsDistinct, Follows, PortIsCurrents
<1>7. CASE \E v \in VM : Boot(v) \/ Stop(v) \/ Deploy(v) \/ Remove(v)
  BY <1>7, WorldInv
<1>8. CASE ServiceChanges
  BY <1>8 DEF ServiceChanges, agent, Inv, AgentTypes, PortsDistinct, Follows,
              PortIsCurrents, Current
<1>9. CASE UNCHANGED vars
  BY <1>9 DEF vars, world, agent, Inv, AgentTypes, PortsDistinct, Follows,
              PortIsCurrents, Current
<1>10. QED
  BY <1>1, <1>2, <1>3, <1>4, <1>5, <1>6, <1>7, <1>8, <1>9 DEF Next, Proceed

LEMMA AlwaysInv == Spec => []Inv
<1>1. QED
  BY InitInv, NextInv, PTL DEF Spec

(* A pushed report has an entry for every VM of the vmm's list, in its     *)
(* order, and none without measurements is silent (collect, collect_vm),   *)
(* however many VMs there are and whichever of them fail.                  *)
THEOREM NothingLeftOutTheorem == Spec => []NothingLeftOut
<1>1. Inv => NothingLeftOut
  <2> SUFFICES ASSUME Inv, at = "pushing"
               PROVE  /\ Len(report) = Len(status)
                      /\ \A i \in DOMAIN report :
                             /\ report[i].vm = status[i].vm
                             /\ ~report[i].measured => report[i].error # None
    BY DEF NothingLeftOut
  <2>1. DOMAIN report = 1 .. Len(report)
    BY DEF Inv, AgentTypes
  <2>2. QED
    BY <2>1 DEF Inv, AgentTypes, Follows
<1>2. QED
  BY <1>1, AlwaysInv, PTL

(* Entries are added one at a time, by Add. *)
LEMMA NewEntry ==
  ASSUME Inv, Next, NEW i \in DOMAIN report' \ DOMAIN report,
         report'[i].evidence # None
  PROVE  report'[i].evidence = report'[i].vm \/ restarted
<1>1. report \in Seq(Entries) /\ Len(report) \in Nat
  BY DEF Inv, AgentTypes
<1>2. \A e : Add(e) => i = Len(report) + 1 /\ report'[i] = e
  <2>1. SUFFICES ASSUME NEW e, Add(e) PROVE i = Len(report) + 1 /\ report'[i] = e
    OBVIOUS
  <2>2. report' = Append(report, e)
    BY <2>1 DEF Add
  <2>3. /\ DOMAIN report' = 1 .. (Len(report) + 1) /\ DOMAIN report = 1 .. Len(report)
        /\ report'[Len(report) + 1] = e
    BY <1>1, <2>2
  <2>4. QED
    BY <1>1, <2>3
<1>3. CASE NotRunning \/ NoPort \/ NoInfo
  <2>1. PICK x : Add(Entry(Current.vm, None, FALSE, x))
    BY <1>3 DEF NotRunning, NoPort, NoInfo
  <2>2. QED
    BY <1>2, <2>1 DEF Entry
<1>4. CASE Info
  <2>1. PICK w \in VM : /\ qemu[w] = port
                        /\ \/ Add(Entry(Current.vm, w, TRUE, None))
                           \/ Add(Entry(Current.vm, w, FALSE, "tcb_info"))
    BY <1>4 DEF Info
  <2>2. report'[i].evidence = w /\ report'[i].vm = Current.vm
    BY <1>2, <2>1 DEF Entry
  <2>3. CASE ~restarted
    <3>1. qemu[Current.vm] = port /\ port \in Port /\ Len(report) < Len(status)
      BY <1>4, <2>3 DEF Info, Inv, PortIsCurrents
    <3>2. Current.vm \in VM
      BY <3>1, CurrentType DEF Inv, AgentTypes, Listing
    <3>3. w = Current.vm
      BY <2>1, <3>1, <3>2 DEF Inv, PortsDistinct
    <3>4. QED
      BY <2>2, <3>3
  <2>4. QED
    BY <2>3 DEF Inv, AgentTypes
<1>5. CASE Listed \/ PushEnds
  <2>1. report' = <<>>
    BY <1>5 DEF Listed, PushEnds
  <2>2. QED
    BY <2>1
<1>6. CASE UNCHANGED report
  BY <1>6
<1>7. StartRound \/ NotListed \/ PortFound \/ Push => UNCHANGED report
  BY DEF StartRound, NotListed, PortFound, Push
<1>8. ServiceChanges \/ (\E v \in VM : Boot(v) \/ Stop(v) \/ Deploy(v) \/ Remove(v))
          => UNCHANGED report
  BY DEF ServiceChanges, Boot, Stop, Deploy, Remove, agent
<1>9. QED
  BY <1>3, <1>4, <1>5, <1>6, <1>7, <1>8 DEF Next, Proceed

(* Evidence is entered for the VM whose guest agent gave it, unless that   *)
(* VM stopped after its port was looked up (find_agent_port, then          *)
(* fetch_info): discovery at every call and the exclusive use of ports are *)
(* enough, for any number of VMs.                                          *)
THEOREM EvidenceIsOwnTheorem == Spec => EvidenceIsOwn
<1>1. Inv /\ [Next]_vars =>
          [\A i \in DOMAIN report' \ DOMAIN report :
              report'[i].evidence # None =>
                  report'[i].evidence = report'[i].vm \/ restarted]_vars
  BY NewEntry
<1>2. QED
  BY <1>1, AlwaysInv, PTL DEF Spec, EvidenceIsOwn

-----------------------------------------------------------------------------
(* The agent implements Collection.                                        *)
Present == {v \in VM : qemu[v] # "removed"}
Running == {v \in VM : qemu[v] \in Port}

LEMMA InitCollection == Init => Abstract!Init
  BY AgentAssumption DEF Init, Abstract!Init

(* The vmm's list names every VM once, since it is as long as there are    *)
(* VMs and names them all.                                                 *)
LEMMA ListedBegins ==
  ASSUME Inv, Listed
  PROVE  Abstract!Begin
<1> DEFINE n == Cardinality(Present)
<1>1. IsFiniteSet(Present) /\ n \in Nat
  BY AgentAssumption, FS_Subset, FS_CardinalityType, Present \subseteq VM DEF Present
<1>2. PICK f \in [1 .. n -> Present] :
          /\ Present = {f[i] : i \in DOMAIN f}
          /\ status' = [i \in DOMAIN f |-> [vm |-> f[i], running |-> qemu[f[i]] \in Port]]
  BY DEF Listed, Present
<1>3. /\ report' = <<>> /\ UNCHANGED <<qemu, restarted>> /\ Len(report) = Len(status)
      /\ at # "fetching" /\ at' # "fetching"
  BY DEF Listed, world, Inv, AgentTypes
<1>4. IsFiniteSet(1 .. n) /\ Cardinality(1 .. n) = n
  BY <1>1, FS_Interval
<1>5. f \in Surjection(1 .. n, Present)
  <2> HIDE DEF n
  <2> QED
    BY <1>2 DEF Surjection
<1>6. \A i, j \in 1 .. n : f[i] = f[j] => i = j
  <2>1. f \in Injection(1 .. n, Present)
    BY <1>4, <1>5, FS_SurjSameCardinalityImpliesInj
  <2>2. QED
    BY <2>1 DEF Injection, IsInjective
<1> HIDE DEF n
<1>7. /\ DOMAIN f = 1 .. n /\ DOMAIN status' = 1 .. n
      /\ \A i \in 1 .. n : /\ status'[i].vm = f[i] /\ f[i] \in Present
                           /\ status'[i].running <=> qemu[f[i]] \in Port
  BY <1>2
<1>8. {status'[i].vm : i \in DOMAIN status'} = Present
  BY <1>2, <1>7
<1>9. \A i, j \in DOMAIN status' : status'[i].vm = status'[j].vm => i = j
  BY <1>6, <1>7
<1>10. \A i \in DOMAIN status' : status'[i].running <=> status'[i].vm \in Running
  BY <1>7 DEF Present, Running
<1>11. QED
  BY <1>3, <1>8, <1>9, <1>10 DEF Abstract!Begin, Abstract!Complete, Present, Running

(* What the agent enters fits the VM in turn.                              *)
LEMMA AddEnters ==
  ASSUME Inv, Len(report) < Len(status), at \in {"collect", "fetching"},
         NEW e, Add(e), Abstract!Fits(e)
  PROVE  Abstract!Enter
<1>1. report \in Seq(Entries) /\ Len(report) \in Nat
  BY DEF Inv, AgentTypes
<1>2. report' = Append(report, e) /\ at' = "collect" /\ UNCHANGED <<status, qemu, restarted>>
  BY DEF Add, world
<1>3. report'[Len(report) + 1] = e /\ Len(report') = Len(report) + 1
  BY <1>1, <1>2
<1>4. Len(report) # Len(status)
  BY <1>1
<1>5. QED
  BY <1>2, <1>3, <1>4 DEF Abstract!Enter, Abstract!Complete

LEMMA EntriesFit ==
  ASSUME Inv, NotRunning \/ NoPort \/ Info \/ NoInfo
  PROVE  Abstract!Enter
<1>1. /\ Len(report) < Len(status) /\ Current \in Listing
      /\ Abstract!Turn = Current /\ at \in {"collect", "fetching"}
  BY CurrentType DEF Inv, AgentTypes, PortIsCurrents, Collecting, NotRunning, NoPort, Info,
                     NoInfo, Abstract!Turn, Current
<1>2. Current.vm \in VM /\ Current.running \in BOOLEAN
  BY <1>1 DEF Listing
<1>3. ASSUME NEW w \in VM \cup {None}, NEW m \in BOOLEAN, NEW x \in Errors \cup {None},
             Add(Entry(Current.vm, w, m, x)),
             m <=> x = None, w # None <=> x \in {None, "tcb_info"},
             x \in {None, "no_info", "tcb_info"} <=> at = "fetching",
             w # None => qemu[w] \in Port /\ (w = Current.vm \/ restarted),
             x = "not_running" <=> ~Current.running
      PROVE  Abstract!Enter
  <2> DEFINE e == Entry(Current.vm, w, m, x)
  <2>1. e.vm = Current.vm /\ e.evidence = w /\ e.measured = m /\ e.error = x
    BY DEF Entry
  <2>2. Add(e)
    BY <1>3
  <2> HIDE DEF e
  <2>3. Abstract!Fits(e)
    BY <1>1, <1>2, <1>3, <2>1 DEF Abstract!Fits
  <2>4. QED
    BY <1>1, <2>2, <2>3, AddEnters
<1>4. CASE NotRunning
  BY <1>3, <1>4, AgentAssumption DEF NotRunning, Collecting, Errors
<1>5. CASE NoPort
  BY <1>3, <1>5, AgentAssumption DEF NoPort, Collecting, Errors
<1>6. CASE NoInfo
  <2>1. Current.running /\ at = "fetching"
    BY <1>6 DEF NoInfo, Inv, PortIsCurrents
  <2>2. QED
    BY <1>3, <1>6, <2>1, AgentAssumption DEF NoInfo, Errors
<1>7. CASE Info
  <2>1. PICK w \in VM : /\ qemu[w] = port
                        /\ \/ Add(Entry(Current.vm, w, TRUE, None))
                           \/ Add(Entry(Current.vm, w, FALSE, "tcb_info"))
    BY <1>7 DEF Info
  <2>2. /\ Current.running /\ port \in Port /\ at = "fetching"
        /\ ~restarted => qemu[Current.vm] = port
    BY <1>7 DEF Info, Inv, PortIsCurrents
  <2>3. w = Current.vm \/ restarted
    BY <1>2, <2>1, <2>2 DEF Inv, PortsDistinct, AgentTypes
  <2>4. w # None /\ qemu[w] \in Port /\ "tcb_info" \in Errors /\ "tcb_info" # None
    BY <2>1, <2>2, AgentAssumption DEF Errors
  <2>5. QED
    BY <1>3, <2>1, <2>2, <2>3, <2>4, AgentAssumption DEF Errors
<1>8. QED
  BY <1>4, <1>5, <1>6, <1>7

(* The world moves under the round; the VM in turn is remembered only if   *)
(* it really stopped.                                                      *)
LEMMA WorldMovesOn ==
  ASSUME Inv, NEW v \in VM, Boot(v) \/ Stop(v) \/ Deploy(v) \/ Remove(v)
  PROVE  Abstract!WorldMoves
<1>1. UNCHANGED <<status, report, at>>
  BY DEF Boot, Stop, Deploy, Remove, agent
<1>2. ASSUME restarted' # restarted
      PROVE  /\ restarted' = TRUE /\ at = "fetching" /\ Len(report) # Len(status)
             /\ Abstract!Turn.vm \in Running \ Running'
  <2>1. /\ qemu[v] \in Port /\ qemu' = [qemu EXCEPT ![v] = "stopped"]
        /\ restarted' = (restarted \/ (at = "fetching" /\ Current.vm = v))
    BY <1>2 DEF Boot, Stop, Deploy, Remove
  <2>2. at = "fetching" /\ Current.vm = v /\ restarted' = TRUE
    BY <1>2, <2>1 DEF Inv, AgentTypes
  <2>3. Len(report) # Len(status)
    BY <2>2 DEF Inv, AgentTypes, PortIsCurrents
  <2>4. v \in Running /\ v \notin Running'
    BY <2>1, AgentAssumption DEF Running, Inv, AgentTypes
  <2>5. QED
    BY <2>2, <2>3, <2>4 DEF Abstract!Turn, Current
<1>3. QED
  BY <1>1, <1>2 DEF Abstract!WorldMoves, Abstract!Complete, Running

LEMMA CollectionStep ==
  ASSUME Inv, [Next]_vars
  PROVE  [Abstract!Next]_(Abstract!collectionVars)
<1> USE DEF Abstract!collectionVars
<1>1. ASSUME UNCHANGED <<qemu, status, report, restarted>>,
             (at = "fetching") = (at' = "fetching")
      PROVE  UNCHANGED Abstract!collectionVars
  BY <1>1
<1>2. CASE StartRound \/ NotListed \/ Push \/ ServiceChanges \/ UNCHANGED vars
  BY <1>1, <1>2 DEF StartRound, NotListed, Push, ServiceChanges, vars, world, agent
<1>3. CASE Listed
  BY <1>3, ListedBegins DEF Abstract!Next
<1>4. CASE NotRunning \/ NoPort \/ Info \/ NoInfo
  BY <1>4, EntriesFit DEF Abstract!Next
<1>5. CASE PortFound
  <2>1. /\ Len(report) # Len(status) /\ Abstract!Turn = Current /\ Current.vm \in VM
        /\ Current.running /\ qemu[Current.vm] \in Port /\ restarted' = FALSE
        /\ at = "collect" /\ at' = "fetching"
        /\ UNCHANGED <<qemu, status, report>>
    BY <1>5, CurrentType
       DEF PortFound, PortOf, Collecting, world, Inv, AgentTypes, Listing, Abstract!Turn, Current
  <2>2. QED
    BY <2>1 DEF Abstract!Next, Abstract!Look, Abstract!Complete
<1>6. CASE PushEnds
  <2>1. Len(report) = Len(status)
    BY <1>6 DEF PushEnds, Inv, AgentTypes
  <2>2. /\ status' = <<>> /\ report' = <<>> /\ UNCHANGED <<qemu, restarted>>
        /\ at # "fetching" /\ at' # "fetching"
    BY <1>6 DEF PushEnds, world
  <2>3. QED
    BY <2>1, <2>2 DEF Abstract!Next, Abstract!End, Abstract!Complete
<1>7. CASE \E v \in VM : Boot(v) \/ Stop(v) \/ Deploy(v) \/ Remove(v)
  BY <1>7, WorldMovesOn DEF Abstract!Next
<1>8. QED
  BY <1>2, <1>3, <1>4, <1>5, <1>6, <1>7 DEF Next, Proceed

(* However VMs come and go and whatever does not answer, the agent's       *)
(* rounds are Collection's: one entry per VM of the list, in order, which  *)
(* tells how far the agent got with it, and no list left half done         *)
(* (collect, collect_vm).                                                  *)
THEOREM AgentImplementsCollection == Spec => CollectionSpec
<1>1. QED
  BY AlwaysInv, InitCollection, CollectionStep, PTL DEF Spec, CollectionSpec, Abstract!Spec
=============================================================================
