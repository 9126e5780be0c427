----------------------------- MODULE FleetProofs -----------------------------
(***************************************************************************)
(* Proofs about Fleet, for any nodes, rounds, clock and restarts, and any  *)
(* network: reports are overtaken only by abandoned ones, and a report     *)
(* that was answered 200 is still covered after a crash.                   *)
(***************************************************************************)
EXTENDS Fleet, PortalProofs

LEMMA FleetStep == [FleetNext]_fleetVars => [Next]_vars
  BY DEF FleetNext, fleetVars, Send, Acked, GiveUp, Arrive, Rejected, Refuse, Serve, Next, vars

(* With its agents and the network around it the portal is still Portal:   *)
(* everything proved of Spec holds of FleetSpec.                           *)
THEOREM FleetRefinesPortal == FleetSpec => Spec
  BY FleetStep, PTL DEF FleetSpec, FleetInit, Spec

-----------------------------------------------------------------------------
(* What the agents know, against where their pushes are in the portal; a   *)
(* push is not sent before all earlier ones of its node are over.          *)
InOrder ==
    /\ sent \in [Push -> {"unsent", "waiting"} \cup Outcome]
    /\ net \in SUBSET Push
    /\ \A p \in net : sent[p] # "unsent" /\ job[p] = "unsent"
    /\ \A p \in Push : sent[p] = "unsent" => job[p] = "unsent"
    /\ \A p \in Push : sent[p] = "refused" => job[p] = "unsent" /\ p \notin net
    /\ \A p \in Push : sent[p] = "acked" => job[p] \in {"verifying", "settled", "lost"}
    /\ \A p, q \in Push : sent[p] # "unsent" /\ Earlier(q, p) => sent[q] \in Outcome

LEMMA InOrderStep ==
  ASSUME PortalTypeOK, InOrder, [FleetNext]_fleetVars
  PROVE  InOrder'
<1> USE DEF InOrder, Outcome, Earlier
<1>1. ASSUME NEW p \in Push, Send(p) PROVE InOrder'
  <2>1. sent' = [sent EXCEPT ![p] = "waiting"] /\ net' = net \cup {p} /\ job' = job
        /\ sent[p] = "unsent"
    BY <1>1 DEF Send, vars, portalVars
  <2>2. \A q \in Push : Earlier(q, p) => sent[q] \in Outcome
    BY <1>1 DEF Send
  <2>3. ~ Earlier(p, p)
    BY FleetAssumption
  <2>4. \A r, q \in Push : sent'[r] # "unsent" /\ Earlier(q, r) => sent'[q] \in Outcome
    BY <2>1, <2>2, <2>3
  <2>5. QED
    BY <2>1, <2>4
<1>2. ASSUME NEW p \in Push, Acked(p) PROVE InOrder'
  BY <1>2 DEF Acked, vars, portalVars
<1>3. ASSUME NEW p \in Push, GiveUp(p) PROVE InOrder'
  BY <1>3 DEF GiveUp, vars, portalVars
<1>4. ASSUME NEW p \in Push, Arrive(p) PROVE InOrder'
  BY <1>4 DEF Arrive, Receive, PortalTypeOK
<1>5. ASSUME NEW p \in Push, Rejected(p) PROVE InOrder'
  BY <1>5 DEF Rejected, Refuse, vars, portalVars
<1>6. ASSUME UNCHANGED <<sent, net>>,
             \A p \in Push : job'[p] = "unsent" <=> job[p] = "unsent",
             \A p \in Push : job[p] \in {"verifying", "settled", "lost"}
                                => job'[p] \in {"verifying", "settled", "lost"}
      PROVE  InOrder'
  BY <1>6
<1>7. CASE Serve
  <2> USE DEF PortalTypeOK
  <2>1. ASSUME NEW p \in Push, Handle(p)
        PROVE  /\ \A q \in Push : job'[q] = "unsent" <=> job[q] = "unsent"
               /\ \A q \in Push : job[q] \in {"verifying", "settled", "lost"}
                                     => job'[q] \in {"verifying", "settled", "lost"}
    BY <2>1 DEF Handle, Insert, Spawn, Stamp, Drop
  <2>2. ASSUME job' = job
        PROVE  /\ \A q \in Push : job'[q] = "unsent" <=> job[q] = "unsent"
               /\ \A q \in Push : job[q] \in {"verifying", "settled", "lost"}
                                     => job'[q] \in {"verifying", "settled", "lost"}
    BY <2>2
  <2>3. CASE Restart
    BY <1>6, <1>7, <2>3 DEF Serve, Restart, InFlight
  <2>4. QED
    BY <1>6, <1>7, <2>1, <2>2, <2>3 DEF Serve, SaveStep, portalVars, Tick
<1>8. CASE UNCHANGED fleetVars
  BY <1>6, <1>8 DEF fleetVars, vars, portalVars
<1>9. QED
  <2> HIDE DEF InOrder
  <2> QED
    BY <1>1, <1>2, <1>3, <1>4, <1>5, <1>7, <1>8 DEF FleetNext

(* The report a handler is about to insert is not older than any other     *)
(* that was sent, or its agent has given it up.                            *)
LEMMA NotOvertaking ==
  ASSUME InOrder, NEW p \in Push, NEW q \in Push,
         NodeOf[p] = NodeOf[q], job[p] = "received", sent[q] # "unsent"
  PROVE  RoundOf[p] >= RoundOf[q] \/ sent[p] = "abandoned"
<1>1. RoundOf[p] \in Nat /\ RoundOf[q] \in Nat
  BY FleetAssumption
<1>2. SUFFICES ASSUME RoundOf[p] < RoundOf[q] PROVE sent[p] = "abandoned"
  BY <1>1
<1>3. sent[p] \in Outcome
  BY <1>2 DEF InOrder, Earlier
<1>4. sent[p] # "acked" /\ sent[p] # "refused"
  BY DEF InOrder
<1>5. QED
  BY <1>3, <1>4 DEF Outcome

-----------------------------------------------------------------------------
(* Every report in the map was sent, and is its node's.                    *)
LEMMA EntrySent ==
  ASSUME PortalTypeOK, AllAccounted, InOrder, NEW n \in Node, reports[n] # None
  PROVE  /\ reports[n].push \in Push
         /\ NodeOf[reports[n].push] = n
         /\ sent[reports[n].push] # "unsent"
<1>1. reports \in Map
  BY DEF PortalTypeOK
<1>2. reports[n].push \in Push /\ reports[n].at \in Time
  BY <1>1, EntryTypes
<1>3. NodeOf[reports[n].push] = n /\ received[reports[n].push] = reports[n].at
  BY DEF AllAccounted, Accounted
<1>4. job[reports[n].push] # "unsent"
  BY <1>2, <1>3, PortalAssumption DEF PortalTypeOK
<1>5. QED
  BY <1>2, <1>3, <1>4 DEF InOrder

FleetInv == PortalInv /\ (~mixed => AllAccounted) /\ Mirror /\ InOrder

LEMMA FleetInvInit == FleetInit => FleetInv
<1> SUFFICES ASSUME FleetInit PROVE FleetInv
  OBVIOUS
<1>1. Init
  BY DEF FleetInit
<1>2. PortalInv
  BY <1>1, PortalInvInit
<1>3. AllAccounted
  <2>1. Given = {}
    BY <1>1 DEF Init, FileInit, Given
  <2>2. QED
    BY <1>1, <2>1, PortalAssumption DEF Init, AllAccounted, Accounted
<1>4. Mirror
  BY <1>1 DEF Init, FileInit, Mirror, Busy, Loaded
<1>5. InOrder
  BY <1>1 DEF FleetInit, Init, InOrder, Outcome
<1>6. QED
  BY <1>2, <1>3, <1>4, <1>5 DEF FleetInv

LEMMA FleetInvStep == FleetInv /\ [FleetNext]_fleetVars => FleetInv'
<1> SUFFICES ASSUME FleetInv, [FleetNext]_fleetVars PROVE FleetInv'
  OBVIOUS
<1>1. [Next]_vars
  BY FleetStep
<1>2. PortalInv' /\ (~mixed => AllAccounted)' /\ Mirror'
  BY <1>1, PortalInvStep, AllAccountedStep, MixedStays, MirrorStep DEF FleetInv
<1>3. InOrder'
  BY InOrderStep DEF FleetInv, PortalInv
<1>4. QED
  BY <1>2, <1>3 DEF FleetInv

(* Type correctness; a request under way was sent and not handled yet.     *)
THEOREM FleetTypeCorrect == FleetSpec => []FleetTypeOK
<1>1. FleetInv => FleetTypeOK
  BY DEF FleetInv, PortalInv, FileInv, InOrder, FleetTypeOK, TypeOK
<1>2. QED
  BY FleetInvInit, FleetInvStep, <1>1, PTL DEF FleetSpec

(* The reports of a node are overtaken only by one its agent has given up, *)
(* or by a restart (agent main.rs:122-145, main.rs:148-154).               *)
THEOREM OnlyAbandonedOvertakesTheorem == FleetSpec => OnlyAbandonedOvertakes
<1> DEFINE A == \A n \in Node :
          (~mixed /\ reports[n] # None /\ reports'[n] # None /\ restarts' = restarts
             /\ RoundOf[reports'[n].push] < RoundOf[reports[n].push])
          => sent[reports'[n].push] = "abandoned"
<1>1. FleetInv /\ [FleetNext]_fleetVars => [A]_fleetVars
  <2> SUFFICES ASSUME FleetInv, FleetNext, NEW n \in Node, ~mixed,
                      reports[n] # None, reports'[n] # None, restarts' = restarts,
                      RoundOf[reports'[n].push] < RoundOf[reports[n].push]
               PROVE  sent[reports'[n].push] = "abandoned"
    OBVIOUS
  <2>0. /\ reports \in Map /\ reports[n].push \in Push
        /\ NodeOf[reports[n].push] = n /\ sent[reports[n].push] # "unsent"
        /\ RoundOf[reports[n].push] \in Nat
    BY EntrySent, FleetAssumption DEF FleetInv, PortalInv, PortalTypeOK
  <2>1. ASSUME reports'[n].push = reports[n].push PROVE FALSE
    BY <2>0, <2>1
  <2>2. ASSUME NEW p \in Push, Insert(p) PROVE sent[reports'[n].push] = "abandoned"
    <3>1. CASE NodeOf[p] # n
      <4>1. reports'[n] = reports[n]
        BY <2>2, <3>1 DEF Insert
      <4>2. QED
        BY <2>1, <4>1
    <3>2. CASE NodeOf[p] = n
      <4>1. reports'[n].push = p /\ job[p] = "received"
        BY <2>0, <2>2, <3>2, PortalAssumption DEF Insert
      <4>2. RoundOf[p] >= RoundOf[reports[n].push] \/ sent[p] = "abandoned"
        BY <2>0, <3>2, <4>1, NotOvertaking DEF FleetInv
      <4>3. QED
        BY <2>0, <4>1, <4>2, FleetAssumption
    <3>3. QED
      BY <3>1, <3>2
  <2>3. ASSUME NEW p \in Push, Stamp(p) PROVE FALSE
    <3>1. reports' = [reports EXCEPT ![NodeOf[p]].verdicts = p]
      BY <2>3 DEF Stamp
    <3>2. reports'[n].push = reports[n].push
      BY <2>0, <3>1, PortalAssumption DEF Entry
    <3>3. QED
      BY <2>1, <3>2
  <2>4. ASSUME reports' = reports PROVE FALSE
    BY <2>1, <2>4
  <2>5. CASE Restart
    BY <2>5 DEF FleetInv, PortalInv, PortalTypeOK, Restart
  <2>6. QED
    BY <2>2, <2>3, <2>4, <2>5
       DEF FleetNext, Send, Acked, GiveUp, Arrive, Receive, Rejected, Refuse, Serve,
           Handle, Spawn, Drop, SaveStep, Tick, vars, portalVars
<1>2. QED
  BY FleetInvInit, FleetInvStep, <1>1, PTL DEF FleetSpec, OnlyAbandonedOvertakes
-----------------------------------------------------------------------------
(* Why an answer 200 can be relied on.  What a handler has inserted is     *)
(* covered by the map in memory; what it has saved, or what was answered,  *)
(* is covered by the file as well.                                         *)
Durable == Persist /\ ~IOErrors /\ ~clash /\ ~dark
Sound   == restarts = 0 \/ Durable

Stored(p) == job[p] \in {"saving", "verifying", "settled"} \/ sent[p] = "acked"
Saved(p)  == \/ job[p] \in {"verifying", "settled"}
             \/ job[p] = "saving" /\ saver[Ingest(p)].at = "done"
             \/ sent[p] = "acked"

Secured ==
    /\ Sound   => \A p \in Push : Stored(p) => Covers(reports, p)
    /\ Durable => \A p \in Push : Saved(p) => Covers(Loaded, p)
    /\ Persist => \A p \in Push : job[p] = "saving" => saver[Ingest(p)].at # "idle"

LEMMA LoadedMap == FileTypeOK /\ HeadsGiven => Loaded \in Map
  BY FileAssumption DEF FileTypeOK, Link, HeadsGiven, Given, Loaded, Readable

LEMMA SaverApart ==
    \A p, q \in Push : Ingest(p) # Verify(q) /\ (Ingest(p) = Ingest(q) => p = q)
  BY DEF Ingest, Verify

(* History is only added to. *)
LEMMA DurableBefore ==
  ASSUME FleetInv, [FleetNext]_fleetVars
  PROVE  /\ Durable' => Durable
         /\ Sound' => Sound
<1>1. [Next]_vars
  BY FleetStep
<1>2. UNCHANGED fileVars \/ FileNext
  BY <1>1, PortalTypeStep DEF FleetInv
<1>3. Durable' => Durable
  <2>1. clash => clash'
    BY <1>2 DEF FileNext, Step, Begin, Create, Short, Write, Rename, Abort, Crash, PowerCut, fileVars
  <2>2. dark => dark'
    BY <1>2 DEF FileNext, Step, Begin, Create, Short, Write, Rename, Abort, Crash, PowerCut, fileVars
  <2>3. QED
    BY <2>1, <2>2 DEF Durable
<1>4. restarts' = 0 => restarts = 0
  <2>1. restarts \in Nat
    BY PortalAssumption DEF FleetInv, PortalInv, PortalTypeOK
  <2>2. CASE Restart
    BY <2>1, <2>2 DEF Restart
  <2>3. CASE ~Restart
    BY <1>1, <2>3 DEF Next, Receive, Handle, Insert, Spawn, Stamp, Drop, SaveStep,
                      Tick, vars, portalVars
  <2>4. QED
    BY <2>2, <2>3
<1>5. QED
  BY <1>3, <1>4 DEF Sound

(* An agent's step changes neither map, and what was given up stays so.    *)
LEMMA AgentKeepsSecured ==
  ASSUME FleetInv, Secured, UNCHANGED vars,
         \A p \in Push : sent[p] = "abandoned" => sent'[p] = "abandoned",
         \A p \in Push : sent'[p] = "acked" =>
                sent[p] = "acked" \/ job[p] \in {"verifying", "settled"}
  PROVE  Secured'
<1>1. UNCHANGED <<reports, job, restarts, tmp, path, data, saver, clash, failed, dark>>
  BY DEF vars, portalVars, fileVars
<1>2. Loaded' = Loaded /\ Durable' = Durable /\ Sound' = Sound
  BY <1>1 DEF Loaded, Readable, Durable, Sound
<1>3. reports \in Map /\ Loaded \in Map
  BY LoadedMap DEF FleetInv, PortalInv, FileInv, PortalTypeOK
<1>4. ASSUME NEW p \in Push, Covers(reports, p) PROVE Covers(reports, p)'
  BY <1>1, <1>3, <1>4, EntryTypes, PortalAssumption DEF Covers
<1>5. ASSUME NEW p \in Push, Covers(Loaded, p) PROVE Covers(Loaded, p)'
  BY <1>2, <1>3, <1>5, EntryTypes, PortalAssumption DEF Covers
<1>6. \A p \in Push : (Stored(p)' => Stored(p)) /\ (Saved(p)' => Saved(p))
  BY <1>1 DEF Stored, Saved
<1>7. QED
  BY <1>1, <1>2, <1>4, <1>5, <1>6 DEF Secured

(* A step of the portal that keeps the reports of both maps. *)
LEMMA PortalKeepsSecured ==
  ASSUME FleetInv, [FleetNext]_fleetVars, Secured, sent' = sent,
         \A p \in Push : Covers(reports, p) => Covers(reports', p),
         Durable' => Loaded' = Loaded,
         \A p \in Push : Stored(p)' => Stored(p),
         \A p \in Push : Durable' /\ Saved(p)' => Saved(p),
         Persist => \A p \in Push : job'[p] = "saving" => saver'[Ingest(p)].at # "idle"
  PROVE  Secured'
<1>1. (Durable' => Durable) /\ (Sound' => Sound)
  BY DurableBefore
<1>2. ASSUME Sound', NEW p \in Push, Stored(p)' PROVE Covers(reports, p)'
  BY <1>1, <1>2 DEF Secured, Covers
<1>3. ASSUME Durable', NEW p \in Push, Saved(p)' PROVE Covers(Loaded, p)'
  BY <1>1, <1>3 DEF Secured, Covers
<1>4. QED
  BY <1>2, <1>3 DEF Secured

LEMMA SecuredStep ==
  ASSUME FleetInv, Secured, [FleetNext]_fleetVars
  PROVE  Secured'
<1>0. /\ FileInv /\ FileTypeOK /\ PortalTypeOK /\ HeadsGiven /\ InOrder
      /\ reports \in Map /\ Loaded \in Map
  BY LoadedMap DEF FleetInv, PortalInv, FileInv, PortalTypeOK
<1>1. ASSUME NEW p \in Push, Send(p) \/ Acked(p) \/ GiveUp(p) \/ Rejected(p)
      PROVE  Secured'
  <2>1. UNCHANGED vars
    BY <1>1 DEF Send, Acked, GiveUp, Rejected, Refuse
  <2>2. \A q \in Push : sent[q] = "abandoned" => sent'[q] = "abandoned"
    BY <1>0, <1>1 DEF Send, Acked, GiveUp, Rejected, InOrder
  <2>3. \A q \in Push : sent'[q] = "acked" =>
            sent[q] = "acked" \/ job[q] \in {"verifying", "settled"}
    BY <1>0, <1>1 DEF Send, Acked, GiveUp, Rejected, InOrder
  <2>4. QED
    BY <2>1, <2>2, <2>3, AgentKeepsSecured
<1>2. CASE UNCHANGED fleetVars
  BY <1>2, AgentKeepsSecured DEF fleetVars
<1>3. ASSUME NEW p \in Push, Arrive(p) PROVE Secured'
  <2>1. /\ reports' = reports /\ sent' = sent /\ Loaded' = Loaded /\ saver' = saver
        /\ job' = [job EXCEPT ![p] = "received"]
    BY <1>3 DEF Arrive, Receive, fileVars, Loaded, Readable
  <2>2. \A q \in Push : (Stored(q)' => Stored(q)) /\ (Saved(q)' => Saved(q))
    BY <1>0, <2>1 DEF Stored, Saved, PortalTypeOK
  <2>3. Persist => \A q \in Push : job'[q] = "saving" => saver'[Ingest(q)].at # "idle"
    BY <1>0, <2>1 DEF Secured, PortalTypeOK
  <2>4. QED
    BY <2>1, <2>2, <2>3, PortalKeepsSecured
<1>4. ASSUME NEW p \in Push, Insert(p), sent' = sent PROVE Secured'
  <2> DEFINE n == NodeOf[p]
  <2>0. n \in Node /\ reports \in [Node -> Entry \cup {None}] /\ sent[p] # "unsent"
    BY <1>0, <1>4, PortalAssumption DEF Insert, InOrder
  <2>1. /\ job[p] = "received" /\ job' = [job EXCEPT ![p] = "saving"]
        /\ reports' = [reports EXCEPT ![n] =
                          [push |-> p, at |-> received[p], verdicts |-> None]]
        /\ restarts' = restarts
    BY <1>4 DEF Insert
  <2>2. Loaded' = Loaded
    BY <1>4 DEF Insert, Persisting, Begin, fileVars, Loaded, Readable
  <2>3. (Durable' => Durable) /\ (Sound' => Sound)
    BY DurableBefore
  <2>4. ASSUME NEW q \in Push, NodeOf[q] = n, sent[q] # "unsent" PROVE Covers(reports', q)
    <3>0. received[p] \in Time
      BY <1>0, <2>1 DEF PortalTypeOK
    <3>1. reports'[n].push = p /\ reports'[n] # None
      BY <2>0, <2>1, <3>0, PortalAssumption DEF Entry
    <3>2. QED
      BY <1>0, <2>1, <2>4, <3>1, NotOvertaking DEF Covers
  <2>5. ASSUME NEW q \in Push, NodeOf[q] # n, Covers(reports, q) PROVE Covers(reports', q)
    BY <2>0, <2>1, <2>5 DEF Covers
  <2>6. ASSUME Sound', NEW q \in Push, Stored(q)' PROVE Covers(reports, q)'
    <3>1. q = p \/ Stored(q)
      BY <1>0, <1>4, <2>1, <2>6 DEF Stored, PortalTypeOK
    <3>2. sent[q] # "unsent"
      BY <1>0, <2>0, <3>1 DEF Stored, InOrder
    <3>3. Covers(reports', q)
      BY <2>3, <2>4, <2>5, <2>6, <3>1, <3>2 DEF Secured
    <3>4. QED
      BY <1>4, <3>3 DEF Covers
  <2>7. ASSUME Persist
        PROVE  /\ saver' = [saver EXCEPT ![Ingest(p)] = [at |-> "create", map |-> reports', fd |-> None, off |-> 0]]
               /\ saver'[Ingest(p)].at = "create"
    BY <1>0, <1>4, <2>7, SaverOfPush DEF Insert, Persisting, Begin, FileTypeOK
  <2>8. ASSUME Durable', NEW q \in Push, Saved(q)' PROVE Covers(Loaded, q)'
    <3>1. Saved(q)
      BY <1>0, <1>4, <2>1, <2>7, <2>8, SaverApart, SaverOfPush
         DEF Saved, PortalTypeOK, Durable, FileTypeOK
    <3>2. Covers(Loaded, q)
      BY <2>3, <2>8, <3>1 DEF Secured
    <3>3. QED
      BY <1>4, <2>2, <3>2 DEF Covers
  <2>9. Persist => \A q \in Push : job'[q] = "saving" => saver'[Ingest(q)].at # "idle"
    BY <1>0, <2>1, <2>7, SaverOfPush DEF Secured, PortalTypeOK, FileTypeOK
  <2>10. QED
    BY <2>6, <2>8, <2>9 DEF Secured
<1>5. ASSUME NEW p \in Push, Spawn(p), sent' = sent PROVE Secured'
  <2>1. /\ reports' = reports /\ Loaded' = Loaded /\ saver' = saver
        /\ job[p] = "saving" /\ job' = [job EXCEPT ![p] = "verifying"] /\ ~Busy(Ingest(p))
    BY <1>5 DEF Spawn, fileVars, Loaded, Readable
  <2>2. \A q \in Push : Stored(q)' => Stored(q)
    BY <1>0, <1>5, <2>1 DEF Stored, PortalTypeOK
  <2>3. (Durable' => Durable) /\ (Sound' => Sound)
    BY DurableBefore
  <2>4. ASSUME Durable' PROVE saver[Ingest(p)].at = "done"
    BY <1>0, <2>1, <2>3, <2>4, SaverOfPush DEF Secured, Durable, Busy, FileTypeOK, Stage
  <2>5. \A q \in Push : Durable' /\ Saved(q)' => Saved(q)
    BY <1>0, <1>5, <2>1, <2>4 DEF Saved, PortalTypeOK
  <2>6. Persist => \A q \in Push : job'[q] = "saving" => saver'[Ingest(q)].at # "idle"
    BY <1>0, <2>1 DEF Secured, PortalTypeOK
  <2>7. QED
    BY <1>5, <2>1, <2>2, <2>5, <2>6, PortalKeepsSecured
<1>6. ASSUME NEW p \in Push, Stamp(p), sent' = sent PROVE Secured'
  <2>0. NodeOf[p] \in Node /\ reports \in [Node -> Entry \cup {None}]
    BY <1>0, PortalAssumption
  <2>1. /\ job[p] = "verifying" /\ job' = [job EXCEPT ![p] = "settled"]
        /\ reports[NodeOf[p]] # None
        /\ reports' = [reports EXCEPT ![NodeOf[p]].verdicts = p]
    BY <1>6 DEF Stamp, Matches
  <2>2. Loaded' = Loaded
    BY <1>6 DEF Stamp, Persisting, Begin, fileVars, Loaded, Readable
  <2>3. ASSUME NEW q \in Push, Covers(reports, q) PROVE Covers(reports', q)
    <3>1. reports'[NodeOf[q]].push = reports[NodeOf[q]].push /\ reports'[NodeOf[q]] # None
      BY <2>0, <2>1, <2>3, PortalAssumption DEF Entry, Covers
    <3>2. QED
      BY <2>3, <3>1 DEF Covers
  <2>4. \A q \in Push : Stored(q)' => Stored(q)
    BY <1>0, <1>6, <2>1 DEF Stored, PortalTypeOK
  <2>5. \A q \in Push : Ingest(q) \in Saver /\ saver'[Ingest(q)] = saver[Ingest(q)]
    <3>1. CASE Persist
      <4>1. saver' = [saver EXCEPT ![Verify(p)] = [at |-> "create", map |-> reports', fd |-> None, off |-> 0]]
        BY <1>6, <3>1 DEF Stamp, Persisting, Begin
      <4>2. \A t \in Saver : t # Verify(p) => saver'[t] = saver[t]
        BY <1>0, <4>1 DEF FileTypeOK
      <4>3. QED
        BY <4>2, SaverApart, SaverOfPush
    <3>2. CASE ~Persist
      BY <1>6, <3>2, SaverOfPush DEF Stamp, Persisting, fileVars
    <3>3. QED
      BY <3>1, <3>2
  <2>6. \A q \in Push : Saved(q)' => Saved(q)
    BY <1>0, <1>6, <2>1, <2>5 DEF Saved, PortalTypeOK
  <2>7. Persist => \A q \in Push : job'[q] = "saving" => saver'[Ingest(q)].at # "idle"
    BY <1>0, <2>1, <2>5 DEF Secured, PortalTypeOK
  <2>8. QED
    BY <1>6, <2>2, <2>3, <2>4, <2>6, <2>7, PortalKeepsSecured
<1>7. ASSUME NEW p \in Push, Drop(p), sent' = sent PROVE Secured'
  <2>1. /\ reports' = reports /\ Loaded' = Loaded /\ saver' = saver
        /\ job[p] = "verifying" /\ job' = [job EXCEPT ![p] = "settled"]
    BY <1>7 DEF Drop, fileVars, Loaded, Readable
  <2>2. \A q \in Push : (Stored(q)' => Stored(q)) /\ (Saved(q)' => Saved(q))
    BY <1>0, <1>7, <2>1 DEF Stored, Saved, PortalTypeOK
  <2>3. Persist => \A q \in Push : job'[q] = "saving" => saver'[Ingest(q)].at # "idle"
    BY <1>0, <2>1 DEF Secured, PortalTypeOK
  <2>4. QED
    BY <1>7, <2>1, <2>2, <2>3, PortalKeepsSecured
<1>8. ASSUME NEW s \in Saver, SaveStep(s), sent' = sent PROVE Secured'
  <2>1. reports' = reports /\ job' = job /\ restarts' = restarts /\ Step(s)
    BY <1>8 DEF SaveStep, portalVars
  <2>2. \A t \in Saver : /\ t # s => saver'[t] = saver[t]
                         /\ saver'[t].at = "idle" => saver[t].at = "idle"
    BY <1>0, <2>1 DEF Step, Create, Short, Write, Rename, Abort, Busy, FileTypeOK
  <2>3. \A q \in Push : Stored(q)' => Stored(q)
    BY <1>8, <2>1 DEF Stored
  <2>4. Persist => \A q \in Push : job'[q] = "saving" => saver'[Ingest(q)].at # "idle"
    BY <2>1, <2>2, SaverOfPush DEF Secured
  <2>5. (Durable' => Durable) /\ (Sound' => Sound)
    BY DurableBefore
  <2>6. CASE Rename(s)
    <3>1. ASSUME Durable' PROVE Loaded' = reports
      <4>1. ~clash /\ Persist
        BY <2>5, <3>1 DEF Durable
      <4>2. Busy(s) /\ Loaded' = saver[s].map
        BY <1>0, <2>6, <4>1, RenameLoads DEF Rename, Busy
      <4>3. QED
        BY <4>1, <4>2 DEF FleetInv, Mirror
    <3>2. ASSUME Sound', NEW q \in Push, Stored(q)' PROVE Covers(reports, q)'
      BY <1>8, <2>1, <2>3, <2>5, <3>2 DEF Secured, Covers
    <3>3. ASSUME Durable', NEW q \in Push, Saved(q)' PROVE Covers(Loaded, q)'
      <4>1. Stored(q) /\ Sound
        BY <1>8, <2>1, <2>5, <3>3 DEF Saved, Stored, Sound
      <4>2. Covers(reports, q)
        BY <4>1 DEF Secured
      <4>3. QED
        BY <1>8, <3>1, <3>3, <4>2 DEF Covers
    <3>4. QED
      BY <2>4, <3>2, <3>3 DEF Secured
  <2>7. CASE ~Rename(s)
    <3>1. ASSUME Durable' PROVE (Create(s) \/ Short(s) \/ Write(s)) /\ Loaded' = Loaded
      <4>1. ~clash /\ ~IOErrors
        BY <2>5, <3>1 DEF Durable
      <4>2. Create(s) \/ Short(s) \/ Write(s)
        BY <2>1, <2>7, <4>1 DEF Step, Abort
      <4>3. QED
        BY <1>0, <4>1, <4>2, KeepsLoaded
    <3>2. ASSUME Durable' PROVE saver'[s].at # "done"
      <4>1. CASE Create(s)
        BY <1>0, <4>1 DEF Create, FileTypeOK
      <4>2. CASE Short(s)
        BY <1>0, <4>2 DEF Short, FileTypeOK
      <4>3. CASE Write(s)
        BY <1>0, <4>3 DEF Write, FileTypeOK
      <4>4. QED
        BY <3>1, <3>2, <4>1, <4>2, <4>3
    <3>3. \A q \in Push : Durable' /\ Saved(q)' => Saved(q)
      BY <1>8, <2>1, <2>2, <3>2, SaverOfPush DEF Saved
    <3>4. QED
      BY <1>8, <2>1, <2>3, <2>4, <3>1, <3>3, PortalKeepsSecured
  <2>8. QED
    BY <2>6, <2>7
<1>9. ASSUME Tick, sent' = sent PROVE Secured'
  <2>1. reports' = reports /\ Loaded' = Loaded /\ saver' = saver /\ job' = job
    BY <1>9 DEF Tick, fileVars, Loaded, Readable
  <2>2. \A q \in Push : (Stored(q)' => Stored(q)) /\ (Saved(q)' => Saved(q))
    BY <1>9, <2>1 DEF Stored, Saved
  <2>3. QED
    BY <1>9, <2>1, <2>2, PortalKeepsSecured DEF Secured
<1>10. ASSUME Restart, sent' = sent PROVE Secured'
  <2>1. restarts \in Nat /\ restarts' = restarts + 1
        /\ job' = [p \in Push |-> IF job[p] \in InFlight THEN "lost" ELSE job[p]]
    BY <1>0, <1>10, PortalAssumption DEF Restart, PortalTypeOK
  <2>2. Sound' => Durable'
    BY <2>1 DEF Sound
  <2>3. ASSUME Durable' PROVE Durable /\ Loaded' = Loaded /\ reports' = Loaded
    <3>1. Durable /\ Crash /\ Persist /\ ~Spliceable'
      BY <1>10, <2>3, DurableBefore DEF Restart, PowerCut, Durable, Spliceable
    <3>2. Loaded' = Loaded
      BY <1>0, <3>1, KeepsLoaded DEF Durable
    <3>3. FileInv'
      BY FleetStep, PortalInvStep DEF FleetInv, PortalInv
    <3>4. Loadable' = {Loaded'}
      BY <3>1, <3>3 DEF FileInv, FileTypeOK, Link, NoMixture, Loadable
    <3>5. QED
      BY <1>10, <3>1, <3>2, <3>4 DEF Restart
  <2>4. \A q \in Push : /\ Stored(q)' => Saved(q)
                        /\ Saved(q)' => Saved(q)
                        /\ job'[q] # "saving"
    BY <1>10, <2>1 DEF Stored, Saved, InFlight
  <2>5. ASSUME Durable', NEW q \in Push, Stored(q)' \/ Saved(q)'
        PROVE  Covers(Loaded, q)' /\ Covers(reports, q)'
    <3>1. Covers(Loaded, q)
      BY <2>3, <2>4, <2>5 DEF Secured
    <3>2. QED
      BY <1>10, <2>3, <2>5, <3>1 DEF Covers
  <2>6. QED
    BY <2>2, <2>4, <2>5 DEF Secured
<1>11. QED
  BY <1>1, <1>2, <1>3, <1>4, <1>5, <1>6, <1>7, <1>8, <1>9, <1>10 DEF FleetNext, Serve, Handle

(* A push answered 200 is covered by what the portal shows, then and after *)
(* every crash of the process (main.rs:155-166; main.rs:8-11), as long as  *)
(* the file works: for any fleet, any network and any number of restarts.  *)
THEOREM AckedSurvivesTheorem == FleetSpec => []AckedSurvives
<1>1. FleetInit => Secured
  <2> SUFFICES ASSUME FleetInit PROVE Secured
    OBVIOUS
  <2>1. \A p \in Push : job[p] = "unsent" /\ sent[p] = "unsent"
    BY DEF FleetInit, Init
  <2>2. QED
    BY <2>1 DEF Secured, Stored, Saved
<1>2. Secured => AckedSurvives
  BY DEF Secured, Sound, Durable, Stored, AckedSurvives
<1>3. QED
  BY FleetInvInit, FleetInvStep, SecuredStep, <1>1, <1>2, PTL DEF FleetSpec
=============================================================================
