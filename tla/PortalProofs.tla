---------------------------- MODULE PortalProofs ----------------------------
(***************************************************************************)
(* Proofs about Portal, for any nodes, pushes, clock and number of         *)
(* restarts.  The file is used as StateFile describes it, so what          *)
(* StateFileProofs shows holds here; on top of it come the invariants that *)
(* tie the map in memory to the file and to the reports received.          *)
(***************************************************************************)
EXTENDS Portal, StateFileProofs

LEMMA SaverOfPush == \A p \in Push : Ingest(p) \in Saver /\ Verify(p) \in Saver
  BY PortalAssumption DEF Ingest, Verify

LEMMA EntryTypes ==
    /\ \A m \in Map, n \in Node : m[n] # None =>
           m[n].push \in Push /\ m[n].at \in Time /\ m[n].verdicts \in Push \cup {None}
    /\ \A m \in Map, n \in Node, p \in Push, t \in Time :
           [m EXCEPT ![n] = [push |-> p, at |-> t, verdicts |-> None]] \in Map
    /\ \A m \in Map, n \in Node, p \in Push :
           m[n] # None => [m EXCEPT ![n].verdicts = p] \in Map
  BY PortalAssumption DEF Entry

-----------------------------------------------------------------------------
(* What a step of the portal does to the file is a step of StateFile.      *)
LEMMA FileStep ==
  ASSUME TypeOK, [Next]_vars, reports' \in Map
  PROVE  [FileNext]_fileVars
<1> USE DEF FileNext, Persisting
<1>1. ASSUME NEW p \in Push, Receive(p) \/ Spawn(p) \/ Drop(p)
      PROVE  UNCHANGED fileVars
  BY <1>1 DEF Receive, Spawn, Drop, vars, portalVars
<1>2. ASSUME NEW p \in Push, Insert(p) PROVE [FileNext]_fileVars
  BY <1>2, SaverOfPush DEF Insert
<1>3. ASSUME NEW p \in Push, Stamp(p) PROVE [FileNext]_fileVars
  BY <1>3, SaverOfPush DEF Stamp
<1>4. ASSUME NEW s \in Saver, SaveStep(s) PROVE FileNext
  BY <1>4 DEF SaveStep
<1>5. CASE Tick
  BY <1>5 DEF Tick
<1>6. CASE Restart
  BY <1>6 DEF Restart
<1>7. CASE UNCHANGED vars
  BY <1>7 DEF vars
<1>8. QED
  BY <1>1, <1>2, <1>3, <1>4, <1>5, <1>6, <1>7 DEF Next, Handle

(* The invariant of the file, with the types of the portal. *)
PortalInv == FileInv /\ HeadsGiven /\ PortalTypeOK

LEMMA PortalInvInit == Init => PortalInv
<1> SUFFICES ASSUME Init PROVE PortalInv
  OBVIOUS
<1>1. FileInv /\ HeadsGiven
  BY FileSafety DEF Init
<1>2. mixed \in BOOLEAN /\ reports \in Map
  BY FileAssumption DEF Init
<1>3. PortalTypeOK
  BY <1>2, PortalAssumption DEF Init, PortalTypeOK, Time, Stages
<1>4. QED
  BY <1>1, <1>3 DEF PortalInv

LEMMA PortalTypeStep ==
  ASSUME PortalInv, [Next]_vars
  PROVE  PortalTypeOK' /\ [FileNext]_fileVars
<1> USE PortalAssumption, EntryTypes DEF PortalTypeOK
<1>0. TypeOK
  BY DEF PortalInv, FileInv, TypeOK
<1>a. ASSUME reports' \in Map PROVE [FileNext]_fileVars
  BY <1>0, <1>a, FileStep
<1> USE <1>0 DEF TypeOK, Stages
<1>2. ASSUME NEW p \in Push, Receive(p) PROVE PortalTypeOK'
  BY <1>2 DEF Receive
<1>3. ASSUME NEW p \in Push, Insert(p) PROVE PortalTypeOK'
  <2>1. received[p] \in Time /\ NodeOf[p] \in Node
    BY <1>3 DEF Insert
  <2>2. reports' \in Map
    BY <1>3, <2>1 DEF Insert
  <2>3. QED
    BY <1>3, <2>2 DEF Insert
<1>4. ASSUME NEW p \in Push, Spawn(p) PROVE PortalTypeOK'
  BY <1>4 DEF Spawn
<1>5. ASSUME NEW p \in Push, Stamp(p) PROVE PortalTypeOK'
  <2>1. reports' \in Map
    BY <1>5 DEF Stamp, Matches
  <2>2. QED
    BY <1>5, <2>1 DEF Stamp
<1>6. ASSUME NEW p \in Push, Drop(p) PROVE PortalTypeOK'
  BY <1>6 DEF Drop
<1>7. ASSUME NEW s \in Saver, SaveStep(s) PROVE PortalTypeOK'
  BY <1>7 DEF SaveStep, portalVars
<1>8. CASE Tick
  BY <1>8 DEF Tick
<1>9. CASE Restart
  <2>1. [FileNext]_fileVars
    BY <1>9 DEF Restart, FileNext
  <2>2. (FileInv /\ HeadsGiven)'
    BY <2>1, FileSafety DEF PortalInv
  <2>3. Loadable' \subseteq Map
    <3>1. (FileTypeOK /\ HeadsGiven)'
      BY <2>2 DEF FileInv
    <3>2. Loaded' \in Map
      BY <3>1, FileAssumption
         DEF FileTypeOK, Link, HeadsGiven, Given, Loaded, Readable
    <3>3. QED
      BY <3>2 DEF Loadable
  <2>4. reports' \in Map /\ mixed' \in BOOLEAN
    BY <1>9, <2>3, FileAssumption DEF Restart
  <2>5. restarts' \in 0 .. MaxRestarts
    BY <1>9 DEF Restart
  <2>6. /\ job' \in [Push -> Stages]
        /\ \A p \in Push : job'[p] = "unsent" <=> job[p] = "unsent"
    BY <1>9 DEF Restart, InFlight
  <2>7. clock' = clock /\ received' = received
    BY <1>9 DEF Restart
  <2>8. QED
    BY <2>1, <2>4, <2>5, <2>6, <2>7
<1>10. CASE UNCHANGED vars
  BY <1>10 DEF vars, portalVars
<1>11. PortalTypeOK'
  <2> HIDE DEF PortalTypeOK, TypeOK
  <2> QED
    BY <1>2, <1>3, <1>4, <1>5, <1>6, <1>7, <1>8, <1>9, <1>10 DEF Next, Handle
<1>12. QED
  BY <1>a, <1>11

LEMMA PortalInvStep == PortalInv /\ [Next]_vars => PortalInv'
<1> SUFFICES ASSUME PortalInv, [Next]_vars PROVE PortalInv'
  OBVIOUS
<1>1. PortalTypeOK' /\ [FileNext]_fileVars
  BY PortalTypeStep
<1>2. (FileInv /\ HeadsGiven)'
  BY <1>1, FileSafety DEF PortalInv
<1>3. QED
  BY <1>1, <1>2 DEF PortalInv

(* Type correctness; a handler past the checks has its second of arrival.  *)
THEOREM TypeCorrect == Spec => []TypeOK
<1>1. PortalInv => TypeOK
  BY DEF PortalInv, FileInv, TypeOK
<1>2. QED
  BY PortalInvInit, PortalInvStep, <1>1, PTL DEF Spec
-----------------------------------------------------------------------------
(* A restart finds bytes of several maps in the state file only if two     *)
(* calls of save_state have overlapped and, besides, a write was cut into  *)
(* pieces or the power has failed.                                         *)
MixedTakesOverlap == mixed => Spliceable

LEMMA SpliceableStays == [FileNext]_fileVars /\ Spliceable => Spliceable'
<1> SUFFICES ASSUME [FileNext]_fileVars PROVE Spliceable => Spliceable'
  OBVIOUS
<1> USE DEF Spliceable
<1>1. ASSUME NEW s \in Saver, NEW m \in Map, Begin(s, m) PROVE Spliceable => Spliceable'
  BY <1>1 DEF Begin
<1>2. ASSUME NEW s \in Saver, Step(s) PROVE Spliceable => Spliceable'
  BY <1>2 DEF Step, Create, Short, Write, Rename, Abort
<1>3. CASE Crash
  BY <1>3 DEF Crash
<1>4. CASE PowerCut
  BY <1>4 DEF PowerCut
<1>5. CASE UNCHANGED fileVars
  BY <1>5 DEF fileVars
<1>6. QED
  BY <1>1, <1>2, <1>3, <1>4, <1>5 DEF FileNext

LEMMA MixedStays == [Next]_vars /\ mixed => mixed'
  BY DEF Next, Handle, Receive, Insert, Spawn, Stamp, Drop, SaveStep, Tick, Restart,
         vars, portalVars

LEMMA MixedKept == [Next]_vars /\ ~Restart => mixed' = mixed
  BY DEF Next, Handle, Receive, Insert, Spawn, Stamp, Drop, SaveStep, Tick,
         vars, portalVars

(* Loading a file that is no mixture: the map it was written for, or none. *)
LEMMA RestartLoads ==
  ASSUME PortalInv, Restart, ~mixed'
  PROVE  /\ reports' \in {EmptyMap} \cup Given
         /\ Given' = Given /\ received' = received /\ mixed' = mixed
<1>1. FileTypeOK /\ mixed \in BOOLEAN
  BY DEF PortalInv, FileInv, PortalTypeOK
<1>2. Given' = Given /\ received' = received /\ mixed' = mixed
  <2>1. Given' = Given /\ received' = received
    BY <1>1, GivenKept DEF Restart
  <2>2. mixed' = mixed
    BY <1>1 DEF Restart
  <2>3. QED
    BY <2>1, <2>2
<1>3. (FileTypeOK /\ HeadsGiven)'
  BY FileSafety DEF PortalInv, Restart, FileNext, FileInv
<1>4. Loaded' \in {EmptyMap} \cup Given'
  BY <1>3 DEF FileTypeOK, Link, HeadsGiven, Loaded, Readable
<1>5. Persist => Loadable' = {Loaded'}
  BY DEF Restart, Loadable
<1>6. QED
  BY <1>2, <1>4, <1>5 DEF Restart

(* The state file yields a map that nobody has saved only after two saves  *)
(* have overlapped and, besides, one of them was cut short or the power    *)
(* has failed (main.rs:377-397): neither alone is enough, however often    *)
(* the process restarts.                                                   *)
THEOREM MixedTakesOverlapTheorem == Spec => []MixedTakesOverlap
<1>1. Init => MixedTakesOverlap
  BY DEF Init, MixedTakesOverlap
<1>2. PortalInv /\ MixedTakesOverlap /\ [Next]_vars => MixedTakesOverlap'
  <2> SUFFICES ASSUME PortalInv, MixedTakesOverlap, [Next]_vars, mixed'
               PROVE  Spliceable'
    BY DEF MixedTakesOverlap
  <2>1. [FileNext]_fileVars /\ FileInv'
    BY PortalTypeStep, PortalInvStep DEF PortalInv
  <2>2. CASE mixed
    BY <2>1, <2>2, SpliceableStays DEF MixedTakesOverlap
  <2>3. CASE ~mixed
    <3>1. Restart
      BY <2>3, MixedKept
    <3>2. path' # None /\ Mixture(data'[path'])
      BY <2>3, <3>1 DEF Restart
    <3>3. path' \in Saver
      BY <2>1, <3>2 DEF FileInv, FileTypeOK, Link
    <3>4. QED
      BY <2>1, <3>2, <3>3 DEF FileInv, NoMixture
  <2>4. QED
    BY <2>2, <2>3
<1>3. QED
  BY PortalInvInit, PortalInvStep, <1>1, <1>2, PTL DEF Spec
-----------------------------------------------------------------------------
(* Every map in memory and every map handed to save_state: its entries are *)
(* reports received for their node, in the second they carry, and their    *)
(* verdicts are of a report of that node received in that second.          *)
Accounted(m) ==
    \A n \in Node : m[n] # None =>
        /\ NodeOf[m[n].push] = n /\ received[m[n].push] = m[n].at
        /\ m[n].verdicts # None =>
               NodeOf[m[n].verdicts] = n /\ received[m[n].verdicts] = m[n].at

AllAccounted == Accounted(reports) /\ \A m \in Given : Accounted(m)

LEMMA AccountedKept ==
  ASSUME PortalTypeOK, NEW p \in Push, Receive(p), NEW m \in Map, Accounted(m)
  PROVE  Accounted(m)'
<1>1. \A q \in Push : received[q] # None => received'[q] = received[q]
  BY DEF PortalTypeOK, Receive
<1>2. ASSUME NEW n \in Node, m[n] # None
      PROVE  /\ NodeOf[m[n].push] = n /\ received'[m[n].push] = m[n].at
             /\ m[n].verdicts # None =>
                    NodeOf[m[n].verdicts] = n /\ received'[m[n].verdicts] = m[n].at
  <2>1. m[n].push \in Push /\ m[n].verdicts \in Push \cup {None} /\ m[n].at # None
    BY <1>2, EntryTypes, PortalAssumption
  <2>2. QED
    BY <1>1, <1>2, <2>1 DEF Accounted
<1>3. QED
  BY <1>2 DEF Accounted

LEMMA AllAccountedStep ==
  ASSUME PortalInv, AllAccounted, [Next]_vars, ~mixed'
  PROVE  AllAccounted'
<1>0. FileTypeOK /\ PortalTypeOK /\ HeadsGiven
  BY DEF PortalInv, FileInv
<1>g. Given \subseteq Map
  BY <1>0 DEF Given, FileTypeOK
<1> USE DEF AllAccounted
<1>1. ASSUME UNCHANGED <<reports, received, fileVars>> PROVE AllAccounted'
  <2>1. reports' = reports /\ received' = received /\ Given' = Given
    BY <1>1 DEF Given, fileVars
  <2>2. \A m : Accounted(m) => Accounted(m)'
    BY <2>1 DEF Accounted
  <2>3. QED
    BY <2>1, <2>2 DEF Accounted
<1>2. ASSUME NEW p \in Push, Spawn(p) \/ Drop(p) PROVE AllAccounted'
  BY <1>1, <1>2 DEF Spawn, Drop, vars, portalVars
<1>3. ASSUME NEW p \in Push, Receive(p) PROVE AllAccounted'
  <2>1. reports \in Map /\ reports' = reports /\ Given' = Given
    BY <1>0, <1>3 DEF Receive, PortalTypeOK, Given, fileVars
  <2>2. Accounted(reports)'
    BY <1>0, <1>3, <2>1, AccountedKept DEF Accounted
  <2>3. ASSUME NEW m \in Given PROVE Accounted(m)'
    BY <1>0, <1>3, <1>g, <2>3, AccountedKept
  <2>4. QED
    BY <2>1, <2>2, <2>3 DEF Accounted
<1>4. ASSUME NEW p \in Push, NEW s \in Saver,
             received' = received, Accounted(reports'), Persisting(s, reports')
      PROVE  AllAccounted'
  <2>1. Given' \subseteq Given \cup {reports'}
    <3>1. CASE Persist
      BY <1>0, <1>4, <3>1, GivenBegin DEF Persisting
    <3>2. CASE ~Persist
      BY <1>4, <3>2 DEF Persisting, Given, fileVars
    <3>3. QED
      BY <3>1, <3>2
  <2>2. \A m : Accounted(m) => Accounted(m)'
    BY <1>4 DEF Accounted
  <2>3. QED
    BY <1>4, <2>1, <2>2 DEF Accounted
<1>5. ASSUME NEW p \in Push, Insert(p) PROVE AllAccounted'
  <2>1. NodeOf[p] \in Node /\ reports \in [Node -> Entry \cup {None}]
    BY <1>0, PortalAssumption DEF PortalTypeOK
  <2>2. Accounted(reports')
    BY <1>5, <2>1 DEF Insert, Accounted
  <2>3. QED
    BY <1>4, <1>5, <2>2, SaverOfPush DEF Insert
<1>6. ASSUME NEW p \in Push, Stamp(p) PROVE AllAccounted'
  <2>1. NodeOf[p] \in Node /\ reports \in [Node -> Entry \cup {None}]
    BY <1>0, PortalAssumption DEF PortalTypeOK
  <2>2. Accounted(reports')
    BY <1>6, <2>1 DEF Stamp, Matches, Accounted, Entry
  <2>3. QED
    BY <1>4, <1>6, <2>2, SaverOfPush DEF Stamp
<1>7. ASSUME NEW s \in Saver, SaveStep(s) PROVE AllAccounted'
  <2>1. Given' = Given
    BY <1>0, <1>7, GivenKept DEF SaveStep
  <2>2. QED
    BY <1>7, <2>1 DEF SaveStep, portalVars, Accounted
<1>8. CASE Tick
  BY <1>1, <1>8 DEF Tick
<1>9. CASE Restart
  <2>1. /\ Given' = Given /\ received' = received
        /\ reports' \in {EmptyMap} \cup Given
    BY <1>9, RestartLoads
  <2>2. \A m : Accounted(m) <=> Accounted(m)'
    BY <2>1 DEF Accounted
  <2>3. Accounted(EmptyMap)
    BY PortalAssumption DEF Accounted
  <2>4. Accounted(reports')
    BY <2>1, <2>3
  <2>5. QED
    BY <2>1, <2>2, <2>4 DEF Accounted
<1>10. CASE UNCHANGED vars
  BY <1>1, <1>10 DEF vars, portalVars
<1>11. QED
  <2> HIDE DEF AllAccounted
  <2> QED
    BY <1>2, <1>3, <1>5, <1>6, <1>7, <1>8, <1>9, <1>10 DEF Next, Handle

(* Verdicts of another second, or of another node, never stick to an       *)
(* entry, whatever the interleaving of handlers and tasks and however      *)
(* often the process dies and reloads (main.rs:171-194), unless a reload   *)
(* found bytes of several maps (MixedTakesOverlap).                        *)
THEOREM VerdictsOfSameSecondTheorem == Spec => []VerdictsOfSameSecond
<1> DEFINE Inv == ~mixed => AllAccounted
<1>1. Init => Inv
  <2> SUFFICES ASSUME Init PROVE AllAccounted
    OBVIOUS
  <2>1. Given = {}
    BY DEF Init, FileInit, Given
  <2>2. QED
    BY <2>1, PortalAssumption DEF Init, AllAccounted, Accounted
<1>2. PortalInv /\ Inv /\ [Next]_vars => Inv'
  BY AllAccountedStep, MixedStays
<1>3. Inv => VerdictsOfSameSecond
  BY DEF AllAccounted, Accounted, VerdictsOfSameSecond
<1>4. QED
  BY PortalInvInit, PortalInvStep, <1>1, <1>2, <1>3, PTL DEF Spec
-----------------------------------------------------------------------------
(* Who has a pending entry in hand.  That its task will find it is no more *)
(* than that its second is the one received (AllAccounted).                *)
InHand(n) ==
    (reports[n] # None /\ reports[n].verdicts = None)
        => \/ job[reports[n].push] \in {"saving", "verifying"}
           \/ job[reports[n].push] \in {"settled", "lost"} /\ restarts > 0

AllInHand == \A n \in Node : InHand(n)

LEMMA InHandStep ==
  ASSUME PortalInv, AllAccounted, AllInHand, [Next]_vars, ~mixed'
  PROVE  AllInHand'
<1>0. /\ FileTypeOK /\ PortalTypeOK /\ HeadsGiven
      /\ reports \in [Node -> Entry \cup {None}] /\ job \in [Push -> Stages]
  BY PortalAssumption DEF PortalInv, FileInv, PortalTypeOK
<1>1. \A n \in Node : reports[n] # None =>
          /\ reports[n].push \in Push /\ NodeOf[reports[n].push] = n
          /\ received[reports[n].push] = reports[n].at
          /\ job[reports[n].push] # "unsent"
  <2>1. SUFFICES ASSUME NEW n \in Node, reports[n] # None
                 PROVE  /\ reports[n].push \in Push /\ NodeOf[reports[n].push] = n
                        /\ received[reports[n].push] = reports[n].at
                        /\ job[reports[n].push] # "unsent"
    OBVIOUS
  <2>2. reports[n].push \in Push /\ reports[n].at \in Time
    BY <1>0, <2>1, EntryTypes, PortalAssumption DEF PortalTypeOK
  <2>3. NodeOf[reports[n].push] = n /\ received[reports[n].push] = reports[n].at
    BY <2>1 DEF AllAccounted, Accounted
  <2>4. QED
    BY <1>0, <2>2, <2>3, PortalAssumption DEF PortalTypeOK
<1> SUFFICES ASSUME NEW n \in Node PROVE InHand(n)'
  BY DEF AllInHand
<1>h. InHand(n)
  BY DEF AllInHand
<1>2. ASSUME UNCHANGED <<reports, job, restarts>> PROVE InHand(n)'
  BY <1>2, <1>h DEF InHand
<1>4. ASSUME NEW p \in Push, Receive(p) PROVE InHand(n)'
  BY <1>0, <1>1, <1>4, <1>h DEF Receive, InHand
<1>5. ASSUME NEW p \in Push, Insert(p) PROVE InHand(n)'
  <2>1. CASE n = NodeOf[p]
    <3>1. reports'[n].push = p
      BY <1>0, <1>5, <2>1 DEF Insert
    <3>2. job'[p] = "saving"
      BY <1>0, <1>5 DEF Insert
    <3>3. QED
      BY <3>1, <3>2 DEF InHand
  <2>2. CASE n # NodeOf[p]
    <3>1. reports'[n] = reports[n] /\ restarts' = restarts
      BY <1>0, <1>5, <2>2 DEF Insert
    <3>2. reports[n] # None => job'[reports[n].push] = job[reports[n].push]
      BY <1>0, <1>1, <1>5, <2>2 DEF Insert
    <3>3. QED
      BY <1>h, <3>1, <3>2 DEF InHand
  <2>3. QED
    BY <2>1, <2>2
<1>6. ASSUME NEW p \in Push, Spawn(p) PROVE InHand(n)'
  BY <1>0, <1>1, <1>6, <1>h DEF Spawn, InHand
<1>7. ASSUME NEW p \in Push, Stamp(p) PROVE InHand(n)'
  <2>1. CASE n = NodeOf[p]
    <3>1. reports'[n].verdicts = p
      BY <1>0, <1>7, <2>1, PortalAssumption DEF Stamp, Matches, Entry
    <3>2. QED
      BY <3>1, PortalAssumption DEF InHand
  <2>2. CASE n # NodeOf[p]
    <3>1. reports'[n] = reports[n] /\ restarts' = restarts
      BY <1>0, <1>7, <2>2 DEF Stamp
    <3>2. reports[n] # None => job'[reports[n].push] = job[reports[n].push]
      BY <1>0, <1>1, <1>7, <2>2 DEF Stamp
    <3>3. QED
      BY <1>h, <3>1, <3>2 DEF InHand
  <2>3. QED
    BY <2>1, <2>2
<1>8. ASSUME NEW p \in Push, Drop(p) PROVE InHand(n)'
  <2>1. reports[n] # None => reports[n].push # p
    BY <1>1, <1>8 DEF Drop, Matches
  <2>2. reports' = reports /\ restarts' = restarts /\ job' = [job EXCEPT ![p] = "settled"]
    BY <1>8 DEF Drop
  <2>3. QED
    BY <1>0, <1>1, <1>h, <2>1, <2>2 DEF InHand
<1>9. ASSUME NEW s \in Saver, SaveStep(s) PROVE InHand(n)'
  BY <1>2, <1>9 DEF SaveStep, portalVars
<1>10. CASE Tick
  BY <1>2, <1>10 DEF Tick
<1>11. CASE Restart
  <2>1. (PortalTypeOK /\ AllAccounted)'
    BY AllAccountedStep, PortalInvStep DEF PortalInv
  <2>2. restarts' > 0 /\ received' = received
    BY <1>0, <1>11, PortalAssumption DEF Restart, PortalTypeOK
  <2>3. \A p \in Push : job[p] # "unsent" => job'[p] \in {"settled", "lost"}
    BY <1>0, <1>11 DEF Restart, Stages, InFlight
  <2>4. ASSUME reports'[n] # None
        PROVE  reports'[n].push \in Push /\ job[reports'[n].push] # "unsent"
    <3>1. reports'[n].push \in Push /\ reports'[n].at \in Time
      BY <2>1, <2>4, EntryTypes DEF PortalTypeOK
    <3>2. received[reports'[n].push] = reports'[n].at
      BY <2>1, <2>2, <2>4 DEF AllAccounted, Accounted
    <3>3. QED
      BY <1>0, <3>1, <3>2, PortalAssumption DEF PortalTypeOK
  <2>5. QED
    BY <2>2, <2>3, <2>4 DEF InHand
<1>12. CASE UNCHANGED vars
  BY <1>2, <1>12 DEF vars, portalVars
<1>13. QED
  BY <1>4, <1>5, <1>6, <1>7, <1>8, <1>9, <1>10, <1>11, <1>12 DEF Next, Handle

(* An entry that shows no verdicts has its own handler or task at work, to *)
(* which it will still match, or has been brought back by a restart: no    *)
(* interleaving of handlers, tasks and saves leaves one behind             *)
(* (main.rs:164, main.rs:176-183) -- as long as no restart has found bytes *)
(* of several maps.                                                        *)
THEOREM PendingIsInHandTheorem == Spec => []PendingIsInHand
<1> DEFINE Inv == ~mixed => AllAccounted /\ AllInHand
<1>1. Init => Inv
  <2> SUFFICES ASSUME Init PROVE AllAccounted /\ AllInHand
    OBVIOUS
  <2>1. Given = {}
    BY DEF Init, FileInit, Given
  <2>2. QED
    BY <2>1, PortalAssumption DEF Init, AllAccounted, Accounted, AllInHand, InHand
<1>2. PortalInv /\ Inv /\ [Next]_vars => Inv'
  BY AllAccountedStep, InHandStep, MixedStays
<1>3. Inv => PendingIsInHand
  <2> SUFFICES ASSUME AllAccounted, AllInHand,
                      NEW n \in Node, reports[n] # None, reports[n].verdicts = None
               PROVE  \/ job[reports[n].push] \in {"saving", "verifying"} /\ Matches(reports[n].push)
                      \/ job[reports[n].push] \in {"settled", "lost"} /\ restarts > 0
    BY DEF PendingIsInHand
  <2>1. NodeOf[reports[n].push] = n /\ received[reports[n].push] = reports[n].at
    BY DEF AllAccounted, Accounted
  <2>2. Matches(reports[n].push)
    BY <2>1 DEF Matches
  <2>3. QED
    BY <2>2 DEF AllInHand, InHand
<1>4. QED
  BY PortalInvInit, PortalInvStep, <1>1, <1>2, <1>3, PTL DEF Spec

-----------------------------------------------------------------------------
(* Why the file mirrors the map: the running call, if any, saves the map   *)
(* that is in memory, and once it has succeeded the file holds it.         *)
Mirror ==
    (Persist /\ ~clash) =>
        /\ \A s \in Saver : Busy(s) => saver[s].map = reports
        /\ Quiet /\ ~failed => Loaded = reports

LEMMA MirrorStep ==
  ASSUME PortalInv, Mirror, [Next]_vars
  PROVE  Mirror'
<1>0. FileInv /\ FileTypeOK
  BY DEF PortalInv, FileInv
<1> SUFFICES ASSUME Persist, ~clash'
             PROVE  /\ \A s \in Saver : Busy(s)' => saver'[s].map = reports'
                    /\ Quiet' /\ ~failed' => Loaded' = reports'
  BY DEF Mirror
<1> DEFINE Goal == /\ \A s \in Saver : Busy(s)' => saver'[s].map = reports'
                   /\ Quiet' /\ ~failed' => Loaded' = reports'
<1>c. ~clash
  <2>1. UNCHANGED fileVars \/ FileNext
    BY <1>0, PortalTypeStep, PortalInvStep DEF PortalInv
  <2>2. clash => clash'
    BY <2>1 DEF FileNext, Step, Begin, Create, Short, Write, Rename, Abort, Crash, PowerCut, fileVars
  <2>3. QED
    BY <2>2
<1>1. ASSUME UNCHANGED <<reports, fileVars>> PROVE Goal
  <2>1. UNCHANGED <<reports, tmp, path, data, saver, clash, failed>>
    BY <1>1 DEF fileVars
  <2>2. QED
    BY <1>c, <2>1 DEF Mirror, Busy, Quiet, Loaded, Readable
<1>2. ASSUME NEW p \in Push, Receive(p) \/ Spawn(p) \/ Drop(p) PROVE Goal
  BY <1>1, <1>2 DEF Receive, Spawn, Drop, vars, portalVars
<1>3. ASSUME NEW s \in Saver, Begin(s, reports') PROVE Goal
  <2>1. Quiet
    BY <1>3 DEF Begin
  <2>2. Busy(s)' /\ saver'[s].map = reports'
    BY <1>0, <1>3 DEF Begin, Busy, FileTypeOK
  <2>3. \A t \in Saver : t # s => ~Busy(t)'
    BY <1>0, <1>3, <2>1 DEF Begin, Busy, Quiet, FileTypeOK
  <2>4. QED
    BY <2>2, <2>3 DEF Quiet
<1>4. ASSUME NEW p \in Push, Insert(p) \/ Stamp(p) PROVE Goal
  BY <1>3, <1>4, SaverOfPush DEF Insert, Stamp, Persisting
<1>5. ASSUME NEW s \in Saver, SaveStep(s) PROVE Goal
  <2>1. reports' = reports /\ Step(s)
    BY <1>5 DEF SaveStep, portalVars
  <2>2. \A t \in Saver : Busy(t)' => Busy(t) /\ saver'[t].map = saver[t].map
    BY <1>0, <2>1 DEF Step, Create, Short, Write, Rename, Abort, Busy, FileTypeOK
  <2>3. \A t \in Saver : Busy(t)' => saver'[t].map = reports'
    BY <1>c, <2>1, <2>2 DEF Mirror
  <2>4. CASE Create(s) \/ Short(s) \/ Write(s)
    <3>1. Busy(s)'
      BY <1>0, <2>4 DEF Create, Short, Write, Busy, FileTypeOK
    <3>2. QED
      BY <2>3, <3>1 DEF Quiet
  <2>5. CASE Abort(s)
    BY <2>3, <2>5 DEF Abort
  <2>6. CASE Rename(s)
    <3>1. Loaded' = saver[s].map /\ Busy(s)
      BY <1>0, <1>c, <2>6, RenameLoads DEF Rename, Busy
    <3>2. QED
      BY <1>c, <2>1, <2>3, <3>1 DEF Mirror
  <2>7. QED
    BY <2>1, <2>4, <2>5, <2>6 DEF Step
<1>6. CASE Tick
  BY <1>1, <1>6 DEF Tick
<1>7. CASE Restart
  <2>1. reports' = Loaded'
    <3>1. FileInv'
      BY PortalInvStep DEF PortalInv
    <3>2. Loadable' = {Loaded'}
      BY <3>1 DEF FileInv, FileTypeOK, Link, NoMixture, Loadable, Spliceable
    <3>3. QED
      BY <1>7, <3>2 DEF Restart
  <2>2. \A s \in Saver : ~Busy(s)'
    BY <1>0, <1>7, StoppedTypes DEF Restart, Crash, PowerCut, Busy
  <2>3. QED
    BY <2>1, <2>2
<1>8. CASE UNCHANGED vars
  BY <1>1, <1>8 DEF vars, portalVars
<1>9. QED
  BY <1>2, <1>4, <1>5, <1>6, <1>7, <1>8 DEF Next, Handle

(* Durability, for calls of save_state that do not overlap: when the last  *)
(* one has succeeded a restart shows the map that is in memory             *)
(* (main.rs:8-11).                                                         *)
THEOREM MirrorFaithfulTheorem == Spec => []MirrorFaithful
<1>1. Init => Mirror
  BY DEF Init, FileInit, Mirror, Busy, Loaded
<1>2. PortalInv /\ Mirror /\ [Next]_vars => Mirror'
  BY MirrorStep
<1>3. Mirror => MirrorFaithful
  BY DEF Mirror, MirrorFaithful
<1>4. QED
  BY PortalInvInit, PortalInvStep, <1>1, <1>2, <1>3, PTL DEF Spec

-----------------------------------------------------------------------------
(* The portal implements the abstract store.                               *)
LEMMA StoreStep ==
  ASSUME PortalInv, [Next]_vars
  PROVE  [Abstract!Next]_(Abstract!storeVars)
<1> DEFINE Past == {EmptyMap} \cup Given
<1>0. FileTypeOK /\ PortalTypeOK /\ HeadsGiven
  BY DEF PortalInv, FileInv
<1> USE DEF Abstract!storeVars
<1>1. ASSUME UNCHANGED <<reports, received, mixed, fileVars>>
      PROVE  UNCHANGED Abstract!storeVars
  BY <1>1 DEF fileVars, Given
<1>2. ASSUME NEW p \in Push, Spawn(p) \/ Drop(p)
      PROVE  UNCHANGED Abstract!storeVars
  BY <1>1, <1>2 DEF Spawn, Drop, vars, portalVars
<1>3. ASSUME NEW p \in Push, Receive(p) PROVE Abstract!Receive
  <2>1. received[p] = None /\ received' = [received EXCEPT ![p] = clock] /\ clock \in Nat
    BY <1>0, <1>3, PortalAssumption DEF Receive, PortalTypeOK, Time
  <2>2. received'[p] = clock
    BY <1>0, <2>1 DEF PortalTypeOK
  <2>3. reports' = reports /\ mixed' = mixed /\ Given' = Given
    BY <1>3 DEF Receive, fileVars, Given
  <2>4. QED
    BY <2>1, <2>2, <2>3 DEF Abstract!Receive
<1>4. ASSUME NEW s \in Saver, Persisting(s, reports') PROVE Abstract!Remember
  <2>1. CASE Persist
    <3>1. Given' = Given \cup {reports'}
      BY <1>0, <1>4, <2>1, GivenBegin DEF Persisting
    <3>2. QED
      BY <3>1 DEF Abstract!Remember
  <2>2. CASE ~Persist
    BY <1>4, <2>2 DEF Persisting, fileVars, Given, Abstract!Remember
  <2>3. QED
    BY <2>1, <2>2
<1>5. ASSUME NEW p \in Push, Insert(p) PROVE Abstract!Accept
  <2>1. Abstract!Remember
    BY <1>4, <1>5, SaverOfPush DEF Insert
  <2>2. received[p] # None
    BY <1>0, <1>5 DEF Insert, PortalTypeOK
  <2>3. QED
    BY <1>5, <2>1, <2>2 DEF Insert, Abstract!Accept
<1>6. ASSUME NEW p \in Push, Stamp(p) PROVE Abstract!Judge
  <2>1. Abstract!Remember
    BY <1>4, <1>6, SaverOfPush DEF Stamp
  <2>2. received[p] # None
    BY <1>0, <1>6 DEF Stamp, PortalTypeOK
  <2>3. QED
    BY <1>6, <2>1, <2>2 DEF Stamp, Matches, Abstract!Judge
<1>7. ASSUME NEW s \in Saver, SaveStep(s) PROVE UNCHANGED Abstract!storeVars
  BY <1>0, <1>7, GivenKept DEF SaveStep, portalVars
<1>8. CASE Tick
  BY <1>1, <1>8 DEF Tick
<1>9. CASE Restart
  <2>1. CASE ~mixed'
    <3>1. Given' = Given /\ received' = received /\ mixed' = mixed /\ reports' \in Past
      BY <1>9, <2>1, RestartLoads
    <3>2. QED
      BY <3>1 DEF Abstract!GoBack, Abstract!Next
  <2>2. CASE mixed'
    <3>1. Given' = Given /\ received' = received
      BY <1>0, <1>9, GivenKept DEF Restart
    <3>2. reports' \in [Node -> Abstract!Entry \cup {None}]
      <4>1. reports' \in [Node -> Entry \cup {None}]
        BY PortalTypeStep, PortalAssumption DEF PortalTypeOK
      <4>2. Entry \subseteq Abstract!Entry
        BY PortalAssumption DEF Entry, Abstract!Entry, Time
      <4>3. QED
        BY <4>1, <4>2
    <3>3. mixed' = TRUE
      BY <2>2, PortalTypeStep DEF PortalTypeOK
    <3>4. QED
      BY <3>1, <3>2, <3>3 DEF Abstract!Splice, Abstract!Next
  <2>3. QED
    BY <2>1, <2>2
<1>10. CASE UNCHANGED vars
  BY <1>1, <1>10 DEF vars, portalVars
<1>11. QED
  BY <1>2, <1>3, <1>5, <1>6, <1>7, <1>8, <1>9, <1>10 DEF Next, Handle, Abstract!Next

(* Portal implements Store: whatever the threads, the file and the crashes *)
(* do, readers see reports of the right node, verdicts of the same node    *)
(* and second, and after a restart one earlier map, whole, or nothing --   *)
(* or bytes of several, of which MixedTakesOverlap says what they take.    *)
THEOREM PortalImplementsStore == Spec => StoreSpec
<1>1. Init => Abstract!Init
  <2>1. ASSUME Init PROVE Given = {}
    BY <2>1 DEF Init, FileInit, Given
  <2>2. QED
    BY <2>1, PortalAssumption DEF Init, Abstract!Init, Abstract!Absent
<1>2. PortalInv /\ [Next]_vars => [Abstract!Next]_(Abstract!storeVars)
  BY StoreStep
<1>3. QED
  BY PortalInvInit, PortalInvStep, <1>1, <1>2, PTL DEF Spec, StoreSpec, Abstract!Spec
=============================================================================
