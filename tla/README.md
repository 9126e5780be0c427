# Specifications of the attestation portal

TLA+ models of the attestation portal for the OutLayer TDX fleet
(`src/agent`, `src/server`, `src/shared`), configurations that model-check them
with TLC, and proofs checked by TLAPS. File names and line numbers below are
those of the repository; `main.rs` alone is the server's.

Every module is written from the code. Where a comment and the code disagree,
the model follows the code and a run shows the disagreement (see *Findings*).

## 1. The system

```
 TDX host                                    portal
 vmm, guest agents, qemu                     map of the latest report per node
        │ loopback                              │        ▲         │
     agent: collect ── POST /ingest ──▶ ingest ─┘   stamp│         └▶ STATE_FILE
     (every 300 s)                         └ spawn ▶ verify_report
                                                   │  Intel PCS, NEAR RPC
                        visitors ◀── /, /app/:id, /<network>-keystore, /api/attestation
```

| component | state | operations | interacts with |
|---|---|---|---|
| agent push loop and collection (`agent/src/main.rs`) | the list of this round, the report so far | `push_loop`, `collect`, `collect_vm`, `find_agent_port`, `apply_info`, `push_once` | vmm and guest agents (HTTP), `/proc`, portal |
| agent debug endpoint | none of its own | `attestation` | the same collection, on demand |
| portal (`main.rs`) | `reports`, a map from node to report, `received_at`, verdicts, under one `Mutex`; handlers and tasks in flight | `ingest`, `verify_in_background`, `main` | state file, verification, pages |
| state file (`main.rs`) | file, temporary file | `save_state`, `load_state` | called by handler and task, outside the lock |
| verification pipeline (`verify.rs`) | the verdict under construction | `verify_report`, `verify_cvm`, contract query | Intel PCS (`dcap-qvl`), NEAR RPC |
| page builders (`page.rs`) | none: functions of a snapshot | `build_fleet_list`, `group_by_app_global`, `summary_of`, `build_verdict`, `render_app` | the site |
| image table (`page.rs`) | the scanner's position and mode | `image_rows`, `service_key`, `image_row` | detail page |
| public site (`main.rs`) | none; what a visitor has before him | `index`, `app_detail`, `keystore_redirect`, `api_attestation` | clones the map under the lock |
| wire types and name classification (`shared/src/lib.rs`) | none | `Role::from_name`, `network_from_name` | all |
| templates, examples, `docs/future-admin-logs.md` | none | | |

What is hard here, and what makes each component correct:

- **Concurrency in the portal.** The lock covers single updates of the map. The
  second of arrival is read *before* the lock, the snapshot is saved *after* it,
  and the verification, seconds long, runs without it. Correct means: verdicts
  are stamped only on the report they belong to, the file follows the map, every
  report shown is judged in the end.
- **The state file.** Calls of `save_state` share one temporary name and no lock.
  Correct means: a restart finds one whole map, the latest.
- **Failure in the verification.** Two waits per CVM, for two services that fail
  or hang, while TCB levels and approvals change. Correct means: a green verdict
  is of a genuine quote with approved registers, what was not shown is explained,
  and one service that hangs stops nothing.
- **Stale reads in the agent.** The list, the look at `/proc` and the question to
  the guest agent are three moments; ports are reassigned in between. Correct
  means: evidence is entered for the VM that gave it, no VM is dropped, the loop
  never stops.
- **A push is one POST that may be lost, be late, or be stored and not answered.**
  The portal takes what arrives last for the newest. Correct means: what was
  answered 200 stays until something newer replaces it, and a node that goes on
  pushing is judged again after every restart.
- **Requests of one visitor see different maps.** Correct means: index and detail
  pages tell the same story of the same map, links break only when the map moved.
- **One verdict is read twice**, by the chip of a row and by the card. Correct means:
  red in one place is explained in the other, and registers shown next to an
  approval are those of the quote.
- **A scanner for someone else's format.** Correct means: every image once, under
  its own service.

## 2. The modules

| module | models | composed of |
|---|---|---|
| `StateFile` | `save_state`, `load_state`, call by call, on inodes | |
| `Store` | abstract: what the map promises its readers | |
| `Portal` | `ingest`, `verify_in_background`, restart | EXTENDS `StateFile`; implements `Store` |
| `Verdict` | a verdict, its chip (`summary_of`), its card (`build_verdict`) and the registers shown | |
| `Evidence` | what a CVM brings (certificate, quote, claims), what is taken out of it, and `Sound`: what a verdict may say of it | EXTENDS `Verdict` |
| `Verification` | abstract: the verification of a report, one sound verdict after another | EXTENDS `Evidence` |
| `Verify` | `verify_report`, `verify_cvm` | EXTENDS `Evidence`; implements `Verification` |
| `Page` | index rows, detail cards, keystore lookup: operators | EXTENDS `Evidence` |
| `Site` | the requests of a visitor | EXTENDS `Portal`, INSTANCE `Page` |
| `Compose` | `image_rows` | |
| `Collection` | abstract: what the rounds of an agent promise | |
| `Agent` | `push_loop`, `collect` | implements `Collection` |
| `Fleet` | the agents' pushes, the network and the portal together | EXTENDS `Portal`; implements it |
| `SequenceLemmas` | lemmas: induction over numbers and sequences, and what flattening, selecting and mapping a sequence give | |
| `*Proofs` | theorems about `StateFile`, `Portal`, `Verify`, `Agent`, `Fleet`, `Site`, `Compose` | EXTEND the module they are about; `SiteProofs` also `PortalProofs`, the last two `SequenceLemmas` |
| `MC*` | constants for TLC | EXTEND the module they instantiate |

Definitions named `...Unsaved`, `...MatchesAny` and the like, commented *Mutant*,
are changed versions of a definition nearby. No specification uses them; each
has been substituted for its original once, to see that the property aimed at
it is violated.

### StateFile

`Saver` identifies one call of `save_state`, with the snapshot it was given
(`saver[s].map`) and its position: `Begin` hands over the map, `Create` opens and
truncates the temporary file, `Short` writes a part and `Write` the rest, `Rename`
publishes it, `Abort` is an I/O error at any of these. `tmp` and `path` are the two
names; they point to inodes (named after the call that created them), because a call
that opened the temporary file goes on writing the same inode after another has
renamed it. `Crash` stops all calls, in the middle of a write perhaps (a `Short`
before it). `clash` is history: two calls have been active at once; `short`: a write
was cut.

`data` holds of each inode the map its bytes begin with, how many bytes of it, and the
length of the file. That tells a whole map (`Readable`) from an empty file, a part,
and a whole map before the tail of a longer one, none of which parse -- and from a
*mixture*: a part of one map, and after it bytes of another. Two maps of the same
nodes can be equally long and differ in fields of fixed width only (`collected_at`,
`received_at`), and then a mixture of them parses, as a map nobody saved. What it
parses as is left open: `Loadable` is then every map.

`PowerCut` is the machine's end. The code never syncs, so any of the files that ever
existed may be the state file afterwards, the last renames undone, or none that
parses; after an overlap, a mixture too. `dark` remembers that it happened.
`LoadedIsASnapshot` says what it takes to read back something nobody saved: an
overlap, *and* a cut write or a power failure (`Spliceable`). Assumed of the kernel:
two writes to one inode are not interleaved byte by byte; a truncation reaches the disk
before what is written after it; blocks of other files do not turn up in this one.

### Portal

One `Push` is one POST; `job[p]` is where its handler, later its task, is. The
code is cut where other threads can come between: `Receive` (checks, clock),
`Insert` (lock, insert, clone), the steps of the save, `Spawn` (after the save),
`Stamp` or `Drop` (lock, comparison of seconds, verdicts). `received[p]` is the
local `received_at`. Verdicts are abstracted to the push whose report they are
of, which is all the comparison of seconds is about. `Restart` is a crash (with
`PowerFails`, a power failure) and a new `main`: tasks are lost, the map is what
`load_state` finds, nothing is verified again; `mixed` records that it was a mixture.
`Refuse` stands for answers 503, 401, 400, 413 and changes nothing, so that it is a
stutter of the portal and not listed in `Next`; in `Fleet` the agent learns of it. A
poisoned mutex is left out: no code panics while it holds the lock.

`Store` has only map, seconds of arrival and the maps a restart may go back to:
`Receive`, `Accept`, `Judge`, `GoBack`, and `Splice`, a restart from a mixture, after
which the map may be any and `mixed` is true for good. `Portal` implements it with
`past <- {EmptyMap} \cup Given`, the maps ever given to `save_state`. Properties that
speak of the entries of the map claim nothing once `mixed`; `MixedTakesOverlapTheorem`
says how far one has to go to get there.

### Verify

The task is cut at its two waits (`at`): `FetchCollateral`, then `Rejected`,
`Accepted` or `NoCollateral`, then `Answered` or `NoAnswer`. In between
`TcbChanges`, `ListChanges` and `ServiceChanges` move the world. A quote is a
value with a kind (TD, SGX, forged) and registers; claims are written in either
case and `Folded` is `eq_ignore_ascii_case`. `DecodeReport` and
`QuoteMeasurements` take the registers out of a TD's quote, for the card and for
the comparison with the claims. `dcap-qvl`, PCS and the contracts are external.

`Verification` has no waits and no draft. `Record` adds the verdict of the next CVM,
any that is `Sound` for it: `Backed` (what it says is so, of this CVM's quote and
contract) and `Explained` (what it does not say has a reason). An approval is the
contract's list of that moment. `Verify` implements it with the same `report`,
`listed` and `verdicts`; every wait is a stutter.
Left out: hex and collateral encodings, advisories, FMSPC.

### Page, Site

`Page` translates the builders as functions from a list of nodes to rows and
cards; a card has its verdict, its registers (those decoded from the quote, else
the claimed ones, as in `templates/app.html`), its gateway and its freshness.
`Site` adds a visitor (`screen`) whose requests -- `Index`, `AppDetail`,
`KeystoreRedirect`, `Api` -- read the map of that moment. `KeystoresFound` is a
set because the order of a `HashMap` decides between reports of the same second.
`VerdictsOf[p]` is what the task of push `p` finds: any sequence of verdicts that
are sound for the report's CVMs, in order, which is what `Verification` allows and
`Verify` is proved to implement. So the pages rest on the verification without
its steps being repeated in every state of the site.
An app without a card is the 404 of `render_app`; the link of a row without an app id
is `/app/`, for which there is no route, a 404 as well (`AppDetail`).
Left out: ages in words, display names, fields copied through unread, layout.

### Compose

A file is given as what it means -- blocks, of which some are `services:`, of
services made of entries -- and laid out in lines (indentation, what the line
is). The scanner is a state machine, one line per step, with the variables of
`image_rows`; it sees the lines only, and `Meaning` is what its table is compared
with. `ComposeAssumption` says that files are made of such blocks; which image
references are pinned, OutLayer's, or versioned is membership in constants.

### Agent

`at` is the await the loop stands at. `qemu` is what the live processes say: for
each VM removed, stopped, or the port its guest agent is forwarded to. `Listed`
takes the vmm's answer; each VM is then `NotRunning`, `NoPort`, or `PortFound`
and `Info` or `NoInfo`. The look-up may fail for a VM that runs (`PortOf`): `/proc`
unreadable, no forward to 8090, or one that does not parse. `Info` is answered by
whoever listens on the port *now*.
`Boot`, `Stop`, `Deploy`, `Remove` and `ServiceChanges` are the world, at any
moment. `restarted` is history: the current VM stopped after its port was found.

`Collection` has the VMs that exist and run, the vmm's list and the entries, and no
ports, services or waits. `Begin` is `Listed`, `Look` is `PortFound`, `Enter` is any of
`NotRunning`, `NoPort`, `Info`, `NoInfo`, `End` is `PushEnds`; what an entry may say
(`Fits`) is put in terms of what was listed, whether the VM was `seen` running, and
which VMs run at that moment. That a VM was not found does not say that it did not run. A round
that gets no list, the waits for an answer and the push are stutters.

### Fleet

`RoundOf` orders the pushes of a node. `sent[p]` is what the agent knows: not sent
yet, waiting, answered (`Acked`), refused, or given up (`GiveUp`: the client's ten
seconds, or a connection that failed). `Send` begins the next round and needs the
last one to be over; that wait, in `push_loop`, is the only thing that keeps reports
in order, since the portal does not read `collected_at`. `net` holds the requests
under way: `Arrive` hands one to `Portal!Receive` at any later time, or never, which
is how one is lost. Requests are not repeated: a push is one POST, which the client
does not send twice. `Serve` is every other step of the portal.

## 3. Runs

Every invariant and action property was seen violated by a changed definition,
so none holds for want of states.

| run | shows | bounds, and why they are enough |
|---|---|---|
| `state_file` | `NeverTorn`, `OnlyRenamePublishes`, `LoadedIsASnapshot` | three calls, three maps of lengths 2, 2, 3 (an overwrite by a shorter, a longer and an equally long map, and a third call that renames), writes cut at every byte, I/O errors, crashes and power failures everywhere; calls are symmetric |
| `state_file_overlap` | `NeverCorrupt` violated | the same |
| `portal` | `TypeOK`, `VerdictsOfSameSecond`, `PendingIsInHand`, `MirrorFaithful`, `StoreSpec`, `JudgedWhileAlive` | two pushes of one node, two seconds, one loss of power, I/O errors, maps equally long but for verdicts and writes that may be cut: the two can be in one second or in two, in either order, with the power failing anywhere. Refused pushes leave no trace (`site` and `fleet` have one). Entries of different nodes do not touch each other; `site` has two |
| `portal_own_verdicts` | `OwnVerdicts` violated | |
| `verify` | `GreenMeansGenuine`, `NoSilentOutcome`, `ClaimsAreMarked`, `ApprovedIsShown`, `RedChipIsExplained`, `VerificationSpec`, `ReportJudged` | every kind of CVM alone (role, network, certificate, claims), pairs for the order; both services, all TCB statuses, all approvals change freely |
| `verify_chip_card` | `ChipAgreesWithCard` violated | |
| `site` | `IndexComplete`, `RowMatchesPage`, `GreenRowIsEarned`, `GreenCardIsGenuine`, `RedirectResolves`, `DeadLinksAreOld` | two nodes sharing an app, a keystore redeploy between two pushes, a worker that comes back with another quote, a forged quote, an SGX one, a CVM without an app, a restart; no state file, so a restart empties the map; the theorems cover any number of nodes, reports and apps |
| `site_redirect_current` | `RedirectIsCurrent` violated | |
| `compose` | `EveryImageOnce`, `ImageFirstIsNamed` | every file of up to two services of up to two entries, with other blocks before and after: each pair of neighbouring lines the scanner distinguishes occurs; the theorems cover files of any length made of such blocks |
| `compose_container` | `ContainerIsService` violated | |
| `fleet` | `AckedSurvives`, `OnlyAbandonedOvertakes`, `NextPushHeals` | three rounds of one node, the first refused; state file, one crash. Two rounds overtake each other, the refused one shows that the loop goes on. No I/O errors, writes in one piece (`portal` has the others): `AckedSurvives` claims nothing where saves fail, and the theorem covers any number of nodes, rounds and restarts |
| `agent` | `EvidenceIsOwn`, `NothingLeftOut`, `CollectionSpec`, `RoundsGoOn` | two VMs and two ports: enough to exchange ports between any two steps, a port that may not be found at each look; the theorems cover any number |

What the deeper properties say:

- `VerdictsOfSameSecond`: whatever overlaps, restarts or fails, the verdicts on an
  entry are of a report of the same node received in the same second, unless a restart
  has read a mixture (`~mixed`, here and in the next ones about entries). This is
  exactly what the comparison of `received_at` is worth; `OwnVerdicts`, what the
  comment claims, is more and fails.
- `PendingIsInHand`: the safety core of `JudgedWhileAlive`. An entry that shows
  "verifying" has its own handler or task at work, and the comparison of seconds
  this task will make will find it, whatever other pushes, tasks and saves do
  meanwhile. Only what a restart brought back has nobody.
- `MirrorFaithful`: with no save running, none that ever overlapped another and
  the last one successful, a restart finds the map in memory, verdicts included.
  Its three conditions are needed; each is a way in which the code loses data.
- `GreenMeansGenuine`: relates the recorded chip to the quote's own registers and
  to the list of approvals at the moment of recording. It holds only because the
  claims sent to the contract have been compared with the quote before.
- `ApprovedIsShown`: relates what a card says (approved, nothing failed) to the
  registers next to it, to the quote they come from and to what the contract was
  asked: four places of two files that must be about the same registers.
- `ClaimsAreMarked`: the fallback to claimed registers never stands on a card
  without a failure once the verdict is there; an SGX quote is the case to miss.
- `RedChipIsExplained`: how far chip and card do agree (`ChipAgreesWithCard`, what the
  comment claims, is more and fails): red means a loud card or a warning badge.
- `NoSilentOutcome`: a verdict that lacks a signature or an applicable approval
  says why. A `false` answer of the contract is an outcome, not a silence.
- `GreenRowIsEarned`: crosses ingest, verification, stamp and page: a green row
  has, for every instance, a passing verdict computed for a report of its node
  that arrived in the second of the one shown.
- `GreenCardIsGenuine`: from the quote to the page, across verification, ingest,
  stamp and template. It speaks of *a* CVM of that `vm_id` in *a* report of that node
  and second because the code promises no more: with two reports in one second the
  verdicts may be of the other one (`OwnVerdicts`), and `vm_id` is all that joins.
- `VerificationSpec`: verdicts come in the order of the report, one per CVM, none is
  changed, and each says of its own CVM only what quote and contract bear out.
- `LoadedIsASnapshot`: neither an overlap alone, nor any crash, I/O error or power
  failure alone, brings back a map that nobody saved. It rests on `fs::write` handing the
  kernel the whole map at once: streaming it into the file (`WriteStreamed`) breaks it.
- `DeadLinksAreOld`: an action property over two requests of one visitor, about every
  404 of an app page: the map has moved on under the link, or it is `/app/`, the link of
  a row without an app id, which is dead from the start.
- `AckedSurvives`: what an agent may conclude from a 200, across handler, file,
  restart and late requests. Its exceptions are the ways in which the code loses
  data: no file, failing I/O, overlapping saves, loss of power, a late arrival.
- `OnlyAbandonedOvertakes`: order without sequence numbers; it rests on two programs,
  the agent's wait and the portal's handler, which answers after the insertion.
- `NextPushHeals`: restored reports are never verified again, but the next push that
  gets through is judged, and nothing that arrives late takes that back.
- `EvidenceIsOwn`: the agent may enter a certificate under a wrong VM only if
  that VM stopped between the look at the processes and the answer.
- `CollectionSpec`: every round is one pass over one list of all the VMs there were at
  one moment; none is left out, entered twice or out of turn, the list is not left
  half way; the error of an entry tells how far the agent got, and its evidence is of a
  VM that runs as it is entered.

### Fairness

- `Portal`: weak fairness for the work of each push (handler, then task, and their
  saves), not for pushes, clock or crashes. tokio schedules every ready task,
  system calls return, and a verification ends because every call in it is
  bounded: `dcap-qvl` by its own 180 s, the RPC by `RPC_TIMEOUT`.
- `Verify`: weak fairness of the task's step. `NoCollateral` and `NoAnswer` need no
  failed service, since a timeout may strike at any time: `ReportJudged` therefore
  rests on the timeouts alone, not on services that come back.
- `Agent`: weak fairness of the loop's step: the ticker ticks, every request ends
  within the client's 10 s.
- `Fleet`: of each push, weak fairness of sending it (the ticker), of its end (answer
  or timeout) and of the portal's work. None of the network: a request need never
  arrive, nor an answer, and `NextPushHeals` says so in its conclusion.

Deadlock is checked in `state_file` and `agent`. Elsewhere the environment may
run out of pushes or the scan or task is over, and the configuration says so.

## 4. Proofs

All are for any value of the constants, under the named assumptions of the
modules, which TLC evaluates in the runs: types of the constants, and that the
absent value is not one of the others (`FileAssumption`, `PortalAssumption`,
`VerifyAssumption`, `AgentAssumption` with `VM` finite, `FleetAssumption`,
`ComposeAssumption`), and, in `SiteAssumption`, that `NodeOrder` has every node
once (the pages sort by node id) and that a report's verdicts are, in order, sound
verdicts of its CVMs (verify.rs:308-313), which `VerifyImplementsVerification` proves
of every verification.

| theorem | inductive invariant, and why it is needed |
|---|---|
| `FileTypeCorrect`, `NeverTornTheorem`, `OnlyRenamePublishesTheorem` | `FileInv`: as long as there was no overlap one call is active, the temporary file is its file, and the state file is another one that nobody has open, whole; what an active call has written of its map is what its file holds. `NeverTorn` alone does not say that the inode about to be renamed is whole |
| `LoadedIsASnapshotTheorem` | `HeadsGiven`: the beginning of every inode comes from a map that was given. `NoMixture`: no inode holds a mixture before `Spliceable`; needs `WholeWrites` (uncut writes start at 0) and `Discipline` (without an overlap the file begins with what its call has written). A whole write leaves no mixture, whatever it writes over |
| Portal `TypeCorrect` | `PortalInv`: `FileInv` and the types; every step of the portal is a step of `StateFile` or leaves it alone |
| `VerdictsOfSameSecondTheorem` | `AllAccounted`: the property for the map in memory *and* for every map that was given to a save, because a restart brings those back |
| `PendingIsInHandTheorem` | `AllInHand` with `AllAccounted`: who has the entry in hand, and that the second it bears is the one its push received, so the task's comparison succeeds. A restored entry was received by a push of the process before |
| `MirrorFaithfulTheorem` | `Mirror`: a running save carries the map in memory, and after the last one the file has it |
| `PortalImplementsStore` | initial states and every step map to `Store` or stutter; a restart to `GoBack` by `HeadsGiven`, or to `Splice` |
| `MixedTakesOverlapTheorem` | itself with `NoMixture` of the file: a restart that finds a mixture finds it in the state file |
| Verify `TypeCorrect`, `GreenMeansGenuineTheorem`, `VerifyImplementsVerification` | `Inv` of `VerifyProofs`: types, `DraftMeaning` and `AllSound`. `DraftMeaning` is what a draft says while it waits: that the claims equal the quote's registers is established before the second wait and used after it. Every step then waits (a stutter of `Verification`) or records one sound verdict (`Steps`) |
| `NoSilentOutcomeTheorem`, `ClaimsAreMarkedTheorem`, `ApprovedIsShownTheorem`, `RedChipIsExplainedTheorem` | the same; `AllSound`: every verdict recorded is sound for its CVM, whatever TCB levels and approvals have become since |
| `FleetRefinesPortal` | every step of `Fleet` is one of `Portal` or leaves it alone; all theorems about `Portal` hold in the fleet |
| `OnlyAbandonedOvertakesTheorem` | `InOrder`: no push is sent before the earlier ones of its node are over, so what arrives when a later round has been sent was given up |
| `AckedSurvivesTheorem` | `Secured`: what a handler has inserted is covered by the map in memory, what it has saved by the file as well. Rests on `Mirror` of the portal and on `InOrder` |
| `SiteRefinesPortal` | every step of `Site` is one of `Portal` or a request, which leaves it alone; the theorems about the portal hold while pages are read |
| `IndexCompleteTheorem`, `RowMatchesPageTheorem` | `GroupsPartition`: the groups of `group_by_app_global` are, for any list of instances, one per app and each the instances of its app, in order. The properties alone say it of the list of a map; the fold needs it of every list |
| `GreenRowIsEarnedTheorem` | the same for the row, `AggregateIs` for its colour, and `VerdictsOfSameSecond` of the portal for whose verdicts they are |
| `GreenCardIsGenuineTheorem` | `PageOfApp` for the card, `VerdictOfOwnNode` (from `VerdictsOfSameSecond`) for whose verdict it shows, and soundness of the verdict for what it shows (`CardAttests`) |
| `RedirectResolvesTheorem` | `PageOfApp`: a page has a card for exactly the instances of its app in the map |
| `DeadLinksAreOldTheorem` | `LinksCarried`: every link before a visitor is of an app that a report of the map it was made from carried (`RowsOfApps`). `PageOfApp` then says why the page is missing |
| `EveryImageOnceTheorem`, `ImageFirstIsNamedTheorem` | `Inv` of `ComposeProofs`: the scanner stands in the run over the lines of its file, and that run ends in a table like `Meaning`. That it does is an induction over entries (`EntriesReadAll`), services (`ServicesFind`) and blocks (`FileFinds`); its hypothesis is about a run from any state the part may begin in, since a service begins with whatever key was read before |
| `EvidenceIsOwnTheorem`, `NothingLeftOutTheorem` | `Inv` of `AgentProofs`: no two VMs share a port, the report is a prefix of the list, and the port asked is that of the current VM unless it has stopped since |
| `AgentImplementsCollection` | the same `Inv`; it also says that a port is asked for a VM the list has running, and that an idle agent has no unfinished list. That the vmm's list has no VM twice follows from its length: a list of as many VMs as there are, with all of them on it (a surjection between finite sets of one size) |

The last theorems are about sequences of any length, made by folds and by
recursive functions. The library's induction theorems take an operator as a
parameter, which the provers do not instantiate; `SequenceLemmas` states induction
of the *set* of values that have the property instead (`NatSetInduction`,
`SeqSetInduction`), and derives it from the well-foundedness of the naturals: a
set that lacks a number lacks a least one. The recursive functions of the
community modules (`FlattenSeq`, `FoldLeft`) are chosen with CHOOSE; that a function
with their recursion exists is proved first (`FlatExists`, `FoldExists`), and
everything else is about how one more element changes the result.

Only model-checked: the liveness properties (`JudgedWhileAlive`, `ReportJudged`,
`RoundsGoOn`, `NextPushHeals`), since neither fairness nor ENABLED is within the
prover's reach; the safety that `JudgedWhileAlive` rests on is proved
(`PendingIsInHandTheorem`). Every other property of every passing run is a theorem.

## 5. Findings

Each has a run that ends in a counterexample.

1. **Overlapping saves corrupt the file** (`NeverCorrupt`, main.rs:389). One fixed
   temporary name, no lock: one call renames what another has just truncated. The
   comment at main.rs:387 promises an atomic save. With a cut write or a power failure on
   top, the file can hold a mixture of two equally long maps that parses (the `state_file`
   run reaches it; `LoadedIsASnapshot` says that it takes both).
2. **Verdicts of another report** (`OwnVerdicts`, main.rs:181). Two pushes of a
   node within one second: the first one's verdicts land on the second one's report,
   against main.rs:179.
3. **Chip and card disagree** (`ChipAgreesWithCard`, page.rs:601). A TCB status other
   than UpToDate makes the row red and leaves the card unmarked, against
   page.rs:620-623.
4. **The stable link can lead to the old keystore** (`RedirectIsCurrent`,
   main.rs:302). The last match of a report wins, and its status is not looked at,
   against main.rs:254-257.
5. **Container names** (`ContainerIsService`, page.rs:484). An image after a nested
   mapping is listed under the mapping's name, against page.rs:274.

Differences seen in reading, without a run of their own: a report restored after a
restart is never verified and stays "verifying" until its node pushes again
(main.rs:82; main.rs:50 has verdicts follow "shortly after ingest"), which
`NextPushHeals` bounds; verify.rs:4-6 says that
a failed RPC leaves no positive, line 289 leaves `sig_valid` true (the chip is not
green, `error` being set); a report without claims counts as matching (page.rs:630,
against page.rs:86); a worker without a network has no contract and can be green
(verify.rs:282, against page.rs:145); of two snapshots the older can be renamed last
(main.rs:155, against main.rs:8-9), which is the first condition of
`MirrorFaithful`; a VM without an app id is linked as `/app/`
(index.html:40, 69), though "we never link to one" (page.rs:934), which is the exception of
`DeadLinksAreOld`.

## 6. Not modelled

- Constant-time comparison of the token (`ct_eq`): a matter of time, not of states.
  `bearer_ok` is the guard of `Portal!Admitted`.
- Body limit, number of tasks and nodes: nothing in the code bounds the latter two.
  A body too large is one of the refusals (`Portal!Refuse`, `Fleet!Rejected`).
- A node whose verifications take longer than its interval and never show: with a
  bounded number of pushes there is a last one, and that is judged.
- The agent's debug endpoint: a second, independent `collect` whose result nothing
  depends on.
- Spelling of VM labels (`Role::from_name`, `network_from_name`): the models start
  from every combination of their results.
- Image digests, OS version and key provider of an agent's entry, ages in words and
  display names of the pages: parsed or formatted, and read by nothing else.
- Templates, but for the choice of registers on a card; examples; the design note of
  `docs/`.
- A zero push interval, at which the ticker panics.

## 7. Plan

Built in this order: `StateFile`, `Portal` with `Store`, `Verdict` and `Verify`,
`Page` and `Site`, `Compose`, `Agent`, the proofs of the four with state worth an
invariant; then power failures, `Fleet` with its proofs, and the register rows of
the cards with the properties of what a card says; then induction over sequences
and the proofs about `Site` and `Compose`; then `Evidence` and `Verification`, which
`Verify` implements and `Site` rests on; then `Collection`, which `Agent` implements,
and `PendingIsInHand`. What is worth doing next:

1. `Fleet` with what a report holds: the evidence `Collection` admits, carried through
   push, verification and page.
