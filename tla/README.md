# LeagueBridge in TLA+

LeagueBridge is a command-line control plane. It finds an installed Moonlight
client, plans one operation against a physical host that the operator names
(pair, list, play or stream, quit, wake, a hardware KVM), asks for consent, and
starts the client. Around that stands a second, larger body of code that decides
whether configuration, evidence, attestations, packages and releases are what
they claim to be. Each command is a short-lived process: what is hard about it
is what the world does between two of its steps - files that change while they
are verified for minutes, GitHub answering page by page, packages installed
during a recovery, a signal between two moves - not long-running state.

This directory holds TLA+ models of that program, TLC runs that check them on
small instances, and TLAPS proofs of what matters most for every instance. Paths
below are relative to the root of the repository (`src/` in `PROJECT.json`).

    tlc -config RemoteStream.cfg MCRemoteSession      check one run
    tlapm RemoteSessionProofs.tla                     check one module of proofs

`PROJECT.json` lists the runs, the source lines each definition stands for, the
mutants that break each property, the hazards, the findings and the theorems.

## 1. Inventory

State is what the component keeps between its steps; most of it dies with the
process.

| Component | State | What is hard | What makes it correct |
|---|---|---|---|
| **remote session** `internal/app/remote.go` | the discovered client, its plans, four loop counters, `automaticClientFallbackTried`, the context | packages and host change between any two steps; recovery, wake-up retries and reconnects nest; cancellation races every wait | only a client whose own listing has just named the application streams; bounded retries; consent before effects; honest exit codes; cancellation ends it |
| **remote map, kvm and wake** `internal/app/remote.go` | values gathered from flags and file | route, confirmation and endpoint come from different places | nothing is sent or started without consent for the route in force |
| **client discovery** `internal/remote/remote.go` 840-1160 | none (reads PATH) | two orderings of the same clients; a generic `moonlight` means different clients | the recovery search misses no usable client |
| **handoff plans and the execution boundary** `internal/remote` | exported `Client` and `Plan` values with unexported bindings | callers change, decode or mix the values; executables are replaced | only approved vectors of discovered clients start |
| **stream options and argument grammar** `internal/remote/remote.go` | the parser's two dozen flags | one grammar written twice in two dialects | the two agree; nothing outside it is executed |
| **KVM handoff** `internal/kvm` | `Launcher` and `Plan` values | as above | as above |
| **Wake-on-LAN** `internal/wol` | none | consent long before the effect | exactly one packet, consented |
| **configuration store** `internal/config` | one JSON file | two writers, a crash between temporary file and link, directories that are replaced | an exclusive, atomic creation |
| **bounded file input** `internal/fileinput` | open handles | files and links exchanged between inspection, open and read | the bytes are of the file that was named |
| **install and uninstall scripts** `scripts/` | installed files | a signal or refusal between two files | exit code 0 is true; a rerun is possible |
| **release script** `scripts/release.sh` | `dist`, staging, backup | a failure between the two moves | the old output is never lost |
| **release and CI gates** `cireleasegate`, `currentci` | counters of a paged listing | runs start, repeat and vanish between pages; no common snapshot of branch and runs | what is accepted was true at one moment |
| **release assessment** `releaseassessment` | a worker pool; first reads of tag, rules, runs, assets and files | four goroutines, two channels; everything may change and change back | an error is the cause, the pool ends; what is reported was true together |
| **production assessment** `productionassessment` | the verified release, external proofs | proofs expire and are withdrawn during the recheck | a score stands for one state of affairs |
| **native evidence** `productionnative` | tokens of verified observations | policy, clock and artifacts move on before the set is complete | every cell witnessed by two trusted, independent persons |
| **attestations** `ciattestation`, `nativeattestation`, `nativepackageattestation` | digests | the GitHub CLI reads the path itself, minutes later | documents are those of the jobs; files have, and had, bytes that the run attested |
| **native package staging, production packages** `nativepackage`, `productionpackage`, `tools/nativepackagestage` | private directories, a record | one step of several fails, names are exchanged, the release changes | complete means checked |
| **evidence v1, v2, promotion** `evidence`, `evidencev2`, `app/evidence*.go` | files of a set; a payload | a time that is looked at twice; the second of three links fails | a promotion stands on a whole, valid chain; sets are published whole or not at all |
| **compatibility, probes, application shell, diagnostics, readiness, release archives, supporting packages, tools, other scripts** | none | pure functions, reads and printing | not modelled (section 6) |
| **entry point** `cmd/leaguebridge` | the signal context | - | `Cancel` of the remote session |

**Interaction.** `cmd/leaguebridge` gives `internal/app` a context that an
interrupt cancels. `runRemote` calls `probe`, `remote.DiscoverForPlatform`, the
plan builders, `wol.Execute`, and `remote.Execute` for each child process, whose
output it reads. `Client` and `Plan` values carry their own bindings from
discovery to `Execute`. `currentci` asks `cireleasegate` twice with the signed
evidence between; `releaseassessment` asks it too and verifies files with the
attestation packages; `productionassessment` runs one release assessment, the
external verifiers, and a second one. Attestations, packages and evidence pass
as files and published assets. Commands share no memory, only the file system
and GitHub.

## 2. Modules

| Module | Models | Relation |
|---|---|---|
| `RemoteSession` | `runRemote` from preflight to exit code | extends `Discovery`, implements `StreamGate` |
| `StreamGate` | the abstract promise of a live stream | - |
| `Discovery`, `ClientScan` | the passive resolver; the recovery search for every PATH | `ClientScan` extends `Discovery` |
| `DirectCommands` | `remote map`, `kvm`, `wake` | - |
| `HandoffPlan` | `Client` and `Plan` values and `Execute` | - |
| `KvmPlan` | `Launcher`, `Plan` and `Execute` of the KVM | - |
| `StreamOptions`, `StreamBoundary` | writing and reading an argument vector | the second extends the first |
| `ConfigStore` | `WriteNew`, `Load`, crashes, the operator | implements `ExclusiveCreate` |
| `ExclusiveCreate` | the abstract promise of the store | - |
| `FileInput` | the bounded read under a root | - |
| `InstallScripts`, `ReleaseScript` | `install.sh` and `uninstall.sh`; `release.sh` | - |
| `CIGate`, `CurrentCI` | the gate's paged listings; the check of main around it | `CurrentCI` extends `CIGate` |
| `EvidencePool` | the worker pool of `verifyEvidence` | - |
| `ReleaseAssessment`, `ProductionAssessment` | the release assessment; external evidence and rechecks around two of them | the second extends the first |
| `NativeObservation` | signed observations and their complete set | - |
| `CiAttestation`, `NativeAttestation`, `PackageAttestation` | the three kinds of attested documents, from the job to the verifier | - |
| `PackageStaging`, `CandidateSet` | package inputs and host packages; the set of candidates and its record | - |
| `EvidenceChain`, `TemplateSet` | evidence v2 prepare, verify, promote; the publication of a set of files | - |
| `MCRemoteSession`, `MCClientScan`, `MCHandoffPlan`, `MCStreamBoundary` | instances of the modules of their names | |
| `MCLocal`, `MCSupply` | several components in one run each | the first extends most of them, the second instantiates them |
| `...Proofs` | the proofs about the module of the name; `AssessmentProofs` about the two assessments, `LocalProofs` about the components of the local machine, `SupplyProofs` about those of `MCSupply` | |

**How the models read the code.** `pc`, `place`, `stage` or `phase` is the place
in the function. An action is the code between two points at which the world can
be seen to have changed: a system call, a request, a prompt, a wait, or all that
lies between two of them. The world's actions (`ChangePath`, `Rewrite`,
`DeleteRun`, `Cancel`, ...) may happen between any two of these. What a probe, a
child or a parser answers is nondeterministic; a check that the model cannot
decide may always refuse. A file's bytes are a value that says what the file
would be found to declare, so that a digest of it is the value itself. History
variables (`authorized`, `witness`, `joint`, `verified`, `consented`,
`confirmed`, `fresh`, ...) are read by no action.

Some correspondences that are not obvious:

- **RemoteSession.** `search` walks the recovery's selections one per step;
  `wakeWait`, `retryWait` and `reconnectWait` are the timers of
  `waitForRemoteReconnect`, which do not look at the context when the delay is
  zero, so a wait is in `req.waits` only if its delay is not.
  `RemoteSession!Gate` maps `launch` to an open gate of `StreamGate` and
  `streaming` to a session. A packet, a control process and a stream each start
  one step after the context was looked at (`SendWake` and `SendPacket`,
  `ExecuteControl` and `StartControl`, `Launch` and `StartStream`), so a
  cancellation may fall in between; what `Execute` promises of one is only that
  the command ends (`CancelEnds`).
- **HandoffPlan, KvmPlan.** Edits, decoding and mixing do to exported and
  unexported fields what a Go caller or a JSON round trip can do. `Execute` of
  `HandoffPlan` is all tests of the boundary and `Run` the start of the process
  after them: the window between the two is in the model.
- **CIGate.** The inventory is a sequence, newest run first, and a request reads
  `PageSize` of it at one moment. `listing` holds the locals of `latestRun`. The
  jobs of an attempt that has completed are fixed, so one step reads them.
- **EvidencePool.** Handing over a blob on the unbuffered channel is one joint
  step. A worker's failure is found, recorded and spread in three steps, because
  other goroutines run between them.
- **ConfigStore.** Files are named by their creators, so that equal values are
  the same file in the sense of `os.SameFile`. `Publish` covers both
  `LinkInRoot`s: the one of `root_ops_pre125.go` works on paths and fails where
  the path leads to another directory by now.
- **DirectCommands.** The file is read once, so `LoadValues` chooses what it holds
  by then instead of carrying a file that is rewritten.
- **ReleaseAssessment.** A release's timestamps and identities never return to an
  old value, a tag, rules, runs and local files may: the former can be compared
  across time, of the latter only the rereads speak.
- **CiAttestation, NativeAttestation, PackageAttestation.** The CLI is asked about
  a path, and what it returns is accepted if a signed subject, under any name, has
  the expected SHA-256. A statement is therefore the set of the contents it was
  signed for, and bytes that were attested under another path of the run count.
  What the verifier establishes is that the listed bytes were attested and that
  the listed path had them after the CLI had answered, not that the path had them
  when it was attested.
- **PackageStaging.** `dir` is what the output's name shows, `handle` what
  `finalRoot` does. Another directory may take the name, and the reserved one may
  be put back (`returned`). The code compares identities only at the end
  (`checkReleaseSetPublished`) or around the reads (`checkPublishedHostDirectory`)
  and never `finalRoot` with the directory that was created, so an exchange that
  is undone before the next comparison is not noticed: the promises about the
  reserved directory are made for `~returned`.
- **EvidenceChain.** The clock is read twice by a promotion: `Evaluate` for the
  chain and then once more for the payload only.

## 3. Runs

Components that share no state are checked in one run where that is possible:
in `MCLocal` and `MCSupply`, `subject` says which of them moves, from its own
`Init` with its own `Next`, and the others rest. The behaviours checked are the
union of theirs, nothing is composed.

| Run | What it shows | Instance |
|---|---|---|
| `remote_stream` | only a client whose listing has just named the application streams, within its budgets, as `StreamGate` says | Linux; four PATH states with aliases and a Flatpak; 2 reconnects, 2 wake-up retries |
| `remote_control` | one recovery, to another executable; honest exit codes; consent before effects; a cancellation ends the command; control operations end | FreeBSD; three PATH states; every selection, 0 or 2 retries, consent withheld in every way, and a stream with one reconnect |
| `remote_reconnect_client` | *violation*: every attempt uses the same executable | Linux, two clients |
| `client_scan_order` | *violation*: the search's order is the resolver's | every PATH of two executables |
| `boundary` | what is planned is accepted (but for Qt's H.264) and read back as meant; what is accepted is in the grammar | every pair of option values at and beyond the bounds, three flavors; related pairs with one word removed or inserted |
| `boundary_qt_h264` | *violation*: everything that is planned is accepted | single options and related pairs, no edits |
| `handoff_plan` | only approved, discovered, unreplaced clients start | two executables, two files, one discovery, one approval, two edits |
| `current_ci` | what the gate accepts and what the check of main observes was true at one moment | 4 runs, pages of 2, 2 pages, 2 attempts, one repeated run, one deletion |
| `production` | what an assessment reports was true together; verified bytes are the published ones; a score stood until it was rechecked | 2 changes of the world, 1 criterion, clock to 2 |
| `local` | seven components: `ConfigStore` (2 writers, 2 directories), `FileInput` (2 files, a device, limit 1), `InstallScripts` (3 runs of a script, 1 edit), `ReleaseScript` (2 failures), `KvmPlan` (2 paths, 2 files, 3 steps), `DirectCommands` (every invocation and file), `ClientScan` (5 platforms) | as listed |
| `release_restore` | *violation*: the old output is restored before its backup is removed | 1 failure, the move back fails |
| `supply` | nine components: `EvidencePool` (2 workers, 3 blobs), `NativeObservation` (clock to 3, 1 change), `CiAttestation`, `NativeAttestation`, `PackageAttestation` (2 rewrites each), `PackageStaging` (3 changes), `CandidateSet` (2 changes), `EvidenceChain` (clock to 5), `TemplateSet` (2 commands) | as listed |

**Why the bounds are enough.** Recovery happens once, so three installed clients
reach every choice of it; two retries and two reconnects reach a first, a middle
and a last attempt, with recovery in each. The options of a vector are
independent but for the pairs that `Validate` and the parser relate. Two changes
suffice for "changed and changed back", which is what a reread can miss
(`NativeObservation` has one; there the theorem covers the second);
`PackageStaging` has three, for a directory that is replaced and put back around
the change of a part. A wait of
zero has only steps that a positive wait has too, so the waits are positive. More
blobs than workers leave the feeder waiting for workers that have all failed.
Three items or targets behave as two do wherever the code loops over them without
relating more than two. A clock to 5 orders observation, review, capture,
signature and promotion strictly. Where a theorem is listed (section 4) the
bounds are not needed.

`CIGate` has one bound that is an **assumption about the world**,
`DeletionsAssumption`: fewer runs are deleted, ever, than a page holds (100 in
the code). Without it the property fails: between two requests with pages of one
run, the run just read and a newer one still to be read are deleted and two are
started, of which only the second counts. The next page is then again a run not
seen before, the total agrees with the first page's, and the listing never
reaches the newest run, which was there before the older one was deleted. With the
assumption this is proved impossible.

**Deadlock** is checked where the cfg does not say otherwise: a command, a parser
or a gate that has ended stutters explicitly (`Exited`, `Done`, `Returned`). In
`local` and `supply` components end by having no further step.

**Symmetry** is used in `handoff_plan` (executables, files) and `local` (writers,
directories of the store), whose definitions treat these values alike; neither
run checks liveness.

**Fairness** is stated where liveness is checked, in `remote_control` and `supply`:

- `WF(Step)`: the process is scheduled and every timer fires.
- `WF(ControlEnds)`: a control process runs under `remoteControlTimeout` (60 s),
  and `WaitDelay` (2 s) closes the pipes that descendants keep open.
- `WF(canceled /\ StreamEnds)`: a stream has no deadline of its own, and only the
  canceled `CommandContext` kills it. A stream is *not* promised to end.
- `WF(Feeder)`, `WF(Worker(w))`: goroutines are scheduled, and each request has a
  timeout of 30 s (`githubAPI`).

## 4. Proofs

All theorems hold for every value of the constants that satisfies the named
assumptions; these say that a constant has its type and that "no value" constants
are no values, and `DeletionsAssumption` (above). `OptionsAssumption` and
`EditsAssumption` say that three fields are integers, that a number of devices is
a natural number and that an insertion is a sequence.

| Module | Theorem | Says |
|---|---|---|
| `RemoteSessionProofs` | `TypeCorrect`, `StreamsAreAuthorized`, `ConsentPrecedesEffects`, `ExitCodeIsHonest`, `RecoversAtMostOnce`, `RetriesAreBounded` | the invariants of the remote session |
| | `RecoveryChangesTheExecutable` | its action property |
| | `SessionImplementsGate` | it implements `StreamGate` |
| | `DiscoverType` | what the resolver may return |
| `HandoffPlanProofs` | `OnlyApprovedVectorsStart`, `OnlyDiscoveredClientsStart`, `OnlyDiscoveredFilesPass`, `TypeCorrect` | the boundary's promises |
| `ConfigStoreProofs` | `LoadReadsWholeFiles`, `StoreImplementsExclusiveCreate` | no partial document; the store implements `ExclusiveCreate` |
| `CurrentCIProofs` | `LatestRunIsAccepted`, `ObservationWasTrueAtOnce` | what is accepted was true at one moment |
| `AssessmentProofs` | `AssessmentIsOfOneMoment`, `PublishedBytesAreVerified` | what an assessment reports was true together, and the verified bytes are the published ones |
| | `ScoreIsOfOneState`, `ProductionTypeCorrect` | a score stood until it was rechecked |
| `LocalProofs` | `ReadIsOfTheNamedFile` | the bytes are of a file that the name meant |
| | `ScriptsReportWhatIsDone`, `UninstallerIsLast` | the installation scripts |
| | `OutputIsNotLost` | `release.sh`, if the move back does not fail |
| | `DirectEffectsAreConsented` | `map`, `kvm`, `wake` |
| | `BrowserIsBoundAndApproved` | the same as `HandoffPlanProofs` for the KVM, whichever builder is used |
| | `RecoverySearchIsExact` | the search finds a client exactly where a resolver would, on every PATH |
| `StreamBoundaryProofs` | `OnlyTheGrammarIsAccepted` | an accepted vector is in the grammar, however it was edited |
| | `PlansAreAccepted`, `OptionsAreReadBack` | what the planner writes is accepted (but for the finding on H.264), and read back as it was meant |
| `SupplyProofs` | `OkIsComplete`, `CauseIsReported` | the result of the worker pool |
| | `FeederIsNotStranded` | its feeder always has a case to take |
| | `ObservationsAreWitnessed` | two persons witnessed what is accepted, and it was read again |
| | `AttestedIsAccepted`, `InstalledIsAccepted` | accepted documents are those of the jobs; the listed bytes were attested, under whatever name, and there after the confirmation; packages were installed |
| | `PublishedIsChecked` | what a staging directory declares complete was read in its place, if the directory was not exchanged and put back; candidate sets hold what the release publishes |
| | `PromotionsStand` | a promotion stands on valid evidence in order; a template set is published whole or not at all |

**RemoteSession.** `TypeOK` is not inductive: the counters need the loop
conditions at the waits, and which client the plans are bound to. `SessionInv`
adds `PlansBound` (from the first listing on, `client`, `plan` and `listPlan`
agree), `ProcessBound` (a running process is that client, and `authorized` is it
exactly at `launch` and `streaming`) and `CountersBound`. `ConsentInv`: whatever
is committed to was consented to, and nothing was started before. `RecoveryInv`:
everything that ran is the current client until recovery begins, and that client
and one other afterwards. `BudgetInv`: at each place the processes already
started are paid for by the counters of the loops (`Paid`), a listing that is
under way by the retries that remain. The refinement is a step simulation: every
action maps to a gate action or a stutter.

**HandoffPlan, KvmPlan.** The unexported fields repeat what the resolver returned
and what a builder approved, since callers cannot write them, and `Execute`
compares the exported fields with these (`HandoffInv`, `KvmInv`).
`OnlyDiscoveredClientsStart` and `OnlyDiscoveredFilesPass` assume
`Builders = {"BuildDiscoveredPlan"}`, the builders the program itself calls: with
the exported `BuildPlan` a client that was changed before planning is started as
changed.

**The other components of the local machine** (`LocalProofs`).
- *FileInput.* The first inspection saw the name mean the inspected file; from
  the comparison on, the handle is of that file.
- *InstallScripts.* As long as the operator has not touched the target, every path
  before `next` is installed or removed. `UninstallerIsLast` needs, besides, that
  both orders name the same eight paths (`Orders`).
- *ReleaseScript.* At each place of the script `dist`, the backup and the staging
  directory are what the lines before left, and the trap may start from any of
  these. `OutputIsNotLost` assumes `~RestoreFails`: without it the run
  `release_restore` shows the contrary.
- *DirectCommands.* `CallInv` carries the route's consent from the parse to the
  packet and the process, over a configuration that may change in between.
- *ClientScan.* Every earlier selection was resolved and rejected, and the
  selections together name all clients that the automatic resolver knows; the
  lemmas compute the candidate tables of both for each platform.

**ConfigStore.** `StoreInv` says that a name is only ever linked to a file that
its writer has synced, that a writer past the link is the one whose file it was,
and that an outcome, once told, stays. Each call maps to one step of
`ExclusiveCreate` or to none: creation is the link.

**The other components that attest and publish** (`SupplyProofs`). `SupplyInv` is
the invariant of the component that moves.
- *NativeObservation.* `TokensHold`: a token is for signatures that count under
  the policy and at the time it names. `SetHolds` and `ArtifactsAreReread` say
  which items of the set have been compared, and which artifacts read again.
- *CiAttestation.* At each place, of each file: what was claimed of it, and
  whether it is still waiting or confirmed by an attestation.
- *NativeAttestation.* No document is attested but those of the jobs
  (`RuntimeOnlyBuiltIsAttested`): a document and a file never have one content,
  so a digest is enough to tell whose it is. Each listed item waits, or is
  settled: confirmed, with a content that was attested (`RuntimeItemsAreKept`).
  That a set with as many distinct paths as documents list has no path twice
  (`PathsAreMet`) is a fact about cardinalities, from `FiniteSetTheorems`.
- *PackageAttestation.* The same, and in addition two histories: while no file
  changes under the job it hashes what it checked (`Drafted`), and while none
  changes under the verifier so does that (`CheckedIsHashed`). Either is enough;
  if files change under both, the property says nothing of tree and log.
- *PackageStaging.* `HandleIsReserved`: unless the reserved directory was put
  back, a handle of another one means that the name shows that one for good, so
  that the final check fails. `PartsRead` and `Completed` say where the parts were
  read, for release-set through the handle, for a host by name.
- *CandidateSet.* Digests are taken once and each later read is compared with
  them; `CellsInspected` and `CellsFresh` say which cells were read since the
  payload check and since the last recheck of the release.
- *EvidenceChain.* Everything in the chain expires after the payload (`Stands`),
  so the second reading of the clock, which is compared with the payload only,
  speaks for all of it. `ClockAssumption` says that the bound is a number.
- *TemplateSet.* `TemplatesInv` follows which names hold whose links at each place
  of the command, so that withdrawal removes exactly the command's own files.
  `CommandsAssumption` keeps the commands apart from the other owners of a name.

**CIGate, CurrentCI.** The hard one. `Reads` says that what was read of a run
still stands or the run has been repeated since. `Reading` describes a second
listing halfway: there are positions `a <= q` such that the runs up to `a` were
started since the first page, those up to `q` have been read, and the others are
still to be read; `Unread` counts what was lost among each. A run lost from the
pages to come moves an already seen one into the next page, which the duplicate
test finds, unless all runs that were seen are gone, which needs a page of
deletions (`NothingWasLost`). `Blocked` says that as long as the selected run has
not been the latest (`witness` is false) this listing can no longer select it: it
was repeated, a newer run has been or will be read, or the total cannot be
reached. `ObservationInv` adds that, while main has not moved, the moment at
which the last gate saw the run as the latest is a moment at which both agreed;
the later read of main makes that the one that is reported.

**EvidencePool.** `PoolInv` accounts for every blob (waiting, verified, held by a
worker) and says that blobs stay behind only if the work is canceled, which
happens only after a failure was recorded. `FeederNotStranded` is the safety half
of its liveness: whenever every worker has gone the work is done, so the feeder's
select is not left with a send that nobody receives. It needs a worker
(`WorkersAssumption`).

**Assessments.** `AssessmentInv` speaks of the moment `mid` when every object had
been read once, the copy of the release: whatever holds its first value at any
time from then on is noted (`SinceStaged`), and each reread that agrees puts its
object among the noted ones (`Reached`). A release only grows (`ReleaseOnlyGrows`),
so an equal reread of it also says that it did not change in between.
`ScoreInv` adds that a proof that lapsed or was withdrawn, or a release that
changed, is still to be found by a check that lies ahead (`LapseShows`).

**StreamBoundary.** The parser is a loop over a vector of any length. `ParserInv`
says of the words behind its position what the flags, the counter and the two
remembered values record of them (`OptionsInv`, `InputsInv`, `SizeInv`,
`ValuesInv`); after the last option only words of fixed positions are left
(`WordsLeft`), so that the grammar holds of the whole vector. That a vector is a
sequence at all goes through the recursion of `FlattenSeq`, by a least
counterexample (`FlattenFacts`).

That the planner's own vectors are accepted takes the writer as well. Each field
has one of four shapes (`FieldShape`: nothing, one option, the two dimensions of
a size, the devices), and its value passes the parser's check because it passed
`Validate`. `Written` says of a vector which fields it writes: its options are
in the dialect, no two are of one group, width and height come together, and
the resolution, codec, platform and devices that are set are there. It is kept
by appending a vector of other fields (`ConcatWritten`), hence holds of the loop
over all fields (`ArgumentsWritten`, by a least counterexample again).
`PlannedInv` then follows the parser through such a vector: it stands at an option or behind the last one
(`PlaceInv`), has set no flag whose option lies ahead (`SeenInv`), remembers what
the options named (`ReadBackInv`), and refuses only for H.264 (`RefusedInv`). TLC
checked it on the `boundary` instance before it was proved.

**Model-checked only.** Liveness (`CancelEnds`, `ControlOperationEnds`,
`Terminates`), as the prover knows neither fairness nor ENABLED. Every invariant
and action property that a passing run checks is stated by a theorem.

## 5. Findings and observations

Findings, each shown by a run that TLC refutes:

1. **A stream with codec h264 on a Qt or Flatpak client is planned and then
   refused.** `qtCodecName` (`internal/remote/remote.go:762`) writes `H.264`;
   `splitStreamOptions` lower-cases the word to `h.264`, which is not among the
   codecs it accepts, although its comment says it parses the options
   LeagueBridge itself can generate. `h264` is the default of `remote play`.
   `PlannedVectorsAcceptedExceptQtH264` states that it is the only exception.
2. **A reconnect may stream with another executable.** Its listing may recover to
   another client; `docs/REMOTE_PLAY.md` says that every attempt reuses the same.
3. **The recovery search and the resolver prefer different clients** where a
   generic `moonlight` and `moonlight-embedded` are both installed.
4. **release.sh removes the only copy of the old output** when the move that
   restores it fails: `cleanup` ignores the failure and removes the backup.

Observations that no run states:

- The exported `BuildPlan` accepts a discovered client that was changed before
  planning (see the assumption of two theorems above). The program calls the
  discovered-plan builders only.
- A bundle's second enumeration (`internal/evidence/artifacts.go:90`) compares
  names and types, not the contents that were hashed in between; what
  `EvidenceChain` promises of artifacts is that they had their declared bytes
  when they were read.
- `stageReleaseSet` opens `finalRoot` by name and does not compare it with the
  directory it has created (`release_set.go:320`). If that one is replaced before
  the moves and put back before the link, the plan is linked into a directory
  whose trees were not read, and `checkReleaseSetPublished` passes. Without
  `~returned` TLC refutes the second half of `CompleteMeansChecked`.
- `validateGitHubVerification` matches a signed subject by its SHA-256 alone: a
  file may be accepted for bytes that the run attested as another file.
- A page of runs deleted during one listing can hide a newer run (section 3).
- The trust policies and external verifiers that are shipped are not provisioned,
  so the shipped program refuses before it reaches most of `NativeObservation`
  and the score of `ProductionAssessment`. The models take any policy, the
  unprovisioned one included.

## 6. Not modelled

- **Compatibility, readiness, release archives, supporting packages.** Pure
  functions over bytes or tables already read. Their verdict is a choice in the
  models that call them; `EvidenceChain` takes the embedded manifest as fresh,
  `DirectCommands` lets it expire.
- **Probes.** Reads of the operating system one after another, each tolerant of
  failure; `Preflight` and `SearchSkip` take any answer.
- **Application shell, diagnostics, other tools and scripts.** Flags, printing,
  dispatch, text replacement, builds that stop at the first failure. The smoke
  scripts are tests.
- **Within modelled components.** Captured output and its limit (a name beyond it
  is not found), the pairing PIN, host names, the bytes of a packet and of
  archives (deb, rpm, pkg, tgz), JSON grammars, vocabularies and thresholds of
  evidence. A forced push of main back to an old commit (`CurrentCI`).
- **Hazards without a property.** A file replaced between `Execute`'s comparison
  and the start of the process (`remote.go:2375`): no check by path can close the
  window, the model has it. The capture's limit (`app/remote.go:83`). A page of
  deletions (`cireleasegate.go:163`).
- **Termination of the CI check** is not checked: its listings are bounded by
  `maximumEntries`, each request by a timeout, and it has no loop around them.
