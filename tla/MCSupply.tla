------------------------------ MODULE MCSupply ------------------------------
(***************************************************************************)
(* The components that attest, stage, sign and accept what is released and *)
(* that share no state are checked in one run: subject is the one that     *)
(* moves, the variables of the others are unused.                          *)
(***************************************************************************)
EXTENDS EvidencePool, Naturals

CONSTANTS
  NativeMaxClock, NativeMaxTampers,   \* of the observations
  CiMaxRewrites, RuntimeMaxRewrites, InstallMaxRewrites,
  StagingMaxChanges, SetMaxChanges,   \* what others change
  ChainMaxClock,                      \* of the evidence chain
  TemplateCommands                    \* the commands that publish files

ASSUME ClockAssumption == ChainMaxClock \in Nat
\* "free" and "user" say that no command wrote a file.
ASSUME CommandsAssumption == TemplateCommands \cap {"free", "user"} = {}

VARIABLES
  subject,
  nativePolicy, envelopes, disk, tampers, nativeClock, stage, item, artifact,
  nativeSnapshot, nativeSampled, tokens, reread,
  mode, doc, archive, checksums, ciAttested, ciRewrites, ciPlace, ciAt, claims,
  ciWork, ciConfirmed,
  runtimeFiles, runtimeBuilt, runtimeAttested, runtimeCarried, runtimeRewrites,
  runtimePlace, runtimeAt, runtimeLoaded, runtimeListed, runtimeWork, runtimeAsked,
  runtimeConfirmed,
  installFiles, draft, installBuilt, installAttested, installCarried,
  installRewrites, touched, installPlace, installAt, installLoaded, installWork,
  installListed, installAsked, installConfirmed,
  stagingCommand, source, stagingLive, facts, temp, digest, stagingDir, returned,
  handle, out, complete, stagingPlace, stagingAt, stagingChanges, stagingFresh,
  setCommand, package, tree, setLive, recordFile, own, runs, statements, setPlace,
  setAt, summary, setSnapshot, run, pass, setChanges, inspected, setFresh,
  chainCommand, chainPolicy, chainClock, chainPlace, chainAt, chainDir, hashed,
  held, chainSampled, payload, records,
  names, templateFiles, temps, linked, pc, checked, seen

Native == INSTANCE NativeObservation WITH
  MaxClock <- NativeMaxClock, MaxTampers <- NativeMaxTampers,
  policy <- nativePolicy, clock <- nativeClock,
  snapshot <- nativeSnapshot, sampled <- nativeSampled

Ci == INSTANCE CiAttestation WITH
  MaxRewrites <- CiMaxRewrites, attested <- ciAttested, rewrites <- ciRewrites,
  place <- ciPlace, at <- ciAt, work <- ciWork, confirmed <- ciConfirmed

Runtime == INSTANCE NativeAttestation WITH
  MaxRewrites <- RuntimeMaxRewrites, files <- runtimeFiles, built <- runtimeBuilt,
  attested <- runtimeAttested, carried <- runtimeCarried,
  rewrites <- runtimeRewrites, place <- runtimePlace, at <- runtimeAt,
  loaded <- runtimeLoaded, listed <- runtimeListed, work <- runtimeWork,
  asked <- runtimeAsked, confirmed <- runtimeConfirmed

Install == INSTANCE PackageAttestation WITH
  MaxRewrites <- InstallMaxRewrites, files <- installFiles, built <- installBuilt,
  attested <- installAttested, carried <- installCarried,
  rewrites <- installRewrites, place <- installPlace, at <- installAt,
  loaded <- installLoaded, work <- installWork, listed <- installListed,
  asked <- installAsked, confirmed <- installConfirmed

Staging == INSTANCE PackageStaging WITH
  MaxChanges <- StagingMaxChanges, command <- stagingCommand, live <- stagingLive,
  dir <- stagingDir, place <- stagingPlace, at <- stagingAt,
  changes <- stagingChanges, fresh <- stagingFresh

Candidates == INSTANCE CandidateSet WITH
  MaxChanges <- SetMaxChanges, command <- setCommand, live <- setLive, place <- setPlace,
  at <- setAt, snapshot <- setSnapshot, changes <- setChanges, fresh <- setFresh

Evidence == INSTANCE EvidenceChain WITH
  MaxClock <- ChainMaxClock, command <- chainCommand, policy <- chainPolicy,
  clock <- chainClock, place <- chainPlace, at <- chainAt, dir <- chainDir,
  sampled <- chainSampled

Templates == INSTANCE TemplateSet WITH
  Commands <- TemplateCommands, files <- templateFiles

nativeVars == <<nativePolicy, envelopes, disk, tampers, nativeClock, stage, item,
  artifact, nativeSnapshot, nativeSampled, tokens, reread>>
ciVars == <<mode, doc, archive, checksums, ciAttested, ciRewrites, ciPlace, ciAt,
  claims, ciWork, ciConfirmed>>
runtimeVars == <<runtimeFiles, runtimeBuilt, runtimeAttested, runtimeCarried,
  runtimeRewrites, runtimePlace, runtimeAt, runtimeLoaded, runtimeListed,
  runtimeWork, runtimeAsked, runtimeConfirmed>>
installVars == <<installFiles, draft, installBuilt, installAttested,
  installCarried, installRewrites, touched, installPlace, installAt, installLoaded,
  installWork, installListed, installAsked, installConfirmed>>
stagingVars == <<stagingCommand, source, stagingLive, facts, temp, digest, stagingDir,
  returned, handle, out, complete, stagingPlace, stagingAt, stagingChanges, stagingFresh>>
setVars == <<setCommand, package, tree, setLive, recordFile, own, runs, statements,
  setPlace, setAt, summary, setSnapshot, run, pass, setChanges, inspected, setFresh>>
chainVars == <<chainCommand, chainPolicy, chainClock, chainPlace, chainAt,
  chainDir, hashed, held, chainSampled, payload, records>>
templateVars == <<names, templateFiles, temps, linked, pc, checked, seen>>

-----------------------------------------------------------------------------
(* The subject begins in its own Init, the rest is unused.                 *)

Unused == "unused"

PoolRests ==
  /\ intact = {} /\ remaining = {} /\ feeder = "returned" /\ result = "canceled"
  /\ state = [w \in Workers |-> "exited"] /\ task = [w \in Workers |-> NoBlob]
  /\ err = [w \in Workers |-> "none"] /\ failure = "none"
  /\ canceled = FALSE /\ stopped = TRUE /\ verified = {}

NativeRests ==
  /\ nativePolicy = Unused /\ envelopes = Unused /\ disk = Unused
  /\ tampers = Unused /\ nativeClock = Unused /\ stage = Unused /\ item = Unused
  /\ artifact = Unused /\ nativeSnapshot = Unused /\ nativeSampled = Unused
  /\ tokens = Unused /\ reread = Unused

CiRests ==
  /\ mode = Unused /\ doc = Unused /\ archive = Unused /\ checksums = Unused
  /\ ciAttested = Unused /\ ciRewrites = Unused /\ ciPlace = Unused /\ ciAt = Unused
  /\ claims = Unused /\ ciWork = Unused /\ ciConfirmed = Unused

RuntimeRests ==
  /\ runtimeFiles = Unused /\ runtimeBuilt = Unused /\ runtimeAttested = Unused
  /\ runtimeCarried = Unused /\ runtimeRewrites = Unused /\ runtimePlace = Unused
  /\ runtimeAt = Unused /\ runtimeLoaded = Unused /\ runtimeListed = Unused
  /\ runtimeWork = Unused /\ runtimeAsked = Unused /\ runtimeConfirmed = Unused

InstallRests ==
  /\ installFiles = Unused /\ draft = Unused /\ installBuilt = Unused
  /\ installAttested = Unused /\ installCarried = Unused /\ installRewrites = Unused
  /\ touched = Unused /\ installPlace = Unused /\ installAt = Unused
  /\ installLoaded = Unused /\ installWork = Unused /\ installListed = Unused
  /\ installAsked = Unused /\ installConfirmed = Unused

StagingRests ==
  /\ stagingCommand = Unused /\ source = Unused /\ stagingLive = Unused
  /\ facts = Unused /\ returned = Unused
  /\ temp = Unused /\ digest = Unused /\ stagingDir = Unused /\ handle = Unused
  /\ out = Unused /\ complete = Unused /\ stagingPlace = Unused
  /\ stagingAt = Unused /\ stagingChanges = Unused /\ stagingFresh = Unused

CandidatesRests ==
  /\ setCommand = Unused /\ package = Unused /\ tree = Unused /\ setLive = Unused
  /\ recordFile = Unused /\ own = Unused /\ runs = Unused /\ statements = Unused
  /\ setPlace = Unused /\ setAt = Unused /\ summary = Unused /\ setSnapshot = Unused
  /\ run = Unused /\ pass = Unused /\ setChanges = Unused /\ inspected = Unused
  /\ setFresh = Unused

EvidenceRests ==
  /\ chainCommand = Unused /\ chainPolicy = Unused /\ chainClock = Unused
  /\ chainPlace = Unused /\ chainAt = Unused /\ chainDir = Unused /\ hashed = Unused
  /\ held = Unused /\ chainSampled = Unused /\ payload = Unused /\ records = Unused

TemplatesRests ==
  /\ names = Unused /\ templateFiles = Unused /\ temps = Unused /\ linked = Unused
  /\ pc = Unused /\ checked = Unused /\ seen = Unused

Starts(s, init, rests) == IF subject = s THEN init ELSE rests

SupplyInit ==
  /\ subject \in {"pool", "native", "ci", "runtime", "install", "staging",
                 "candidates", "evidence", "templates"}
  /\ Starts("pool", Init, PoolRests)
  /\ Starts("native", Native!ObservationInit, NativeRests)
  /\ Starts("ci", Ci!CiInit, CiRests)
  /\ Starts("runtime", Runtime!RuntimeInit, RuntimeRests)
  /\ Starts("install", Install!PackageInit, InstallRests)
  /\ Starts("staging", Staging!StagingInit, StagingRests)
  /\ Starts("candidates", Candidates!CandidateInit, CandidatesRests)
  /\ Starts("evidence", Evidence!EvidenceInit, EvidenceRests)
  /\ Starts("templates", Templates!TemplateInit, TemplatesRests)

-----------------------------------------------------------------------------
(* Only the subject moves.                                                 *)

PoolMoves ==
  /\ subject = "pool" /\ Next
  /\ UNCHANGED <<subject, nativeVars, ciVars, runtimeVars, installVars,
                  stagingVars, setVars, chainVars, templateVars>>

NativeMoves ==
  /\ subject = "native" /\ Native!ObservationNext
  /\ UNCHANGED <<subject, vars, ciVars, runtimeVars, installVars, stagingVars,
                  setVars, chainVars, templateVars>>

CiMoves ==
  /\ subject = "ci" /\ Ci!CiNext
  /\ UNCHANGED <<subject, vars, nativeVars, runtimeVars, installVars, stagingVars,
                  setVars, chainVars, templateVars>>

RuntimeMoves ==
  /\ subject = "runtime" /\ Runtime!RuntimeNext
  /\ UNCHANGED <<subject, vars, nativeVars, ciVars, installVars, stagingVars,
                  setVars, chainVars, templateVars>>

InstallMoves ==
  /\ subject = "install" /\ Install!PackageNext
  /\ UNCHANGED <<subject, vars, nativeVars, ciVars, runtimeVars, stagingVars,
                  setVars, chainVars, templateVars>>

StagingMoves ==
  /\ subject = "staging" /\ Staging!StagingNext
  /\ UNCHANGED <<subject, vars, nativeVars, ciVars, runtimeVars, installVars,
                  setVars, chainVars, templateVars>>

CandidatesMoves ==
  /\ subject = "candidates" /\ Candidates!CandidateNext
  /\ UNCHANGED <<subject, vars, nativeVars, ciVars, runtimeVars, installVars,
                  stagingVars, chainVars, templateVars>>

EvidenceMoves ==
  /\ subject = "evidence" /\ Evidence!EvidenceNext
  /\ UNCHANGED <<subject, vars, nativeVars, ciVars, runtimeVars, installVars,
                  stagingVars, setVars, templateVars>>

TemplatesMoves ==
  /\ subject = "templates" /\ Templates!TemplateNext
  /\ UNCHANGED <<subject, vars, nativeVars, ciVars, runtimeVars, installVars,
                  stagingVars, setVars, chainVars>>

SupplyNext ==
  \/ PoolMoves \/ NativeMoves \/ CiMoves \/ RuntimeMoves \/ InstallMoves
  \/ StagingMoves \/ CandidatesMoves \/ EvidenceMoves \/ TemplatesMoves

supplyVars == <<subject, vars, nativeVars, ciVars, runtimeVars, installVars,
                stagingVars, setVars, chainVars, templateVars>>

\* The goroutines of the pool are scheduled, as in EvidencePool.
SupplySpec == SupplyInit /\ [][SupplyNext]_supplyVars /\ Fairness

-----------------------------------------------------------------------------
\* A complete set of observations was witnessed by two persons of a policy that
\* still trusts them, over artifacts that did not change (VerifyCompleteSet).
AcceptedSetIsWitnessed == subject = "native" => Native!AcceptedSetIsWitnessed

\* What the workflow attested is what is accepted: the CI inventory
\* (ciattestation), the runtime evidence of every target (nativeattestation).
AcceptedSetsAreAttested ==
  /\ subject = "ci" => Ci!AcceptedSetIsAttested
  /\ subject = "runtime" => Runtime!AcceptedIsWhatWasBuilt

\* An accepted package was installed, run and removed, as its evidence says
\* (nativepackageattestation).
AcceptedWasInstalled == subject = "install" => Install!AcceptedWasInstalled

\* A complete staging directory holds what the archive held, and a recorded or
\* accepted set of packages what the release publishes (productionpackage).
PublishedPackagesAreChecked ==
  /\ subject = "staging" => Staging!CompleteMeansChecked
  /\ subject = "candidates" => Candidates!RecordedPackagesAreReleased

\* A promotion stands on a chain of evidence that is in order and still valid,
\* and files of a validation run appear as whole sets (evidence, evidencev2).
EvidenceIsWhole ==
  /\ subject = "evidence" => Evidence!PromotedChainStands
  /\ subject = "templates" => Templates!SetsAreWhole

=============================================================================
