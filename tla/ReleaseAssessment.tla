------------------------- MODULE ReleaseAssessment -------------------------
(***************************************************************************)
(* releaseassessment.verify: the live assessment of one published release. *)
(* GitHub and the caller's directories change while it runs for minutes,   *)
(* so everything mutable is read, verified, and read again.                *)
(*                                                                         *)
(* live is what each mutable object holds. A release (with its assets) has *)
(* timestamps and identities that never return to an old value; a tag, the *)
(* protection rules, the latest runs and local files may. A value of       *)
(* releaseDir is the release whose assets the directory holds. What a      *)
(* value stands for may be unacceptable to the code: any check may refuse. *)
(***************************************************************************)
EXTENDS Integers

CONSTANT MaxChanges  \* bound: changes of the world

ASSUME ChangesAssumption == MaxChanges \in Nat

VARIABLES
  live,      \* what every object holds
  changes,   \* changes of the world so far
  pc,        \* where verify is
  initial,   \* the values read first
  final,     \* the values read after the verification
  private,   \* the release whose bytes stageRelease copied
  verified,  \* history: releases whose bytes were taken for the archives and signatures
  mid,       \* history: the world when everything had been read once
  after      \* history: objects that held their initial value after that

worldVars == <<live, changes>>
verifyVars == <<pc, initial, final, private, verified, mid, after>>

Objects == {"release", "tag", "protection", "releaseRun", "ciRun", "ciFiles", "releaseDir"}
Versioned == {"release"}
Values == 0..MaxChanges
Unread == -1
Nothing == [o \in Objects |-> Unread]

Places ==
  {"idle", "request", "release", "assets", "tag", "protection", "source", "contract",
   "releaseRun", "ciRun", "snapshot", "stage", "raceVet", "crossBuild", "archives",
   "stagedArchives", "signatures", "stagedSignatures", "finalCI", "finalRun", "finalRelease",
   "finalAssets", "finalTag", "finalProtection", "finalSource", "finalLocal", "conclude",
   "assessed", "failed"}

ReleaseTypeOK ==
  /\ live \in [Objects -> Values]
  /\ changes \in 0..MaxChanges
  /\ pc \in Places
  /\ initial \in [Objects -> Values \cup {Unread}]
  /\ final \in [Objects -> Values \cup {Unread}]
  /\ private \in Values \cup {Unread}
  /\ verified \subseteq Values
  /\ mid \in [Objects -> Values \cup {Unread}]
  /\ after \subseteq Objects

-----------------------------------------------------------------------------
(* The world.                                                              *)

Standing(world) == {o \in Objects : mid # Nothing /\ world[o] = initial[o]}

Change(o) ==
  /\ changes < MaxChanges
  /\ changes' = changes + 1
  /\ \/ o \in Versioned /\ live' = [live EXCEPT ![o] = @ + 1]
     \/ o \notin Versioned /\ \E v \in Values \ {live[o]} : live' = [live EXCEPT ![o] = v]
  /\ after' = after \cup Standing(live')
  /\ UNCHANGED <<pc, initial, final, private, verified, mid>>

-----------------------------------------------------------------------------
(* Steps of verify. Every request, read and check may fail, and the        *)
(* deadline of the operation may pass: the result is then empty.           *)

Fail(place) == pc = place /\ pc' = "failed" /\ UNCHANGED <<initial, final, private, verified, mid, after>>

Advance(place, next) ==
  /\ pc = place
  /\ pc' = next
  /\ UNCHANGED <<initial, final, private, verified, mid, after>>

\* A first reading of an object.
Read(o, place, next) ==
  \/ /\ pc = place
     /\ pc' = next
     /\ initial' = [initial EXCEPT ![o] = live[o]]
     /\ UNCHANGED <<final, private, verified, mid, after>>
  \/ Fail(place)

\* A last reading; what is there must be acceptable, the comparison may be later.
ReadAgain(o, place, next) ==
  \/ /\ pc = place
     /\ pc' = next
     /\ final' = [final EXCEPT ![o] = live[o]]
     /\ UNCHANGED <<initial, private, verified, mid, after>>
  \/ Fail(place)

\* A last reading that must equal the first at once.
Reread(o, place, next) ==
  \/ live[o] = initial[o] /\ ReadAgain(o, place, next)
  \/ Fail(place)

\* Both VerifyForProduction and Recheck begin here, with nothing known.
CallVerify ==
  /\ pc' = "request"
  /\ initial' = Nothing
  /\ final' = Nothing
  /\ private' = Unread
  /\ verified' = {}
  /\ mid' = Nothing
  /\ after' = {}

CheckRequest == Advance("request", "release") \/ Fail("request")

\* resolvePublication: the named release, neither draft nor prerelease.
ResolveRelease == Read("release", "release", "assets")

\* The listed assets must be the ones that the release embeds.
ResolveAssets ==
  \/ live["release"] = initial["release"] /\ Advance("assets", "tag")
  \/ Fail("assets")

\* resolveTag peels the tag to a commit through objects that do not change.
ResolveTag == Read("tag", "tag", "protection")

\* resolveProtection: active rules for v* tags without bypass.
ResolveProtection == Read("protection", "protection", "source")

\* resolveSource: what the commit identifies is addressed by content; its
\* workflows must be supported, its scorecard valid now, its evidence authentic.
ResolveSource == Advance("source", "contract") \/ Fail("source")

CheckContracts == Advance("contract", "releaseRun") \/ Fail("contract")

\* verifyReleaseRun: the latest run of the tag, with its three jobs.
VerifyReleaseRun == Read("releaseRun", "releaseRun", "ciRun")

\* The complete CI gate for the commit.
Gate == Read("ciRun", "ciRun", "snapshot")

\* snapshotRelease: the ten files of a directory are those of the release.
Published(bytes) == bytes = initial["release"]

\* snapshotEvidence: the release directory and the files of the CI runs.
SnapshotEvidence ==
  \/ /\ pc = "snapshot"
     /\ Published(live["releaseDir"])
     /\ initial' = [initial EXCEPT !["ciFiles"] = live["ciFiles"],
                                   !["releaseDir"] = live["releaseDir"]]
     /\ pc' = "stage"
     /\ UNCHANGED <<final, private, verified, mid, after>>
  \/ Fail("snapshot")

\* stageRelease: the bytes are compared as they are copied.
StageRelease ==
  \/ /\ pc = "stage"
     /\ Published(live["releaseDir"])
     /\ private' = live["releaseDir"]
     /\ mid' = live
     /\ after' = {o \in Objects : live[o] = initial[o]}
     /\ pc' = "raceVet"
     /\ UNCHANGED <<initial, final, verified>>
  \/ Fail("stage")

\* The signed evidence of the CI runs, read where the caller keeps it.
CheckRaceVet == Advance("raceVet", "crossBuild") \/ Fail("raceVet")
CheckCrossBuild == Advance("crossBuild", "archives") \/ Fail("crossBuild")

\* Mutant: the verifiers read the caller's directory.
Verifies_InPlace(place, next) ==
  \/ /\ pc = place
     /\ verified' = verified \cup {live["releaseDir"]}
     /\ pc' = next
     /\ UNCHANGED <<initial, final, private, mid, after>>
  \/ Fail(place)

Verifies(place, next) ==
  \/ /\ pc = place
     /\ verified' = verified \cup {private}
     /\ pc' = next
     /\ UNCHANGED <<initial, final, private, mid, after>>
  \/ Fail(place)

\* Both verifiers of the release take the private copy, which is then compared.
CheckArchives == Verifies("archives", "stagedArchives")
CheckSignatures == Verifies("signatures", "stagedSignatures")

SnapshotStaged ==
  \/ Published(private) /\ Advance("stagedArchives", "signatures")
  \/ Published(private) /\ Advance("stagedSignatures", "finalCI")
  \/ Fail("stagedArchives")
  \/ Fail("stagedSignatures")

FinalGate == Reread("ciRun", "finalCI", "finalRun")
FinalReleaseRun == Reread("releaseRun", "finalRun", "finalRelease")

FinalRelease == ReadAgain("release", "finalRelease", "finalAssets")

FinalAssets ==
  \/ live["release"] = final["release"] /\ Advance("finalAssets", "finalTag")
  \/ Fail("finalAssets")

FinalTag == ReadAgain("tag", "finalTag", "finalProtection")

\* Mutant: the release is compared, the tag is not.
FinalProtection_ReleaseOnly ==
  \/ /\ final["release"] = initial["release"]
     /\ Reread("protection", "finalProtection", "finalSource")
  \/ Fail("finalProtection")

\* With the last part the whole publication is compared.
FinalProtection ==
  \/ /\ \A o \in {"release", "tag"} : final[o] = initial[o]
     /\ Reread("protection", "finalProtection", "finalSource")
  \/ Fail("finalProtection")

FinalSource == Advance("finalSource", "finalLocal") \/ Fail("finalSource")

FinalLocal ==
  \/ /\ pc = "finalLocal"
     /\ live["ciFiles"] = initial["ciFiles"]
     /\ live["releaseDir"] = initial["releaseDir"]
     /\ pc' = "conclude"
     /\ UNCHANGED <<initial, final, private, verified, mid, after>>
  \/ Fail("finalLocal")

\* The scorecard is still valid and the score within its contract.
Conclude == Advance("conclude", "assessed") \/ Fail("conclude")

VerifyStep ==
  /\ \/ CheckRequest \/ ResolveRelease \/ ResolveAssets \/ ResolveTag \/ ResolveProtection
     \/ ResolveSource \/ CheckContracts \/ VerifyReleaseRun \/ Gate \/ SnapshotEvidence
     \/ StageRelease \/ CheckRaceVet \/ CheckCrossBuild \/ CheckArchives \/ CheckSignatures
     \/ SnapshotStaged \/ FinalGate \/ FinalReleaseRun \/ FinalRelease \/ FinalAssets
     \/ FinalTag \/ FinalProtection \/ FinalSource \/ FinalLocal \/ Conclude
  /\ UNCHANGED worldVars

VerifyInit ==
  /\ live = [o \in Objects |-> 0]
  /\ changes = 0
  /\ pc = "idle"
  /\ initial = Nothing
  /\ final = Nothing
  /\ private = Unread
  /\ verified = {}
  /\ mid = Nothing
  /\ after = {}

-----------------------------------------------------------------------------
\* What an assessment says was true together: at the moment when everything had
\* been read once, the release was the reported one, and whatever else is
\* reported had been read before that moment and held again after it, although
\* no request reads two of them (verify, its final rereads).
AssessedAtOnce ==
  pc = "assessed" =>
    /\ \A o \in Versioned : mid[o] = initial[o]
    /\ after = Objects

\* The archives and the signatures were verified on the bytes of the release that
\* is reported, even if the caller's directory changed and changed back between
\* the checks (stageRelease).
VerifiedBytesArePublished ==
  pc = "assessed" => verified = {initial["release"]} /\ mid["release"] = initial["release"]
=============================================================================
