-------------------------- MODULE AssessmentProofs --------------------------
(***************************************************************************)
(* What an assessment of a published release and a production score say,   *)
(* for any number of changes of the world, any criteria and any length of  *)
(* time. Between the readings of an object its value may change and change *)
(* back; the invariant keeps what each place of verify has learned of the  *)
(* moment when everything had been read once (mid), and of what was seen   *)
(* to hold after it.                                                       *)
(***************************************************************************)
EXTENDS ProductionAssessment, TLAPS

\* The places of verify from which a reading or a check lies behind.
PastLocal == {"conclude", "assessed"}
PastProtection == PastLocal \cup {"finalSource", "finalLocal"}
PastTag == PastProtection \cup {"finalProtection"}
PastRelease == PastTag \cup {"finalAssets", "finalTag"}
PastRun == PastRelease \cup {"finalRelease"}
PastGate == PastRun \cup {"finalRun"}
PastSignatures == PastGate \cup {"stagedSignatures", "finalCI"}
PastArchives == PastSignatures \cup {"stagedArchives", "signatures"}
Staged == PastArchives \cup {"raceVet", "crossBuild", "archives"}

\* A release never returns to what it was.
ReleaseOnlyGrows ==
  /\ live["release"] <= changes
  /\ initial["release"] # Unread => initial["release"] <= live["release"]

\* From the copy on (stageRelease), whatever holds its first value has been seen to.
SinceStaged ==
  /\ mid = Nothing => verified = {}
  /\ mid # Nothing =>
       /\ pc \in Staged \cup {"failed"}
       /\ mid \in [Objects -> Values]
       /\ initial["release"] \in Values
       /\ initial["release"] <= mid["release"] /\ mid["release"] <= live["release"]
       /\ \A o \in Objects : live[o] = initial[o] => o \in after
       /\ private = initial["release"] /\ verified \subseteq {private}

\* What has been learned when verify is at a place.
Reached ==
  /\ pc \in Staged => mid # Nothing
  /\ pc \in PastArchives => private \in verified
  /\ pc \in PastGate => "ciRun" \in after
  /\ pc \in PastRun => "releaseRun" \in after
  /\ pc \in PastRelease =>
       /\ mid["release"] <= final["release"]
       /\ final["release"] = initial["release"] => "release" \in after
  /\ pc \in PastTag => (final["tag"] = initial["tag"] => "tag" \in after)
  /\ pc \in PastProtection =>
       {"release", "tag", "protection"} \subseteq after /\ mid["release"] = initial["release"]
  /\ pc \in PastLocal => {"ciFiles", "releaseDir"} \subseteq after

AssessmentInv == ReleaseTypeOK /\ ReleaseOnlyGrows /\ SinceStaged /\ Reached

-----------------------------------------------------------------------------
(* The assessment.                                                         *)

LEMMA WorldIsSomething ==
  ASSUME ReleaseTypeOK PROVE live # Nothing
<1>1. live["release"] \in Nat /\ Nothing["release"] = -1
  BY ChangesAssumption DEF ReleaseTypeOK, Values, Objects, Nothing, Unread
<1> QED BY <1>1

LEMMA InitAssessment == ASSUME VerifyInit PROVE AssessmentInv
<1> USE ChangesAssumption DEF VerifyInit
<1>1. ReleaseTypeOK
  BY DEF ReleaseTypeOK, Values, Nothing, Places, Unread
<1>2. mid = Nothing /\ pc = "idle"
  OBVIOUS
<1>3. ReleaseOnlyGrows
  BY DEF ReleaseOnlyGrows, Objects, Nothing
<1>4. SinceStaged
  BY <1>2 DEF SinceStaged, VerifyInit
<1>5. Reached
  BY <1>2 DEF Reached, Staged, PastArchives, PastSignatures, PastGate, PastRun, PastRelease,
              PastTag, PastProtection, PastLocal
<1> QED BY <1>1, <1>3, <1>4, <1>5 DEF AssessmentInv

LEMMA CallKeepsAssessment ==
  ASSUME AssessmentInv, CallVerify, UNCHANGED worldVars PROVE AssessmentInv'
<1>1. /\ pc' = "request" /\ initial' = Nothing /\ final' = Nothing /\ private' = Unread
      /\ verified' = {} /\ mid' = Nothing /\ after' = {} /\ live' = live /\ changes' = changes
  BY DEF CallVerify, worldVars
<1>2. ReleaseTypeOK'
  BY <1>1 DEF AssessmentInv, ReleaseTypeOK, Nothing, Places
<1>3. ReleaseOnlyGrows'
  BY <1>1 DEF AssessmentInv, ReleaseOnlyGrows, Objects, Nothing
<1>4. SinceStaged'
  BY <1>1 DEF SinceStaged, Nothing
<1>5. Reached'
  BY <1>1 DEF Reached, Staged, PastArchives, PastSignatures, PastGate, PastRun, PastRelease,
              PastTag, PastProtection, PastLocal
<1> QED BY <1>2, <1>3, <1>4, <1>5 DEF AssessmentInv

\* A change of the world: what holds its first value after it is noted.
LEMMA ChangeKeepsAssessment ==
  ASSUME AssessmentInv, NEW o \in Objects, Change(o)
  PROVE  /\ AssessmentInv' /\ live'["release"] >= live["release"]
         /\ o \in Versioned => live'["release"] > live["release"]
<1> USE ChangesAssumption
<1>0. /\ live \in [Objects -> Values] /\ changes \in 0..MaxChanges /\ "release" \in Objects
      /\ live["release"] \in 0..MaxChanges /\ live["release"] <= changes
  BY DEF AssessmentInv, ReleaseTypeOK, ReleaseOnlyGrows, Objects, Values
<1>1. /\ changes < MaxChanges /\ changes' = changes + 1 /\ after' = after \cup Standing(live')
      /\ UNCHANGED <<pc, initial, final, private, verified, mid>>
  BY DEF Change
<1>2. /\ live' \in [Objects -> Values] /\ live'["release"] >= live["release"]
      /\ live'["release"] <= changes'
      /\ o \in Versioned => live'["release"] > live["release"]
  <2>1. CASE o \in Versioned
    <3>1. o = "release" /\ live' = [live EXCEPT !["release"] = live["release"] + 1]
      BY <2>1 DEF Change, Versioned
    <3>2. live["release"] + 1 \in Values
      BY <1>0, <1>1 DEF Values
    <3> QED BY <1>0, <1>1, <3>1, <3>2
  <2>2. CASE o \notin Versioned
    <3>1. PICK v \in Values : live' = [live EXCEPT ![o] = v]
      BY <2>2 DEF Change
    <3>2. o # "release"
      BY <2>2 DEF Versioned
    <3> QED BY <1>0, <1>1, <2>2, <3>1, <3>2
  <2> QED BY <2>1, <2>2
<1>3. ReleaseTypeOK'
  <2>1. after' \subseteq Objects
    BY <1>1 DEF Standing, AssessmentInv, ReleaseTypeOK
  <2>2. changes' \in 0..MaxChanges
    BY <1>0, <1>1
  <2> QED BY <1>1, <1>2, <2>1, <2>2 DEF AssessmentInv, ReleaseTypeOK
<1>4. ReleaseOnlyGrows'
  <2>1. initial["release"] \in Int /\ live'["release"] \in Int
    BY <1>0, <1>2 DEF AssessmentInv, ReleaseTypeOK, Values, Unread
  <2> QED BY <1>0, <1>1, <1>2, <2>1 DEF AssessmentInv, ReleaseOnlyGrows
<1>5. SinceStaged'
  <2> SUFFICES ASSUME mid # Nothing PROVE SinceStaged'
    BY <1>1 DEF AssessmentInv, SinceStaged
  <2>1. \A x \in Objects : live'[x] = initial'[x] => x \in after'
    BY <1>1 DEF Standing
  <2>2. mid["release"] \in Int /\ live'["release"] \in Int
    BY <1>0, <1>2 DEF AssessmentInv, SinceStaged, Values
  <2>3. mid["release"] <= live'["release"]
    BY <1>0, <1>2, <2>2 DEF AssessmentInv, SinceStaged
  <2> QED BY <1>1, <2>1, <2>3 DEF AssessmentInv, SinceStaged
<1>6. Reached'
  BY <1>1 DEF AssessmentInv, Reached
<1> QED BY <1>2, <1>3, <1>4, <1>5, <1>6 DEF AssessmentInv

\* The sets that Reached tells apart.
Marks == {Staged, PastArchives, PastGate, PastRun, PastRelease, PastTag, PastProtection, PastLocal}

LEMMA FailKeepsAssessment ==
  ASSUME AssessmentInv, NEW place, Fail(place), UNCHANGED worldVars PROVE AssessmentInv'
<1>1. /\ pc' = "failed"
      /\ UNCHANGED <<live, changes, initial, final, private, verified, mid, after>>
  BY DEF Fail, worldVars
<1>2. ReleaseTypeOK' /\ ReleaseOnlyGrows' /\ SinceStaged'
  BY <1>1 DEF AssessmentInv, ReleaseTypeOK, ReleaseOnlyGrows, SinceStaged, Places
<1>3. Reached'
  BY <1>1 DEF Reached, Staged, PastArchives, PastSignatures, PastGate, PastRun, PastRelease,
              PastTag, PastProtection, PastLocal
<1> QED BY <1>2, <1>3 DEF AssessmentInv

LEMMA AdvanceKeepsAssessment ==
  ASSUME AssessmentInv, NEW place, NEW next \in Places, Advance(place, next), UNCHANGED worldVars,
         \A past \in Marks : next \in past => place \in past,
         place \in Staged => next \in Staged \cup {"failed"}, place # "failed"
  PROVE  AssessmentInv'
<1>1. /\ pc = place /\ pc' = next
      /\ UNCHANGED <<live, changes, initial, final, private, verified, mid, after>>
  BY DEF Advance, worldVars
<1>2. ReleaseTypeOK' /\ ReleaseOnlyGrows'
  BY <1>1 DEF AssessmentInv, ReleaseTypeOK, ReleaseOnlyGrows
<1>3. SinceStaged'
  BY <1>1 DEF AssessmentInv, SinceStaged
<1>4. /\ next \in Staged => place \in Staged
      /\ next \in PastArchives => place \in PastArchives
      /\ next \in PastGate => place \in PastGate
      /\ next \in PastRun => place \in PastRun
      /\ next \in PastRelease => place \in PastRelease
      /\ next \in PastTag => place \in PastTag
      /\ next \in PastProtection => place \in PastProtection
      /\ next \in PastLocal => place \in PastLocal
  BY DEF Marks
<1>5. Reached'
  BY <1>1, <1>4 DEF AssessmentInv, Reached
<1> QED BY <1>2, <1>3, <1>5 DEF AssessmentInv

\* Nothing has been staged before the copy.
LEMMA NotYetStaged ==
  ASSUME AssessmentInv, pc \notin Staged \cup {"failed"} PROVE mid = Nothing
BY DEF AssessmentInv, SinceStaged

LEMMA ReadKeepsAssessment ==
  ASSUME AssessmentInv, NEW o \in Objects, NEW place, NEW next \in Places,
         Read(o, place, next), UNCHANGED worldVars,
         place \notin Staged \cup {"failed"}, next \notin Staged
  PROVE  AssessmentInv'
<1>1. CASE Fail(place)
  BY <1>1, FailKeepsAssessment
<1>2. CASE ~Fail(place)
  <2>1. /\ pc = place /\ pc' = next /\ initial' = [initial EXCEPT ![o] = live[o]]
        /\ UNCHANGED <<live, changes, final, private, verified, mid, after>>
    BY <1>2 DEF Read, worldVars
  <2>2. mid = Nothing
    BY <2>1, NotYetStaged
  <2>3. ReleaseTypeOK'
    BY <2>1 DEF AssessmentInv, ReleaseTypeOK
  <2>4. ReleaseOnlyGrows'
    <3>1. initial \in [Objects -> Values \cup {Unread}] /\ "release" \in Objects
          /\ live["release"] \in Int
      BY DEF AssessmentInv, ReleaseTypeOK, Objects, Values
    <3> QED BY <2>1, <3>1 DEF AssessmentInv, ReleaseOnlyGrows
  <2>5. SinceStaged'
    BY <2>1, <2>2 DEF AssessmentInv, SinceStaged, Nothing
  <2>6. Reached'
    BY <2>1 DEF Reached, Staged, PastArchives, PastSignatures, PastGate, PastRun, PastRelease,
                PastTag, PastProtection, PastLocal
  <2> QED BY <2>3, <2>4, <2>5, <2>6 DEF AssessmentInv
<1> QED BY <1>1, <1>2

\* The first directory reading, of bytes that are the release's.
LEMMA SnapshotKeepsAssessment ==
  ASSUME AssessmentInv, SnapshotEvidence, UNCHANGED worldVars PROVE AssessmentInv'
<1>1. CASE Fail("snapshot")
  BY <1>1, FailKeepsAssessment
<1>2. CASE ~Fail("snapshot")
  <2>1. /\ pc = "snapshot" /\ pc' = "stage"
        /\ initial' = [initial EXCEPT !["ciFiles"] = live["ciFiles"],
                                      !["releaseDir"] = live["releaseDir"]]
        /\ UNCHANGED <<live, changes, final, private, verified, mid, after>>
    BY <1>2 DEF SnapshotEvidence, worldVars
  <2>2. mid = Nothing
    BY <2>1, NotYetStaged DEF Staged, PastArchives, PastSignatures, PastGate, PastRun,
       PastRelease, PastTag, PastProtection, PastLocal
  <2>3. /\ initial \in [Objects -> Values \cup {Unread}]
        /\ {"release", "ciFiles", "releaseDir"} \subseteq Objects
        /\ live \in [Objects -> Values]
    BY DEF AssessmentInv, ReleaseTypeOK, Objects
  <2>4. initial' \in [Objects -> Values \cup {Unread}] /\ initial'["release"] = initial["release"]
    BY <2>1, <2>3
  <2>5. ReleaseTypeOK' /\ ReleaseOnlyGrows'
    BY <2>1, <2>4 DEF AssessmentInv, ReleaseTypeOK, ReleaseOnlyGrows, Places
  <2>6. SinceStaged'
    BY <2>1, <2>2 DEF AssessmentInv, SinceStaged, Nothing
  <2>7. Reached'
    BY <2>1 DEF Reached, Staged, PastArchives, PastSignatures, PastGate, PastRun, PastRelease,
                PastTag, PastProtection, PastLocal
  <2> QED BY <2>5, <2>6, <2>7 DEF AssessmentInv
<1> QED BY <1>1, <1>2

\* The copy: everything has been read once, and the copied bytes are the release's.
LEMMA StageKeepsAssessment ==
  ASSUME AssessmentInv, StageRelease, UNCHANGED worldVars PROVE AssessmentInv'
<1>1. CASE Fail("stage")
  BY <1>1, FailKeepsAssessment
<1>2. CASE ~Fail("stage")
  <2>1. /\ pc = "stage" /\ pc' = "raceVet" /\ live["releaseDir"] = initial["release"]
        /\ private' = live["releaseDir"] /\ mid' = live
        /\ after' = {o \in Objects : live[o] = initial[o]}
        /\ UNCHANGED <<live, changes, initial, final, verified>>
    BY <1>2 DEF StageRelease, Published, worldVars
  <2>2. /\ live \in [Objects -> Values] /\ {"release", "releaseDir"} \subseteq Objects
        /\ live["release"] \in Int /\ initial["release"] \in Values
    BY <2>1 DEF AssessmentInv, ReleaseTypeOK, Objects, Values
  <2>3. initial["release"] # Unread
    BY <2>2, ChangesAssumption DEF Values, Unread
  <2>4. ReleaseTypeOK' /\ ReleaseOnlyGrows'
    BY <2>1, <2>2 DEF AssessmentInv, ReleaseTypeOK, ReleaseOnlyGrows, Places
  <2>5. verified = {}
    <3>1. mid = Nothing
      BY <2>1, NotYetStaged DEF Staged, PastArchives, PastSignatures, PastGate, PastRun,
         PastRelease, PastTag, PastProtection, PastLocal
    <3> QED BY <3>1 DEF AssessmentInv, SinceStaged
  <2>6. SinceStaged'
    BY <2>1, <2>2, <2>3, <2>5 DEF AssessmentInv, ReleaseOnlyGrows, SinceStaged, Staged
  <2>7. Reached'
    BY <2>1, <2>2, WorldIsSomething
    DEF AssessmentInv, Reached, Staged, PastArchives, PastSignatures, PastGate, PastRun,
        PastRelease, PastTag, PastProtection, PastLocal
  <2> QED BY <2>4, <2>6, <2>7 DEF AssessmentInv
<1> QED BY <1>1, <1>2

LEMMA VerifiesKeepsAssessment ==
  ASSUME AssessmentInv, NEW place \in {"archives", "signatures"},
         NEW next \in {"stagedArchives", "stagedSignatures"}, Verifies(place, next),
         UNCHANGED worldVars
  PROVE  AssessmentInv'
<1>1. CASE Fail(place)
  BY <1>1, FailKeepsAssessment
<1>2. CASE ~Fail(place)
  <2>1. /\ pc = place /\ pc' = next /\ verified' = verified \cup {private}
        /\ UNCHANGED <<live, changes, initial, final, private, mid, after>>
    BY <1>2 DEF Verifies, worldVars
  <2>2. pc \in Staged /\ pc' \in Staged /\ pc' \notin PastGate
    BY <2>1 DEF Staged, PastArchives, PastSignatures, PastGate, PastRun, PastRelease,
                PastTag, PastProtection, PastLocal
  <2>3. mid # Nothing /\ private \in Values
    BY <2>2 DEF AssessmentInv, Reached, SinceStaged
  <2>4. ReleaseTypeOK' /\ ReleaseOnlyGrows'
    BY <2>1, <2>3 DEF AssessmentInv, ReleaseTypeOK, ReleaseOnlyGrows, Places
  <2>5. SinceStaged'
    BY <2>1, <2>2, <2>3 DEF AssessmentInv, SinceStaged
  <2>6. Reached'
    BY <2>1, <2>2, <2>3 DEF Reached, PastGate, PastRun, PastRelease, PastTag, PastProtection
  <2> QED BY <2>4, <2>5, <2>6 DEF AssessmentInv
<1> QED BY <1>1, <1>2

\* A last reading of an object, equal to the first or not.
LEMMA ReadAgainKeepsAssessment ==
  ASSUME AssessmentInv, NEW o \in Objects, NEW place, NEW next,
         ReadAgain(o, place, next), UNCHANGED worldVars,
         \/ place = "finalCI" /\ next = "finalRun" /\ o = "ciRun" /\ live[o] = initial[o]
         \/ place = "finalRun" /\ next = "finalRelease" /\ o = "releaseRun" /\ live[o] = initial[o]
         \/ place = "finalRelease" /\ next = "finalAssets" /\ o = "release"
         \/ place = "finalTag" /\ next = "finalProtection" /\ o = "tag"
         \/ /\ place = "finalProtection" /\ next = "finalSource" /\ o = "protection"
            /\ live[o] = initial[o] /\ \A x \in {"release", "tag"} : final[x] = initial[x]
  PROVE  AssessmentInv'
<1>1. CASE Fail(place)
  BY <1>1, FailKeepsAssessment
<1>2. CASE ~Fail(place)
  <2>1. /\ pc = place /\ pc' = next /\ final' = [final EXCEPT ![o] = live[o]]
        /\ UNCHANGED <<live, changes, initial, private, verified, mid, after>>
    BY <1>2 DEF ReadAgain, worldVars
  <2>2. pc \in PastSignatures /\ pc' \in PastGate /\ pc \in Staged /\ pc \in PastArchives
    BY <2>1 DEF Staged, PastArchives, PastSignatures, PastGate, PastRun, PastRelease,
                PastTag, PastProtection, PastLocal
  <2>3. /\ final \in [Objects -> Values \cup {Unread}] /\ live \in [Objects -> Values]
        /\ {"release", "tag"} \subseteq Objects
    BY DEF AssessmentInv, ReleaseTypeOK, Objects
  <2>4. /\ mid # Nothing /\ mid["release"] <= live["release"] /\ initial["release"] <= mid["release"]
        /\ mid["release"] \in Int /\ initial["release"] \in Int
        /\ \A x \in Objects : live[x] = initial[x] => x \in after
    BY <2>2, <2>3 DEF AssessmentInv, Reached, SinceStaged, Values
  <2>5. ReleaseTypeOK'
    <3>1. final' \in [Objects -> Values \cup {Unread}] /\ pc' \in Places
      BY <2>1, <2>3 DEF Places
    <3> QED BY <2>1, <3>1 DEF AssessmentInv, ReleaseTypeOK
  <2>6. ReleaseOnlyGrows' /\ SinceStaged'
    BY <2>1, <2>2 DEF AssessmentInv, ReleaseOnlyGrows, SinceStaged, Staged, PastArchives,
                      PastSignatures
  <2>7. Reached'
    <3>1. /\ mid' # Nothing /\ private' \in verified'
          /\ pc \in PastGate => "ciRun" \in after
          /\ pc \in PastRun => "releaseRun" \in after
          /\ final'[o] = live[o] /\ \A x \in Objects \ {o} : final'[x] = final[x]
      BY <2>1, <2>2, <2>3, <2>4 DEF AssessmentInv, Reached
    <3>2. CASE place \in {"finalCI", "finalRun"}
      BY <2>1, <2>4, <3>1, <3>2
      DEF Reached, PastGate, PastRun, PastRelease, PastTag, PastProtection, PastLocal
    <3>3. CASE place = "finalRelease"
      BY <2>1, <2>4, <3>1, <3>3
      DEF Reached, PastGate, PastRun, PastRelease, PastTag, PastProtection, PastLocal
    <3>4. CASE place = "finalTag"
      <4>1. /\ mid["release"] <= final["release"] /\ final'["release"] = final["release"]
            /\ final["release"] = initial["release"] => "release" \in after
        BY <2>1, <2>3, <3>1, <3>4
        DEF AssessmentInv, Reached, PastRelease, PastTag, PastProtection, PastLocal
      <4> QED BY <2>1, <2>4, <3>1, <3>4, <4>1
          DEF Reached, PastGate, PastRun, PastRelease, PastTag, PastProtection, PastLocal
    <3>5. CASE place = "finalProtection"
      <4>1. /\ mid["release"] <= final["release"] /\ final["release"] = initial["release"]
            /\ "release" \in after /\ "tag" \in after
        BY <2>1, <3>5
        DEF AssessmentInv, Reached, PastRelease, PastTag, PastProtection, PastLocal
      <4>2. "protection" \in after
        BY <2>1, <2>4, <3>5
      <4>3. mid["release"] = initial["release"] /\ final'["release"] = final["release"]
        BY <2>1, <2>3, <2>4, <3>1, <3>5, <4>1
      <4> QED BY <2>1, <3>1, <3>5, <4>1, <4>2, <4>3
          DEF Reached, PastGate, PastRun, PastRelease, PastTag, PastProtection, PastLocal
    <3> QED BY <3>2, <3>3, <3>4, <3>5
  <2> QED BY <2>5, <2>6, <2>7 DEF AssessmentInv
<1> QED BY <1>1, <1>2

\* The caller's files once more, read where they are.
LEMMA FinalLocalKeepsAssessment ==
  ASSUME AssessmentInv, FinalLocal, UNCHANGED worldVars PROVE AssessmentInv'
<1>1. CASE Fail("finalLocal")
  BY <1>1, FailKeepsAssessment
<1>2. CASE ~Fail("finalLocal")
  <2>1. /\ pc = "finalLocal" /\ pc' = "conclude"
        /\ live["ciFiles"] = initial["ciFiles"] /\ live["releaseDir"] = initial["releaseDir"]
        /\ UNCHANGED <<live, changes, initial, final, private, verified, mid, after>>
    BY <1>2 DEF FinalLocal, worldVars
  <2>2. ReleaseTypeOK' /\ ReleaseOnlyGrows'
    BY <2>1 DEF AssessmentInv, ReleaseTypeOK, ReleaseOnlyGrows, Places
  <2>3. mid # Nothing /\ {"ciFiles", "releaseDir"} \subseteq after
    BY <2>1 DEF AssessmentInv, Reached, SinceStaged, Objects, Staged, PastArchives,
       PastSignatures, PastGate, PastRun, PastRelease, PastTag, PastProtection
  <2>4. SinceStaged'
    BY <2>1, <2>3 DEF AssessmentInv, SinceStaged, Staged, PastArchives, PastSignatures,
       PastGate, PastRun, PastRelease, PastTag, PastProtection, PastLocal
  <2>5. Reached'
    BY <2>1, <2>3 DEF AssessmentInv, Reached, Staged, PastArchives, PastSignatures,
       PastGate, PastRun, PastRelease, PastTag, PastProtection, PastLocal
  <2> QED BY <2>2, <2>4, <2>5 DEF AssessmentInv
<1> QED BY <1>1, <1>2

LEMMA VerifyStepKeepsAssessment == ASSUME AssessmentInv, VerifyStep PROVE AssessmentInv'
<1> USE DEF Places, Marks, Staged, PastArchives, PastSignatures, PastGate, PastRun, PastRelease,
            PastTag, PastProtection, PastLocal
<1>0. UNCHANGED worldVars
  BY DEF VerifyStep
<1>1. CASE CheckRequest \/ ResolveAssets \/ ResolveSource \/ CheckContracts
  <2>1. \/ \E place \in Places : Fail(place)
        \/ Advance("request", "release") \/ Advance("assets", "tag")
        \/ Advance("source", "contract") \/ Advance("contract", "releaseRun")
    BY <1>1 DEF CheckRequest, ResolveAssets, ResolveSource, CheckContracts
  <2> QED BY <1>0, <2>1, FailKeepsAssessment, AdvanceKeepsAssessment
<1>2. CASE ResolveRelease \/ ResolveTag \/ ResolveProtection \/ VerifyReleaseRun \/ Gate
  <2>1. \/ Read("release", "release", "assets") \/ Read("tag", "tag", "protection")
        \/ Read("protection", "protection", "source")
        \/ Read("releaseRun", "releaseRun", "ciRun") \/ Read("ciRun", "ciRun", "snapshot")
    BY <1>2 DEF ResolveRelease, ResolveTag, ResolveProtection, VerifyReleaseRun, Gate
  <2> QED BY <1>0, <2>1, ReadKeepsAssessment DEF Objects
<1>3. CASE SnapshotEvidence \/ StageRelease
  BY <1>0, <1>3, SnapshotKeepsAssessment, StageKeepsAssessment
<1>4. CASE CheckRaceVet \/ CheckCrossBuild \/ SnapshotStaged
  <2>1. \/ \E place \in Places : Fail(place)
        \/ Advance("raceVet", "crossBuild") \/ Advance("crossBuild", "archives")
        \/ Advance("stagedArchives", "signatures") \/ Advance("stagedSignatures", "finalCI")
    BY <1>4 DEF CheckRaceVet, CheckCrossBuild, SnapshotStaged
  <2> QED BY <1>0, <2>1, FailKeepsAssessment, AdvanceKeepsAssessment
<1>5. CASE CheckArchives \/ CheckSignatures
  <2>1. \/ Verifies("archives", "stagedArchives") \/ Verifies("signatures", "stagedSignatures")
    BY <1>5 DEF CheckArchives, CheckSignatures
  <2> QED BY <1>0, <2>1, VerifiesKeepsAssessment
<1>6. CASE FinalGate \/ FinalReleaseRun \/ FinalRelease \/ FinalTag \/ FinalProtection
  <2>1. \/ \E place \in Places : Fail(place)
        \/ live["ciRun"] = initial["ciRun"] /\ ReadAgain("ciRun", "finalCI", "finalRun")
        \/ /\ live["releaseRun"] = initial["releaseRun"]
           /\ ReadAgain("releaseRun", "finalRun", "finalRelease")
        \/ ReadAgain("release", "finalRelease", "finalAssets")
        \/ ReadAgain("tag", "finalTag", "finalProtection")
        \/ /\ \A x \in {"release", "tag"} : final[x] = initial[x]
           /\ live["protection"] = initial["protection"]
           /\ ReadAgain("protection", "finalProtection", "finalSource")
    BY <1>6 DEF FinalGate, FinalReleaseRun, FinalRelease, FinalTag, FinalProtection, Reread
  <2> QED BY <1>0, <2>1, FailKeepsAssessment, ReadAgainKeepsAssessment DEF Objects
<1>7. CASE FinalAssets \/ FinalSource \/ Conclude
  <2>1. \/ \E place \in Places : Fail(place)
        \/ Advance("finalAssets", "finalTag") \/ Advance("finalSource", "finalLocal")
        \/ Advance("conclude", "assessed")
    BY <1>7 DEF FinalAssets, FinalSource, Conclude
  <2> QED BY <1>0, <2>1, FailKeepsAssessment, AdvanceKeepsAssessment
<1>8. CASE FinalLocal
  BY <1>0, <1>8, FinalLocalKeepsAssessment
<1> QED BY <1>1, <1>2, <1>3, <1>4, <1>5, <1>6, <1>7, <1>8 DEF VerifyStep

\* What the invariant says of a finished assessment.
LEMMA AssessmentFacts ==
  ASSUME AssessmentInv PROVE AssessedAtOnce /\ VerifiedBytesArePublished
<1> SUFFICES ASSUME pc = "assessed" PROVE AssessedAtOnce /\ VerifiedBytesArePublished
  BY DEF AssessedAtOnce, VerifiedBytesArePublished
<1>1. /\ pc \in Staged /\ pc \in PastArchives /\ pc \in PastGate /\ pc \in PastRun
      /\ pc \in PastProtection /\ pc \in PastLocal
  BY DEF Staged, PastArchives, PastSignatures, PastGate, PastRun, PastRelease, PastTag,
         PastProtection, PastLocal
<1>2. /\ mid["release"] = initial["release"] /\ private \in verified
      /\ private = initial["release"] /\ verified \subseteq {private}
      /\ {"ciRun", "releaseRun", "release", "tag", "protection", "ciFiles", "releaseDir"}
           \subseteq after
      /\ after \subseteq Objects
  BY <1>1 DEF AssessmentInv, Reached, SinceStaged, ReleaseTypeOK
<1> QED BY <1>2 DEF AssessedAtOnce, VerifiedBytesArePublished, Versioned, Objects

-----------------------------------------------------------------------------
(* The production score.                                                   *)

Withdrawn == ~(DOMAIN proofs \subseteq standing)

\* The release is newer than the bound one in what the recheck has read, or will.
Outdated == release["release"] < IF mid = Nothing THEN live["release"] ELSE mid["release"]

\* Whatever ended too early is still to be seen by a check that lies ahead.
LapseShows ==
  lapsed =>
    \/ stage = "failed"
    \/ Withdrawn
    \/ stage \in {"external", "derive", "recheckExternal"} /\ release["release"] < live["release"]
    \/ stage = "recheckRelease" /\ Outdated

ScoreTypes ==
  /\ stage \in Stages /\ clock \in 0..MaxTime /\ standing \subseteq Criteria
  /\ release \in [Objects -> Values \cup {Unread}]
  /\ observed \in 0..MaxTime
  /\ DOMAIN proofs \subseteq Criteria /\ earned \subseteq Criteria
  /\ lapsed \in BOOLEAN
  /\ \A c \in DOMAIN proofs : proofs[c] \in Nat

ScoreInv ==
  /\ AssessmentInv /\ ScoreTypes
  /\ stage \in {"call", "release", "external"} => DOMAIN proofs = {}
  /\ stage \in {"external", "derive", "recheckExternal", "recheckRelease"} =>
       release["release"] <= live["release"]
  /\ LapseShows
  /\ stage \in {"conclude", "scored"} => ~lapsed
  /\ ScoreStood

LEMMA InitScore == ASSUME Init PROVE ScoreInv
<1>1. AssessmentInv
  BY InitAssessment DEF Init
<1>2. /\ stage = "call" /\ clock = 0 /\ standing = Criteria /\ release = Nothing /\ observed = 0
      /\ proofs = [c \in {} |-> 0] /\ earned = {} /\ lapsed = FALSE
  BY DEF Init
<1>3. DOMAIN proofs = {}
  BY <1>2
<1>4. ScoreTypes
  <2>1. release \in [Objects -> Values \cup {Unread}]
    BY <1>2 DEF Nothing
  <2>2. /\ stage \in Stages /\ clock \in 0..MaxTime /\ observed \in 0..MaxTime
        /\ standing \subseteq Criteria /\ earned \subseteq Criteria
    BY <1>2, TimesAssumption DEF Stages
  <2>3. lapsed \in BOOLEAN
    BY <1>2
  <2> QED BY <1>3, <2>1, <2>2, <2>3 DEF ScoreTypes
<1>5. LapseShows /\ ScoreStood
  BY <1>2 DEF LapseShows, ScoreStood
<1> QED BY <1>1, <1>2, <1>3, <1>4, <1>5 DEF ScoreInv

LEMMA WorldChangesKeepScore == ASSUME ScoreInv, WorldChanges PROVE ScoreInv'
<1>1. PICK o \in Objects :
        Change(o) /\ lapsed' = (lapsed \/ (BeforeRecheck /\ o \in Versioned))
  BY DEF WorldChanges
<1>2. /\ UNCHANGED <<stage, clock, standing, release, observed, proofs, earned>>
      /\ stage \notin {"scored", "failed"}
  BY DEF WorldChanges, Running
<1>3. /\ AssessmentInv' /\ live'["release"] >= live["release"]
      /\ o \in Versioned => live'["release"] > live["release"]
      /\ mid' = mid
  BY <1>1, ChangeKeepsAssessment DEF ScoreInv, Change
<1>4. live["release"] \in Int /\ live'["release"] \in Int /\ release["release"] \in Int
  BY <1>3 DEF ScoreInv, AssessmentInv, ReleaseTypeOK, ScoreTypes, Objects, Values, Unread
<1>5. ScoreTypes'
  BY <1>1, <1>2 DEF ScoreInv, ScoreTypes
<1>6. stage \in {"external", "derive", "recheckExternal", "recheckRelease"} =>
        release["release"] <= live'["release"]
  BY <1>3, <1>4 DEF ScoreInv
<1>7. LapseShows'
  <2>1. CASE lapsed
    <3>1. \/ Withdrawn
          \/ stage \in {"external", "derive", "recheckExternal"} /\ release["release"] < live["release"]
          \/ stage = "recheckRelease" /\ Outdated
      BY <1>2, <2>1 DEF ScoreInv, LapseShows
    <3>2. Withdrawn => Withdrawn'
      BY <1>2 DEF Withdrawn
    <3>3. release["release"] < live["release"] => release["release"] < live'["release"]
      BY <1>3, <1>4
    <3>4. Outdated => Outdated'
      BY <1>2, <1>3, <3>3 DEF Outdated
    <3> QED BY <1>2, <3>1, <3>2, <3>3, <3>4 DEF LapseShows
  <2>2. CASE lapsed' /\ ~lapsed
    <3>1. BeforeRecheck /\ o \in Versioned
      BY <1>1, <2>2
    <3>2. release["release"] < live'["release"]
      BY <1>3, <1>4, <3>1 DEF ScoreInv, BeforeRecheck
    <3> QED BY <1>2, <1>3, <3>1, <3>2 DEF BeforeRecheck, LapseShows, Outdated
  <2> QED BY <2>1, <2>2 DEF LapseShows
<1>8. stage = "conclude" => ~lapsed'
  BY <1>1 DEF ScoreInv, BeforeRecheck
<1> QED BY <1>2, <1>3, <1>5, <1>6, <1>7, <1>8 DEF ScoreInv, ScoreStood

LEMMA WithdrawKeepsScore == ASSUME ScoreInv, Withdraw PROVE ScoreInv'
<1>1. PICK c \in standing : /\ standing' = standing \ {c}
                            /\ lapsed' = (lapsed \/ (UntilRechecked /\ c \in DOMAIN proofs))
  BY DEF Withdraw
<1>2. /\ UNCHANGED <<worldVars, verifyVars, stage, clock, release, observed, proofs, earned>>
      /\ stage \notin {"scored", "failed"}
  BY DEF Withdraw, Running
<1>3. AssessmentInv' /\ live' = live /\ mid' = mid
  BY <1>2 DEF ScoreInv, AssessmentInv, ReleaseTypeOK, ReleaseOnlyGrows, SinceStaged, Reached,
              worldVars, verifyVars
<1>4. ScoreTypes'
  BY <1>1, <1>2 DEF ScoreInv, ScoreTypes
<1>5. LapseShows'
  <2>1. Withdrawn \/ c \in DOMAIN proofs => Withdrawn'
    BY <1>1, <1>2 DEF Withdrawn
  <2> QED BY <1>1, <1>2, <1>3, <2>1 DEF ScoreInv, LapseShows, Outdated
<1>6. stage = "conclude" => ~lapsed'
  BY <1>1 DEF ScoreInv, UntilRechecked
<1> QED BY <1>2, <1>3, <1>4, <1>5, <1>6 DEF ScoreInv, ScoreStood

\* Only stage, and what is named in the step, moves.
LEMMA SameAssessment ==
  ASSUME AssessmentInv, UNCHANGED <<worldVars, verifyVars>> PROVE AssessmentInv'
BY DEF AssessmentInv, ReleaseTypeOK, ReleaseOnlyGrows, SinceStaged, Reached, worldVars, verifyVars

LEMMA TickKeepsScore == ASSUME ScoreInv, Tick PROVE ScoreInv'
<1>1. /\ clock < MaxTime /\ clock' = clock + 1 /\ stage \notin {"scored", "failed"}
      /\ UNCHANGED <<worldVars, verifyVars, stage, standing, release, observed, proofs, earned, lapsed>>
  BY DEF Tick, Running
<1>2. AssessmentInv' /\ live' = live /\ mid' = mid
  BY <1>1, SameAssessment DEF ScoreInv, worldVars, verifyVars
<1>3. clock' \in 0..MaxTime
  BY <1>1, TimesAssumption DEF ScoreInv, ScoreTypes
<1> QED BY <1>1, <1>2, <1>3
    DEF ScoreInv, ScoreTypes, LapseShows, Withdrawn, Outdated, ScoreStood

LEMMA FailsKeepsScore == ASSUME ScoreInv, NEW place, Fails(place) PROVE ScoreInv'
<1>1. /\ stage' = "failed"
      /\ UNCHANGED <<worldVars, verifyVars, clock, standing, release, observed, proofs, earned, lapsed>>
  BY DEF Fails
<1>2. AssessmentInv'
  BY <1>1, SameAssessment DEF ScoreInv
<1> QED BY <1>1, <1>2 DEF ScoreInv, ScoreTypes, Stages, LapseShows, ScoreStood

\* Only the copy notes the world.
LEMMA StepReadsMid ==
  ASSUME AssessmentInv, VerifyStep PROVE mid' = mid \/ (mid = Nothing /\ mid' = live)
<1>1. CASE StageRelease
  <2>1. mid' = mid \/ (pc = "stage" /\ mid' = live)
    BY <1>1 DEF StageRelease, Fail
  <2> QED BY <2>1, NotYetStaged DEF Staged, PastArchives, PastSignatures, PastGate, PastRun,
          PastRelease, PastTag, PastProtection, PastLocal
<1>2. CASE ~StageRelease
  BY <1>2 DEF VerifyStep, CheckRequest, ResolveRelease, ResolveAssets, ResolveTag,
     ResolveProtection, ResolveSource, CheckContracts, VerifyReleaseRun, Gate, SnapshotEvidence,
     CheckRaceVet, CheckCrossBuild, CheckArchives, CheckSignatures, SnapshotStaged, FinalGate,
     FinalReleaseRun, FinalRelease, FinalAssets, FinalTag, FinalProtection, FinalSource,
     FinalLocal, Conclude, Fail, Advance, Read, ReadAgain, Reread, Verifies
<1> QED BY <1>1, <1>2

LEMMA VerifyReleaseKeepsScore == ASSUME ScoreInv, VerifyRelease PROVE ScoreInv'
<1>1. /\ stage \in {"release", "recheckRelease"} /\ VerifyStep
      /\ UNCHANGED productionVars
  BY DEF VerifyRelease
<1>2. AssessmentInv' /\ live' = live
  BY <1>1, VerifyStepKeepsAssessment DEF ScoreInv, VerifyStep, worldVars
<1>3. mid' = mid \/ (mid = Nothing /\ mid' = live)
  BY <1>1, StepReadsMid DEF ScoreInv
<1>4. Outdated => Outdated'
  BY <1>1, <1>2, <1>3, WorldIsSomething
  DEF Outdated, ScoreInv, AssessmentInv, productionVars
<1> QED BY <1>1, <1>2, <1>4
    DEF ScoreInv, ScoreTypes, LapseShows, Withdrawn, ScoreStood, productionVars

LEMMA CallReleaseKeepsScore == ASSUME ScoreInv, CallRelease PROVE ScoreInv'
<1>1. /\ stage = "call" /\ stage' = "release" /\ CallVerify /\ UNCHANGED worldVars
      /\ UNCHANGED <<clock, standing, release, observed, proofs, earned, lapsed>>
  BY DEF CallRelease
<1>2. AssessmentInv'
  BY <1>1, CallKeepsAssessment DEF ScoreInv
<1>3. LapseShows'
  BY <1>1 DEF ScoreInv, LapseShows, Withdrawn
<1> QED BY <1>1, <1>2, <1>3 DEF ScoreInv, ScoreTypes, Stages, ScoreStood

\* The result is bound; a release that is gone by now shows later.
LEMMA BindReleaseKeepsScore == ASSUME ScoreInv, BindRelease PROVE ScoreInv'
<1>1. CASE Fails("release")
  BY <1>1, FailsKeepsScore
<1>2. CASE ~Fails("release")
  <2>1. /\ stage = "release" /\ pc = "assessed" /\ release' = initial /\ observed' = clock
        /\ lapsed' = (live["release"] # initial["release"]) /\ stage' = "external"
        /\ UNCHANGED <<worldVars, verifyVars, clock, standing, proofs, earned>>
    BY <1>2 DEF BindRelease
  <2>2. AssessmentInv' /\ live' = live /\ mid' = mid
    BY <2>1, SameAssessment DEF ScoreInv, worldVars, verifyVars
  <2>3. /\ initial["release"] \in Int /\ live["release"] \in Int
        /\ initial["release"] <= live["release"]
    <3>1. mid # Nothing
      BY <2>1 DEF ScoreInv, AssessmentInv, Reached, Staged, PastArchives, PastSignatures,
         PastGate, PastRun, PastRelease, PastTag, PastProtection, PastLocal
    <3>2. /\ initial["release"] \in Values /\ mid["release"] \in Values
          /\ live["release"] \in Values
          /\ initial["release"] <= mid["release"] /\ mid["release"] <= live["release"]
      BY <3>1 DEF ScoreInv, AssessmentInv, ReleaseTypeOK, SinceStaged, Objects
    <3> QED BY <3>2 DEF Values
  <2>4. ScoreTypes'
    BY <2>1 DEF ScoreInv, ScoreTypes, Stages, AssessmentInv, ReleaseTypeOK
  <2>5. LapseShows'
    <3>1. SUFFICES ASSUME lapsed' PROVE LapseShows'
      BY DEF LapseShows
    <3>2. live["release"] # initial["release"]
      BY <2>1, <3>1
    <3>3. stage' = "external" /\ release'["release"] < live'["release"]
      BY <2>1, <2>2, <2>3, <3>2
    <3> QED BY <3>3 DEF LapseShows
  <2> QED BY <2>1, <2>2, <2>3, <2>4, <2>5 DEF ScoreInv, ScoreStood
<1> QED BY <1>1, <1>2

LEMMA VerifyExternalKeepsScore == ASSUME ScoreInv, VerifyExternal PROVE ScoreInv'
<1>1. CASE Fails("external")
  BY <1>1, FailsKeepsScore
<1>2. CASE ~Fails("external")
  <2>1. PICK proved \in SUBSET standing : proofs' \in [proved -> (clock + 1)..CardEnds]
    BY <1>2 DEF VerifyExternal
  <2>2. /\ stage = "external" /\ stage' = "derive"
        /\ UNCHANGED <<worldVars, verifyVars, clock, standing, release, observed, earned, lapsed>>
    BY <1>2 DEF VerifyExternal
  <2>3. AssessmentInv' /\ live' = live /\ mid' = mid
    BY <2>2, SameAssessment DEF ScoreInv, worldVars, verifyVars
  <2>4. DOMAIN proofs' = proved /\ \A c \in proved : proofs'[c] \in Nat
    BY <2>1, TimesAssumption DEF ScoreInv, ScoreTypes
  <2>5. ScoreTypes'
    BY <2>2, <2>4 DEF ScoreInv, ScoreTypes, Stages
  <2>6. ~Withdrawn
    BY <2>2 DEF ScoreInv, Withdrawn
  <2>7. LapseShows'
    BY <2>2, <2>3, <2>6 DEF ScoreInv, LapseShows
  <2> QED BY <2>2, <2>3, <2>5, <2>7 DEF ScoreInv, ScoreStood
<1> QED BY <1>1, <1>2

LEMMA RechecksKeepScore ==
  ASSUME ScoreInv, DeriveFirst \/ RecheckExternal \/ RecheckRelease \/ RecheckExternalAgain
  PROVE  ScoreInv'
<1>1. CASE \E place \in Stages : Fails(place)
  BY <1>1, FailsKeepsScore
<1> SUFFICES ASSUME ~\E place \in Stages : Fails(place) PROVE ScoreInv'
  BY <1>1
<1>2. CASE DeriveFirst
  <2>1. /\ stage = "derive" /\ stage' = "recheckExternal"
        /\ UNCHANGED <<worldVars, verifyVars, clock, standing, release, observed, proofs, earned, lapsed>>
    BY <1>2 DEF DeriveFirst, Stages
  <2>2. AssessmentInv' /\ live' = live /\ mid' = mid
    BY <2>1, SameAssessment DEF ScoreInv, worldVars, verifyVars
  <2> QED BY <2>1, <2>2 DEF ScoreInv, ScoreTypes, Stages, LapseShows, Withdrawn, ScoreStood
<1>3. CASE RecheckExternal
  <2>1. /\ stage = "recheckExternal" /\ stage' = "recheckRelease" /\ CallVerify
        /\ UNCHANGED <<worldVars, clock, standing, release, observed, proofs, earned, lapsed>>
    BY <1>3 DEF RecheckExternal, Stages
  <2>2. AssessmentInv' /\ live' = live /\ mid' = Nothing
    BY <2>1, CallKeepsAssessment DEF ScoreInv, worldVars, CallVerify
  <2> QED BY <2>1, <2>2
      DEF ScoreInv, ScoreTypes, Stages, LapseShows, Withdrawn, Outdated, ScoreStood
<1>4. CASE RecheckRelease
  <2>1. /\ stage = "recheckRelease" /\ pc = "assessed" /\ initial = release
        /\ stage' = "recheckExternalAgain"
        /\ UNCHANGED <<worldVars, verifyVars, clock, standing, release, observed, proofs, earned, lapsed>>
    BY <1>4 DEF RecheckRelease, Stages
  <2>2. AssessmentInv'
    BY <2>1, SameAssessment DEF ScoreInv
  <2>3. ~Outdated
    <3>1. mid # Nothing
      BY <2>1 DEF ScoreInv, AssessmentInv, Reached, Staged, PastArchives, PastSignatures,
         PastGate, PastRun, PastRelease, PastTag, PastProtection, PastLocal
    <3>2. mid["release"] = release["release"] /\ mid["release"] \in Int
      BY <2>1, <3>1, AssessmentFacts
      DEF AssessedAtOnce, Versioned, ScoreInv, AssessmentInv, SinceStaged, Objects, Values
    <3> QED BY <3>1, <3>2 DEF Outdated
  <2>4. LapseShows'
    BY <2>1, <2>3 DEF ScoreInv, LapseShows, Withdrawn
  <2> QED BY <2>1, <2>2, <2>4 DEF ScoreInv, ScoreTypes, Stages, ScoreStood
<1>5. CASE RecheckExternalAgain
  <2>1. /\ stage = "recheckExternalAgain" /\ stage' = "conclude" /\ DOMAIN proofs \subseteq standing
        /\ UNCHANGED <<worldVars, verifyVars, clock, standing, release, observed, proofs, earned, lapsed>>
    BY <1>5 DEF RecheckExternalAgain, Stages
  <2>2. AssessmentInv'
    BY <2>1, SameAssessment DEF ScoreInv
  <2>3. ~lapsed
    BY <2>1 DEF ScoreInv, LapseShows, Withdrawn
  <2> QED BY <2>1, <2>2, <2>3 DEF ScoreInv, ScoreTypes, Stages, LapseShows, ScoreStood
<1> QED BY <1>2, <1>3, <1>4, <1>5

LEMMA ConcludeKeepsScore == ASSUME ScoreInv, ConcludeScore PROVE ScoreInv'
<1>1. CASE Fails("conclude")
  BY <1>1, FailsKeepsScore
<1>2. CASE ~Fails("conclude")
  <2>1. /\ stage = "conclude" /\ ~(clock >= CardEnds) /\ Proved(clock) = DOMAIN proofs
        /\ earned' = DOMAIN proofs /\ stage' = "scored"
        /\ UNCHANGED <<worldVars, verifyVars, clock, standing, release, observed, proofs, lapsed>>
    BY <1>2 DEF ConcludeScore, Expired
  <2>2. AssessmentInv'
    BY <2>1, SameAssessment DEF ScoreInv
  <2>3. clock \in Nat /\ CardEnds \in Nat /\ ~lapsed
    BY <2>1, TimesAssumption DEF ScoreInv, ScoreTypes
  <2>4. \A c \in DOMAIN proofs : proofs[c] > clock
    BY <2>1 DEF Proved
  <2>5. ScoreStood'
    BY <2>1, <2>3, <2>4 DEF ScoreStood
  <2> QED BY <2>1, <2>2, <2>3, <2>5 DEF ScoreInv, ScoreTypes, Stages, LapseShows
<1> QED BY <1>1, <1>2

LEMMA StepScore == ASSUME ScoreInv, [Next]_vars PROVE ScoreInv'
<1>1. CASE WorldChanges \/ Withdraw \/ Tick
  BY <1>1, WorldChangesKeepScore, WithdrawKeepsScore, TickKeepsScore
<1>2. CASE VerificationStep
  BY <1>2, CallReleaseKeepsScore, VerifyReleaseKeepsScore, BindReleaseKeepsScore,
     VerifyExternalKeepsScore, RechecksKeepScore, ConcludeKeepsScore DEF VerificationStep
<1>3. CASE UNCHANGED vars
  <2>1. AssessmentInv' /\ live' = live /\ mid' = mid
    BY <1>3, SameAssessment DEF ScoreInv, vars, worldVars, verifyVars
  <2> QED BY <1>3, <2>1
      DEF ScoreInv, ScoreTypes, LapseShows, Withdrawn, Outdated, ScoreStood, vars, productionVars
<1> QED BY <1>1, <1>2, <1>3 DEF Next, Returned

\* What holds in every state of a production verification.
LEMMA ScoreAlways == Spec => []ScoreInv
<1>1. Init => ScoreInv
  BY InitScore
<1>2. ScoreInv /\ [Next]_vars => ScoreInv'
  BY StepScore
<1> QED BY <1>1, <1>2, PTL DEF Spec

\* Everything the assessment reports held at one moment or again after it, for any
\* number of changes of the world while verify runs (releaseassessment.verify).
THEOREM AssessmentIsOfOneMoment == Spec => []AssessedAtOnce
<1>1. ScoreInv => AssessedAtOnce
  BY AssessmentFacts DEF ScoreInv
<1> QED BY <1>1, ScoreAlways, PTL

\* The verifiers took the bytes of the reported release and no others, however often
\* the caller's directory changed (stageRelease).
THEOREM PublishedBytesAreVerified == Spec => []VerifiedBytesArePublished
<1>1. ScoreInv => VerifiedBytesArePublished
  BY AssessmentFacts DEF ScoreInv
<1> QED BY <1>1, ScoreAlways, PTL

\* Nothing that a score rests on had ended while it was verified, for any criteria,
\* any expiries and any order of withdrawals and changes (productionassessment.verify).
THEOREM ScoreIsOfOneState == Spec => []ScoreStood
<1>1. ScoreInv => ScoreStood
  BY DEF ScoreInv
<1> QED BY <1>1, ScoreAlways, PTL

\* Every variable keeps its values (the types of both assessments).
THEOREM ProductionTypeCorrect == Spec => []TypeOK
<1>1. ScoreInv => TypeOK
  BY DEF ScoreInv, ScoreTypes, AssessmentInv, TypeOK
<1> QED BY <1>1, ScoreAlways, PTL
=============================================================================
