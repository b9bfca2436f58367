----------------------------- MODULE SupplyProofs -----------------------------
(***************************************************************************)
(* Safety of the components that attest, stage, sign and accept what is    *)
(* released, for every bound on the clocks and on the changes of files. A  *)
(* part for each component states its inductive invariant and proves that  *)
(* its first state satisfies it, that each of its steps keeps it and that  *)
(* it implies the property; the last part puts them together for the run.  *)
(***************************************************************************)
EXTENDS MCSupply, FiniteSetTheorems, Sequences, TLAPS

-----------------------------------------------------------------------------
(* The evidence worker pool, for every set of blobs and any number of      *)
(* workers.                                                                *)

\* The parts of PoolInv that speak of the pool while it works.
WorkInv ==
  /\ TypeOK
  /\ Accounted
  /\ FailureRecorded
  /\ CauseInv
  /\ WorkerInv
  /\ verified \subseteq intact

\* The pool starts with every blob still to hand out and no failure.
LEMMA PoolInitially == Init => PoolInv
  BY BlobsAssumption
  DEF Init, PoolInv, TypeOK, Accounted, FailureRecorded, CauseInv, WorkerInv,
      OkMeansVerified, CauseReported, Errors

\* Handing out a blob moves it from the remaining ones to one worker.
LEMMA FeedKeeps ==
  ASSUME WorkInv, NEW w \in Workers, NEW b \in Blobs, Feed(w, b)
  PROVE  WorkInv'
<1> USE DEF WorkInv, Feed
<1>1. TypeOK'
  BY DEF TypeOK
<1>2. Accounted'
  <2>1. \A v \in Workers : v # w => task'[v] = task[v] /\ state'[v] = state[v]
    BY DEF TypeOK
  <2>2. task[w] = NoBlob /\ task'[w] = b /\ state'[w] = "request"
    BY DEF TypeOK, WorkerInv
  <2>3. ASSUME NEW c \in Blobs
        PROVE  c \in remaining' \/ c \in verified' \/ \E v \in Workers : task'[v] = c
    <3>1. CASE c = b
      BY <2>2, <3>1
    <3>2. CASE \E v \in Workers : task[v] = c
      <4>1. PICK v \in Workers : task[v] = c
        BY <3>2
      <4>2. v # w
        BY <2>2, <4>1, BlobsAssumption
      <4> QED
        BY <2>1, <4>1, <4>2
    <3>3. CASE c # b /\ (c \in remaining \/ c \in verified)
      BY <3>3
    <3> QED
      BY <3>1, <3>2, <3>3 DEF Accounted
  <2>4. ASSUME NEW v \in Workers, state'[v] = "exited", task'[v] # NoBlob
        PROVE  failure' # "none"
    BY <2>1, <2>2, <2>4 DEF Accounted
  <2> QED
    BY <2>3, <2>4 DEF Accounted
<1>3. FailureRecorded'
  <2>1. \A v \in Workers : v # w => state'[v] = state[v]
    BY DEF TypeOK
  <2>2. state'[w] = "request"
    BY DEF TypeOK
  <2>3. \A v \in Workers : state'[v] = "exited" /\ feeder' = "feed" => WorkDone'
    BY <2>1, <2>2 DEF FailureRecorded, WorkDone
  <2>4. \A v \in Workers : state'[v] = "cancel" => failure' # "none"
    BY <2>1, <2>2 DEF FailureRecorded
  <2> QED
    BY <2>3, <2>4 DEF FailureRecorded, WorkDone
<1>4. CauseInv'
  BY DEF CauseInv, TypeOK, WorkDone
<1>5. WorkerInv'
  BY DEF WorkerInv, TypeOK
<1> QED
  BY <1>1, <1>2, <1>3, <1>4, <1>5

\* A worker's step keeps its blob, or verifies it.
LEMMA WorkerKeeps ==
  ASSUME WorkInv, NEW w \in Workers, Worker(w)
  PROVE  WorkInv'
<1> USE DEF WorkInv
<1>1. CASE TasksClosed(w)
  BY <1>1 DEF TasksClosed, TypeOK, Accounted, FailureRecorded, CauseInv, WorkerInv, WorkDone
<1>2. CASE Request(w)
  BY <1>2 DEF Request, TypeOK, Accounted, FailureRecorded, CauseInv, WorkerInv, WorkDone, Errors
<1>3. CASE Verify(w)
  <2> USE <1>3 DEF Verify
  <2>1. TypeOK'
    BY DEF TypeOK
  <2>2. Accounted'
    <3>1. \A v \in Workers : v # w => task'[v] = task[v] /\ state'[v] = state[v]
      BY DEF TypeOK
    <3>2. state'[w] = "receive" /\ task[w] \in verified'
      BY DEF TypeOK
    <3> QED
      BY <3>1, <3>2 DEF Accounted
  <2>3. FailureRecorded' /\ CauseInv' /\ WorkerInv'
    BY DEF TypeOK, FailureRecorded, CauseInv, WorkerInv, WorkDone
  <2> QED
    BY <2>1, <2>2, <2>3
<1>4. CASE Fail(w)
  <2> USE <1>4 DEF Fail
  <2>1. PICK e \in FetchErrors(task[w]) : err' = [err EXCEPT ![w] = e]
    OBVIOUS
  <2>2. e \in Errors /\ (e = "canceled" => WorkDone)
    BY DEF FetchErrors, Errors
  <2>3. TypeOK' /\ Accounted' /\ FailureRecorded' /\ WorkerInv'
    BY <2>1, <2>2 DEF TypeOK, Accounted, FailureRecorded, WorkerInv, WorkDone
  <2>4. CauseInv'
    BY <2>1, <2>2 DEF TypeOK, CauseInv, WorkDone, Errors
  <2> QED
    BY <2>3, <2>4
<1>5. CASE Report(w)
  BY <1>5 DEF Report, TypeOK, Accounted, FailureRecorded, CauseInv, WorkerInv, WorkDone, Errors
<1>6. CASE CancelOthers(w)
  BY <1>6 DEF CancelOthers, TypeOK, Accounted, FailureRecorded, CauseInv, WorkerInv, WorkDone
<1> QED
  BY <1>1, <1>2, <1>3, <1>4, <1>5, <1>6 DEF Worker

\* The caller returns no error only if nothing remains, nothing failed and no
\* worker holds a blob.
LEMMA ReturnKeeps ==
  ASSUME PoolInv, Return
  PROVE  PoolInv'
<1>1. WorkInv'
  BY DEF Return, PoolInv, WorkInv, TypeOK, Accounted, FailureRecorded, CauseInv,
         WorkerInv, WorkDone, workers, Errors
<1>2. CauseReported'
  BY DEF Return, PoolInv, CauseInv, CauseReported
<1>3. OkMeansVerified'
  <2> SUFFICES ASSUME result' = "ok" PROVE verified = Blobs
    BY DEF Return, OkMeansVerified
  <2>1. failure = "none" /\ ~stopped
    BY DEF Return, PoolInv, TypeOK, Errors
  <2>2. remaining = {}
    BY <2>1 DEF Return, PoolInv, FailureRecorded, WorkDone
  <2>3. \A w \in Workers : task[w] = NoBlob
    BY <2>1 DEF Return, PoolInv, Accounted
  <2> QED
    BY <2>2, <2>3, BlobsAssumption DEF PoolInv, Accounted, TypeOK
<1> QED
  BY <1>1, <1>2, <1>3 DEF PoolInv, WorkInv

\* Every step of the pool keeps its invariant.
LEMMA PoolSteps == PoolInv /\ [Next]_vars => PoolInv'
<1> SUFFICES ASSUME PoolInv, [Next]_vars
             PROVE  PoolInv'
  OBVIOUS
<1>0. WorkInv
  BY DEF PoolInv, WorkInv
<1>1. ASSUME WorkInv', result' = result, stopped => stopped', verified \subseteq verified'
      PROVE  PoolInv'
  BY <1>1 DEF PoolInv, WorkInv, TypeOK, OkMeansVerified, CauseReported
<1>2. ASSUME NEW w \in Workers, NEW b \in Blobs, Feed(w, b)
      PROVE  PoolInv'
  BY <1>0, <1>1, <1>2, FeedKeeps DEF Feed
<1>3. CASE CloseTasks
  <2>1. WorkInv'
    BY <1>0, <1>3 DEF CloseTasks, workers, WorkInv, TypeOK, Accounted,
                      FailureRecorded, CauseInv, WorkerInv, WorkDone
  <2> QED
    BY <1>1, <1>3, <2>1 DEF CloseTasks
<1>4. CASE Return
  BY <1>4, ReturnKeeps
<1>5. ASSUME NEW w \in Workers, Worker(w)
      PROVE  PoolInv'
  <2>1. result' = result /\ stopped' = stopped /\ verified \subseteq verified'
    BY <1>5 DEF Worker, TasksClosed, Request, Verify, Fail, Report, CancelOthers
  <2> QED
    BY <1>0, <1>1, <1>5, <2>1, WorkerKeeps
<1>6. CASE Stop
  <2>1. WorkInv'
    BY <1>0, <1>6 DEF Stop, workers, WorkInv, TypeOK, Accounted,
                      FailureRecorded, CauseInv, WorkerInv, WorkDone
  <2> QED
    BY <1>1, <1>6, <2>1 DEF Stop
<1>7. CASE UNCHANGED vars
  BY <1>7 DEF vars, workers, PoolInv, TypeOK, Accounted, FailureRecorded, CauseInv,
              WorkerInv, WorkDone, OkMeansVerified, CauseReported
<1> QED
  BY <1>2, <1>3, <1>4, <1>5, <1>6, <1>7 DEF Next, Feeder, Returned

\* verifyEvidence keeps its invariant, for any number of blobs and workers.
THEOREM PoolInvariant == Spec => []PoolInv
  BY PoolInitially, PoolSteps, PTL DEF Spec

\* No error is returned only when every blob was verified.
THEOREM OkIsComplete == Spec => []OkMeansVerified
<1>1. PoolInv => OkMeansVerified
  BY DEF PoolInv
<1> QED
  BY <1>1, PoolInvariant, PTL

\* The first failure recorded is never a consequence of the cancellation that
\* it causes, so "canceled" is returned only for the caller's own context.
THEOREM CauseIsReported == Spec => []CauseReported
<1>1. PoolInv => CauseReported
  BY DEF PoolInv
<1> QED
  BY <1>1, PoolInvariant, PTL

\* A worker goes only when the channel is closed or after it has canceled the
\* work, so the feeder is never left to send to nobody.
THEOREM FeederIsNotStranded == Spec => []FeederNotStranded
<1>1. PoolInv => FeederNotStranded
  BY WorkersAssumption DEF PoolInv, FailureRecorded, FeederNotStranded
<1> QED
  BY <1>1, PoolInvariant, PTL

-----------------------------------------------------------------------------
(* Native observations. A token is for signatures that counted under the   *)
(* policy and at the time it names; the set is checked item by item, and   *)
(* no policy is exchanged while it is.                                     *)

Verifying == {"admit", "hash", "signatures", "recheck"}
Setting == {"setItem", "setHash", "setRecheck"}

ObservationTypes ==
  /\ item \in Native!Items /\ artifact \in Native!Artifacts
  /\ stage \in Verifying \cup Setting \cup {"set", "accepted", "refused"}
  /\ DOMAIN tokens = Native!Items
  /\ \A o \in Native!Items : envelopes[o].cell \in Native!Cells
  /\ stage \in {"signatures"} => artifact = 1

\* The signatures of an observation count, under policy p and at time t.
Witnessed(o, p, t) ==
  /\ {envelopes[o].first.key, envelopes[o].second.key} \cap p.revoked = {}
  /\ Native!Independent(envelopes[o].first, envelopes[o].second)
  /\ envelopes[o].first.at < envelopes[o].second.at
  /\ envelopes[o].second.at <= t

\* The observations that have a token.
NativeVerified(o) ==
  \/ stage \in Verifying /\ o < item
  \/ stage \in Setting \cup {"set", "accepted"}

TokensHold ==
  /\ \A o \in Native!Items : NativeVerified(o) => Witnessed(o, tokens[o].policy, tokens[o].at)
  /\ stage = "recheck" => Witnessed(item, nativePolicy, nativeSampled)

\* The items the set has accepted.
FitsSet(o) == tokens[o].policy = nativePolicy /\ nativeSampled < envelopes[o].expires

ReleasesMatch ==
  /\ envelopes[1].release = envelopes[2].release
  /\ envelopes[1].cell # envelopes[2].cell

SetHolds ==
  /\ stage \in Setting /\ item = 2 => FitsSet(1)
  /\ stage \in {"setHash", "setRecheck"} => FitsSet(item) /\ (item = 2 => ReleasesMatch)
  /\ stage = "accepted" => FitsSet(1) /\ FitsSet(2) /\ ReleasesMatch

\* An artifact that was read again after the signatures, and again for the set.
Reread(call, o, a) == <<call, o, a>> \in reread

ArtifactsAreReread ==
  /\ reread \subseteq {"recheck", "setRecheck"} \X Native!Items \X Native!Artifacts
  /\ \A o \in Native!Items, a \in Native!Artifacts : NativeVerified(o) => Reread("recheck", o, a)
  /\ stage = "recheck" => \A a \in Native!Artifacts : a < artifact => Reread("recheck", item, a)
  /\ stage \in Setting =>
       \A o \in Native!Items, a \in Native!Artifacts : o < item => Reread("setRecheck", o, a)
  /\ stage = "setRecheck" =>
       \A a \in Native!Artifacts : a < artifact => Reread("setRecheck", item, a)
  /\ stage = "accepted" =>
       \A o \in Native!Items, a \in Native!Artifacts : Reread("setRecheck", o, a)

ObservationInv ==
  /\ ObservationTypes
  /\ TokensHold
  /\ SetHolds
  /\ ArtifactsAreReread

\* An instance counts as the library does.
LEMMA NativeCardinality == \A S : Native!Cardinality(S) = Cardinality(S)
BY Zenon DEF Native!Cardinality, Cardinality

LEMMA ArtifactCount == Native!Cardinality(Native!Artifacts) = 2
<1>1. Native!Artifacts = {1} \cup {2}
  BY DEF Native!Artifacts
<1>2. IsFiniteSet({1}) /\ Cardinality({1}) = 1
  BY FS_Singleton
<1>3. Cardinality({1} \cup {2}) = IF 2 \in {1} THEN Cardinality({1}) ELSE Cardinality({1}) + 1
  BY <1>2, FS_AddElement
<1> QED BY <1>1, <1>2, <1>3, NativeCardinality

LEMMA InitObservation == Native!ObservationInit => ObservationInv
<1> SUFFICES ASSUME Native!ObservationInit PROVE ObservationInv
  OBVIOUS
<1>1. /\ stage = "admit" /\ item = 1 /\ artifact = 1 /\ reread = {}
      /\ DOMAIN tokens = Native!Items
  BY DEF Native!ObservationInit
<1>2. \A o \in Native!Items : envelopes[o].cell \in Native!Cells
  <2>1. \A first, second, at1, at2, expires :
          Native!Signed(first, second, at1, at2, expires).cell = "debian"
    BY DEF Native!Signed, Native!Good
  <2>2. Native!Good(1).cell = "debian" /\ \A g \in Native!Others : g.cell \in Native!Cells
    BY DEF Native!Good, Native!Others, Native!Cells
  <2>3. Native!Good(2).cell = "rpm"
    BY DEF Native!Good
  <2>4. CASE \E k \in {"observer", "reviewer"}, m \in Native!Keys, t1, t2 \in 1..2,
             e \in {NativeMaxClock, NativeMaxClock + 1} :
               envelopes =
                   [o \in Native!Items |->
                       IF o = 1 THEN Native!Signed(k, m, t1, t2, e) ELSE Native!Good(2)]
    BY <2>1, <2>3, <2>4 DEF Native!Cells
  <2>5. CASE \E g \in Native!Others :
             envelopes = [o \in Native!Items |-> IF o = 1 THEN Native!Good(1) ELSE g]
    BY <2>2, <2>5 DEF Native!Cells
  <2> QED BY <2>4, <2>5 DEF Native!ObservationInit
<1> QED BY <1>1, <1>2
  DEF ObservationInv, ObservationTypes, TokensHold, SetHolds, ArtifactsAreReread,
      NativeVerified, Verifying, Setting, Native!Items, Native!Artifacts

LEMMA NativeAdmitStep ==
  ASSUME ObservationInv, Native!Admit \/ Native!HashArtifact \/ Native!CheckSignatures
  PROVE  ObservationInv'
<1> USE DEF ObservationInv, ObservationTypes
<1>1. CASE Native!Admit
  BY <1>1
    DEF Native!Admit, TokensHold, Witnessed, SetHolds, ArtifactsAreReread, NativeVerified,
        Verifying, Setting, Native!Artifacts, Reread
<1>2. CASE Native!HashArtifact
  <2>1. /\ artifact' \in Native!Artifacts
        /\ stage = "hash" =>
             stage' \in {"hash", "signatures"} /\ (stage' = "signatures" => artifact' = 1)
        /\ stage = "setHash" =>
             stage' \in {"setHash", "setRecheck"} /\ (stage' = "setRecheck" => artifact' = 1)
        /\ stage \in {"hash", "setHash"}
        /\ UNCHANGED <<nativePolicy, envelopes, item, nativeSampled, tokens, reread>>
    BY <1>2, ArtifactCount DEF Native!HashArtifact, Native!Artifacts
  <2>2. TokensHold'
    BY <2>1 DEF TokensHold, Witnessed, NativeVerified, Verifying, Setting
  <2>3. SetHolds'
    BY <2>1 DEF SetHolds, FitsSet, ReleasesMatch, Setting
  <2>4. ArtifactsAreReread'
    BY <2>1 DEF ArtifactsAreReread, Reread, NativeVerified, Verifying, Setting, Native!Artifacts
  <2> QED BY <2>1, <2>2, <2>3, <2>4 DEF Verifying, Setting
<1>3. CASE Native!CheckSignatures
  <2>1. Witnessed(item, nativePolicy, nativeSampled)
    BY <1>3 DEF Native!CheckSignatures, Native!SignedBy, Witnessed
  <2>2. /\ stage = "signatures" /\ stage' = "recheck" /\ artifact' = 1
        /\ UNCHANGED <<nativePolicy, envelopes, item, artifact, nativeSampled, tokens, reread>>
    BY <1>3 DEF Native!CheckSignatures
  <2> QED BY <2>1, <2>2
    DEF TokensHold, Witnessed, SetHolds, ArtifactsAreReread, NativeVerified, Verifying, Setting,
        Native!Artifacts, Reread
<1> QED BY <1>1, <1>2, <1>3

LEMMA NativeRecheckStep ==
  ASSUME ObservationInv, Native!RecheckArtifact
  PROVE  ObservationInv'
<1> USE DEF ObservationInv, ObservationTypes
<1>1. /\ stage \in {"recheck", "setRecheck"} /\ reread' = reread \cup {<<stage, item, artifact>>}
      /\ UNCHANGED <<nativePolicy, envelopes, nativeSampled>>
      /\ item \in {1, 2} /\ artifact \in {1, 2}
  BY DEF Native!RecheckArtifact, Native!Items, Native!Artifacts
<1>2. reread' \subseteq {"recheck", "setRecheck"} \X Native!Items \X Native!Artifacts
  BY <1>1 DEF ArtifactsAreReread
<1>3. CASE artifact = 1
  <2>1. artifact' = 2 /\ UNCHANGED <<stage, item, tokens>>
    BY <1>3, ArtifactCount DEF Native!RecheckArtifact
  <2>2. ArtifactsAreReread'
    BY <1>1, <1>2, <1>3, <2>1
      DEF ArtifactsAreReread, Reread, NativeVerified, Verifying, Setting, Native!Items,
          Native!Artifacts
  <2>3. TokensHold' /\ SetHolds'
    BY <1>1, <2>1 DEF TokensHold, Witnessed, SetHolds, FitsSet, ReleasesMatch, NativeVerified
  <2> QED BY <1>1, <2>1, <2>2, <2>3 DEF Native!Artifacts
<1>4. CASE artifact = 2 /\ stage = "recheck"
  <2>1. /\ artifact' = 1
        /\ tokens' = [tokens EXCEPT ![item] = [at |-> nativeSampled, policy |-> nativePolicy]]
        /\ stage' = (IF item = 1 THEN "admit" ELSE "set") /\ item' = (IF item = 1 THEN 2 ELSE 1)
    BY <1>4, ArtifactCount DEF Native!RecheckArtifact
  <2>2. /\ tokens'[item].policy = nativePolicy /\ tokens'[item].at = nativeSampled
        /\ \A o \in Native!Items : o # item => tokens'[o] = tokens[o]
    BY <2>1
  <2>3. \A o \in Native!Items : NativeVerified(o)' <=> NativeVerified(o) \/ o = item
    BY <1>1, <1>4, <2>1 DEF NativeVerified, Verifying, Setting, Native!Items
  <2>4. TokensHold'
    BY <1>1, <1>4, <2>1, <2>2, <2>3 DEF TokensHold, Witnessed
  <2>7. reread' = reread \cup {<<"recheck", item, 2>>}
    BY <1>1, <1>4
  <2>5. \A a \in Native!Artifacts : <<"recheck", item, a>> \in reread'
    <3>1. Reread("recheck", item, 1)
      BY <1>1, <1>4 DEF ArtifactsAreReread, Native!Artifacts
    <3> QED BY <1>1, <1>4, <2>7, <3>1 DEF Reread, Native!Artifacts
  <2>6. ArtifactsAreReread'
    <3>1. \A o \in Native!Items, a \in Native!Artifacts : NativeVerified(o)' =>
            Reread("recheck", o, a)'
      BY <1>1, <2>3, <2>5 DEF ArtifactsAreReread, Reread
    <3>2. stage' \notin {"recheck", "setRecheck", "accepted"} \cup Setting
      BY <1>1, <2>1 DEF Setting
    <3> QED BY <1>2, <3>1, <3>2 DEF ArtifactsAreReread
  <2> QED BY <2>1, <1>1, <2>4, <2>6
    DEF SetHolds, Setting, Verifying, Native!Items, Native!Artifacts
<1>5. CASE artifact = 2 /\ stage = "setRecheck"
  <2>1. /\ artifact' = 1 /\ tokens' = tokens
        /\ stage' = (IF item = 1 THEN "setItem" ELSE "accepted")
        /\ item' = (IF item = 1 THEN 2 ELSE 1)
    BY <1>5, ArtifactCount DEF Native!RecheckArtifact
  <2>6. reread' = reread \cup {<<"setRecheck", item, 2>>}
    BY <1>1, <1>5
  <2>2. \A a \in Native!Artifacts : <<"setRecheck", item, a>> \in reread'
    <3>1. Reread("setRecheck", item, 1)
      BY <1>1, <1>5 DEF ArtifactsAreReread, Native!Artifacts
    <3> QED BY <1>1, <1>5, <2>6, <3>1 DEF Reread, Native!Artifacts
  <2>7. \A o \in Native!Items, a \in Native!Artifacts : o < item \/ o = item =>
          <<"setRecheck", o, a>> \in reread'
    BY <1>1, <1>5, <2>2 DEF ArtifactsAreReread, Reread, Setting
  <2>8. \A o \in Native!Items, a \in Native!Artifacts : Reread("recheck", o, a)'
    BY <1>1, <1>5 DEF ArtifactsAreReread, Reread, NativeVerified, Setting
  <2>3. ArtifactsAreReread'
    <3>1. CASE item = 1
      BY <1>2, <2>1, <2>7, <2>8, <3>1 DEF ArtifactsAreReread, Reread, Setting, Native!Items
    <3>2. CASE item = 2
      BY <1>2, <2>1, <2>7, <2>8, <3>2 DEF ArtifactsAreReread, Reread, Setting, Native!Items
    <3> QED BY <1>1, <3>1, <3>2
  <2>4. TokensHold'
    BY <1>1, <1>5, <2>1 DEF TokensHold, Witnessed, NativeVerified, Verifying, Setting
  <2>5. SetHolds'
    BY <1>1, <1>5, <2>1 DEF SetHolds, FitsSet, ReleasesMatch, Setting
  <2> QED BY <1>1, <2>1, <2>3, <2>4, <2>5 DEF Setting, Verifying, Native!Items, Native!Artifacts
<1> QED BY <1>1, <1>3, <1>4, <1>5

LEMMA NativeSetStep ==
  ASSUME ObservationInv, Native!StartSet \/ Native!CheckItem
  PROVE  ObservationInv'
<1> USE DEF ObservationInv, ObservationTypes
<1>1. CASE Native!StartSet
  BY <1>1
    DEF Native!StartSet, TokensHold, Witnessed, SetHolds, ArtifactsAreReread, NativeVerified,
        Verifying, Setting, Native!Items, Reread
<1>2. CASE Native!CheckItem
  <2>1. /\ stage = "setItem" /\ stage' = "setHash" /\ artifact' = 1 /\ FitsSet(item)
        /\ item = 2 => ReleasesMatch
        /\ UNCHANGED <<nativePolicy, envelopes, item, nativeSampled, tokens, reread>>
    BY <1>2 DEF Native!CheckItem, FitsSet, ReleasesMatch
  <2>2. SetHolds'
    BY <2>1 DEF SetHolds, FitsSet, ReleasesMatch, Setting
  <2> QED BY <2>1, <2>2
    DEF TokensHold, Witnessed, ArtifactsAreReread, NativeVerified, Verifying, Setting,
        Native!Artifacts, Reread
<1> QED BY <1>1, <1>2

LEMMA ObservationWorldStep ==
  ASSUME ObservationInv, Native!Refuse \/ Native!Tick \/ Native!Tamper \/ Native!Revoke \/
           UNCHANGED Native!vars
  PROVE  ObservationInv'
<1> USE DEF ObservationInv, ObservationTypes
<1>1. CASE Native!Refuse
  BY <1>1
    DEF Native!Refuse, TokensHold, SetHolds, ArtifactsAreReread, NativeVerified, Verifying,
        Setting
<1>2. CASE Native!Revoke
  BY <1>2
    DEF Native!Revoke, TokensHold, Witnessed, SetHolds, ArtifactsAreReread, NativeVerified,
        Setting, Reread
<1>3. CASE Native!Tick \/ Native!Tamper \/ UNCHANGED Native!vars
  <2>1. UNCHANGED <<nativePolicy, envelopes, stage, item, artifact, nativeSampled, tokens,
          reread>>
    BY <1>3 DEF Native!Tick, Native!Tamper, Native!vars
  <2> QED BY <2>1
    DEF TokensHold, Witnessed, SetHolds, FitsSet, ReleasesMatch, ArtifactsAreReread,
        NativeVerified, Reread
<1> QED BY <1>1, <1>2, <1>3

LEMMA StepObservation ==
  ASSUME ObservationInv, Native!ObservationNext \/ UNCHANGED Native!vars
  PROVE  ObservationInv'
BY NativeAdmitStep, NativeRecheckStep, NativeSetStep, ObservationWorldStep
  DEF Native!ObservationNext

LEMMA ObservationFacts == ObservationInv => Native!AcceptedSetIsWitnessed
<1> SUFFICES ASSUME ObservationInv, stage = "accepted" PROVE Native!AcceptedSetIsWitnessed
  BY DEF Native!AcceptedSetIsWitnessed
<1>1. FitsSet(1) /\ FitsSet(2) /\ ReleasesMatch
  BY DEF ObservationInv, SetHolds
<1>2. {envelopes[o].cell : o \in Native!Items} = Native!Cells
  BY <1>1 DEF ObservationInv, ObservationTypes, ReleasesMatch, Native!Cells, Native!Items
<1>3. \A o \in Native!Items :
        Witnessed(o, nativePolicy, tokens[o].at) /\ nativeSampled < envelopes[o].expires
  BY <1>1 DEF ObservationInv, TokensHold, NativeVerified, FitsSet, Native!Items
<1>4. reread = {"recheck", "setRecheck"} \X Native!Items \X Native!Artifacts
  BY DEF ObservationInv, ArtifactsAreReread, NativeVerified, Reread
<1> QED BY <1>1, <1>2, <1>3, <1>4 DEF Native!AcceptedSetIsWitnessed, ReleasesMatch, Witnessed

-----------------------------------------------------------------------------
(* CI attestations. What has been claimed and what has been confirmed is   *)
(* known at each place, file by file.                                      *)

Doc(p) == <<"document", p>>
Bin(p) == <<"binary", claims[Doc(p)].target>>
Sums == <<"checksums", 1>>
Arc(t) == <<"archive", t>>

ClaimedDocument(p) ==
  /\ claims[Doc(p)].run = "expected" /\ claims[Doc(p)].target \in Ci!Targets

\* The documents of the two targets, and the binaries that were hashed for them.
ClaimedBinary(p) == claims[Bin(p)] = claims[Doc(p)].declares

AllDocuments ==
  /\ \A p \in Ci!Paths : ClaimedDocument(p)
  /\ claims[Doc(1)].target # claims[Doc(2)].target

CiBuildInv ==
  /\ ciPlace = "generate" => DOMAIN claims = {} /\ ciConfirmed = {} /\ ciAt = 1
  /\ ciPlace = "load" =>
       /\ ciConfirmed = {} /\ ciAt \in Ci!Paths
       /\ DOMAIN claims = {Doc(p) : p \in 1..ciAt - 1}
       /\ \A p \in 1..ciAt - 1 : ClaimedDocument(p)
  /\ ciPlace = "shape" =>
       /\ ciConfirmed = {} /\ ciAt = 1
       /\ DOMAIN claims = {Doc(1), Doc(2)}
       /\ \A p \in Ci!Paths : ClaimedDocument(p)
  /\ ciPlace \in {"hash", "ask", "after", "accepted"} => AllDocuments
  /\ ciPlace = "hash" /\ ciAt = 1 => DOMAIN claims = {Doc(1), Doc(2)} /\ ciConfirmed = {}
  /\ ciPlace = "hash" /\ ciAt # 1 =>
       /\ ciAt = 2
       /\ DOMAIN claims = {Doc(1), Doc(2), Bin(1)} /\ ciConfirmed = {Doc(1), Bin(1)}
       /\ ClaimedBinary(1) /\ claims[Bin(1)] \in ciAttested
  /\ ciPlace \in {"ask", "after"} /\ ciAt = 1 =>
       /\ DOMAIN claims = {Doc(1), Doc(2), Bin(1)}
       /\ ClaimedBinary(1)
       /\ \/ ciWork = <<Doc(1), Bin(1)>> /\ ciConfirmed = {}
          \/ ciWork = <<Bin(1)>> /\ ciConfirmed = {Doc(1)}
  /\ ciPlace \in {"ask", "after"} /\ ciAt # 1 =>
       /\ ciAt = 2
       /\ DOMAIN claims = {Doc(1), Doc(2), Bin(1), Bin(2)}
       /\ ClaimedBinary(1) /\ ClaimedBinary(2) /\ claims[Bin(1)] \in ciAttested
       /\ \/ ciWork = <<Doc(2), Bin(2)>> /\ ciConfirmed = {Doc(1), Bin(1)}
          \/ ciWork = <<Bin(2)>> /\ ciConfirmed = {Doc(1), Bin(1), Doc(2)}
  /\ ciPlace = "after" /\ ciWork \in {<<Bin(1)>>, <<Bin(2)>>} =>
       claims[Head(ciWork)] \in ciAttested
  /\ ciPlace = "accepted" =>
       /\ DOMAIN claims = {Doc(1), Doc(2), Bin(1), Bin(2)} /\ ciConfirmed = DOMAIN claims
       /\ ClaimedBinary(1) /\ ClaimedBinary(2)
       /\ claims[Bin(1)] \in ciAttested /\ claims[Bin(2)] \in ciAttested

\* checksums.txt lists what was read of the archives.
SumsAgree == \A t \in Ci!Targets : claims[Sums][t] = claims[Arc(t)]

CiReleaseInv ==
  /\ ciPlace = "generate" => DOMAIN claims = {} /\ ciConfirmed = {} /\ ciAt = 1
  /\ ciPlace = "read" =>
       /\ ciConfirmed = {} /\ ciAt \in Ci!Targets
       /\ DOMAIN claims = {Arc(t) : t \in 1..ciAt - 1}
  /\ ciPlace = "checksums" => ciConfirmed = {} /\ DOMAIN claims = {Arc(1), Arc(2)}
  /\ ciPlace \in {"before", "ask", "after", "accepted"} =>
       DOMAIN claims = {Sums, Arc(1), Arc(2)} /\ SumsAgree
  /\ ciPlace \in {"before", "ask", "after"} =>
       \/ ciWork = <<Sums, Arc(1), Arc(2)>> /\ ciConfirmed = {}
       \/ ciWork = <<Arc(1), Arc(2)>> /\ ciConfirmed = {Sums}
       \/ ciWork = <<Arc(2)>> /\ ciConfirmed = {Sums, Arc(1)} /\ claims[Arc(1)] \in ciAttested
  /\ ciPlace = "after" /\ ciWork # <<Sums, Arc(1), Arc(2)>> => claims[Head(ciWork)] \in ciAttested
  /\ ciPlace = "accepted" =>
       /\ ciConfirmed = DOMAIN claims
       /\ claims[Arc(1)] \in ciAttested /\ claims[Arc(2)] \in ciAttested

CiDocuments ==
  [run : {"none", "expected", "earlier"}, target : Ci!Targets, declares : Ci!Versions]

CiTypes ==
  /\ mode \in {"cross-build", "release"}
  /\ doc \in [Ci!Paths -> CiDocuments]
  /\ archive \in [Ci!Targets -> Ci!Versions]
  /\ checksums \in [Ci!Targets -> Ci!Versions]

CiInv ==
  /\ CiTypes
  /\ mode = "cross-build" /\ ciPlace # "refused" =>
       /\ ciPlace \in {"generate", "load", "shape", "hash", "ask", "after", "accepted"}
       /\ CiBuildInv
  /\ mode = "release" /\ ciPlace # "refused" =>
       /\ ciPlace \in {"generate", "read", "checksums", "before", "ask", "after", "accepted"}
       /\ CiReleaseInv

LEMMA Heads ==
  /\ \A a : Head(<<a>>) = a /\ Len(<<a>>) = 1
  /\ \A a, b : Head(<<a, b>>) = a /\ Tail(<<a, b>>) = <<b>> /\ Len(<<a, b>>) = 2
  /\ \A a, b, c :
       Head(<<a, b, c>>) = a /\ Tail(<<a, b, c>>) = <<b, c>> /\ Len(<<a, b, c>>) = 3
OBVIOUS

LEMMA InitCi == Ci!CiInit => CiInv
<1> SUFFICES ASSUME Ci!CiInit PROVE CiInv
  OBVIOUS
<1>1. CiTypes
  BY
    DEF Ci!CiInit, CiTypes, CiDocuments, Ci!Document, Ci!NoDocument, Ci!Targets, Ci!Versions,
        Ci!Paths
<1>2. ciPlace = "generate" /\ DOMAIN claims = {} /\ ciConfirmed = {} /\ ciAt = 1
  BY DEF Ci!CiInit
<1> QED BY <1>1, <1>2 DEF CiInv, CiBuildInv, CiReleaseInv

\* A claim is added to what has been claimed.
LEMMA ClaimAdds ==
  ASSUME NEW n, NEW c, claims' = Ci!Claim(n, c)
  PROVE  /\ DOMAIN claims' = DOMAIN claims \cup {n}
         /\ claims'[n] = c
         /\ \A m \in DOMAIN claims : m # n => claims'[m] = claims[m]
BY DEF Ci!Claim

\* What the CLI finds attested under a path has an attested version.
LEMMA AuthenticatedVersion ==
  ASSUME NEW kind \in {"archive", "binary"}, NEW t, Ci!Authenticated(<<kind, t>>)
  PROVE  claims[<<kind, t>>] \in ciAttested
BY DEF Ci!Authenticated, Ci!Certified, Ci!Named, Ci!Current

LEMMA CiLoadStep ==
  ASSUME CiInv, mode = "cross-build",
         Ci!GenerateFile \/ Ci!VerifySet \/ Ci!LoadDocument \/ Ci!ValidateSetShape
  PROVE  CiInv'
<1>1. CASE Ci!GenerateFile
  <2>1. doc' \in [Ci!Paths -> CiDocuments]
    BY <1>1
      DEF Ci!GenerateFile, Ci!WriteNew, Ci!Build, Ci!Document, CiDocuments, CiInv, CiTypes,
          Ci!Hashed
  <2> QED BY <1>1, <2>1 DEF Ci!GenerateFile, CiInv, CiTypes, CiBuildInv
<1>2. CASE Ci!VerifySet
  <2>1. 1..0 = {}
    OBVIOUS
  <2> QED BY <1>2 DEF Ci!VerifySet, CiInv, CiTypes, CiBuildInv, Ci!Paths
<1>3. CASE Ci!LoadDocument
  <2>1. /\ DOMAIN claims' = DOMAIN claims \cup {Doc(ciAt)}
        /\ claims'[Doc(ciAt)] = doc[ciAt]
        /\ \A m \in DOMAIN claims : m # Doc(ciAt) => claims'[m] = claims[m]
    BY <1>3, ClaimAdds DEF Ci!LoadDocument, Doc
  <2>2. doc[ciAt].run = "expected" /\ doc[ciAt].target \in Ci!Targets
    BY <1>3 DEF Ci!LoadDocument, CiInv, CiTypes, CiDocuments, Ci!OfExpectedSource, CiBuildInv
  <2>3. CASE ciAt = 1
    BY <1>3, <2>1, <2>2, <2>3
      DEF Ci!LoadDocument, CiInv, CiTypes, CiBuildInv, ClaimedDocument, Doc, Ci!Paths
  <2>4. CASE ciAt = 2
    <3>1. DOMAIN claims = {Doc(1)} /\ ClaimedDocument(1)
      <4>1. DOMAIN claims = {Doc(p) : p \in 1..1} /\ \A p \in 1..1 : ClaimedDocument(p)
        BY <1>3, <2>4 DEF Ci!LoadDocument, CiInv, CiBuildInv
      <4> QED BY <4>1
    <3>2. DOMAIN claims' = {Doc(1), Doc(2)}
      BY <2>1, <2>4, <3>1
    <3>3. ClaimedDocument(1)' /\ ClaimedDocument(2)'
      BY <2>1, <2>2, <2>4, <3>1 DEF ClaimedDocument, Doc
    <3>4. /\ ciPlace' = "shape" /\ ciAt' = 1 /\ ciConfirmed = {}
          /\ UNCHANGED <<mode, doc, archive, checksums, ciConfirmed>>
      BY <1>3, <2>4 DEF Ci!LoadDocument, CiInv, CiBuildInv
    <3> QED BY <3>2, <3>3, <3>4 DEF CiInv, CiTypes, CiBuildInv, Ci!Paths
  <2> QED BY <1>3, <2>3, <2>4 DEF Ci!LoadDocument, CiInv, CiBuildInv, Ci!Paths
<1>4. CASE Ci!ValidateSetShape
  BY <1>4
    DEF Ci!ValidateSetShape, CiInv, CiTypes, CiBuildInv, AllDocuments, ClaimedDocument, Doc,
        Ci!Paths, Ci!Targets
<1> QED BY <1>1, <1>2, <1>3, <1>4

LEMMA CiHashStep ==
  ASSUME CiInv, mode = "cross-build", Ci!HashBinary
  PROVE  CiInv'
<1> DEFINE d == claims[Doc(ciAt)]
<1>1. /\ ciPlace = "hash" /\ ciPlace' = "ask" /\ ciAt \in Ci!Paths
      /\ claims' = Ci!Claim(Bin(ciAt), d.declares) /\ ciWork' = <<Doc(ciAt), Bin(ciAt)>>
      /\ UNCHANGED <<mode, doc, archive, checksums, ciAttested, ciAt, ciConfirmed>>
  BY DEF Ci!HashBinary, Doc, Bin, CiInv, CiBuildInv, Ci!Paths
<1>2. /\ DOMAIN claims' = DOMAIN claims \cup {Bin(ciAt)}
      /\ claims'[Bin(ciAt)] = d.declares
      /\ \A m \in DOMAIN claims : m # Bin(ciAt) => claims'[m] = claims[m]
  BY <1>1, ClaimAdds
<1>3. /\ claims[Doc(1)].target \in Ci!Targets /\ claims[Doc(2)].target \in Ci!Targets
      /\ claims[Doc(1)].target # claims[Doc(2)].target
  BY <1>1 DEF CiInv, CiBuildInv, AllDocuments, ClaimedDocument, Ci!Paths
<1>4. /\ Doc(1) # Doc(2) /\ Bin(1) # Bin(2)
      /\ \A p, q : Doc(p) # Bin(q)
  BY <1>3 DEF Doc, Bin
<1>5. {Doc(1), Doc(2)} \subseteq DOMAIN claims
  BY <1>1 DEF CiInv, CiBuildInv, Ci!Paths
<1>6. claims'[Doc(1)] = claims[Doc(1)] /\ claims'[Doc(2)] = claims[Doc(2)]
  BY <1>2, <1>4, <1>5
<1>7. Bin(1)' = Bin(1) /\ Bin(2)' = Bin(2) /\ Bin(ciAt)' = Bin(ciAt)
  BY <1>1, <1>6 DEF Bin, Ci!Paths
<1>8. AllDocuments'
  BY <1>1, <1>6 DEF AllDocuments, ClaimedDocument, CiInv, CiBuildInv, Ci!Paths
<1>9. ClaimedBinary(ciAt)'
  BY <1>1, <1>2, <1>6, <1>7 DEF ClaimedBinary, Ci!Paths
<1>10. CASE ciAt = 1
  <2>1. DOMAIN claims = {Doc(1), Doc(2)} /\ ciConfirmed = {}
    BY <1>1, <1>10 DEF CiInv, CiBuildInv
  <2> QED BY <1>1, <1>2, <1>7, <1>8, <1>9, <1>10, <2>1 DEF CiInv, CiTypes, CiBuildInv, Ci!Paths
<1>11. CASE ciAt = 2
  <2>1. /\ DOMAIN claims = {Doc(1), Doc(2), Bin(1)} /\ ciConfirmed = {Doc(1), Bin(1)}
        /\ ClaimedBinary(1) /\ claims[Bin(1)] \in ciAttested
    BY <1>1, <1>11 DEF CiInv, CiBuildInv
  <2>2. claims'[Bin(1)'] = claims[Bin(1)]
    BY <1>2, <1>4, <1>7, <1>11, <2>1
  <2>3. ClaimedBinary(1)' /\ claims'[Bin(1)'] \in ciAttested'
    BY <1>1, <1>6, <2>1, <2>2 DEF ClaimedBinary
  <2> QED BY <1>1, <1>2, <1>7, <1>8, <1>9, <1>11, <2>1, <2>3
    DEF CiInv, CiTypes, CiBuildInv, Ci!Paths
<1> QED BY <1>1, <1>10, <1>11 DEF Ci!Paths

LEMMA CiAskStep ==
  ASSUME CiInv, Ci!AskGitHub
  PROVE  CiInv'
<1>1. /\ ciPlace = "ask" /\ ciPlace' = "after" /\ Ci!Authenticated(Head(ciWork))
      /\ UNCHANGED <<mode, doc, archive, checksums, ciAttested, ciAt, claims, ciWork,
           ciConfirmed>>
  BY DEF Ci!AskGitHub
<1>2. CASE mode = "cross-build"
  <2>1. \A n \in {Bin(1), Bin(2)} : Head(ciWork) = n => claims[n] \in ciAttested
    BY <1>1, AuthenticatedVersion DEF Bin
  <2>2. ciWork \in {<<Bin(1)>>, <<Bin(2)>>} => claims[Head(ciWork)] \in ciAttested
    BY <2>1, Heads
  <2> QED BY <1>1, <1>2, <2>2
    DEF CiInv, CiTypes, CiBuildInv, AllDocuments, ClaimedDocument, ClaimedBinary, Doc, Bin
<1>3. CASE mode = "release"
  <2>1. \A t : Head(ciWork) = Arc(t) => claims[Arc(t)] \in ciAttested
    BY <1>1, AuthenticatedVersion DEF Arc
  <2>2. ciWork # <<Sums, Arc(1), Arc(2)>> => claims[Head(ciWork)] \in ciAttested
    BY <1>1, <1>3, <2>1, Heads DEF CiInv, CiReleaseInv
  <2> QED BY <1>1, <1>3, <2>2 DEF CiInv, CiTypes, CiReleaseInv, SumsAgree, Arc, Sums
<1> QED BY <1>2, <1>3 DEF CiInv, CiTypes

LEMMA CiReleaseStep ==
  ASSUME CiInv, mode = "release",
         Ci!VerifyReleaseSet \/ Ci!ReadArchive \/ Ci!VerifyReleaseChecksums \/ Ci!RereadSubject
  PROVE  CiInv'
<1> USE DEF CiInv, CiTypes, CiReleaseInv
<1>1. CASE Ci!VerifyReleaseSet
  <2>1. 1..0 = {}
    OBVIOUS
  <2> QED BY <1>1, <2>1 DEF Ci!VerifyReleaseSet, Ci!Targets
<1>2. CASE Ci!ReadArchive
  <2>1. DOMAIN claims' = DOMAIN claims \cup {Arc(ciAt)}
    BY <1>2, ClaimAdds DEF Ci!ReadArchive, Arc
  <2>2. CASE ciAt = 1
    BY <1>2, <2>1, <2>2 DEF Ci!ReadArchive, Ci!Targets
  <2>3. CASE ciAt = 2
    BY <1>2, <2>1, <2>3 DEF Ci!ReadArchive, Ci!Targets
  <2> QED BY <1>2, <2>2, <2>3 DEF Ci!ReadArchive, Ci!Targets
<1>3. CASE Ci!VerifyReleaseChecksums
  <2>1. /\ DOMAIN claims' = DOMAIN claims \cup {Sums}
        /\ claims'[Sums] = checksums
        /\ \A m \in DOMAIN claims : m # Sums => claims'[m] = claims[m]
    BY <1>3, ClaimAdds DEF Ci!VerifyReleaseChecksums, Sums
  <2>2. DOMAIN claims = {Arc(1), Arc(2)} /\ \A t : Arc(t) # Sums
    BY <1>3 DEF Ci!VerifyReleaseChecksums, Arc, Sums
  <2>3. SumsAgree'
    BY <1>3, <2>1, <2>2 DEF Ci!VerifyReleaseChecksums, SumsAgree, Arc, Ci!Targets
  <2>4. ciWork' = <<Sums, Arc(1), Arc(2)>> /\ ciPlace' = "before" /\ ciConfirmed' = {}
    BY <1>3 DEF Ci!VerifyReleaseChecksums, Sums, Arc
  <2> QED BY <1>3, <2>1, <2>2, <2>3, <2>4 DEF Ci!VerifyReleaseChecksums
<1>4. CASE Ci!RereadSubject
  BY <1>4 DEF Ci!RereadSubject, SumsAgree
<1> QED BY <1>1, <1>2, <1>3, <1>4

LEMMA CiRecheckBuild ==
  ASSUME CiInv, mode = "cross-build", Ci!RecheckArtifact
  PROVE  CiInv'
<1>1. /\ ciPlace = "after" /\ ciConfirmed' = ciConfirmed \cup {Head(ciWork)}
      /\ ciWork' = Tail(ciWork)
      /\ UNCHANGED <<mode, doc, archive, checksums, ciAttested, claims>>
  BY DEF Ci!RecheckArtifact
<1>2. AllDocuments /\ ciAt \in Ci!Paths
  BY <1>1 DEF CiInv, CiBuildInv, Ci!Paths
<1>3. Bin(1)' = Bin(1) /\ Bin(2)' = Bin(2) /\ AllDocuments'
      /\ (ClaimedBinary(1))' = ClaimedBinary(1) /\ (ClaimedBinary(2))' = ClaimedBinary(2)
  BY <1>1, <1>2 DEF Bin, AllDocuments, ClaimedDocument, ClaimedBinary, Doc
<1>4. CASE ciWork = <<Doc(ciAt), Bin(ciAt)>>
  <2>1. /\ Head(ciWork) = Doc(ciAt) /\ ciWork' = <<Bin(ciAt)>> /\ Len(ciWork) = 2
    BY <1>1, <1>4, Heads
  <2>2. ciPlace' = "ask" /\ ciAt' = ciAt
    BY <2>1 DEF Ci!RecheckArtifact
  <2>3. CASE ciAt = 1
    <3>1. ciConfirmed = {}
      BY <1>1, <1>4, <2>1, <2>3, Heads DEF CiInv, CiBuildInv
    <3> QED BY <1>1, <1>3, <2>1, <2>2, <2>3, <3>1 DEF CiInv, CiTypes, CiBuildInv, Doc
  <2>4. CASE ciAt = 2
    <3>1. ciConfirmed = {Doc(1), Bin(1)}
      BY <1>1, <1>4, <2>1, <2>4, Heads DEF CiInv, CiBuildInv
    <3> QED BY <1>1, <1>3, <2>1, <2>2, <2>4, <3>1 DEF CiInv, CiTypes, CiBuildInv, Doc
  <2> QED BY <1>2, <2>3, <2>4 DEF Ci!Paths
<1>5. CASE ciWork = <<Bin(ciAt)>>
  <2>1. /\ Head(ciWork) = Bin(ciAt) /\ Len(ciWork) = 1 /\ claims[Bin(ciAt)] \in ciAttested
    BY <1>1, <1>2, <1>5, Heads DEF CiInv, CiBuildInv, Ci!Paths
  <2>2. CASE ciAt = 1
    <3>1. ciPlace' = "hash" /\ ciAt' = 2
      BY <2>1, <2>2 DEF Ci!RecheckArtifact
    <3>2. ciConfirmed = {Doc(1)} /\ DOMAIN claims = {Doc(1), Doc(2), Bin(1)} /\ ClaimedBinary(1)
      BY <1>1, <1>5, <2>1, <2>2, Heads DEF CiInv, CiBuildInv
    <3> QED BY <1>1, <1>3, <2>1, <2>2, <3>1, <3>2 DEF CiInv, CiTypes, CiBuildInv, Doc
  <2>3. CASE ciAt = 2
    <3>1. ciPlace' = "accepted" /\ ciAt' = 2
      BY <2>1, <2>3 DEF Ci!RecheckArtifact
    <3>2. /\ ciConfirmed = {Doc(1), Bin(1), Doc(2)}
          /\ DOMAIN claims = {Doc(1), Doc(2), Bin(1), Bin(2)}
          /\ ClaimedBinary(1) /\ ClaimedBinary(2) /\ claims[Bin(1)] \in ciAttested
      BY <1>1, <1>5, <2>1, <2>3, Heads DEF CiInv, CiBuildInv
    <3> QED BY <1>1, <1>3, <2>1, <2>3, <3>1, <3>2 DEF CiInv, CiTypes, CiBuildInv, Doc
  <2> QED BY <1>2, <2>2, <2>3 DEF Ci!Paths
<1> QED BY <1>1, <1>2, <1>4, <1>5 DEF CiInv, CiBuildInv, Ci!Paths

LEMMA CiRecheckRelease ==
  ASSUME CiInv, mode = "release", Ci!RecheckArtifact
  PROVE  CiInv'
<1>1. /\ ciPlace = "after" /\ ciConfirmed' = ciConfirmed \cup {Head(ciWork)}
      /\ ciWork' = Tail(ciWork)
      /\ UNCHANGED <<mode, doc, archive, checksums, ciAttested, claims>>
  BY DEF Ci!RecheckArtifact
<1>2. /\ DOMAIN claims = {Sums, Arc(1), Arc(2)} /\ SumsAgree /\ SumsAgree'
      /\ ciWork # <<Sums, Arc(1), Arc(2)>> => claims[Head(ciWork)] \in ciAttested
  BY <1>1 DEF CiInv, CiReleaseInv, SumsAgree, Arc, Sums
<1>3. CASE ciWork = <<Sums, Arc(1), Arc(2)>>
  <2>1. /\ Head(ciWork) = Sums /\ ciWork' = <<Arc(1), Arc(2)>> /\ Len(ciWork) = 3
    BY <1>1, <1>3, Heads
  <2>2. ciConfirmed = {} /\ ciPlace' = "before"
    BY <1>1, <1>3, <2>1, Heads DEF CiInv, CiReleaseInv, Ci!RecheckArtifact
  <2> QED BY <1>1, <1>2, <2>1, <2>2 DEF CiInv, CiTypes, CiReleaseInv, Sums
<1>4. CASE ciWork = <<Arc(1), Arc(2)>>
  <2>1. /\ Head(ciWork) = Arc(1) /\ ciWork' = <<Arc(2)>> /\ Len(ciWork) = 2
    BY <1>1, <1>4, Heads
  <2>2. ciConfirmed = {Sums} /\ ciPlace' = "before" /\ claims[Arc(1)] \in ciAttested
    BY <1>1, <1>2, <1>4, <2>1, Heads DEF CiInv, CiReleaseInv, Ci!RecheckArtifact
  <2> QED BY <1>1, <1>2, <2>1, <2>2 DEF CiInv, CiTypes, CiReleaseInv, Arc, Sums
<1>5. CASE ciWork = <<Arc(2)>>
  <2>1. /\ Head(ciWork) = Arc(2) /\ Len(ciWork) = 1
    BY <1>1, <1>5, Heads
  <2>2. /\ ciConfirmed = {Sums, Arc(1)} /\ ciPlace' = "accepted"
        /\ claims[Arc(1)] \in ciAttested /\ claims[Arc(2)] \in ciAttested
    BY <1>1, <1>2, <1>5, <2>1, Heads DEF CiInv, CiReleaseInv, Ci!RecheckArtifact
  <2> QED BY <1>1, <1>2, <2>1, <2>2 DEF CiInv, CiTypes, CiReleaseInv, Arc
<1> QED BY <1>1, <1>3, <1>4, <1>5 DEF CiInv, CiReleaseInv

\* A rewrite touches nothing of what was claimed and confirmed.
LEMMA CiRewriteStep ==
  ASSUME CiInv, Ci!Rewrite \/ Ci!Refuse \/ UNCHANGED Ci!vars
  PROVE  CiInv'
<1>1. CiTypes'
  <2>1. CASE Ci!Rewrite
    <3>1. mode' = mode
      BY <2>1 DEF Ci!Rewrite
    <3>2. doc' \in [Ci!Paths -> CiDocuments]
      BY <2>1 DEF Ci!Rewrite, CiInv, CiTypes, CiDocuments
    <3>3. archive' \in [Ci!Targets -> Ci!Versions]
      BY <2>1 DEF Ci!Rewrite, CiInv, CiTypes
    <3>4. checksums' \in [Ci!Targets -> Ci!Versions]
      BY <2>1 DEF Ci!Rewrite, CiInv, CiTypes
    <3> QED BY <3>1, <3>2, <3>3, <3>4 DEF CiInv, CiTypes
  <2>2. CASE Ci!Refuse \/ UNCHANGED Ci!vars
    BY <2>2 DEF Ci!Refuse, Ci!vars, CiInv, CiTypes
  <2> QED BY <2>1, <2>2
<1>2. CASE Ci!Refuse
  BY <1>1, <1>2 DEF Ci!Refuse, CiInv
<1>3. CASE Ci!Rewrite \/ UNCHANGED Ci!vars
  <2>1. UNCHANGED <<mode, ciAttested, ciPlace, ciAt, claims, ciWork, ciConfirmed>>
    BY <1>3 DEF Ci!Rewrite, Ci!vars
  <2>2. CiBuildInv => CiBuildInv'
    BY <2>1 DEF CiBuildInv, AllDocuments, ClaimedDocument, ClaimedBinary, Doc, Bin
  <2>3. CiReleaseInv => CiReleaseInv'
    BY <2>1 DEF CiReleaseInv, SumsAgree, Arc, Sums
  <2> QED BY <1>1, <2>1, <2>2, <2>3 DEF CiInv
<1> QED BY <1>2, <1>3

LEMMA StepCi ==
  ASSUME CiInv, Ci!CiNext \/ UNCHANGED Ci!vars
  PROVE  CiInv'
<1>1. CASE mode = "cross-build"
  <2>1. ~Ci!VerifyReleaseSet /\ ~Ci!ReadArchive /\ ~Ci!VerifyReleaseChecksums /\ ~Ci!RereadSubject
    BY <1>1
      DEF CiInv, Ci!VerifyReleaseSet, Ci!ReadArchive, Ci!VerifyReleaseChecksums,
          Ci!RereadSubject
  <2> QED BY <1>1, <2>1, CiLoadStep, CiHashStep, CiAskStep, CiRecheckBuild, CiRewriteStep
    DEF Ci!CiNext
<1>2. CASE mode = "release"
  <2>1. /\ ~Ci!GenerateFile /\ ~Ci!VerifySet /\ ~Ci!LoadDocument /\ ~Ci!ValidateSetShape
        /\ ~Ci!HashBinary
    BY <1>2
      DEF CiInv, Ci!GenerateFile, Ci!VerifySet, Ci!LoadDocument, Ci!ValidateSetShape,
          Ci!HashBinary
  <2> QED BY <1>2, <2>1, CiReleaseStep, CiAskStep, CiRecheckRelease, CiRewriteStep DEF Ci!CiNext
<1> QED BY <1>1, <1>2 DEF CiInv, CiTypes

LEMMA CiFacts == CiInv => Ci!AcceptedSetIsAttested
<1> SUFFICES ASSUME CiInv, ciPlace = "accepted" PROVE Ci!AcceptedSetIsAttested
  BY DEF Ci!AcceptedSetIsAttested
<1> DEFINE Of(kind) == {n \in DOMAIN claims : n[1] = kind}
<1>1. CASE mode = "cross-build"
  <2>1. /\ DOMAIN claims = {Doc(1), Doc(2), Bin(1), Bin(2)} /\ ciConfirmed = DOMAIN claims
        /\ ClaimedBinary(1) /\ ClaimedBinary(2)
        /\ claims[Bin(1)] \in ciAttested /\ claims[Bin(2)] \in ciAttested
        /\ ClaimedDocument(1) /\ ClaimedDocument(2)
        /\ claims[Doc(1)].target # claims[Doc(2)].target
    BY <1>1 DEF CiInv, CiBuildInv, AllDocuments, Ci!Paths
  <2>2. Of("binary") = {Bin(1), Bin(2)}
    BY <2>1 DEF Doc, Bin
  <2>3. {Bin(1), Bin(2)} = {"binary"} \X Ci!Targets
    BY <2>1 DEF Bin, ClaimedDocument, Ci!Targets
  <2>4. Of("document") = {Doc(1), Doc(2)} /\ Of("checksums") = {}
    BY <2>1 DEF Doc, Bin
  <2>5. \A n \in {Doc(1), Doc(2)} :
          /\ claims[n].run = "expected"
          /\ claims[n].declares = claims[<<"binary", claims[n].target>>]
    BY <2>1 DEF ClaimedDocument, ClaimedBinary, Bin
  <2> QED BY <1>1, <2>1, <2>2, <2>3, <2>4, <2>5 DEF Ci!AcceptedSetIsAttested
<1>2. CASE mode = "release"
  <2>1. /\ DOMAIN claims = {Sums, Arc(1), Arc(2)} /\ ciConfirmed = DOMAIN claims
        /\ SumsAgree /\ claims[Arc(1)] \in ciAttested /\ claims[Arc(2)] \in ciAttested
    BY <1>2 DEF CiInv, CiReleaseInv
  <2>2. Of("archive") = {Arc(1), Arc(2)}
    BY <2>1 DEF Arc, Sums
  <2>3. {Arc(1), Arc(2)} = {"archive"} \X Ci!Targets
    BY DEF Arc, Ci!Targets
  <2>4. Of("document") = {} /\ Of("checksums") = {Sums}
    BY <2>1 DEF Arc, Sums
  <2>5. \A t \in Ci!Targets : claims[Sums][t] = claims[<<"archive", t>>]
    BY <2>1 DEF SumsAgree, Arc
  <2> QED BY <1>2, <2>1, <2>2, <2>3, <2>4, <2>5 DEF Ci!AcceptedSetIsAttested
<1> QED BY <1>1, <1>2 DEF CiInv, CiTypes

-----------------------------------------------------------------------------
(* Native attestations. The run has attested no document but those of its  *)
(* jobs, which list each path once; the verifier has met the paths it has  *)
(* hashed, and each item is waiting, or it is settled: confirmed, with a   *)
(* content that the run has attested.                                      *)

\* What a document lists: files, each once.
Listing(S) ==
  /\ IsFiniteSet(S)
  /\ \A s \in S : s[1][1] # "document"
  /\ \A s, u \in S : s[1] = u[1] => s = u

RuntimePathsOf(d) == {s[1] : s \in d.subjects}

RuntimeItems(d) == {Runtime!DocumentItem(d)} \cup d.subjects

\* The jobs that have attested their documents.
RuntimeDone(t) == runtimePlace \notin {"build", "walk", "attest"} \/ t < runtimeAt

RuntimeWritten(t) == runtimeBuilt[t].target = t /\ Listing(runtimeBuilt[t].subjects)

RuntimeTypes ==
  /\ DOMAIN runtimeBuilt = Runtime!Targets /\ DOMAIN runtimeLoaded = 1..2
  /\ runtimeAt \in 1..2 /\ (runtimePlace = "shape" => runtimeAt = 1)
  /\ runtimePlace \in {"build", "walk", "attest", "carry", "load", "shape", "hash", "ask", "after",
                       "accepted", "refused"}

\* The files that a job still has to hash are not in its document.
RuntimeWalks ==
  runtimePlace = "walk" =>
    /\ {"target", "subjects"} \subseteq DOMAIN runtimeBuilt[runtimeAt]
    /\ \A p \in runtimeWork : p[1] # "document" /\ p \notin RuntimePathsOf(runtimeBuilt[runtimeAt])

RuntimeOnlyBuiltIsAttested ==
  runtimePlace # "refused" =>
    /\ \A t \in Runtime!Targets : RuntimeDone(t) => RuntimeWritten(t)
    /\ runtimePlace \in {"walk", "attest"} => RuntimeWritten(runtimeAt)
    /\ \A d : <<"document", d>> \in UNION runtimeAttested =>
         \E t \in Runtime!Targets : RuntimeDone(t) /\ d = runtimeBuilt[t]

RuntimeSigned(w) == Runtime!Content(w) \in UNION runtimeAttested

RuntimeSettled == {w \in runtimeConfirmed : RuntimeSigned(w)}

RuntimeVerified(i) == RuntimeItems(runtimeLoaded[i]) \subseteq RuntimeSettled

RuntimeSetIsShaped ==
  runtimePlace \in {"hash", "ask", "after", "accepted"} =>
      {runtimeLoaded[i].target : i \in 1..2} = Runtime!Targets

\* The paths of a document that have been hashed.
RuntimeMet(i) == {s[1] : s \in runtimeLoaded[i].subjects \ runtimeWork}

PathsAreMet ==
  /\ runtimePlace \in {"build", "walk", "attest", "carry", "load", "shape"} => runtimeListed = {}
  /\ runtimePlace = "hash" => runtimeWork \subseteq runtimeLoaded[runtimeAt].subjects
  /\ runtimePlace = "hash" /\ runtimeAt = 1 => runtimeListed = RuntimeMet(1)
  /\ runtimePlace \in {"ask", "after"} /\ runtimeAt = 1 =>
       runtimeListed = RuntimePathsOf(runtimeLoaded[1])
  /\ runtimePlace = "hash" /\ runtimeAt = 2 =>
       /\ runtimeListed = RuntimePathsOf(runtimeLoaded[1]) \cup RuntimeMet(2)
       /\ RuntimePathsOf(runtimeLoaded[1]) \cap RuntimeMet(2) = {}
  /\ (runtimePlace \in {"ask", "after"} /\ runtimeAt = 2) \/ runtimePlace = "accepted" =>
       /\ runtimeListed = RuntimePathsOf(runtimeLoaded[1]) \cup RuntimePathsOf(runtimeLoaded[2])
       /\ RuntimePathsOf(runtimeLoaded[1]) \cap RuntimePathsOf(runtimeLoaded[2]) = {}

RuntimeItemsAreKept ==
  /\ runtimePlace = "ask" =>
       RuntimeItems(runtimeLoaded[runtimeAt]) \subseteq RuntimeSettled \cup runtimeWork
  /\ runtimePlace = "after" =>
       /\ RuntimeSigned(runtimeAsked)
       /\ RuntimeItems(runtimeLoaded[runtimeAt]) \subseteq
            RuntimeSettled \cup runtimeWork \cup {runtimeAsked}
  /\ runtimePlace \in {"hash", "ask", "after"} /\ runtimeAt = 2 => RuntimeVerified(1)
  /\ runtimePlace = "accepted" => RuntimeVerified(1) /\ RuntimeVerified(2)

RuntimeInv ==
  /\ RuntimeTypes
  /\ RuntimeWalks
  /\ RuntimeOnlyBuiltIsAttested
  /\ RuntimeSetIsShaped
  /\ PathsAreMet
  /\ RuntimeItemsAreKept

LEMMA InitRuntime == Runtime!RuntimeInit => RuntimeInv
BY
  DEF Runtime!RuntimeInit, RuntimeInv, RuntimeTypes, RuntimeWalks, RuntimeOnlyBuiltIsAttested,
      RuntimeSetIsShaped, PathsAreMet, RuntimeItemsAreKept, RuntimeDone, Runtime!Targets

\* The contents of a document and of a file are never equal.
LEMMA RuntimeContents ==
  /\ \A d : Runtime!Content(Runtime!DocumentItem(d)) = <<"document", d>>
  /\ \A w, d : w[1][1] # "document" => Runtime!Content(w) # <<"document", d>>
BY DEF Runtime!Content, Runtime!DocumentItem

\* A file of a new path can be added to a listing, which may begin with one file.
LEMMA ListingGrows ==
  ASSUME NEW S, Listing(S), NEW p, NEW v, p[1] # "document", \A s \in S : s[1] # p
  PROVE  Listing(S \cup {<<p, v>>})
<1>1. IsFiniteSet(S \cup {<<p, v>>})
  <2>1. IsFiniteSet({<<p, v>>})
    BY FS_Singleton
  <2> QED BY <2>1, FS_Union DEF Listing
<1> QED BY <1>1 DEF Listing

LEMMA ListingBegins ==
  ASSUME NEW p, NEW v, p[1] # "document"
  PROVE  Listing({<<p, v>>})
<1>1. IsFiniteSet({<<p, v>>})
  BY FS_Singleton
<1> QED BY <1>1 DEF Listing

\* As many paths are met in a listing as it has files.
LEMMA ListingCounts ==
  ASSUME NEW d, Listing(d.subjects)
  PROVE  /\ IsFiniteSet(RuntimePathsOf(d))
         /\ Cardinality(RuntimePathsOf(d)) = Cardinality(d.subjects)
<1> DEFINE f == [s \in d.subjects |-> s[1]]
<1>1. f \in Bijection(d.subjects, RuntimePathsOf(d))
  BY DEF Bijection, Injection, IsInjective, Surjection, RuntimePathsOf, Listing
<1>2. ExistsBijection(d.subjects, RuntimePathsOf(d))
  BY <1>1 DEF ExistsBijection
<1> QED BY <1>2, FS_Bijection DEF Listing

\* A job that changes its own document leaves those that are attested.
LEMMA RuntimeDrafts ==
  ASSUME RuntimeInv, runtimePlace \in {"build", "walk"}, runtimePlace' \in {"walk", "attest"},
         UNCHANGED <<runtimeAttested, runtimeAt, runtimeLoaded, runtimeListed>>,
         NEW d, runtimeBuilt' = [runtimeBuilt EXCEPT ![runtimeAt] = d],
         d.target = runtimeAt, Listing(d.subjects),
         runtimePlace' = "walk" =>
           /\ {"target", "subjects"} \subseteq DOMAIN d
           /\ \A p \in runtimeWork' : p[1] # "document" /\ p \notin RuntimePathsOf(d)
  PROVE  RuntimeInv'
<1> USE DEF RuntimeInv, RuntimeTypes
<1>1. /\ runtimeAt \in Runtime!Targets
      /\ \A t \in Runtime!Targets : RuntimeDone(t)' = RuntimeDone(t)
      /\ \A t \in Runtime!Targets : RuntimeDone(t) => t # runtimeAt
  BY DEF RuntimeDone, Runtime!Targets
<1>2. runtimeBuilt'[runtimeAt] = d /\
        \A t \in Runtime!Targets : t # runtimeAt => runtimeBuilt'[t] = runtimeBuilt[t]
  BY <1>1
<1>3. RuntimeOnlyBuiltIsAttested'
  BY <1>1, <1>2 DEF RuntimeOnlyBuiltIsAttested, RuntimeWritten
<1>4. RuntimeWalks'
  BY <1>2 DEF RuntimeWalks
<1> QED BY <1>1, <1>3, <1>4 DEF RuntimeSetIsShaped, PathsAreMet, RuntimeItemsAreKept

LEMMA RuntimeJobsStep ==
  ASSUME RuntimeInv,
         Runtime!BuildDocument \/ Runtime!HashEvidence \/ Runtime!Attest \/ Runtime!Carry
  PROVE  RuntimeInv'
<1> USE DEF RuntimeInv, RuntimeTypes
<1>1. CASE Runtime!BuildDocument
  <2> DEFINE binary == <<"binary", runtimeAt>>
             d == [run |-> "expected", host |-> "hosted", target |-> runtimeAt,
                   subjects |-> {<<binary, runtimeFiles[binary]>>}]
  <2>1. /\ runtimePlace = "build" /\ runtimePlace' = "walk"
        /\ runtimeBuilt' = [runtimeBuilt EXCEPT ![runtimeAt] = d]
        /\ runtimeWork' = Runtime!EvidenceDirectory(runtimeAt)
        /\ UNCHANGED <<runtimeAttested, runtimeAt, runtimeLoaded, runtimeListed>>
    BY <1>1 DEF Runtime!BuildDocument
  <2>2. /\ Listing(d.subjects) /\ d.target = runtimeAt
        /\ {"target", "subjects"} \subseteq DOMAIN d
    BY ListingBegins
  <2>3. \A p \in runtimeWork' : p[1] # "document" /\ p \notin RuntimePathsOf(d)
    BY <2>1 DEF Runtime!EvidenceDirectory, RuntimePathsOf
  <2> HIDE DEF d, binary
  <2> QED BY <2>1, <2>2, <2>3, RuntimeDrafts
<1>2. CASE Runtime!HashEvidence
  <2>1. PICK p \in runtimeWork :
          /\ runtimeBuilt' = [runtimeBuilt EXCEPT ![runtimeAt].subjects =
               @ \cup {<<p, runtimeFiles[p]>>}]
          /\ runtimeWork' = runtimeWork \ {p}
          /\ IF runtimeWork = {p} THEN runtimePlace' = "attest" ELSE UNCHANGED runtimePlace
    BY <1>2 DEF Runtime!HashEvidence
  <2> DEFINE old == runtimeBuilt[runtimeAt]
             d == [old EXCEPT !.subjects = @ \cup {<<p, runtimeFiles[p]>>}]
  <2>2. /\ runtimePlace = "walk" /\ runtimePlace' \in {"walk", "attest"}
        /\ UNCHANGED <<runtimeAttested, runtimeAt, runtimeLoaded, runtimeListed>>
    BY <1>2, <2>1 DEF Runtime!HashEvidence
  <2>3. RuntimeWritten(runtimeAt) /\ runtimeAt \in Runtime!Targets
    BY <2>2 DEF RuntimeOnlyBuiltIsAttested, Runtime!Targets
  <2>4. p[1] # "document" /\ p \notin RuntimePathsOf(old)
    BY <2>2 DEF RuntimeWalks
  <2>5. Listing(old.subjects \cup {<<p, runtimeFiles[p]>>})
    BY <2>3, <2>4, ListingGrows DEF RuntimeWritten, RuntimePathsOf
  <2>6. /\ runtimeBuilt' = [runtimeBuilt EXCEPT ![runtimeAt] = d]
        /\ {"target", "subjects"} \subseteq DOMAIN d
        /\ d.target = runtimeAt
        /\ d.subjects = old.subjects \cup {<<p, runtimeFiles[p]>>}
    <3>1. {"target", "subjects"} \subseteq DOMAIN old
      <4>1. RuntimeWalks
        BY DEF RuntimeInv
      <4> QED BY <2>2, <4>1, Zenon DEF RuntimeWalks
    <3>3. old.target = runtimeAt
      BY <2>3, Zenon DEF RuntimeWritten
    <3>2. runtimeBuilt' = [runtimeBuilt EXCEPT ![runtimeAt] = d]
      BY <2>1, Zenon
    <3> HIDE DEF old
    <3> QED BY <3>1, <3>2, <3>3
  <2>7. runtimePlace' = "walk" =>
          \A q \in runtimeWork' : q[1] # "document" /\ q \notin RuntimePathsOf(d)
    BY <2>1, <2>2, <2>6 DEF RuntimeWalks, RuntimePathsOf
  <2> HIDE DEF d
  <2> QED BY <2>2, <2>5, <2>6, <2>7, RuntimeDrafts
<1>3. CASE Runtime!Attest
  <2> DEFINE signed == {Runtime!Content(Runtime!DocumentItem(runtimeBuilt[runtimeAt]))} \cup
               {Runtime!Content(<<s[1], runtimeFiles[s[1]]>>) :
                  s \in runtimeBuilt[runtimeAt].subjects}
  <2>1. /\ runtimePlace = "attest" /\ runtimeAttested' = runtimeAttested \cup {signed}
        /\ runtimePlace' \in {"build", "carry"} /\ runtimeAt' \in 1..2
        /\ UNCHANGED <<runtimeBuilt, runtimeLoaded, runtimeListed>>
    BY <1>3 DEF Runtime!Attest
  <2>2. runtimeAt \in Runtime!Targets /\ RuntimeWritten(runtimeAt)
    BY <2>1 DEF RuntimeOnlyBuiltIsAttested, Runtime!Targets
  <2>3. \A t \in Runtime!Targets : RuntimeDone(t)' <=> RuntimeDone(t) \/ t = runtimeAt
    BY <1>3 DEF Runtime!Attest, RuntimeDone, Runtime!Targets
  <2>4. \A d : <<"document", d>> \in signed => d = runtimeBuilt[runtimeAt]
    <3>1. \A s \in runtimeBuilt[runtimeAt].subjects : \A d :
            Runtime!Content(<<s[1], runtimeFiles[s[1]]>>) # <<"document", d>>
      <4>1. \A s \in runtimeBuilt[runtimeAt].subjects : s[1][1] # "document"
        BY <2>2 DEF RuntimeWritten, Listing
      <4> QED BY <4>1, RuntimeContents
    <3>2. ASSUME NEW d, <<"document", d>> \in signed
          PROVE  d = runtimeBuilt[runtimeAt]
      <4>1. \/ <<"document", d>> = Runtime!Content(Runtime!DocumentItem(runtimeBuilt[runtimeAt]))
            \/ \E s \in runtimeBuilt[runtimeAt].subjects :
                 <<"document", d>> = Runtime!Content(<<s[1], runtimeFiles[s[1]]>>)
        BY <3>2, Zenon
      <4>2. <<"document", d>> = Runtime!Content(Runtime!DocumentItem(runtimeBuilt[runtimeAt]))
        BY <4>1, <3>1, Zenon
      <4> QED BY <4>2, RuntimeContents
    <3> QED BY <3>2
  <2>5. \A d : <<"document", d>> \in UNION runtimeAttested' =>
          <<"document", d>> \in UNION runtimeAttested \/ d = runtimeBuilt[runtimeAt]
    <3> HIDE DEF signed
    <3> QED BY <2>1, <2>4
  <2>6. RuntimeOnlyBuiltIsAttested'
    BY <2>1, <2>2, <2>3, <2>5 DEF RuntimeOnlyBuiltIsAttested, RuntimeWritten
  <2> QED BY <2>1, <2>6 DEF RuntimeWalks, RuntimeSetIsShaped, PathsAreMet, RuntimeItemsAreKept
<1>4. CASE Runtime!Carry
  BY <1>4
    DEF Runtime!Carry, RuntimeWalks, RuntimeOnlyBuiltIsAttested, RuntimeDone, RuntimeWritten,
        RuntimeSetIsShaped, PathsAreMet, RuntimeItemsAreKept
<1> QED BY <1>1, <1>2, <1>3, <1>4

\* Past the jobs, nothing is built or attested any more.
LEMMA RuntimeKeepsAttested ==
  ASSUME RuntimeOnlyBuiltIsAttested,
         runtimePlace \notin {"build", "walk", "attest", "refused"},
         runtimePlace' \notin {"build", "walk", "attest"},
         UNCHANGED <<runtimeBuilt, runtimeAttested>>
  PROVE  RuntimeOnlyBuiltIsAttested' /\ RuntimeWalks'
BY DEF RuntimeOnlyBuiltIsAttested, RuntimeDone, RuntimeWritten, RuntimeWalks

\* What is settled stays so, and what was asked for becomes so.
LEMMA RuntimeSettles ==
  ASSUME UNCHANGED runtimeAttested, runtimeConfirmed \subseteq runtimeConfirmed'
  PROVE  /\ RuntimeSettled \subseteq RuntimeSettled'
         /\ \A w \in runtimeConfirmed' : RuntimeSigned(w) => w \in RuntimeSettled'
BY DEF RuntimeSettled, RuntimeSigned

LEMMA RuntimeReadingStep ==
  ASSUME RuntimeInv, Runtime!LoadDocument \/ Runtime!ValidateSetShape
  PROVE  RuntimeInv'
<1> USE DEF RuntimeInv, RuntimeTypes
<1>1. RuntimeOnlyBuiltIsAttested' /\ RuntimeWalks'
  BY RuntimeKeepsAttested DEF Runtime!LoadDocument, Runtime!ValidateSetShape
<1>2. CASE Runtime!LoadDocument
  BY <1>1, <1>2 DEF Runtime!LoadDocument, RuntimeSetIsShaped, PathsAreMet, RuntimeItemsAreKept
<1>3. CASE Runtime!ValidateSetShape
  <2>1. /\ runtimePlace = "shape" /\ runtimePlace' = "hash" /\ runtimeAt = 1
        /\ runtimeWork' = runtimeLoaded[1].subjects
        /\ {runtimeLoaded[i].target : i \in 1..2} = Runtime!Targets
        /\ UNCHANGED <<runtimeAt, runtimeLoaded, runtimeListed>>
    BY <1>3 DEF Runtime!ValidateSetShape
  <2>3. runtimeListed = {} /\ RuntimeMet(1)' = {}
    BY <2>1 DEF PathsAreMet, RuntimeMet
  <2>2. PathsAreMet'
    BY <2>1, <2>3 DEF PathsAreMet
  <2>4. RuntimeSetIsShaped'
    BY <2>1 DEF RuntimeSetIsShaped
  <2>5. RuntimeItemsAreKept'
    BY <2>1 DEF RuntimeItemsAreKept
  <2>6. RuntimeTypes'
    BY <1>3 DEF Runtime!ValidateSetShape
  <2> QED BY <1>1, <2>2, <2>4, <2>5, <2>6
<1> QED BY <1>2, <1>3

LEMMA RuntimeHashStep ==
  ASSUME RuntimeInv, Runtime!HashSubject
  PROVE  RuntimeInv'
<1> USE DEF RuntimeInv, RuntimeTypes
<1>1. /\ runtimePlace = "hash" /\ runtimePlace' \in {"hash", "ask"}
      /\ UNCHANGED <<runtimeBuilt, runtimeAttested, runtimeAt, runtimeLoaded, runtimeConfirmed>>
  BY DEF Runtime!HashSubject, Runtime!HashedBut
<1>2. RuntimeOnlyBuiltIsAttested' /\ RuntimeWalks'
  BY <1>1, RuntimeKeepsAttested
<1>3. PICK s \in runtimeWork :
        s[1] \notin runtimeListed /\ runtimeListed' = runtimeListed \cup {s[1]} /\
          Runtime!HashedBut(s)
  BY DEF Runtime!HashSubject
<1> DEFINE S == runtimeLoaded[runtimeAt].subjects
<1>4. runtimeWork \subseteq S /\ s \in S
  BY <1>1, <1>3 DEF PathsAreMet
<1>5. {u[1] : u \in S \ (runtimeWork \ {s})} = {u[1] : u \in S \ runtimeWork} \cup {s[1]}
  BY <1>3, <1>4
<1>6. CASE runtimeWork = {s}
  <2>1. /\ runtimePlace' = "ask"
        /\ runtimeWork' = RuntimeItems(runtimeLoaded[runtimeAt])
    BY <1>3, <1>6 DEF Runtime!HashedBut, RuntimeItems
  <2>2. RuntimePathsOf(runtimeLoaded[runtimeAt]) = {u[1] : u \in S \ runtimeWork} \cup {s[1]}
    BY <1>4, <1>6 DEF RuntimePathsOf
  <2>3. PathsAreMet'
    BY <1>1, <1>3, <2>1, <2>2 DEF PathsAreMet, RuntimeMet
  <2>4. RuntimeItemsAreKept'
    BY <1>1, <2>1 DEF RuntimeItemsAreKept, RuntimeVerified, RuntimeSettled, RuntimeSigned
  <2> QED BY <1>1, <1>2, <2>1, <2>3, <2>4 DEF RuntimeSetIsShaped
<1>7. CASE runtimeWork # {s}
  <2>1. runtimePlace' = "hash" /\ runtimeWork' = runtimeWork \ {s}
    BY <1>1, <1>3, <1>7 DEF Runtime!HashedBut
  <2>2. PathsAreMet'
    BY <1>1, <1>3, <1>4, <1>5, <2>1 DEF PathsAreMet, RuntimeMet
  <2>3. RuntimeItemsAreKept'
    BY <1>1, <2>1 DEF RuntimeItemsAreKept, RuntimeVerified, RuntimeSettled, RuntimeSigned
  <2> QED BY <1>1, <1>2, <2>1, <2>2, <2>3 DEF RuntimeSetIsShaped
<1> QED BY <1>6, <1>7

LEMMA RuntimeAuthenticateStep ==
  ASSUME RuntimeInv, Runtime!AskGitHub \/ Runtime!RecheckArtifact
  PROVE  RuntimeInv'
<1> USE DEF RuntimeInv, RuntimeTypes
<1>1. RuntimeOnlyBuiltIsAttested' /\ RuntimeWalks'
  BY RuntimeKeepsAttested DEF Runtime!AskGitHub, Runtime!RecheckArtifact
<1>2. CASE Runtime!AskGitHub
  <2>1. /\ runtimePlace = "ask" /\ runtimePlace' = "after"
        /\ RuntimeSigned(runtimeAsked')
        /\ runtimeWork' = runtimeWork \ {runtimeAsked'}
        /\ UNCHANGED <<runtimeBuilt, runtimeAttested, runtimeAt, runtimeLoaded, runtimeListed,
             runtimeConfirmed>>
    BY <1>2 DEF Runtime!AskGitHub, Runtime!Authenticated, RuntimeSigned
  <2>2. RuntimeSettled' = RuntimeSettled /\ RuntimeSigned(runtimeAsked)'
    BY <2>1 DEF RuntimeSettled, RuntimeSigned
  <2>3. RuntimeItemsAreKept'
    BY <2>1, <2>2 DEF RuntimeItemsAreKept, RuntimeVerified
  <2> QED BY <1>1, <2>1, <2>3 DEF RuntimeSetIsShaped, PathsAreMet
<1>3. CASE Runtime!RecheckArtifact
  <2>1. /\ runtimePlace = "after" /\ runtimeConfirmed' = runtimeConfirmed \cup {runtimeAsked}
        /\ RuntimeSigned(runtimeAsked)
        /\ RuntimeItems(runtimeLoaded[runtimeAt]) \subseteq
             RuntimeSettled \cup runtimeWork \cup {runtimeAsked}
        /\ UNCHANGED <<runtimeBuilt, runtimeAttested, runtimeLoaded, runtimeListed>>
    BY <1>3 DEF Runtime!RecheckArtifact, RuntimeItemsAreKept
  <2>2. RuntimeItems(runtimeLoaded[runtimeAt]) \subseteq RuntimeSettled' \cup runtimeWork
    BY <2>1, RuntimeSettles
  <2>3. runtimeAt = 2 => RuntimeVerified(1)'
    BY <2>1, RuntimeSettles DEF RuntimeItemsAreKept, RuntimeVerified
  <2>4. CASE runtimeWork # {}
    <3>1. runtimePlace' = "ask" /\ UNCHANGED <<runtimeAt, runtimeWork>>
      BY <1>3, <2>4 DEF Runtime!RecheckArtifact
    <3> QED BY <1>1, <2>1, <2>2, <2>3, <3>1
      DEF RuntimeSetIsShaped, PathsAreMet, RuntimeItemsAreKept
  <2>5. CASE runtimeWork = {} /\ runtimeAt = 1
    <3>1. /\ runtimePlace' = "hash" /\ runtimeAt' = 2 /\ RuntimeVerified(1)'
          /\ runtimeWork' = runtimeLoaded[2].subjects
      BY <1>3, <2>1, <2>2, <2>5 DEF Runtime!RecheckArtifact, RuntimeVerified
    <3>2. RuntimeMet(2)' = {}
      BY <2>1, <3>1 DEF RuntimeMet
    <3>3. PathsAreMet'
      BY <2>1, <2>5, <3>1, <3>2 DEF PathsAreMet
    <3> QED BY <1>1, <2>1, <3>1, <3>3 DEF RuntimeSetIsShaped, RuntimeItemsAreKept
  <2>6. CASE runtimeWork = {} /\ runtimeAt = 2
    <3>1. runtimePlace' = "accepted" /\ runtimeAt' = 2 /\ RuntimeVerified(2)'
      BY <1>3, <2>1, <2>2, <2>6 DEF Runtime!RecheckArtifact, RuntimeVerified
    <3> QED BY <1>1, <2>1, <2>3, <2>6, <3>1
      DEF RuntimeSetIsShaped, PathsAreMet, RuntimeItemsAreKept
  <2> QED BY <2>4, <2>5, <2>6
<1> QED BY <1>2, <1>3

LEMMA RuntimeWorldStep ==
  ASSUME RuntimeInv, Runtime!Rewrite \/ Runtime!Refuse \/ UNCHANGED Runtime!vars
  PROVE  RuntimeInv'
<1> USE DEF RuntimeInv, RuntimeTypes
<1>1. UNCHANGED <<runtimeBuilt, runtimeAttested, runtimeAt, runtimeLoaded, runtimeListed,
        runtimeWork, runtimeAsked, runtimeConfirmed>>
  BY DEF Runtime!Rewrite, Runtime!Refuse, Runtime!vars
<1>2. CASE runtimePlace' = runtimePlace
  <2>1. RuntimeSettled' = RuntimeSettled /\ RuntimeSigned(runtimeAsked)' = RuntimeSigned(runtimeAsked)
    BY <1>1 DEF RuntimeSettled, RuntimeSigned
  <2>2. RuntimeItemsAreKept'
    BY <1>1, <1>2, <2>1 DEF RuntimeItemsAreKept, RuntimeVerified
  <2> QED BY <1>1, <1>2, <2>2
    DEF RuntimeWalks, RuntimeOnlyBuiltIsAttested, RuntimeDone, RuntimeWritten, RuntimeSetIsShaped,
        PathsAreMet, RuntimeMet
<1>3. CASE Runtime!Refuse
  <2>1. runtimePlace' = "refused" /\ runtimePlace \notin {"accepted", "refused"}
    BY <1>3 DEF Runtime!Refuse, Runtime!Ended
  <2> QED BY <1>1, <2>1
    DEF RuntimeWalks, RuntimeOnlyBuiltIsAttested, RuntimeDone, RuntimeWritten, RuntimeSetIsShaped,
        PathsAreMet, RuntimeItemsAreKept
<1> QED BY <1>2, <1>3 DEF Runtime!Rewrite, Runtime!vars

LEMMA StepRuntime ==
  ASSUME RuntimeInv, Runtime!RuntimeNext \/ UNCHANGED Runtime!vars
  PROVE  RuntimeInv'
BY RuntimeJobsStep, RuntimeReadingStep, RuntimeHashStep, RuntimeAuthenticateStep,
    RuntimeWorldStep DEF Runtime!RuntimeNext

LEMMA RuntimeCardinality == \A S : Runtime!Cardinality(S) = Cardinality(S)
BY Zenon DEF Runtime!Cardinality, Cardinality

LEMMA RuntimeFacts == RuntimeInv => Runtime!AcceptedIsWhatWasBuilt
<1> SUFFICES ASSUME RuntimeInv, runtimePlace = "accepted" PROVE Runtime!AcceptedIsWhatWasBuilt
  BY DEF Runtime!AcceptedIsWhatWasBuilt
<1>1. /\ RuntimeVerified(1) /\ RuntimeVerified(2)
      /\ runtimeListed = RuntimePathsOf(runtimeLoaded[1]) \cup RuntimePathsOf(runtimeLoaded[2])
      /\ RuntimePathsOf(runtimeLoaded[1]) \cap RuntimePathsOf(runtimeLoaded[2]) = {}
      /\ {runtimeLoaded[i].target : i \in 1..2} = Runtime!Targets
  BY DEF RuntimeInv, RuntimeItemsAreKept, PathsAreMet, RuntimeSetIsShaped
<1>2. \A i \in 1..2 : \E t \in Runtime!Targets :
        runtimeLoaded[i] = runtimeBuilt[t] /\ RuntimeWritten(t)
  <2>1. \A i \in 1..2 : RuntimeSigned(Runtime!DocumentItem(runtimeLoaded[i]))
    BY <1>1 DEF RuntimeVerified, RuntimeItems, RuntimeSettled
  <2>2. \A i \in 1..2 : <<"document", runtimeLoaded[i]>> \in UNION runtimeAttested
    BY <2>1, RuntimeContents DEF RuntimeSigned
  <2> QED BY <2>2 DEF RuntimeInv, RuntimeOnlyBuiltIsAttested
<1>3. \A t \in Runtime!Targets : \E i \in 1..2 : runtimeLoaded[i] = runtimeBuilt[t]
  BY <1>1, <1>2 DEF RuntimeWritten
<1>4. Listing(runtimeLoaded[1].subjects) /\ Listing(runtimeLoaded[2].subjects)
  BY <1>2 DEF RuntimeWritten
<1>5. Cardinality(runtimeListed) =
        Cardinality(runtimeLoaded[1].subjects) + Cardinality(runtimeLoaded[2].subjects)
  <2>1. /\ IsFiniteSet(RuntimePathsOf(runtimeLoaded[1]))
        /\ IsFiniteSet(RuntimePathsOf(runtimeLoaded[2]))
        /\ Cardinality(RuntimePathsOf(runtimeLoaded[1])) = Cardinality(runtimeLoaded[1].subjects)
        /\ Cardinality(RuntimePathsOf(runtimeLoaded[2])) = Cardinality(runtimeLoaded[2].subjects)
    BY <1>4, ListingCounts
  <2>2. Cardinality({}) = 0
    BY FS_EmptySet
  <2>3. /\ Cardinality(RuntimePathsOf(runtimeLoaded[1])) \in Nat
        /\ Cardinality(RuntimePathsOf(runtimeLoaded[2])) \in Nat
    BY <2>1, FS_CardinalityType
  <2>4. Cardinality(runtimeListed) =
          Cardinality(RuntimePathsOf(runtimeLoaded[1]))
            + Cardinality(RuntimePathsOf(runtimeLoaded[2])) - 0
    BY <1>1, <2>1, <2>2, FS_Union
  <2> QED BY <2>1, <2>3, <2>4
<1>6. \A i \in 1..2 :
        /\ RuntimeItems(runtimeLoaded[i]) \subseteq runtimeConfirmed
        /\ \A s \in runtimeLoaded[i].subjects : Runtime!Content(s) \in UNION runtimeAttested
  BY <1>1 DEF RuntimeVerified, RuntimeSettled, RuntimeItems, RuntimeSigned
<1> QED
  BY <1>3, <1>5, <1>6, RuntimeCardinality
  DEF Runtime!AcceptedIsWhatWasBuilt, RuntimeItems

-----------------------------------------------------------------------------
(* Package attestations. As for runtimes, what is confirmed is what a job  *)
(* wrote. While no file changes on the side of the jobs, a job hashes what *)
(* it has checked; while none changes on the side of the verifier, the     *)
(* verifier hashes what it has checked. Either makes a document true.      *)

Checked == {"staging", "log"}

\* The tree and the log that a document declares are of its package.
TrueDocument(d) == \A r \in Checked : d.sha256[r] = Install!Says(d.package)

InstallDone(t) == installPlace \notin {"begin", "log", "write", "attest"} \/ t < installAt

InstallItems(d) == {Install!DocumentItem(d)} \cup Install!Subjects(d)
InstallPathsOf(d) == {s[1] : s \in Install!Subjects(d)}

PackageTypes ==
  /\ DOMAIN installBuilt = Install!Packages /\ DOMAIN installLoaded = 1..2
  /\ DOMAIN installFiles = Install!Paths
  /\ installAt \in 1..2 /\ (installPlace \in {"carry", "shape"} => installAt = 1)
  /\ installPlace \in {"begin", "log", "write", "attest", "carry", "load", "shape", "staging",
       "evidence",
               "hash", "ask", "after", "accepted", "refused"}
  /\ touched \subseteq {"job", "verifier"}

JobsAreUntouched ==
  installPlace \in {"begin", "log", "write", "attest", "carry"} /\ "job" \notin touched =>
    \A p \in Install!Paths : installFiles[p] = Install!Says(p[2])

Drafted ==
  installPlace \in {"log", "write"} =>
    /\ draft = [run |-> draft.run, package |-> draft.package, sha256 |-> draft.sha256,
                path |-> draft.path]
    /\ draft.package = installAt
    /\ \A r \in Install!Roles : draft.path[r] \in Install!Paths
    /\ \A r \in Checked : draft.path[r] = <<r, installAt>>
    /\ "job" \notin touched =>
         \A r \in Checked \cap DOMAIN draft.sha256 : draft.sha256[r] = Install!Says(installAt)

InstallWritten(t) ==
  /\ installBuilt[t].package = t
  /\ DOMAIN installBuilt[t].sha256 = Install!Roles
  /\ \A r \in Install!Roles : installBuilt[t].path[r] \in Install!Paths
  /\ "job" \notin touched => TrueDocument(installBuilt[t])

InstallOnlyBuiltIsAttested ==
  installPlace # "refused" =>
    /\ \A t \in Install!Packages : InstallDone(t) => InstallWritten(t)
    /\ installPlace = "attest" => InstallWritten(installAt)
    /\ \A d : <<"document", d>> \in UNION installAttested =>
         \E t \in Install!Packages : InstallDone(t) /\ d = installBuilt[t]

InstallVerifier == {"staging", "evidence", "hash", "ask", "after", "accepted"}

InstallSetIsShaped ==
  /\ installPlace = "load" /\ installAt = 2 => DOMAIN installLoaded[1].sha256 = Install!Roles
  /\ installPlace \in {"shape"} \cup InstallVerifier =>
       \A i \in 1..2 : DOMAIN installLoaded[i].sha256 = Install!Roles
  /\ installPlace \in InstallVerifier =>
       {installLoaded[i].package : i \in 1..2} = Install!Packages

\* The paths of the first document do not occur in the second one.
PathsAreApart ==
  /\ installPlace = "hash" /\ installAt = 1 =>
       /\ installWork \subseteq Install!Subjects(installLoaded[1])
       /\ \A s \in Install!Subjects(installLoaded[1]) :
            s \in installWork \/ s[1] \in installListed
  /\ installPlace \in {"ask", "after"} /\ installAt = 1 =>
       InstallPathsOf(installLoaded[1]) \subseteq installListed
  /\ installPlace \in InstallVerifier /\ installAt = 2 =>
       InstallPathsOf(installLoaded[1]) \subseteq installListed
  /\ installPlace = "hash" /\ installAt = 2 =>
       \A s \in Install!Subjects(installLoaded[2]) :
           s \in installWork \/ s[1] \notin InstallPathsOf(installLoaded[1])
  /\ installPlace \in {"ask", "after"} /\ installAt = 2 =>
       InstallPathsOf(installLoaded[1]) \cap InstallPathsOf(installLoaded[2]) = {}
  /\ installPlace = "accepted" => installAt = 2 /\
       InstallPathsOf(installLoaded[1]) \cap InstallPathsOf(installLoaded[2]) = {}

Agrees(i, r) == installFiles[installLoaded[i].path[r]] = Install!Says(installLoaded[i].package)

\* What the verifier checked is what it hashes, while nothing changes.
CheckedIsHashed ==
  "verifier" \notin touched =>
    /\ installPlace = "evidence" => Agrees(installAt, "staging")
    /\ installPlace = "hash" =>
         /\ Agrees(installAt, "staging") /\ Agrees(installAt, "log")
         /\ \A s \in Install!Subjects(installLoaded[installAt]) :
              s \in installWork \/ installFiles[s[1]] = s[2]
    /\ installPlace \in {"ask", "after", "accepted"} => TrueDocument(installLoaded[installAt])
    /\ installPlace \in InstallVerifier /\ installAt = 2 => TrueDocument(installLoaded[1])

InstallSigned(w) == Install!Content(w) \in UNION installAttested

InstallSettled == {w \in installConfirmed : InstallSigned(w)}

InstallVerified(i) == InstallItems(installLoaded[i]) \subseteq InstallSettled

InstallItemsAreKept ==
  /\ installPlace = "ask" =>
       InstallItems(installLoaded[installAt]) \subseteq InstallSettled \cup installWork
  /\ installPlace = "after" =>
       /\ InstallSigned(installAsked)
       /\ InstallItems(installLoaded[installAt]) \subseteq
            InstallSettled \cup installWork \cup {installAsked}
  /\ installPlace \in InstallVerifier /\ installAt = 2 => InstallVerified(1)
  /\ installPlace = "accepted" => installAt = 2 /\ InstallVerified(2)

PackageInv ==
  /\ PackageTypes
  /\ JobsAreUntouched
  /\ Drafted
  /\ InstallOnlyBuiltIsAttested
  /\ InstallSetIsShaped
  /\ PathsAreApart
  /\ CheckedIsHashed
  /\ InstallItemsAreKept

LEMMA InitPackage == Install!PackageInit => PackageInv
<1> SUFFICES ASSUME Install!PackageInit PROVE PackageInv
  OBVIOUS
<1>1. installPlace = "begin" /\ installAt = 1 /\ installAttested = {} /\ touched = {}
      /\ installFiles = [p \in Install!Paths |-> Install!Says(p[2])]
      /\ DOMAIN installBuilt = Install!Packages /\ DOMAIN installLoaded = 1..2
  BY DEF Install!PackageInit, Install!Packages
<1> QED
  BY <1>1
    DEF PackageInv, PackageTypes, JobsAreUntouched, Drafted, InstallOnlyBuiltIsAttested,
        InstallSetIsShaped, PathsAreApart, CheckedIsHashed, InstallItemsAreKept, InstallDone,
        Install!Packages, InstallVerifier

\* The verifier's part of the invariant says nothing of the jobs.
LEMMA InstallVerifierWaits ==
  ASSUME installPlace' \notin {"load", "shape"} \cup InstallVerifier
  PROVE  InstallSetIsShaped' /\ PathsAreApart' /\ CheckedIsHashed' /\ InstallItemsAreKept'
BY DEF InstallSetIsShaped, PathsAreApart, CheckedIsHashed, InstallItemsAreKept, InstallVerifier

LEMMA InstallJobStep ==
  ASSUME PackageInv, Install!Begin \/ Install!CheckLog \/ Install!HashPath \/ Install!WriteNew
  PROVE  PackageInv'
<1> USE DEF PackageInv, PackageTypes
<1>0. /\ installPlace \in {"begin", "log", "write"}
      /\ installPlace' \in {"log", "write", "attest"}
      /\ UNCHANGED <<installFiles, installAttested, touched, installAt, installLoaded>>
  BY DEF Install!Begin, Install!CheckLog, Install!HashPath, Install!WriteNew
<1>1. /\ InstallSetIsShaped' /\ PathsAreApart' /\ CheckedIsHashed' /\ InstallItemsAreKept'
      /\ JobsAreUntouched'
  BY <1>0, InstallVerifierWaits DEF InstallVerifier, JobsAreUntouched
<1>2. \A t \in Install!Packages : InstallDone(t)' <=> InstallDone(t)
  BY <1>0 DEF InstallDone
<1>3. CASE Install!Begin
  <2>1. PICK p \in {<<"package", installAt>>, <<"package", 1>>} :
          draft' = [run |-> "expected", package |-> installAt, sha256 |-> Install!NoSubjects,
                    path |-> [r \in Install!Roles |->
                        IF r = "package" THEN p ELSE <<r, installAt>>]]
    BY <1>3 DEF Install!Begin
  <2>2. installBuilt' = installBuilt /\ installPlace' = "log"
    BY <1>3 DEF Install!Begin
  <2>3. DOMAIN Install!NoSubjects = {}
    BY DEF Install!NoSubjects
  <2>4. Drafted'
    BY <1>0, <2>1, <2>2, <2>3 DEF Drafted, Install!Roles, Install!Paths, Install!Packages, Checked
  <2>5. InstallOnlyBuiltIsAttested'
    BY <1>0, <1>2, <2>2 DEF InstallOnlyBuiltIsAttested, InstallWritten
  <2> QED BY <1>0, <1>1, <2>2, <2>4, <2>5
<1>4. CASE Install!CheckLog
  BY <1>0, <1>1, <1>2, <1>4
    DEF Install!CheckLog, Drafted, InstallOnlyBuiltIsAttested, InstallWritten
<1>5. CASE Install!HashPath
  <2>1. installPlace = "write" /\ installPlace' = "write" /\ installBuilt' = installBuilt
    BY <1>5 DEF Install!HashPath
  <2>2. PICK r \in Install!Roles \ DOMAIN draft.sha256 :
          draft' = [draft EXCEPT !.sha256 =
            [s \in DOMAIN draft.sha256 \cup {r} |->
              IF s = r THEN installFiles[draft.path[r]] ELSE draft.sha256[s]]]
    BY <1>5 DEF Install!HashPath
  <2> DEFINE new == [s \in DOMAIN draft.sha256 \cup {r} |->
                       IF s = r THEN installFiles[draft.path[r]] ELSE draft.sha256[s]]
  <2>3. draft' = [run |-> draft.run, package |-> draft.package, sha256 |-> new,
                  path |-> draft.path]
    BY <2>1, <2>2 DEF Drafted
  <2>4. "job" \notin touched => \A s \in Checked \cap DOMAIN new :
          new[s] = Install!Says(installAt)
    <3> SUFFICES ASSUME "job" \notin touched, NEW s \in Checked \cap DOMAIN new
                 PROVE  new[s] = Install!Says(installAt)
      OBVIOUS
    <3>1. CASE s = r
      <4>1. draft.path[r] = <<r, installAt>> /\ <<r, installAt>> \in Install!Paths
        BY <2>1, <3>1 DEF Drafted
      <4>2. installFiles[<<r, installAt>>] = Install!Says(installAt)
        BY <2>1, <4>1 DEF JobsAreUntouched
      <4> QED BY <3>1, <4>1, <4>2
    <3>2. CASE s # r
      BY <2>1, <3>2 DEF Drafted
    <3> QED BY <3>1, <3>2
  <2> HIDE DEF new
  <2>5. Drafted'
    BY <1>0, <2>1, <2>3, <2>4 DEF Drafted
  <2>6. InstallOnlyBuiltIsAttested'
    BY <1>0, <1>2, <2>1 DEF InstallOnlyBuiltIsAttested, InstallWritten
  <2> QED BY <1>0, <1>1, <2>1, <2>5, <2>6
<1>6. CASE Install!WriteNew
  <2>1. /\ installPlace = "write" /\ installPlace' = "attest"
        /\ DOMAIN draft.sha256 = Install!Roles
        /\ installBuilt' = [installBuilt EXCEPT ![installAt] = draft]
    BY <1>6 DEF Install!WriteNew, Install!ValidateDocument
  <2>2. installAt \in Install!Packages /\ ~InstallDone(installAt)
    BY <2>1 DEF InstallDone, Install!Packages
  <2>3. InstallWritten(installAt)'
    BY <1>0, <2>1, <2>2 DEF Drafted, InstallWritten, TrueDocument, Checked, Install!Roles
  <2>4. InstallOnlyBuiltIsAttested'
    BY <1>0, <1>2, <2>1, <2>2, <2>3 DEF InstallOnlyBuiltIsAttested, InstallWritten
  <2> QED BY <1>0, <1>1, <2>1, <2>4 DEF Drafted
<1> QED BY <1>3, <1>4, <1>5, <1>6

\* The contents of a document and of a file are never equal.
LEMMA InstallContents ==
  /\ \A d : Install!Content(Install!DocumentItem(d)) = <<"document", d>>
  /\ \A w, d : w[1][1] # "document" => Install!Content(w) # <<"document", d>>
BY DEF Install!Content, Install!DocumentItem

\* The statement of a job has one document.
LEMMA InstallSigns ==
  ASSUME NEW t, InstallWritten(t), NEW d, <<"document", d>> \in Install!Signed(t)
  PROVE  d = installBuilt[t]
<1>1. \A s \in Install!Subjects(installBuilt[t]) : s[1][1] # "document"
  BY DEF InstallWritten, Install!Subjects, Install!Paths, Install!Roles
<1>2. \A s \in Install!Subjects(installBuilt[t]) :
        Install!Content(<<s[1], installFiles[s[1]]>>) # <<"document", d>>
  BY <1>1, InstallContents
<1>3. \/ <<"document", d>> = Install!Content(Install!DocumentItem(installBuilt[t]))
      \/ \E s \in Install!Subjects(installBuilt[t]) :
           <<"document", d>> = Install!Content(<<s[1], installFiles[s[1]]>>)
  BY Zenon DEF Install!Signed
<1>4. <<"document", d>> = Install!Content(Install!DocumentItem(installBuilt[t]))
  BY <1>2, <1>3, Zenon
<1> QED BY <1>4, InstallContents

LEMMA InstallAttestStep ==
  ASSUME PackageInv, Install!Attest \/ Install!Carry
  PROVE  PackageInv'
<1> USE DEF PackageInv, PackageTypes
<1>1. CASE Install!Attest
  <2>1. /\ installPlace = "attest"
        /\ installPlace' \in {"begin", "carry"} /\ installAt' \in 1..2
        /\ (installPlace' = "carry" => installAt' = 1)
        /\ UNCHANGED <<installBuilt, installFiles, touched, installLoaded>>
    BY <1>1 DEF Install!Attest
  <2>2. installAt \in Install!Packages /\ InstallWritten(installAt)
    BY <2>1 DEF InstallOnlyBuiltIsAttested, Install!Packages
  <2>3. \A t \in Install!Packages : InstallDone(t)' <=> InstallDone(t) \/ t = installAt
    BY <1>1 DEF Install!Attest, InstallDone, Install!Packages
  <2>4. \A x \in UNION installAttested' :
          \/ x \in UNION installAttested
          \/ \E t \in Install!Packages : InstallDone(t)' /\ x \in Install!Signed(t)
    <3>1. \A t \in Install!Packages : t <= installAt => InstallDone(t)'
      BY <2>1, <2>3 DEF InstallDone, Install!Packages
    <3>2. CASE installAt = 1
      BY <1>1, <3>1, <3>2 DEF Install!Attest, Install!Packages
    <3>3. CASE installAt = 2
      <4>1. \/ installAttested' = {Install!Signed(1) \cup Install!Signed(2)}
            \/ installAttested' = installAttested \cup {Install!Signed(2)}
        BY <1>1, <3>3 DEF Install!Attest
      <4>2. /\ InstallDone(1)' /\ 1 \in Install!Packages
            /\ InstallDone(2)' /\ 2 \in Install!Packages
        BY <3>1, <3>3 DEF Install!Packages
      <4> QED BY <4>1, <4>2
    <3> QED BY <3>2, <3>3
  <2>5. \A t \in Install!Packages : InstallDone(t)' => InstallWritten(t) /\ InstallWritten(t)'
    BY <2>1, <2>2, <2>3 DEF InstallOnlyBuiltIsAttested, InstallWritten
  <2>6. \A d : <<"document", d>> \in UNION installAttested' =>
          \E t \in Install!Packages : InstallDone(t)' /\ d = installBuilt[t]
    <3> SUFFICES ASSUME NEW d, <<"document", d>> \in UNION installAttested'
                 PROVE  \E t \in Install!Packages : InstallDone(t)' /\ d = installBuilt[t]
      OBVIOUS
    <3>1. CASE <<"document", d>> \in UNION installAttested
      <4>1. \E t \in Install!Packages : InstallDone(t) /\ d = installBuilt[t]
        BY <2>1, <3>1 DEF InstallOnlyBuiltIsAttested
      <4> QED BY <2>3, <4>1
    <3>2. CASE \E t \in Install!Packages :
                 InstallDone(t)' /\ <<"document", d>> \in Install!Signed(t)
      BY <2>5, <3>2, InstallSigns
    <3> QED BY <2>4, <3>1, <3>2
  <2>7. InstallOnlyBuiltIsAttested'
    BY <2>1, <2>5, <2>6 DEF InstallOnlyBuiltIsAttested
  <2>8. JobsAreUntouched' /\ Drafted'
    BY <2>1 DEF JobsAreUntouched, Drafted
  <2> QED BY <2>1, <2>7, <2>8, InstallVerifierWaits DEF InstallVerifier
<1>2. CASE Install!Carry
  <2>1. /\ installPlace = "carry" /\ installPlace' = "load"
        /\ UNCHANGED <<installBuilt, installFiles, installAttested, touched, installLoaded,
             installAt>>
    BY <1>2 DEF Install!Carry
  <2>2. InstallOnlyBuiltIsAttested'
    BY <2>1 DEF InstallOnlyBuiltIsAttested, InstallDone, InstallWritten
  <2>3. installAt = 1
    BY <2>1
  <2> QED BY <2>1, <2>2, <2>3
    DEF JobsAreUntouched, Drafted, InstallSetIsShaped, PathsAreApart, CheckedIsHashed,
        InstallItemsAreKept, InstallVerifier
<1> QED BY <1>1, <1>2

\* Past the jobs, nothing is built or attested any more.
LEMMA InstallKeepsAttested ==
  ASSUME PackageInv, installPlace \in {"load", "shape"} \cup InstallVerifier,
         installPlace' \in {"load", "shape"} \cup InstallVerifier,
             UNCHANGED <<installBuilt, installAttested>>,
         "job" \in touched => "job" \in touched'
  PROVE  InstallOnlyBuiltIsAttested' /\ JobsAreUntouched' /\ Drafted'
BY
  DEF PackageInv, InstallOnlyBuiltIsAttested, InstallDone, InstallWritten, JobsAreUntouched,
      Drafted, InstallVerifier

\* What is settled stays so, and what was asked for becomes so.
LEMMA InstallSettles ==
  ASSUME UNCHANGED installAttested, installConfirmed \subseteq installConfirmed'
  PROVE  /\ InstallSettled \subseteq InstallSettled'
         /\ \A w \in installConfirmed' : InstallSigned(w) => w \in InstallSettled'
BY DEF InstallSettled, InstallSigned

LEMMA InstallReadingStep ==
  ASSUME PackageInv, Install!LoadDocument \/ Install!ValidateSetShape \/
           Install!VerifyStagingDocument \/ Install!VerifyEvidence
  PROVE  PackageInv'
<1> USE DEF PackageInv, PackageTypes
<1>1. InstallOnlyBuiltIsAttested' /\ JobsAreUntouched' /\ Drafted'
  BY InstallKeepsAttested
    DEF Install!LoadDocument, Install!ValidateSetShape, Install!VerifyStagingDocument,
        Install!VerifyEvidence, InstallVerifier
<1>2. CASE Install!LoadDocument
  BY <1>1, <1>2
    DEF Install!LoadDocument, Install!ValidateDocument, InstallSetIsShaped, PathsAreApart,
        CheckedIsHashed, InstallItemsAreKept, InstallVerifier
<1>3. CASE Install!ValidateSetShape
  BY <1>1, <1>3
    DEF Install!ValidateSetShape, InstallSetIsShaped, PathsAreApart, CheckedIsHashed,
        InstallItemsAreKept, InstallVerifier
<1>4. CASE Install!VerifyStagingDocument
  <2>1. /\ installPlace = "staging" /\ installPlace' = "evidence" /\ Agrees(installAt, "staging")
        /\ UNCHANGED <<installFiles, installAttested, touched, installAt, installLoaded,
             installListed, installConfirmed>>
    BY <1>4 DEF Install!VerifyStagingDocument, Install!VerifyStagingRoot, Agrees
  <2>2. PathsAreApart'
    BY <2>1 DEF PathsAreApart, InstallVerifier, InstallPathsOf
  <2>3. CheckedIsHashed'
    BY <2>1 DEF CheckedIsHashed, InstallVerifier, Agrees
  <2>4. InstallItemsAreKept'
    BY <2>1, InstallSettles DEF InstallItemsAreKept, InstallVerifier, InstallVerified
  <2> QED BY <1>1, <1>4, <2>1, <2>2, <2>3, <2>4
    DEF Install!VerifyStagingDocument, InstallSetIsShaped, InstallVerifier
<1>5. CASE Install!VerifyEvidence
  <2>1. /\ installPlace = "evidence" /\ installPlace' = "hash" /\ Agrees(installAt, "log")
        /\ installWork' = Install!Subjects(installLoaded[installAt])
        /\ UNCHANGED <<installFiles, installAttested, touched, installAt, installLoaded,
             installListed, installConfirmed>>
    BY <1>5 DEF Install!VerifyEvidence, Install!ValidateInstallEvidence, Agrees
  <2>2. PathsAreApart'
    BY <2>1 DEF PathsAreApart, InstallVerifier
  <2>3. CheckedIsHashed'
    BY <2>1 DEF CheckedIsHashed, InstallVerifier, Agrees
  <2>4. InstallItemsAreKept'
    BY <2>1, InstallSettles DEF InstallItemsAreKept, InstallVerifier, InstallVerified
  <2> QED BY <1>1, <1>5, <2>1, <2>2, <2>3, <2>4
    DEF Install!VerifyEvidence, InstallSetIsShaped, InstallVerifier
<1> QED BY <1>2, <1>3, <1>4, <1>5

\* When every subject has been hashed, a document says what was checked.
LEMMA HashedIsTrue ==
  ASSUME NEW i, DOMAIN installLoaded[i].sha256 = Install!Roles, Agrees(i, "staging"),
           Agrees(i, "log"),
         \A s \in Install!Subjects(installLoaded[i]) : installFiles[s[1]] = s[2]
  PROVE  TrueDocument(installLoaded[i])
<1>1. \A r \in Checked :
        /\ <<installLoaded[i].path[r],
             installLoaded[i].sha256[r]>> \in Install!Subjects(installLoaded[i])
                         /\ Agrees(i, r)
  BY DEF Install!Subjects, Checked, Install!Roles
<1> QED BY <1>1 DEF TrueDocument, Agrees

LEMMA InstallHashStep ==
  ASSUME PackageInv, Install!HashSubject
  PROVE  PackageInv'
<1> USE DEF PackageInv, PackageTypes
<1>1. PICK s \in installWork :
        /\ installPlace = "hash" /\ s[1] \notin installListed /\ installFiles[s[1]] = s[2]
        /\ installListed' = installListed \cup {s[1]}
        /\ IF installWork = {s}
             THEN installWork' = {Install!DocumentItem(installLoaded[installAt])} \cup
                 Install!Subjects(installLoaded[installAt]) /\ installPlace' = "ask"
             ELSE installWork' = installWork \ {s} /\ UNCHANGED installPlace
  BY DEF Install!HashSubject
<1>2. UNCHANGED <<installFiles, draft, installBuilt, installAttested, installCarried, touched,
        installAt, installLoaded, installAsked, installConfirmed>>
  BY DEF Install!HashSubject
<1>3. InstallOnlyBuiltIsAttested' /\ JobsAreUntouched' /\ Drafted'
  BY <1>1, <1>2, InstallKeepsAttested DEF InstallVerifier
<1>4. InstallSetIsShaped'
  BY <1>1, <1>2 DEF InstallSetIsShaped, InstallVerifier
<1>5. ASSUME installAt = 1 PROVE PathsAreApart'
  <2>1. installWork \subseteq Install!Subjects(installLoaded[1])
        /\ \A u \in Install!Subjects(installLoaded[1]) :
             u \in installWork \/ u[1] \in installListed
    BY <1>1, <1>5 DEF PathsAreApart
  <2>2. PathsAreApart'
    <3>1. CASE installWork = {s}
      BY <1>1, <1>2, <1>5, <2>1, <3>1 DEF PathsAreApart, InstallPathsOf, InstallVerifier
    <3>2. CASE installWork # {s}
      BY <1>1, <1>2, <1>5, <2>1, <3>2 DEF PathsAreApart, InstallPathsOf, InstallVerifier
    <3> QED BY <3>1, <3>2
  <2> QED BY <2>2
<1>6. ASSUME installAt = 2 PROVE PathsAreApart'
  <2>1. /\ InstallPathsOf(installLoaded[1]) \subseteq installListed
        /\ \A u \in Install!Subjects(installLoaded[2]) :
             u \in installWork \/ u[1] \notin InstallPathsOf(installLoaded[1])
    BY <1>1, <1>6 DEF PathsAreApart, InstallVerifier
  <2>2. s[1] \notin InstallPathsOf(installLoaded[1])
    BY <1>1, <2>1
  <2>3. PathsAreApart'
    <3>1. CASE installWork = {s}
      <4>1. InstallPathsOf(installLoaded[1]) \cap InstallPathsOf(installLoaded[2]) = {}
        BY <2>1, <2>2, <3>1 DEF InstallPathsOf
      <4> QED BY <1>1, <1>2, <1>6, <2>1, <3>1, <4>1
        DEF PathsAreApart, InstallPathsOf, InstallVerifier
    <3>2. CASE installWork # {s}
      BY <1>1, <1>2, <1>6, <2>1, <2>2, <3>2 DEF PathsAreApart, InstallPathsOf, InstallVerifier
    <3> QED BY <3>1, <3>2
  <2> QED BY <2>3
<1>7. PathsAreApart'
  BY <1>5, <1>6
<1>8. CheckedIsHashed'
  <2> SUFFICES ASSUME "verifier" \notin touched PROVE CheckedIsHashed'
    BY <1>2 DEF CheckedIsHashed
  <2>1. /\ Agrees(installAt, "staging") /\ Agrees(installAt, "log")
        /\ \A u \in Install!Subjects(installLoaded[installAt]) :
             u \in installWork \/ installFiles[u[1]] = u[2]
        /\ installAt = 2 => TrueDocument(installLoaded[1])
    BY <1>1 DEF CheckedIsHashed, InstallVerifier
  <2>2. installAt = 2 => TrueDocument(installLoaded[1])'
    BY <1>2, <2>1 DEF TrueDocument
  <2>3. CASE installWork = {s}
    <3>1. DOMAIN installLoaded[installAt].sha256 = Install!Roles
      BY <1>1 DEF InstallSetIsShaped, InstallVerifier
    <3>2. TrueDocument(installLoaded[installAt])
      BY <1>1, <2>1, <2>3, <3>1, HashedIsTrue
    <3> QED BY <1>1, <1>2, <2>2, <2>3, <3>2 DEF CheckedIsHashed, TrueDocument
  <2>4. CASE installWork # {s}
    BY <1>1, <1>2, <2>1, <2>2, <2>4 DEF CheckedIsHashed, Agrees
  <2> QED BY <2>3, <2>4
<1>9. InstallItemsAreKept'
  <2>1. InstallItemsAreKept /\ InstallSettled \subseteq InstallSettled'
    BY <1>2, InstallSettles
  <2> QED BY <1>1, <1>2, <2>1
    DEF InstallItemsAreKept, InstallVerifier, InstallVerified, InstallItems
<1> QED BY <1>1, <1>2, <1>3, <1>4, <1>7, <1>8, <1>9

LEMMA InstallAuthenticateStep ==
  ASSUME PackageInv, Install!AskGitHub \/ Install!VerifyGitHubArtifact
  PROVE  PackageInv'
<1> USE DEF PackageInv, PackageTypes
<1>1. InstallOnlyBuiltIsAttested' /\ JobsAreUntouched' /\ Drafted'
  BY InstallKeepsAttested DEF Install!AskGitHub, Install!VerifyGitHubArtifact, InstallVerifier
<1>2. CASE Install!AskGitHub
  <2>1. /\ installPlace = "ask" /\ installPlace' = "after" /\ InstallSigned(installAsked')
        /\ installWork' = installWork \ {installAsked'}
        /\ UNCHANGED <<installFiles, installBuilt, installAttested, touched, installAt,
             installLoaded, installListed, installConfirmed>>
    BY <1>2 DEF Install!AskGitHub, Install!VerifyGitHubOutput, InstallSigned
  <2>4. InstallSettled' = InstallSettled /\ InstallSigned(installAsked)'
    BY <2>1 DEF InstallSettled, InstallSigned
  <2>2. InstallItemsAreKept'
    BY <2>1, <2>4 DEF InstallItemsAreKept, InstallVerified, InstallVerifier
  <2>3. PathsAreApart' /\ CheckedIsHashed'
    BY <2>1 DEF PathsAreApart, CheckedIsHashed, InstallVerifier, TrueDocument, InstallPathsOf
  <2> QED BY <1>1, <2>1, <2>2, <2>3 DEF InstallSetIsShaped, InstallVerifier
<1>3. CASE Install!VerifyGitHubArtifact
  <2>1. /\ installPlace = "after" /\ installConfirmed' = installConfirmed \cup {installAsked}
        /\ InstallSigned(installAsked)
        /\ InstallItems(installLoaded[installAt]) \subseteq
             InstallSettled \cup installWork \cup {installAsked}
        /\ UNCHANGED <<installFiles, installBuilt, installAttested, touched, installLoaded,
             installListed, installWork>>
    BY <1>3 DEF Install!VerifyGitHubArtifact, InstallItemsAreKept
  <2>6. InstallItems(installLoaded[installAt]) \subseteq InstallSettled' \cup installWork
    BY <2>1, InstallSettles
  <2>2. installAt = 2 => InstallVerified(1)'
    BY <2>1, InstallSettles DEF InstallItemsAreKept, InstallVerified, InstallVerifier
  <2>3. CASE installWork # {}
    <3>1. installPlace' = "ask" /\ installAt' = installAt
      BY <1>3, <2>3 DEF Install!VerifyGitHubArtifact
    <3>2. PathsAreApart' /\ CheckedIsHashed'
      BY <2>1, <3>1
        DEF PathsAreApart, CheckedIsHashed, InstallVerifier, TrueDocument, InstallPathsOf
    <3> QED BY <1>1, <2>1, <2>2, <2>6, <3>1, <3>2
      DEF InstallSetIsShaped, InstallItemsAreKept, InstallVerifier
  <2>4. CASE installWork = {} /\ installAt = 1
    <3>1. installPlace' = "staging" /\ installAt' = 2 /\ InstallVerified(1)'
      BY <1>3, <2>1, <2>4, <2>6 DEF Install!VerifyGitHubArtifact, InstallVerified
    <3>2. PathsAreApart' /\ CheckedIsHashed'
      BY <2>1, <2>4, <3>1
        DEF PathsAreApart, CheckedIsHashed, InstallVerifier, TrueDocument, InstallPathsOf
    <3> QED BY <1>1, <2>1, <2>4, <3>1, <3>2
      DEF InstallSetIsShaped, InstallItemsAreKept, InstallVerifier
  <2>5. CASE installWork = {} /\ installAt = 2
    <3>1. installPlace' = "accepted" /\ installAt' = 2 /\ InstallVerified(2)'
      BY <1>3, <2>1, <2>5, <2>6 DEF Install!VerifyGitHubArtifact, InstallVerified
    <3>2. PathsAreApart' /\ CheckedIsHashed'
      BY <2>1, <2>5, <3>1
        DEF PathsAreApart, CheckedIsHashed, InstallVerifier, TrueDocument, InstallPathsOf
    <3> QED BY <1>1, <2>1, <2>2, <2>5, <3>1, <3>2
      DEF InstallSetIsShaped, InstallItemsAreKept, InstallVerifier
  <2> QED BY <2>3, <2>4, <2>5
<1> QED BY <1>2, <1>3

LEMMA PackageWorldStep ==
  ASSUME PackageInv, Install!Rewrite \/ Install!Refuse \/ UNCHANGED Install!vars
  PROVE  PackageInv'
<1> USE DEF PackageInv, PackageTypes
<1>1. UNCHANGED <<draft, installBuilt, installAttested, installAt, installLoaded, installListed,
        installWork, installAsked, installConfirmed>>
  BY DEF Install!Rewrite, Install!Refuse, Install!vars
<1>5. InstallSettled' = InstallSettled /\ InstallSigned(installAsked)' = InstallSigned(installAsked)
  BY <1>1 DEF InstallSettled, InstallSigned
<1>2. CASE Install!Rewrite
  <2>1. /\ installPlace' = installPlace
        /\ touched' = touched \cup {IF Install!Verifying THEN "verifier" ELSE "job"}
        /\ DOMAIN installFiles' = Install!Paths
    BY <1>2 DEF Install!Rewrite
  <2>2. touched' \subseteq {"job", "verifier"}
    BY <2>1
  <2>3. JobsAreUntouched'
    BY <2>1 DEF JobsAreUntouched, Install!Verifying
  <2>4. Drafted' /\ InstallOnlyBuiltIsAttested'
    BY <1>1, <2>1
      DEF Drafted, InstallOnlyBuiltIsAttested, InstallDone, InstallWritten, TrueDocument
  <2>5. CheckedIsHashed'
    BY <1>1, <2>1 DEF CheckedIsHashed, Install!Verifying, InstallVerifier
  <2>6. InstallSetIsShaped' /\ PathsAreApart'
    BY <1>1, <2>1 DEF InstallSetIsShaped, PathsAreApart, InstallPathsOf, InstallVerifier
  <2>7. InstallItemsAreKept'
    BY <1>1, <1>5, <2>1 DEF InstallItemsAreKept, InstallVerified, InstallVerifier
  <2> QED BY <1>1, <2>1, <2>2, <2>3, <2>4, <2>5, <2>6, <2>7
<1>3. CASE Install!Refuse
  BY <1>3
    DEF Install!Refuse, JobsAreUntouched, Drafted, InstallOnlyBuiltIsAttested,
        InstallSetIsShaped, PathsAreApart, CheckedIsHashed, InstallItemsAreKept, InstallVerifier
<1>4. CASE UNCHANGED Install!vars
  <2>1. UNCHANGED <<installPlace, installWork, installFiles, touched>>
    BY <1>4 DEF Install!vars
  <2>2. PackageTypes' /\ JobsAreUntouched' /\ Drafted'
    BY <1>1, <2>1 DEF JobsAreUntouched, Drafted
  <2>3. InstallOnlyBuiltIsAttested'
    BY <1>1, <2>1 DEF InstallOnlyBuiltIsAttested, InstallDone, InstallWritten, TrueDocument
  <2>4. InstallSetIsShaped' /\ PathsAreApart'
    BY <1>1, <2>1 DEF InstallSetIsShaped, PathsAreApart, InstallPathsOf, InstallVerifier
  <2>5. CheckedIsHashed'
    BY <1>1, <2>1 DEF CheckedIsHashed, Agrees, InstallVerifier
  <2>6. InstallItemsAreKept'
    BY <1>1, <1>5, <2>1 DEF InstallItemsAreKept, InstallVerified, InstallVerifier
  <2> QED BY <2>2, <2>3, <2>4, <2>5, <2>6
<1> QED BY <1>2, <1>3, <1>4

LEMMA StepPackage ==
  ASSUME PackageInv, Install!PackageNext \/ UNCHANGED Install!vars
  PROVE  PackageInv'
BY InstallJobStep, InstallAttestStep, InstallReadingStep, InstallHashStep,
    InstallAuthenticateStep, PackageWorldStep DEF Install!PackageNext

LEMMA PackageFacts == PackageInv => Install!AcceptedWasInstalled
<1> SUFFICES ASSUME PackageInv, installPlace = "accepted" PROVE Install!AcceptedWasInstalled
  BY DEF Install!AcceptedWasInstalled
<1>1. /\ InstallVerified(1) /\ InstallVerified(2)
      /\ InstallPathsOf(installLoaded[1]) \cap InstallPathsOf(installLoaded[2]) = {}
      /\ {installLoaded[i].package : i \in 1..2} = Install!Packages
      /\ DOMAIN installLoaded[1].sha256 = Install!Roles
      /\ DOMAIN installLoaded[2].sha256 = Install!Roles
  BY DEF PackageInv, InstallItemsAreKept, PathsAreApart, InstallSetIsShaped, InstallVerifier
<1>2. \A i \in 1..2 : \E t \in Install!Packages :
        installLoaded[i] = installBuilt[t] /\ InstallWritten(t)
  <2>1. \A i \in 1..2 : InstallSigned(Install!DocumentItem(installLoaded[i]))
    BY <1>1 DEF InstallVerified, InstallItems, InstallSettled
  <2>2. \A i \in 1..2 : <<"document", installLoaded[i]>> \in UNION installAttested
    BY <2>1, InstallContents DEF InstallSigned
  <2> QED BY <2>2 DEF PackageInv, InstallOnlyBuiltIsAttested
<1>3. \A t \in Install!Packages : \E i \in 1..2 : installLoaded[i] = installBuilt[t]
  BY <1>1, <1>2 DEF InstallWritten
<1>4. installLoaded[1].path["package"] # installLoaded[2].path["package"]
  <2>1. \A i \in 1..2 :
          <<installLoaded[i].path["package"],
              installLoaded[i].sha256["package"]>> \in Install!Subjects(installLoaded[i])
    BY <1>1 DEF Install!Subjects, Install!Roles
  <2>2. \A i \in 1..2 : installLoaded[i].path["package"] \in InstallPathsOf(installLoaded[i])
    BY <2>1 DEF InstallPathsOf
  <2> QED BY <1>1, <2>2
<1>5. ASSUME touched # {"job", "verifier"}, NEW i \in 1..2
      PROVE  TrueDocument(installLoaded[i])
  <2>1. CASE "job" \notin touched
    BY <1>2, <2>1 DEF InstallWritten
  <2>2. CASE "verifier" \notin touched
    BY <2>2 DEF PackageInv, CheckedIsHashed, PathsAreApart, InstallVerifier
  <2> QED BY <1>5, <2>1, <2>2 DEF PackageInv, PackageTypes
<1>6. \A i \in 1..2 :
        /\ InstallItems(installLoaded[i]) \subseteq installConfirmed
        /\ \A s \in Install!Subjects(installLoaded[i]) :
             Install!Content(s) \in UNION installAttested
  BY <1>1 DEF InstallVerified, InstallSettled, InstallItems, InstallSigned
<1> QED BY <1>3, <1>4, <1>5, <1>6
  DEF Install!AcceptedWasInstalled, InstallItems, TrueDocument, Checked

-----------------------------------------------------------------------------
(* The staging directory. Unless the reserved one was put back, a name or  *)
(* handle that shows another one means that it is gone for good; while it  *)
(* is there the parts are read in it, after the last recheck of the        *)
(* release where there is one.                                             *)

StagingTypes ==
  /\ stagingCommand \in {"release-set", "candidate-host"}
  /\ stagingDir \in {"absent", "own", "other"}
  /\ handle \in {"none", "own", "other"}
  /\ stagingAt \in Staging!Cells
  /\ DOMAIN digest = Staging!Cells
  /\ returned \in BOOLEAN

PlacesOf(c) ==
  {"reserve", "move", "open", "finish", "done", "failed"} \cup
    (IF c = "release-set"
     THEN {"archive", "stage", "verify", "archives", "recheck1", "live1", "recheck2", "live2",
           "published", "planned"}
     ELSE {"inputs", "build", "digest", "inputs2", "moved", "recheck3", "inputs3", "checked",
           "marked"})

\* Between the passes over the cells, the next cell is the first.
StagingAtFirst ==
  stagingPlace \in {"reserve", "open", "moved", "checked", "live1", "live2", "finish", "published",
                    "planned", "marked"} => stagingAt = 1

DigestsArePublished ==
  stagingCommand = "release-set" /\ stagingPlace # "failed" =>
    \A c \in Staging!Cells :
      stagingPlace \notin {"archive", "stage", "verify"} \/ c < stagingAt => digest[c] = facts

HandleIsReserved ==
  stagingPlace \in {"recheck1", "live1", "recheck2", "live2", "finish", "marked", "published"} =>
    /\ handle \in Staging!Directories
    /\ handle = "other" /\ ~returned => stagingDir = "other"

\* A part was read somewhere, and if it could not be helped in the reserved
\* directory.
ReadByName(d, c) ==
  /\ \E e \in Staging!Directories : Staging!ReadIn(e, c)
  /\ d = "own" /\ ~returned => Staging!ReadIn("own", c)

PartsRead ==
  /\ stagingPlace = "recheck2" =>
       \A c \in Staging!Cells : c < stagingAt => Staging!ReadIn(handle, c)
  /\ stagingPlace \in {"live2", "finish"} /\ stagingCommand = "release-set" =>
       \A c \in Staging!Cells : Staging!ReadIn(handle, c)
  /\ stagingPlace = "recheck3" =>
       \A c \in Staging!Cells : c < stagingAt => ReadByName(stagingDir, c)
  /\ stagingPlace \in {"inputs3", "checked", "open"} /\ stagingCommand = "candidate-host" =>
       \A c \in Staging!Cells : ReadByName(stagingDir, c)
  /\ stagingPlace = "finish" /\ stagingCommand = "candidate-host" =>
       \A c \in Staging!Cells : ReadByName(handle, c)

Completed ==
  /\ complete # {} =>
       /\ stagingPlace \in {"published", "planned", "marked", "done", "failed"}
       /\ \A c \in Staging!Cells :
            /\ stagingCommand = "release-set" => Staging!ReadIn(handle, c) /\ digest[c] = facts
            /\ \E d \in Staging!Directories : Staging!ReadIn(d, c)
  /\ stagingPlace = "marked" => handle \in complete
  /\ ~returned =>
       /\ stagingPlace = "published" /\ stagingDir = "own" => "own" \in complete
       /\ stagingPlace \in {"planned", "done"} => "own" \in complete
       /\ "own" \in complete => \A c \in Staging!Cells : Staging!ReadIn("own", c)

StagingInv ==
  /\ StagingTypes
  /\ stagingPlace \in PlacesOf(stagingCommand)
  /\ StagingAtFirst
  /\ DigestsArePublished
  /\ HandleIsReserved
  /\ PartsRead
  /\ Completed

LEMMA StagingPrepareStep ==
  ASSUME StagingInv,
         Staging!CheckReleaseSetArchive \/ Staging!Stage \/ Staging!VerifyReleaseSetCell \/
             Staging!RecheckArchives
           \/ Staging!LocalReleaseSetFacts \/ Staging!RunBuilder \/ Staging!DigestPackages
  PROVE  StagingInv'
<1> USE
  DEF StagingInv, StagingTypes, PlacesOf, StagingAtFirst, DigestsArePublished, HandleIsReserved,
      PartsRead, Staging!ReadIn, ReadByName, Completed, Staging!EachThen, Staging!Cells
<1>1. CASE Staging!CheckReleaseSetArchive
  BY <1>1 DEF Staging!CheckReleaseSetArchive
<1>2. CASE Staging!Stage
  BY <1>2 DEF Staging!Stage
<1>3. CASE Staging!VerifyReleaseSetCell
  BY <1>3 DEF Staging!VerifyReleaseSetCell
<1>4. CASE Staging!RecheckArchives
  BY <1>4 DEF Staging!RecheckArchives
<1>5. CASE Staging!LocalReleaseSetFacts
  BY <1>5 DEF Staging!LocalReleaseSetFacts
<1>6. CASE Staging!RunBuilder
  BY <1>6 DEF Staging!RunBuilder
<1>7. CASE Staging!DigestPackages
  BY <1>7 DEF Staging!DigestPackages
<1> QED BY <1>1, <1>2, <1>3, <1>4, <1>5, <1>6, <1>7

LEMMA StagingOutputStep ==
  ASSUME StagingInv,
         Staging!Reserve \/ Staging!Move \/ Staging!CheckPublishedHostDirectory \/
             Staging!OpenFinalRoot \/ Staging!RecheckParts \/ Staging!RecheckRelease
  PROVE  StagingInv'
<1> USE
  DEF StagingInv, StagingTypes, PlacesOf, StagingAtFirst, DigestsArePublished, HandleIsReserved,
      PartsRead, Staging!ReadIn, ReadByName, Completed, Staging!EachThen, Staging!Cells,
      Staging!Directories
<1>1. CASE Staging!Reserve
  BY <1>1 DEF Staging!Reserve
<1>2. CASE Staging!Move
  BY <1>2 DEF Staging!Move
<1>3. CASE Staging!CheckPublishedHostDirectory
  BY <1>3 DEF Staging!CheckPublishedHostDirectory
<1>4. CASE Staging!OpenFinalRoot
  BY <1>4 DEF Staging!OpenFinalRoot
<1>5. CASE Staging!RecheckParts
  BY <1>5 DEF Staging!RecheckParts, Staging!Looked, Staging!RecheckThen
<1>6. CASE Staging!RecheckRelease
  BY <1>6 DEF Staging!RecheckRelease
<1> QED BY <1>1, <1>2, <1>3, <1>4, <1>5, <1>6

LEMMA StagingFinishStep ==
  ASSUME StagingInv, Staging!Finish \/ Staging!CheckReleaseSetPublished \/ Staging!Fail \/
           Staging!Change \/ UNCHANGED Staging!vars
  PROVE  StagingInv'
<1> USE
  DEF StagingInv, StagingTypes, PlacesOf, StagingAtFirst, DigestsArePublished, HandleIsReserved,
      PartsRead, Staging!ReadIn, ReadByName, Completed, Staging!Cells, Staging!Directories
<1>1. CASE Staging!Finish
  <2>1. PICK d \in Staging!Directories \ complete :
          /\ d = IF stagingCommand = "release-set" THEN stagingDir ELSE handle
          /\ complete' = complete \cup {d}
    BY <1>1 DEF Staging!Finish
  <2>2. /\ stagingPlace = "finish" /\ stagingAt = 1 /\ complete' = {d}
        /\ stagingPlace' = IF stagingCommand = "release-set" THEN "published" ELSE "marked"
        /\ UNCHANGED <<stagingCommand, facts, digest, stagingDir, returned, handle, stagingAt,
             stagingFresh>>
    BY <1>1, <2>1 DEF Staging!Finish
  <2>3. CASE stagingCommand = "release-set"
    <3>1. \A c \in Staging!Cells : Staging!ReadIn(handle, c) /\ digest[c] = facts
      BY <2>2, <2>3
    <3>2. ~returned /\ d = "own" => handle = "own"
      BY <2>1, <2>2, <2>3
    <3>3. Completed'
      BY <2>1, <2>2, <2>3, <3>1, <3>2
    <3> QED BY <2>2, <2>3, <3>3
  <2>4. CASE stagingCommand = "candidate-host"
    BY <2>1, <2>2, <2>4
  <2> QED BY <2>3, <2>4
<1>2. CASE Staging!CheckReleaseSetPublished
  BY <1>2 DEF Staging!CheckReleaseSetPublished
<1>3. CASE Staging!Fail
  BY <1>3 DEF Staging!Fail
<1>4. CASE Staging!Change
  <2>1. /\ UNCHANGED <<stagingCommand, facts, digest, handle, complete, stagingPlace, stagingAt,
             stagingFresh>>
        /\ \/ UNCHANGED <<stagingDir, returned>>
           \/ stagingDir' = "other" /\ returned' = returned
           \/ stagingDir' = "own" /\ returned' = TRUE
    BY <1>4 DEF Staging!Change
  <2>2. CASE UNCHANGED <<stagingDir, returned>>
    BY <2>1, <2>2
  <2>3. CASE stagingDir' = "other" /\ returned' = returned
    BY <2>1, <2>3
  <2>4. CASE stagingDir' = "own" /\ returned' = TRUE
    BY <2>1, <2>4
  <2> QED BY <2>1, <2>2, <2>3, <2>4
<1>5. CASE UNCHANGED Staging!vars
  BY <1>5 DEF Staging!vars
<1> QED BY <1>1, <1>2, <1>3, <1>4, <1>5

LEMMA StagingFacts == StagingInv => Staging!CompleteMeansChecked
BY DEF StagingInv, Completed, Staging!CompleteMeansChecked

LEMMA InitStaging == Staging!StagingInit => StagingInv
<1> SUFFICES ASSUME Staging!StagingInit PROVE StagingInv
  OBVIOUS
<1>1. /\ stagingPlace = IF stagingCommand = "release-set" THEN "archive" ELSE "inputs"
      /\ stagingCommand \in {"release-set", "candidate-host"} /\ stagingAt = 1
      /\ stagingDir \in {"absent", "other"} /\ returned = FALSE /\ handle = "none" /\ complete = {}
      /\ DOMAIN digest = Staging!Cells
  BY DEF Staging!StagingInit
<1>2. stagingPlace \in PlacesOf(stagingCommand)
  BY <1>1 DEF PlacesOf
<1>3. stagingPlace \in {"archive", "inputs"} /\ (stagingCommand = "release-set" => stagingPlace = "archive")
  BY <1>1
<1>4. StagingTypes
  <2>1. returned \in BOOLEAN
    BY <1>1
  <2>2. stagingAt \in Staging!Cells
    BY <1>1 DEF Staging!Cells
  <2>3. stagingDir \in {"absent", "own", "other"} /\ handle \in {"none", "own", "other"}
    BY <1>1
  <2> QED BY <1>1, <2>1, <2>2, <2>3, Zenon DEF StagingTypes
<1>5. DigestsArePublished
  BY <1>1, <1>3 DEF DigestsArePublished, Staging!Cells
<1>6. Completed
  BY <1>1, <1>3 DEF Completed
<1>7. StagingAtFirst /\ HandleIsReserved /\ PartsRead
  BY <1>3 DEF StagingAtFirst, HandleIsReserved, PartsRead
<1> QED BY <1>2, <1>4, <1>5, <1>6, <1>7 DEF StagingInv

LEMMA StepStaging ==
  ASSUME StagingInv, Staging!StagingNext \/ UNCHANGED Staging!vars
  PROVE  StagingInv'
BY StagingPrepareStep, StagingOutputStep, StagingFinishStep DEF Staging!StagingNext

-----------------------------------------------------------------------------
(* The set of candidates. Each cell in turn is derived, inspected and,     *)
(* after every recheck of the release, read again; the summary stays.      *)

CandidateTypes ==
  /\ setCommand \in {"record", "attested"}
  /\ summary \in [Candidates!Cells -> Candidates!Packages \cup {"none"}]
  /\ package \in [Candidates!Cells -> Candidates!Packages]
  /\ setAt \in Candidates!Cells
  /\ pass \in Nat \ {0}

Inspected(c) ==
  /\ <<c, summary[c]>> \in inspected
  /\ Candidates!Payload(summary[c]) = Candidates!Facts

FreshlyRead(c) == <<c, summary[c]>> \in setFresh

\* Between the passes over the cells, the next cell is the first.
CandidateAtFirst ==
  setPlace \in {"release", "release2", "given", "run", "statement", "given2", "run2", "link",
             "visible"} => setAt = 1

CellsInspected ==
  /\ setPlace = "inspect" => setSnapshot = summary[setAt]
  /\ setPlace \in {"snapshot", "inspect"} => \A c \in Candidates!Cells : c < setAt => Inspected(c)
  /\ setPlace \notin {"derive", "set", "snapshot", "inspect", "refused"} =>
       \A c \in Candidates!Cells : Inspected(c)

CellsFresh ==
  /\ setPlace = "again" => \A c \in Candidates!Cells : c < setAt => FreshlyRead(c)
  /\ setPlace \in {"visible", "given2", "run2", "published", "accepted"} =>
       \A c \in Candidates!Cells : FreshlyRead(c)

\* The first pass ends before the run is asked for; the later ones follow it.
RunAttested ==
  /\ pass = 1 =>
       setPlace \in {"derive", "set", "snapshot", "inspect", "release", "again", "refused"}
  /\ setPlace = "derive" => pass = 1
  /\ setPlace = "statement" => run = 1
  /\ setPlace \in {"write", "link", "linked", "visible", "published"} => setCommand = "record"
  /\ setPlace \in {"given", "run", "statement", "given2", "run2", "accepted"} =>
       setCommand = "attested"
  /\ setCommand = "attested" /\ pass > 1 /\
       setPlace \notin {"given", "run", "statement", "refused"} =>
       <<1, summary>> \in statements

CandidateInv ==
  /\ CandidateTypes
  /\ CandidateAtFirst
  /\ CellsInspected
  /\ CellsFresh
  /\ RunAttested

LEMMA CandidateInspectStep ==
  ASSUME CandidateInv, Candidates!Build \/ Candidates!VerifySet \/ Candidates!Snapshot \/
           Candidates!Inspect
  PROVE  CandidateInv'
<1> USE
  DEF CandidateInv, CandidateTypes, CandidateAtFirst, CellsInspected, CellsFresh, RunAttested,
      Inspected, FreshlyRead, Candidates!Cells, Candidates!EachThen
<1>1. CASE Candidates!Build
  BY <1>1 DEF Candidates!Build
<1>2. CASE Candidates!VerifySet
  BY <1>2 DEF Candidates!VerifySet
<1>3. CASE Candidates!Snapshot
  BY <1>3 DEF Candidates!Snapshot, Candidates!Verify
<1>4. CASE Candidates!Inspect
  BY <1>4 DEF Candidates!Inspect, Candidates!MatchInspectedPayload
<1> QED BY <1>1, <1>2, <1>3, <1>4

LEMMA CandidateRereadStep ==
  ASSUME CandidateInv, Candidates!RecheckRelease \/ Candidates!Again \/ Candidates!CheckLocal
  PROVE  CandidateInv'
<1> USE
  DEF CandidateInv, CandidateTypes, CandidateAtFirst, CellsInspected, CellsFresh, RunAttested,
      Inspected, FreshlyRead, Candidates!Cells, Candidates!EachThen
<1>1. CASE Candidates!RecheckRelease
  BY <1>1 DEF Candidates!RecheckRelease
<1>2. CASE Candidates!Again
  BY <1>2 DEF Candidates!Again, Candidates!Verify
<1>3. CASE Candidates!CheckLocal
  BY <1>3 DEF Candidates!CheckLocal
<1> QED BY <1>1, <1>2, <1>3

LEMMA CandidateRecordStep ==
  ASSUME CandidateInv,
         Candidates!LinkRecord \/ Candidates!CheckRecord \/ Candidates!CheckGiven \/
             Candidates!ReadRun \/ Candidates!VerifyStatement \/ Candidates!RecheckRun
           \/ Candidates!Refuse \/ Candidates!Change \/ UNCHANGED Candidates!vars
  PROVE  CandidateInv'
<1> USE
  DEF CandidateInv, CandidateTypes, CandidateAtFirst, CellsInspected, CellsFresh, RunAttested,
      Inspected, FreshlyRead
<1>1. CASE Candidates!LinkRecord \/ Candidates!CheckRecord
  BY <1>1 DEF Candidates!LinkRecord, Candidates!CheckRecord
<1>2. CASE Candidates!CheckGiven \/ Candidates!ReadRun
  BY <1>2 DEF Candidates!CheckGiven, Candidates!ReadRun
<1>3. CASE Candidates!VerifyStatement \/ Candidates!RecheckRun
  BY <1>3 DEF Candidates!VerifyStatement, Candidates!RecheckRun
<1>4. CASE Candidates!Refuse \/ UNCHANGED Candidates!vars
  BY <1>4 DEF Candidates!Refuse, Candidates!vars
<1>5. CASE Candidates!Change
  <2>1. /\ UNCHANGED <<setCommand, statements, setPlace, setAt, summary, setSnapshot, run, pass,
             inspected, setFresh>>
        /\ package' \in [Candidates!Cells -> Candidates!Packages]
    BY <1>5 DEF Candidates!Change
  <2> QED BY <2>1
<1> QED BY <1>1, <1>2, <1>3, <1>4, <1>5

LEMMA CandidateFacts == CandidateInv => Candidates!RecordedPackagesAreReleased
<1>1. SUFFICES ASSUME CandidateInv, setPlace \in {"published", "accepted"}
               PROVE  /\ \A c \in Candidates!Cells :
                           Candidates!Payload(summary[c]) = Candidates!Facts
                      /\ {<<c, summary[c]>> : c \in Candidates!Cells} \subseteq
                           inspected \cap setFresh
                      /\ setPlace = "accepted" => <<1, summary>> \in statements
  BY DEF Candidates!RecordedPackagesAreReleased
<1>2. \A c \in Candidates!Cells : Inspected(c) /\ FreshlyRead(c)
  BY <1>1 DEF CandidateInv, CellsInspected, CellsFresh
<1>3. setPlace = "accepted" => <<1, summary>> \in statements
  BY <1>1 DEF CandidateInv, CandidateTypes, RunAttested
<1> QED BY <1>2, <1>3 DEF Inspected, FreshlyRead

LEMMA InitCandidate == Candidates!CandidateInit => CandidateInv
BY
  DEF Candidates!CandidateInit, CandidateInv, CandidateTypes, CandidateAtFirst, CellsInspected,
      CellsFresh, RunAttested, Candidates!NoRecord, Candidates!Cells

LEMMA StepCandidate ==
  ASSUME CandidateInv, Candidates!CandidateNext \/ UNCHANGED Candidates!vars
  PROVE  CandidateInv'
BY CandidateInspectStep, CandidateRereadStep, CandidateRecordStep DEF Candidates!CandidateNext

-----------------------------------------------------------------------------
(* The evidence chain. What was learned stays true as long as the payload  *)
(* is valid: it ends with the session, before everything it stands on.     *)

Bundling == {"open", "list", "hash", "relist"}
Evaluated == {"signatures", "promote", "verified", "promoted"}

ChainTypes ==
  /\ chainClock \in Nat /\ chainPolicy \in Nat /\ chainAt \in Evidence!Names
  /\ chainPlace \in Bundling \cup Evaluated \cup {"envelope", "records", "prepared", "refused"}

\* The bundles that were verified are those of the records before this one.
HeldSoFar ==
  /\ chainPlace \in Bundling =>
       held = (CASE chainAt = "host" -> {}
                 [] chainAt = "client" -> {"host"}
                 [] OTHER -> {"host", "client"}) \X Evidence!Declared
  /\ chainPlace = "relist" => hashed = Evidence!Declared
  /\ chainPlace \in Evaluated \cup {"envelope", "records"} =>
       held = Evidence!Names \X Evidence!Declared

PayloadIsRead ==
  chainPlace \in Evaluated \/ (chainPlace = "records" /\ chainCommand # "prepare") =>
    /\ payload \in Evidence!Envelopes
    /\ chainSampled \in Nat /\ chainSampled <= chainClock

\* A record that the payload does not outlast.
Stands(r) ==
  /\ r.reviewed \in 1..chainSampled
  /\ r.observed \in Nat /\ r.observed <= r.reviewed
  /\ r.expires \in Nat /\ payload.expires <= r.expires

RecordsStand ==
  chainPlace \in Evaluated =>
    /\ \A n \in Evidence!Names : Stands(records[n])
    /\ \A n \in {"host", "client"} : records[n].reviewed < records["session"].start
    /\ records["session"].ended <= records["session"].reviewed
    /\ payload.expires <= chainPolicy

SignaturesCount ==
  chainPlace \in {"promote", "verified", "promoted"} =>
    /\ \A i \in 1..2 : Evidence!Counts(payload.signatures[i])
    /\ Evidence!Independent(payload.signatures[1], payload.signatures[2])

ChainInv ==
  /\ ChainTypes
  /\ HeldSoFar
  /\ PayloadIsRead
  /\ RecordsStand
  /\ SignaturesCount
  /\ chainPlace = "promoted" => chainClock < payload.expires

LEMMA InitChain == Evidence!EvidenceInit => ChainInv
<1> SUFFICES ASSUME Evidence!EvidenceInit PROVE ChainInv
  OBVIOUS
<1>1. chainPolicy \in Nat
  BY ClockAssumption DEF Evidence!EvidenceInit
<1> QED BY <1>1
  DEF Evidence!EvidenceInit, ChainInv, ChainTypes, HeldSoFar, PayloadIsRead, RecordsStand,
      SignaturesCount, Bundling, Evaluated, Evidence!Names

\* What an envelope holds: a time, and the signatures of an observer and of a reviewer.
LEMMA EnvelopeFields ==
  ASSUME NEW e \in Evidence!Envelopes
  PROVE  /\ e.expires \in Nat /\ e.created \in Nat
         /\ DOMAIN e.signatures = 1..2
         /\ e.signatures[1].key = "observer"
         /\ e.signatures[2].key \in Evidence!Keys \ {"observer"}
         /\ \A i \in 1..2 : e.signatures[i].at \in Int
<1>1. CASE e \in {[created |-> c, expires |-> x, these |-> TRUE, cell |-> TRUE,
                   signatures |->
                       <<Evidence!Signature("observer", t1), Evidence!Signature(k, t2)>>] :
                  c \in {1, 2}, x \in ChainMaxClock..ChainMaxClock + 1, t1,
                      t2 \in 2..ChainMaxClock,
                  k \in Evidence!Keys \ {"observer"}}
  BY <1>1, ClockAssumption DEF Evidence!Signature
<1>2. CASE e \in {[created |-> 1, expires |-> ChainMaxClock + 1, these |-> t, cell |-> ~t,
                   signatures |->
                       <<Evidence!Signature("observer", 4), Evidence!Signature("reviewer", 4)>>] :
                           t \in BOOLEAN}
  BY <1>2, ClockAssumption DEF Evidence!Signature, Evidence!Keys
<1> QED BY <1>1, <1>2 DEF Evidence!Envelopes

\* A key's role, and how long it is valid.
LEMMA KeyFields ==
  ASSUME NEW k \in Evidence!Keys
  PROVE  /\ Evidence!Key(k).role = (IF k = "observer" THEN "observer" ELSE "reviewer")
         /\ Evidence!Key(k).until \in Int
         /\ chainPolicy \in Nat => Evidence!KeyUntil(k) <= Evidence!Key(k).until /\
              Evidence!KeyUntil(k) \in Int
<1>1. /\ Evidence!Key(k).role = (IF k = "observer" THEN "observer" ELSE "reviewer")
      /\ Evidence!Key(k).until \in Int
  BY ClockAssumption DEF Evidence!Key, Evidence!Keys
<1>2. chainPolicy \in Nat => Evidence!KeyUntil(k) <= Evidence!Key(k).until /\
        Evidence!KeyUntil(k) \in Int
  BY <1>1 DEF Evidence!KeyUntil
<1> QED BY <1>1, <1>2

LEMMA RecordFields ==
  /\ \A r \in Evidence!HostRecords \cup Evidence!ClientRecords :
       r.reviewed \in Nat /\ r.observed \in Nat /\ r.expires \in Nat /\ r.created \in Nat
  /\ \A s \in Evidence!SessionRecords :
       s.reviewed \in Nat /\ s.observed \in Nat /\ s.expires \in Nat /\ s.created \in Nat
<1>1. \A r \in Evidence!Reviewed :
        r.reviewed \in Nat /\ r.observed \in Nat /\ r.expires \in Nat /\ r.created \in Nat
  BY ClockAssumption DEF Evidence!Reviewed, Evidence!Plain
<1>2. \A r \in Evidence!HostRecords :
        r.reviewed \in Nat /\ r.observed \in Nat /\ r.expires \in Nat /\ r.created \in Nat
  BY <1>1, ClockAssumption DEF Evidence!HostRecords, Evidence!Plain
<1>3. \A r \in Evidence!ClientRecords :
        r.reviewed \in Nat /\ r.observed \in Nat /\ r.expires \in Nat /\ r.created \in Nat
  BY <1>1, ClockAssumption DEF Evidence!ClientRecords, Evidence!Plain
<1>4. \A s \in Evidence!SessionRecords :
        s.reviewed \in Nat /\ s.observed \in Nat /\ s.expires \in Nat /\ s.created \in Nat
  BY ClockAssumption DEF Evidence!SessionRecords
<1> QED BY <1>2, <1>3, <1>4

LEMMA BundleStep ==
  ASSUME ChainInv, Evidence!OpenBundle \/ Evidence!ListBundle \/
           (\E f \in Evidence!Declared : Evidence!HashArtifact(f)) \/ Evidence!RelistBundle
  PROVE  ChainInv'
<1> USE DEF ChainInv, ChainTypes
<1>1. CASE Evidence!OpenBundle
  BY <1>1
    DEF Evidence!OpenBundle, HeldSoFar, PayloadIsRead, RecordsStand, SignaturesCount, Bundling,
        Evaluated
<1>2. CASE Evidence!ListBundle
  BY <1>2
    DEF Evidence!ListBundle, HeldSoFar, PayloadIsRead, RecordsStand, SignaturesCount, Bundling,
        Evaluated
<1>3. CASE \E f \in Evidence!Declared : Evidence!HashArtifact(f)
  <2>1. /\ chainPlace = "hash" /\ chainPlace' \in {"hash", "relist"}
        /\ chainPlace' = "relist" => hashed' = Evidence!Declared
        /\ UNCHANGED <<chainCommand, chainPolicy, chainClock, chainAt, held, chainSampled,
             payload, records>>
    BY <1>3 DEF Evidence!HashArtifact
  <2> QED BY <2>1 DEF HeldSoFar, PayloadIsRead, RecordsStand, SignaturesCount, Bundling, Evaluated
<1>4. CASE Evidence!RelistBundle
  <2>1. /\ chainPlace = "relist" /\ held' = held \cup ({chainAt} \X Evidence!Declared)
        /\ chainAt' = Evidence!Following /\ chainAt' \in Evidence!Names
        /\ chainPlace' = IF chainAt # "session" THEN "open" ELSE IF chainCommand = "prepare"
             THEN "records" ELSE "envelope"
        /\ UNCHANGED <<chainCommand, chainPolicy, chainClock, chainSampled, payload, records>>
    BY <1>4 DEF Evidence!RelistBundle, HeldSoFar, Evidence!Following, Evidence!Names
  <2>2. CASE chainAt = "host"
    BY <2>1, <2>2
      DEF HeldSoFar, PayloadIsRead, RecordsStand, SignaturesCount, Bundling, Evaluated,
          Evidence!Following
  <2>3. CASE chainAt = "client"
    BY <2>1, <2>3
      DEF HeldSoFar, PayloadIsRead, RecordsStand, SignaturesCount, Bundling, Evaluated,
          Evidence!Following
  <2>4. CASE chainAt = "session"
    BY <2>1, <2>4
      DEF HeldSoFar, PayloadIsRead, RecordsStand, SignaturesCount, Bundling, Evaluated,
          Evidence!Names
  <2> QED BY <2>2, <2>3, <2>4 DEF Evidence!Names
<1> QED BY <1>1, <1>2, <1>3, <1>4

\* What the evaluation finds of a set that it accepts.
LEMMA CompleteSetsStand ==
  ASSUME NEW now \in Nat, NEW s \in Evidence!Sessions(now),
           NEW set \in Evidence!CompleteSets(s, now)
  PROVE  /\ \A n \in Evidence!Names :
              /\ set[n].reviewed \in 1..now
              /\ set[n].observed \in Nat /\ set[n].observed <= set[n].reviewed
              /\ set[n].expires \in Nat /\ s.expires <= set[n].expires
         /\ \A n \in {"host", "client"} : set[n].reviewed < set["session"].start
         /\ set["session"].ended <= set["session"].reviewed
<1>1. PICK h \in Evidence!HostRecords, c \in Evidence!ClientRecords :
        /\ set = Evidence!Set(h, c, s) /\ Evidence!BoundTogether(set["host"], set["client"], s)
        /\ Evidence!Valid(h) /\ Evidence!Complete(h, now) /\ Evidence!Valid(c)
        /\ Evidence!Complete(c, now)
  BY DEF Evidence!CompleteSets
<1>2. set["host"] = h /\ set["client"] = c /\ set["session"] = s
  BY <1>1 DEF Evidence!Set, Evidence!Names
<1>3. s \in Evidence!SessionRecords /\ Evidence!Valid(s) /\ Evidence!Complete(s, now)
  BY DEF Evidence!Sessions, Evidence!ValidSession
<1>4. \A r : Evidence!Valid(r) /\ Evidence!Complete(r, now) /\ r.reviewed \in Nat /\
        r.observed \in Nat =>
               r.reviewed \in 1..now /\ r.observed <= r.reviewed
  BY DEF Evidence!Valid, Evidence!Complete
<1>5. /\ s.expires <= h.expires /\ s.expires <= c.expires /\ h.reviewed < s.start
      /\ c.reviewed < s.start
  BY <1>1, <1>2 DEF Evidence!BoundTogether
<1>6. s.ended <= s.reviewed
  <2>1. Evidence!ValidSession(s) /\ s.start \in 1..now /\ s.reviewed \in 1..now
    BY <1>3 DEF Evidence!Sessions, Evidence!Complete
  <2> QED BY <2>1 DEF Evidence!ValidSession
<1> QED BY <1>1, <1>2, <1>3, <1>4, <1>5, <1>6, RecordFields DEF Evidence!Names

LEMMA ChainStep ==
  ASSUME ChainInv, Evidence!Prepare \/ Evidence!CheckPayload \/ Evidence!EvaluateRecords \/
           Evidence!CheckSignatures \/ Evidence!Promote
  PROVE  ChainInv'
<1> USE DEF ChainInv, ChainTypes
<1>1. CASE Evidence!Prepare
  BY <1>1
    DEF Evidence!Prepare, HeldSoFar, PayloadIsRead, RecordsStand, SignaturesCount, Bundling,
        Evaluated
<1>2. CASE Evidence!CheckPayload
  <2>1. /\ chainPlace = "envelope" /\ chainPlace' = "records" /\ chainSampled' = chainClock
        /\ payload' \in Evidence!Envelopes
        /\ UNCHANGED <<chainCommand, chainPolicy, chainClock, chainAt, chainDir, hashed, held,
             records>>
    BY <1>2 DEF Evidence!CheckPayload
  <2> QED BY <2>1 DEF HeldSoFar, PayloadIsRead, RecordsStand, SignaturesCount, Bundling, Evaluated
<1>3. CASE Evidence!EvaluateRecords
  <2>1. PICK s \in Evidence!Sessions(chainSampled) : Evidence!BoundTo(payload, s) /\
             records' \in Evidence!CompleteSets(s, chainSampled)
    BY <1>3 DEF Evidence!EvaluateRecords
  <2>2. /\ chainPlace = "records" /\ chainPlace' = "signatures" /\ chainCommand # "prepare"
        /\ payload.expires <= chainPolicy
        /\ UNCHANGED <<chainCommand, chainPolicy, chainClock, chainAt, held, chainSampled,
             payload>>
    BY <1>3 DEF Evidence!EvaluateRecords
  <2>3. chainSampled \in Nat /\ payload.expires = s.expires
    BY <2>1, <2>2 DEF PayloadIsRead, Evidence!BoundTo
  <2>4. RecordsStand'
    BY <2>1, <2>2, <2>3, CompleteSetsStand DEF RecordsStand, Stands
  <2> QED BY <2>2, <2>4 DEF HeldSoFar, PayloadIsRead, SignaturesCount, Bundling, Evaluated
<1>4. CASE Evidence!CheckSignatures
  <2>1. /\ chainPlace = "signatures" /\ chainPlace' \in {"verified", "promote"}
        /\ UNCHANGED <<chainCommand, chainPolicy, chainClock, chainAt, held, chainSampled,
             payload, records>>
    BY <1>4 DEF Evidence!CheckSignatures
  <2>2. /\ payload \in Evidence!Envelopes /\ DOMAIN payload.signatures = 1..2
        /\ payload.signatures[1].key = "observer"
        /\ payload.signatures[2].key \in Evidence!Keys \ {"observer"}
    BY <2>1, EnvelopeFields DEF PayloadIsRead, Evaluated
  <2>3. \A i \in 1..2 : Evidence!Counts(payload.signatures[i])
    BY <1>4, <2>2 DEF Evidence!CheckSignatures
  <2>4. PICK i \in 1..2, j \in 1..2 :
             Evidence!Independent(payload.signatures[i], payload.signatures[j])
    BY <1>4, <2>2 DEF Evidence!CheckSignatures
  <2>5. Evidence!Key(payload.signatures[1].key).role = "observer"
        /\ Evidence!Key(payload.signatures[2].key).role = "reviewer"
    BY <2>2, KeyFields DEF Evidence!Keys
  <2>6. i = 1 /\ j = 2
    BY <2>4, <2>5 DEF Evidence!Independent
  <2>7. SignaturesCount'
    BY <2>1, <2>3, <2>4, <2>6 DEF SignaturesCount, Evidence!Counts, Evidence!KeyUntil
  <2> QED BY <2>1, <2>7 DEF HeldSoFar, PayloadIsRead, RecordsStand, Stands, Bundling, Evaluated
<1>5. CASE Evidence!Promote
  BY <1>5
    DEF Evidence!Promote, HeldSoFar, PayloadIsRead, RecordsStand, Stands, SignaturesCount,
        Evidence!Counts, Evidence!KeyUntil, Bundling, Evaluated
<1> QED BY <1>1, <1>2, <1>3, <1>4, <1>5

LEMMA ChainWorldStep ==
  ASSUME ChainInv, Evidence!Refuse \/ Evidence!Tick \/ Evidence!Change \/ UNCHANGED Evidence!vars
  PROVE  ChainInv'
<1> USE DEF ChainInv, ChainTypes
<1>1. CASE Evidence!Refuse
  BY <1>1
    DEF Evidence!Refuse, HeldSoFar, PayloadIsRead, RecordsStand, SignaturesCount, Bundling,
        Evaluated
<1>2. CASE Evidence!Tick
  <2>1. /\ chainPlace \notin {"promoted", "verified"} /\ chainClock' = chainClock + 1
        /\ UNCHANGED <<chainCommand, chainPolicy, chainPlace, chainAt, chainDir, hashed, held,
             chainSampled, payload, records>>
    BY <1>2 DEF Evidence!Tick, Evidence!Ended
  <2> QED BY <2>1
    DEF HeldSoFar, PayloadIsRead, RecordsStand, Stands, SignaturesCount, Evidence!Counts,
        Evidence!KeyUntil
<1>3. CASE Evidence!Change \/ UNCHANGED Evidence!vars
  <2>1. UNCHANGED <<chainCommand, chainPolicy, chainClock, chainPlace, chainAt, hashed, held,
          chainSampled, payload, records>>
    BY <1>3 DEF Evidence!Change, Evidence!vars
  <2> QED BY <2>1
    DEF HeldSoFar, PayloadIsRead, RecordsStand, Stands, SignaturesCount, Evidence!Counts,
        Evidence!KeyUntil
<1> QED BY <1>1, <1>2, <1>3

LEMMA StepChain ==
  ASSUME ChainInv, Evidence!EvidenceNext \/ UNCHANGED Evidence!vars
  PROVE  ChainInv'
BY BundleStep, ChainStep, ChainWorldStep DEF Evidence!EvidenceNext

LEMMA ChainFacts == ChainInv => Evidence!PromotedChainStands
<1> SUFFICES ASSUME ChainInv, chainPlace = "promoted" PROVE Evidence!PromotedChainStands
  BY DEF Evidence!PromotedChainStands
<1>1. /\ held = Evidence!Names \X Evidence!Declared /\ payload \in Evidence!Envelopes
      /\ chainSampled <= chainClock /\ chainSampled \in Nat
      /\ \A n \in Evidence!Names : Stands(records[n])
      /\ \A n \in {"host", "client"} : records[n].reviewed < records["session"].start
      /\ records["session"].ended <= records["session"].reviewed
      /\ payload.expires <= chainPolicy
      /\ \A i \in 1..2 : Evidence!Counts(payload.signatures[i])
      /\ Evidence!Independent(payload.signatures[1], payload.signatures[2])
      /\ chainClock < payload.expires /\ chainClock \in Nat /\ chainPolicy \in Nat
  BY DEF ChainInv, ChainTypes, HeldSoFar, PayloadIsRead, RecordsStand, SignaturesCount, Evaluated
<1>2. /\ payload.expires \in Nat
      /\ \A i \in 1..2 : payload.signatures[i].at \in Int
      /\ payload.created \in Nat
  BY <1>1, EnvelopeFields
<1>3. chainClock < chainPolicy
  BY <1>1, <1>2
<1>4. ASSUME NEW n \in Evidence!Names
      PROVE  chainClock < records[n].expires /\ records[n].observed <= records[n].reviewed
  BY <1>1, <1>2 DEF Stands
<1>5. ASSUME NEW n \in Evidence!Names, NEW i \in 1..2
      PROVE  /\ records[n].reviewed <= payload.signatures[i].at
             /\ payload.signatures[i].at <= chainClock
             /\ chainClock < Evidence!Key(payload.signatures[i].key).until
  <2>1. /\ payload.expires <= Evidence!KeyUntil(payload.signatures[i].key)
        /\ payload.signatures[i].at \in payload.created..chainSampled
        /\ records[n].reviewed <= payload.signatures[i].at
        /\ payload.signatures[i].key \in Evidence!Keys
    BY <1>1 DEF Evidence!Counts
  <2>2. /\ Evidence!KeyUntil(payload.signatures[i].key)
           <= Evidence!Key(payload.signatures[i].key).until
        /\ Evidence!KeyUntil(payload.signatures[i].key) \in Int
        /\ Evidence!Key(payload.signatures[i].key).until \in Int
    BY <1>1, <2>1, KeyFields
  <2>3. payload.signatures[i].at <= chainClock
    BY <1>1, <1>2, <2>1
  <2>4. chainClock < Evidence!Key(payload.signatures[i].key).until
    BY <1>1, <1>2, <2>1, <2>2
  <2> QED BY <2>1, <2>3, <2>4
<1> QED BY <1>1, <1>3, <1>4, <1>5 DEF Evidence!PromotedChainStands

-----------------------------------------------------------------------------
(* The publication of a set of files. Withdrawal removes exactly the files *)
(* of the command, as it knows which names it has linked.                  *)

TemplatePhases == {"check", "stage", "link", "clean", "published", "discard", "withdraw",
    "failed"}

TemplateTypes ==
  /\ names \in [TemplateCommands -> SUBSET Templates!Set]
  /\ templateFiles \in [Templates!Set -> TemplateCommands \cup {"free", "user"}]
  /\ temps \in [TemplateCommands -> SUBSET Templates!Set]
  /\ linked \in [TemplateCommands -> SUBSET Templates!Set]
  /\ checked \in [TemplateCommands -> SUBSET Templates!Set]
  /\ pc \in [TemplateCommands -> TemplatePhases]

\* A command remembers exactly the names that are its files.
LinksKnown ==
  \A c \in TemplateCommands : /\ linked[c] \subseteq names[c]
                              /\ \A f \in Templates!Set : templateFiles[f] = c <=> f \in linked[c]

\* What the place in the code says of the links and of the staged files.
LinksByPhase ==
  \A c \in TemplateCommands :
    /\ pc[c] \in {"check", "stage", "discard", "failed"} => linked[c] = {}
    /\ pc[c] \in {"clean", "published"} => linked[c] = names[c]
    /\ pc[c] \in {"check", "published", "failed"} => temps[c] = {}

TemplatesInv == TemplateTypes /\ LinksKnown /\ LinksByPhase

\* A directory before any command: nothing is linked and nothing staged.
LEMMA InitTemplates == ASSUME Templates!TemplateInit PROVE TemplatesInv
<1>1. /\ names \in [TemplateCommands -> SUBSET Templates!Set]
      /\ templateFiles \in [Templates!Set -> TemplateCommands \cup {"free", "user"}]
  <2>1. {Templates!Set, {"client"}} \subseteq SUBSET Templates!Set
    BY DEF Templates!Set
  <2> QED BY <2>1 DEF Templates!TemplateInit
<1>2. ASSUME NEW f \in Templates!Set, NEW c \in TemplateCommands PROVE templateFiles[f] # c
  BY CommandsAssumption DEF Templates!TemplateInit
<1>3. /\ temps = [c \in TemplateCommands |-> {}]
      /\ linked = [c \in TemplateCommands |-> {}]
      /\ checked = [c \in TemplateCommands |-> {}]
      /\ pc = [c \in TemplateCommands |-> "check"]
  BY Zenon DEF Templates!TemplateInit
<1>4. TemplateTypes
  BY <1>1, <1>3 DEF TemplateTypes, TemplatePhases
<1>5. LinksKnown
  <2>1. ASSUME NEW c \in TemplateCommands PROVE linked[c] = {}
    BY <1>3
  <2> QED BY <1>2, <2>1, Zenon DEF LinksKnown
<1>6. LinksByPhase
  <2>1. ASSUME NEW c \in TemplateCommands PROVE linked[c] = {} /\ temps[c] = {} /\ pc[c] = "check"
    BY <1>3
  <2>2. "check" \notin {"clean", "published"}
    OBVIOUS
  <2> QED BY <2>1, <2>2, Zenon DEF LinksByPhase
<1> QED BY <1>4, <1>5, <1>6 DEF TemplatesInv

\* Every step of publishEvidenceTemplateSet and of the user keeps the invariant.
LEMMA StepTemplates ==
  ASSUME TemplatesInv, Templates!TemplateNext \/ UNCHANGED Templates!vars
  PROVE  TemplatesInv'
<1> USE DEF TemplatesInv, TemplateTypes
<1>1. ASSUME NEW c \in TemplateCommands, NEW f \in Templates!Set, Templates!CheckFree(c, f)
      PROVE  TemplatesInv'
  <2>1. TemplateTypes'
    BY <1>1 DEF Templates!CheckFree, Templates!Goes, TemplatePhases
  <2>2. LinksKnown' /\ LinksByPhase'
    BY <1>1 DEF Templates!CheckFree, Templates!Goes, LinksKnown, LinksByPhase, TemplatePhases
  <2> QED BY <2>1, <2>2
<1>2. ASSUME NEW c \in TemplateCommands, NEW f \in Templates!Set, Templates!Stage(c, f)
      PROVE  TemplatesInv'
  <2>1. TemplateTypes'
    BY <1>2 DEF Templates!Stage, Templates!Goes, TemplatePhases
  <2>2. LinksKnown' /\ LinksByPhase'
    BY <1>2 DEF Templates!Stage, Templates!Goes, LinksKnown, LinksByPhase, TemplatePhases
  <2> QED BY <2>1, <2>2
<1>3. ASSUME NEW c \in TemplateCommands, NEW f \in Templates!Set, Templates!Link(c, f)
      PROVE  TemplatesInv'
  <2>1. CASE UNCHANGED <<templateFiles, linked>> /\ Templates!Goes(c, "withdraw")
    BY <1>3, <2>1 DEF Templates!Link, Templates!Goes, LinksKnown, LinksByPhase, TemplatePhases
  <2>2. CASE /\ templateFiles[f] = "free"
             /\ templateFiles' = [templateFiles EXCEPT ![f] = c]
             /\ linked' = [linked EXCEPT ![c] = @ \cup {f}]
             /\ Templates!Goes(c, IF linked'[c] = names[c] THEN "clean" ELSE "link")
    <3>1. TemplateTypes'
      BY <1>3, <2>2 DEF Templates!Link, Templates!Goes, TemplatePhases
    <3>2. LinksKnown'
      BY <1>3, <2>2, CommandsAssumption DEF Templates!Link, LinksKnown
    <3>3. LinksByPhase'
      BY <1>3, <2>2 DEF Templates!Link, Templates!Goes, LinksByPhase
    <3> QED BY <3>1, <3>2, <3>3
  <2> QED BY <1>3, <2>1, <2>2 DEF Templates!Link
<1>4. ASSUME NEW c \in TemplateCommands, NEW f \in Templates!Set, Templates!LookAgain(c, f)
      PROVE  TemplatesInv'
  <2>1. UNCHANGED linked
    BY <1>4 DEF Templates!LookAgain, LinksKnown
  <2> QED BY <1>4, <2>1 DEF Templates!LookAgain, LinksKnown, LinksByPhase
<1>5. ASSUME NEW c \in TemplateCommands, NEW f \in Templates!Set, Templates!Withdraw(c, f)
      PROVE  TemplatesInv'
  <2>1. TemplateTypes'
    BY <1>5 DEF Templates!Withdraw
  <2>2. LinksKnown'
    BY <1>5, CommandsAssumption DEF Templates!Withdraw, LinksKnown
  <2>3. LinksByPhase'
    BY <1>5 DEF Templates!Withdraw, LinksByPhase
  <2> QED BY <2>1, <2>2, <2>3
<1>6. ASSUME NEW c \in TemplateCommands, Templates!RemoveTemps(c) PROVE TemplatesInv'
  BY <1>6 DEF Templates!RemoveTemps, Templates!Goes, LinksKnown, LinksByPhase, TemplatePhases
<1>7. ASSUME Templates!UserEdits PROVE TemplatesInv'
  BY <1>7, CommandsAssumption DEF Templates!UserEdits, LinksKnown, LinksByPhase
<1>8. ASSUME UNCHANGED Templates!vars PROVE TemplatesInv'
  BY <1>8 DEF Templates!vars, LinksKnown, LinksByPhase
<1> QED
  BY <1>1, <1>2, <1>3, <1>4, <1>5, <1>6, <1>7, <1>8 DEF Templates!TemplateNext

LEMMA TemplateFacts == ASSUME TemplatesInv PROVE Templates!SetsAreWhole
<1>1. SUFFICES ASSUME NEW c \in TemplateCommands
               PROVE /\ pc[c] = "published" => \A f \in names[c] : templateFiles[f] = c
                     /\ pc[c] = "failed" => \A f \in Templates!Set : templateFiles[f] # c
                     /\ pc[c] \in {"published", "failed"} => temps[c] = {}
  BY Zenon DEF Templates!SetsAreWhole
<1>2. ASSUME pc[c] = "published", NEW f \in names[c] PROVE templateFiles[f] = c
  <2>1. f \in linked[c] /\ f \in Templates!Set
    BY <1>2 DEF TemplatesInv, TemplateTypes, LinksByPhase
  <2> QED BY <2>1 DEF TemplatesInv, LinksKnown
<1>3. ASSUME pc[c] = "failed", NEW f \in Templates!Set PROVE templateFiles[f] # c
  BY <1>3 DEF TemplatesInv, LinksKnown, LinksByPhase
<1>4. pc[c] \in {"published", "failed"} => temps[c] = {}
  BY DEF TemplatesInv, LinksByPhase
<1> QED BY <1>2, <1>3, <1>4

-----------------------------------------------------------------------------
(* The run: the invariant of the component that moves.                     *)

SupplyInv ==
  /\ subject = "native" => ObservationInv
  /\ subject = "ci" => CiInv
  /\ subject = "runtime" => RuntimeInv
  /\ subject = "install" => PackageInv
  /\ subject = "staging" => StagingInv
  /\ subject = "candidates" => CandidateInv
  /\ subject = "evidence" => ChainInv
  /\ subject = "templates" => TemplatesInv

LEMMA SupplyInitially == SupplyInit => SupplyInv
BY InitObservation, InitCi, InitRuntime, InitPackage, InitStaging, InitCandidate, InitChain,
   InitTemplates
   DEF SupplyInit, Starts, SupplyInv

\* The subject stays, and a component moves by its own steps only.
LEMMA SubjectMoves ==
  ASSUME SupplyNext \/ UNCHANGED supplyVars
  PROVE  /\ subject' = subject
         /\ subject = "native" => Native!ObservationNext \/ UNCHANGED Native!vars
         /\ subject = "ci" => Ci!CiNext \/ UNCHANGED Ci!vars
         /\ subject = "runtime" => Runtime!RuntimeNext \/ UNCHANGED Runtime!vars
         /\ subject = "install" => Install!PackageNext \/ UNCHANGED Install!vars
         /\ subject = "staging" => Staging!StagingNext \/ UNCHANGED Staging!vars
         /\ subject = "candidates" => Candidates!CandidateNext \/ UNCHANGED Candidates!vars
         /\ subject = "evidence" => Evidence!EvidenceNext \/ UNCHANGED Evidence!vars
         /\ subject = "templates" => Templates!TemplateNext \/ UNCHANGED Templates!vars
<1>1. CASE SupplyNext
  BY <1>1 DEF SupplyNext, PoolMoves, NativeMoves, CiMoves, RuntimeMoves, InstallMoves,
              StagingMoves, CandidatesMoves, EvidenceMoves, TemplatesMoves
<1>2. CASE UNCHANGED supplyVars
  <2>1. UNCHANGED <<subject, nativeVars, ciVars, runtimeVars, installVars, stagingVars,
                    setVars, chainVars, templateVars>>
    BY <1>2 DEF supplyVars
  <2>2. UNCHANGED Native!vars /\ UNCHANGED Ci!vars
    BY <2>1 DEF nativeVars, ciVars, Native!vars, Ci!vars
  <2>3. UNCHANGED Runtime!vars /\ UNCHANGED Install!vars
    BY <2>1 DEF runtimeVars, installVars, Runtime!vars, Install!vars
  <2>4. UNCHANGED Staging!vars /\ UNCHANGED Candidates!vars
    BY <2>1 DEF stagingVars, setVars, Staging!vars, Candidates!vars
  <2>5. UNCHANGED Evidence!vars /\ UNCHANGED Templates!vars
    BY <2>1 DEF chainVars, templateVars, Evidence!vars, Templates!vars
  <2> QED BY <2>1, <2>2, <2>3, <2>4, <2>5
<1> QED BY <1>1, <1>2

LEMMA SupplyStep == SupplyInv /\ [SupplyNext]_supplyVars => SupplyInv'
<1> SUFFICES ASSUME SupplyInv, SupplyNext \/ UNCHANGED supplyVars PROVE SupplyInv'
  OBVIOUS
<1>1. subject' = subject
  BY SubjectMoves
<1>2. subject = "native" => ObservationInv'
  BY SubjectMoves, StepObservation DEF SupplyInv
<1>3. subject = "ci" => CiInv'
  BY SubjectMoves, StepCi DEF SupplyInv
<1>4. subject = "runtime" => RuntimeInv'
  BY SubjectMoves, StepRuntime DEF SupplyInv
<1>5. subject = "install" => PackageInv'
  BY SubjectMoves, StepPackage DEF SupplyInv
<1>6. subject = "staging" => StagingInv'
  BY SubjectMoves, StepStaging DEF SupplyInv
<1>7. subject = "candidates" => CandidateInv'
  BY SubjectMoves, StepCandidate DEF SupplyInv
<1>8. subject = "evidence" => ChainInv'
  BY SubjectMoves, StepChain DEF SupplyInv
<1>9. subject = "templates" => TemplatesInv'
  BY SubjectMoves, StepTemplates DEF SupplyInv
<1> QED BY <1>1, <1>2, <1>3, <1>4, <1>5, <1>6, <1>7, <1>8, <1>9 DEF SupplyInv

LEMMA SupplyAlways == SupplySpec => []SupplyInv
BY SupplyInitially, SupplyStep, PTL DEF SupplySpec

\* VerifyCompleteSet accepts a pair of observations only if two persons witnessed
\* each, under a policy that still trusts them, and the artifacts were unchanged.
THEOREM ObservationsAreWitnessed == SupplySpec => []AcceptedSetIsWitnessed
<1>1. SupplyInv => AcceptedSetIsWitnessed
  BY ObservationFacts DEF SupplyInv, AcceptedSetIsWitnessed
<1> QED BY <1>1, SupplyAlways, PTL

\* VerifySet of ciattestation and of nativeattestation accepts only what the
\* expected run of the workflow built and attested.
THEOREM AttestedIsAccepted == SupplySpec => []AcceptedSetsAreAttested
<1>1. SupplyInv => AcceptedSetsAreAttested
  BY CiFacts, RuntimeFacts DEF SupplyInv, AcceptedSetsAreAttested
<1> QED BY <1>1, SupplyAlways, PTL

\* Verify of nativepackageattestation accepts only packages that a job installed,
\* unless files changed under both the jobs and the verifier.
THEOREM InstalledIsAccepted == SupplySpec => []AcceptedWasInstalled
<1>1. SupplyInv => AcceptedWasInstalled
  BY PackageFacts DEF SupplyInv, AcceptedWasInstalled
<1> QED BY <1>1, SupplyAlways, PTL

\* A staging directory that is declared complete holds what its archives held, and
\* a recorded or accepted set of candidates what the release publishes.
THEOREM PublishedIsChecked == SupplySpec => []PublishedPackagesAreChecked
<1>1. SupplyInv => PublishedPackagesAreChecked
  BY StagingFacts, CandidateFacts DEF SupplyInv, PublishedPackagesAreChecked
<1> QED BY <1>1, SupplyAlways, PTL

\* A promotion stands on valid evidence in order, and the files of a validation
\* run appear as whole sets or not at all.
THEOREM PromotionsStand == SupplySpec => []EvidenceIsWhole
<1>1. SupplyInv => EvidenceIsWhole
  BY ChainFacts, TemplateFacts DEF SupplyInv, EvidenceIsWhole
<1> QED BY <1>1, SupplyAlways, PTL

=============================================================================
