------------------------ MODULE ProductionAssessment ------------------------
(***************************************************************************)
(* productionassessment.verify: the live release assessment, the external  *)
(* evidence on top of it, and the rechecks of both before a score is given *)
(* (externalVerification.recheck, VerifiedRelease.Recheck). Verification   *)
(* and recheck of the release are complete runs of ReleaseAssessment.      *)
(*                                                                         *)
(* External evidence of a criterion may be withdrawn, once and for all,    *)
(* and it expires when the clock reaches its end; the released scorecard   *)
(* does too.                                                               *)
(***************************************************************************)
EXTENDS ReleaseAssessment, FiniteSets

CONSTANTS
  Criteria,   \* the external criteria of the production contract
  MaxTime,    \* bound: the clock
  CardEnds    \* the scorecard's expires_at

ASSUME CriteriaAssumption == IsFiniteSet(Criteria)
ASSUME TimesAssumption == MaxTime \in Nat /\ CardEnds \in Nat

VARIABLES
  stage,      \* where the production verification is
  clock,      \* deps.now()
  standing,   \* criteria whose external evidence has not been withdrawn
  release,    \* what VerifyForProduction returned
  observed,   \* when it observed the release
  proofs,     \* criteria that the external verifiers proved, with their expiry
  earned,     \* criteria that the result gives points for
  lapsed      \* history: something reported ended before the release was rechecked

productionVars == <<stage, clock, standing, release, observed, proofs, earned, lapsed>>
vars == <<worldVars, verifyVars, productionVars>>

Stages == {"call", "release", "external", "derive", "recheckExternal", "recheckRelease",
           "recheckExternalAgain", "conclude", "scored", "failed"}

Expired == clock >= CardEnds

\* Points stand for proofs that are valid now.
Proved(now) == {c \in DOMAIN proofs : proofs[c] > now}

TypeOK ==
  /\ ReleaseTypeOK
  /\ stage \in Stages
  /\ clock \in 0..MaxTime
  /\ standing \subseteq Criteria
  /\ release \in [Objects -> Values \cup {Unread}]
  /\ observed \in 0..MaxTime
  /\ DOMAIN proofs \subseteq Criteria
  /\ earned \subseteq Criteria
  /\ lapsed \in BOOLEAN

-----------------------------------------------------------------------------
(* The world.                                                              *)

Running == stage \notin {"scored", "failed"}

\* Until the recheck has read everything once, and until it has ended.
BeforeRecheck ==
  stage \in {"external", "derive", "recheckExternal"} \/ (stage = "recheckRelease" /\ mid = Nothing)
UntilRechecked == stage \in {"derive", "recheckExternal", "recheckRelease"}

WorldChanges ==
  /\ Running
  /\ \E o \in Objects :
       /\ Change(o)
       /\ lapsed' = (lapsed \/ (BeforeRecheck /\ o \in Versioned))
  /\ UNCHANGED <<stage, clock, standing, release, observed, proofs, earned>>

Withdraw ==
  /\ Running
  /\ \E c \in standing :
       /\ standing' = standing \ {c}
       /\ lapsed' = (lapsed \/ (UntilRechecked /\ c \in DOMAIN proofs))
  /\ UNCHANGED <<worldVars, verifyVars, stage, clock, release, observed, proofs, earned>>

Tick ==
  /\ Running
  /\ clock < MaxTime
  /\ clock' = clock + 1
  /\ UNCHANGED <<worldVars, verifyVars, stage, standing, release, observed, proofs, earned, lapsed>>

-----------------------------------------------------------------------------
(* The verification.                                                       *)

Fails(at) ==
  /\ stage = at
  /\ stage' = "failed"
  /\ UNCHANGED <<worldVars, verifyVars, clock, standing, release, observed, proofs, earned, lapsed>>

\* VerifyForProduction.
CallRelease ==
  /\ stage = "call"
  /\ stage' = "release"
  /\ CallVerify
  /\ UNCHANGED <<worldVars, clock, standing, release, observed, proofs, earned, lapsed>>

VerifyRelease ==
  /\ stage \in {"release", "recheckRelease"}
  /\ VerifyStep
  /\ UNCHANGED productionVars

\* The result of VerifyForProduction, checked against the fixed baseline and
\* copied into the binding.
BindRelease ==
  \/ /\ stage = "release"
     /\ pc = "assessed"
     /\ release' = initial
     /\ observed' = clock
     /\ lapsed' = (live["release"] # initial["release"])
     /\ stage' = "external"
     /\ UNCHANGED <<worldVars, verifyVars, clock, standing, proofs, earned>>
  \/ pc = "failed" /\ Fails("release")

\* The external verifiers return proofs, for evidence that stands by then.
VerifyExternal ==
  \/ /\ stage = "external"
     /\ \E proved \in SUBSET standing : proofs' \in [proved -> (clock + 1)..CardEnds]
     /\ stage' = "derive"
     /\ UNCHANGED <<worldVars, verifyVars, clock, standing, release, observed, earned, lapsed>>
  \/ Fails("external")

\* deriveExternalCriteria refuses everything if one proof has expired.
DeriveFirst ==
  \/ /\ stage = "derive"
     /\ ~Expired
     /\ Proved(clock) = DOMAIN proofs
     /\ stage' = "recheckExternal"
     /\ UNCHANGED <<worldVars, verifyVars, clock, standing, release, observed, proofs, earned, lapsed>>
  \/ Fails("derive")

\* external.recheck: nothing that was proved has been withdrawn.
RecheckExternal ==
  \/ /\ stage = "recheckExternal"
     /\ DOMAIN proofs \subseteq standing
     /\ stage' = "recheckRelease"
     /\ CallVerify
     /\ UNCHANGED <<worldVars, clock, standing, release, observed, proofs, earned, lapsed>>
  \/ Fails("recheckExternal")

\* Mutant: the second assessment succeeds, but is not compared.
RecheckRelease_Uncompared ==
  \/ /\ stage = "recheckRelease"
     /\ pc = "assessed"
     /\ stage' = "recheckExternalAgain"
     /\ UNCHANGED <<worldVars, verifyVars, clock, standing, release, observed, proofs, earned, lapsed>>
  \/ pc \in {"assessed", "failed"} /\ Fails("recheckRelease")

\* VerifiedRelease.Recheck compares the complete second assessment with the first.
RecheckRelease ==
  \/ /\ stage = "recheckRelease"
     /\ pc = "assessed"
     /\ initial = release
     /\ stage' = "recheckExternalAgain"
     /\ UNCHANGED <<worldVars, verifyVars, clock, standing, release, observed, proofs, earned, lapsed>>
  \/ pc \in {"assessed", "failed"} /\ Fails("recheckRelease")

RecheckExternalAgain ==
  \/ /\ stage = "recheckExternalAgain"
     /\ DOMAIN proofs \subseteq standing
     /\ stage' = "conclude"
     /\ UNCHANGED <<worldVars, verifyVars, clock, standing, release, observed, proofs, earned, lapsed>>
  \/ Fails("recheckExternalAgain")

\* The last reading of the clock decides about expiry, and the points are added.
ConcludeScore ==
  \/ /\ stage = "conclude"
     /\ clock >= observed
     /\ ~Expired
     /\ Proved(clock) = DOMAIN proofs
     /\ earned' = DOMAIN proofs
     /\ stage' = "scored"
     /\ UNCHANGED <<worldVars, verifyVars, clock, standing, release, observed, proofs, lapsed>>
  \/ Fails("conclude")

VerificationStep ==
  \/ CallRelease \/ VerifyRelease \/ BindRelease \/ VerifyExternal \/ DeriveFirst
  \/ RecheckExternal \/ RecheckRelease \/ RecheckExternalAgain \/ ConcludeScore

Returned == ~Running /\ UNCHANGED vars

Init ==
  /\ VerifyInit
  /\ stage = "call"
  /\ clock = 0
  /\ standing = Criteria
  /\ release = Nothing
  /\ observed = 0
  /\ proofs = [c \in {} |-> 0]
  /\ earned = {}
  /\ lapsed = FALSE

Next == WorldChanges \/ Withdraw \/ Tick \/ VerificationStep \/ Returned

Spec == Init /\ [][Next]_vars

-----------------------------------------------------------------------------
\* A score stands for one state of affairs: from the first verification until the
\* recheck had read everything the release was the reported one, until the
\* recheck had ended no proved criterion had been withdrawn, and no proof and no
\* scorecard had expired when the score was given (verify, its order of rechecks).
ScoreStood ==
  stage = "scored" =>
    /\ ~lapsed
    /\ clock < CardEnds
    /\ \A c \in earned : proofs[c] > clock
=============================================================================
