------------------------------ MODULE CurrentCI ------------------------------
(***************************************************************************)
(* currentci.Verify: the present tip of main has a complete successful CI  *)
(* run and authentic evidence. Branch and Actions have no common snapshot, *)
(* so the source is resolved twice, the gate (CIGate) is asked twice, and  *)
(* main is read once more after the last gate.                             *)
(*                                                                         *)
(* The source is the tip of main when the check starts; main only advances *)
(* from there (moved): a forced push back is not modelled.                   *)
(***************************************************************************)
EXTENDS CIGate

VARIABLES
  moved,   \* main has advanced from the source
  pc,      \* where currentci.verify is
  first,   \* the run of the first gate
  joint    \* history: main and the latest run agreed while the last gate listed

ciVars == <<pc, first, joint>>
vars == <<world, gateVars, moved, ciVars>>

Places == {"resolve", "gate", "raceVet", "crossBuild", "resolveAgain", "gateAgain",
           "finalMain", "observed", "failed"}

\* What the returned observation says, true at this moment.
Holds(inventory, advanced) == ~advanced /\ LatestEligible(inventory) = first

Watching == pc = "gateAgain" /\ gate = "listAgain"

Failed == pc' = "failed" /\ UNCHANGED <<gateVars, first, joint>>

WorldMoves ==
  /\ pc \notin {"observed", "failed"}
  /\ \/ WorldChanges /\ UNCHANGED moved
     \/ pc # "resolve" /\ ~moved /\ moved' = TRUE /\ UNCHANGED <<world, gateVars>>
  /\ joint' = (joint \/ (Watching /\ Holds(runs', moved')))
  /\ UNCHANGED <<pc, first>>

\* resolveSource: what follows the ref is addressed by content; the workflow of
\* the commit may be one that is not supported.
ResolveSource ==
  /\ pc = "resolve"
  /\ \/ /\ pc' = "gate"
        /\ CallGate
        /\ UNCHANGED <<first, joint>>
     \/ Failed
  /\ UNCHANGED <<world, moved>>

\* The gate runs; its steps are those of CIGate.
RunGate ==
  /\ pc \in {"gate", "gateAgain"}
  /\ GateStep
  /\ joint' = (joint \/ (pc = "gateAgain" /\ gate' = "listAgain" /\ Holds(runs, moved)))
  /\ UNCHANGED <<moved, pc, first>>

FirstGateReturns ==
  /\ pc = "gate"
  /\ \/ /\ gate = "accepted"
        /\ pc' = "raceVet"
        /\ first' = run
        /\ UNCHANGED <<gateVars, joint>>
     \/ gate = "refused" /\ Failed
  /\ UNCHANGED <<world, moved>>

\* The signed race and vet evidence, then the signed cross-builds.
CheckSignatures ==
  /\ \/ pc = "raceVet" /\ pc' = "crossBuild" /\ UNCHANGED <<gateVars, first, joint>>
     \/ pc = "crossBuild" /\ pc' = "resolveAgain" /\ UNCHANGED <<gateVars, first, joint>>
     \/ pc \in {"raceVet", "crossBuild"} /\ Failed
  /\ UNCHANGED <<world, moved>>

ResolveSourceAgain ==
  /\ pc = "resolveAgain"
  /\ \/ /\ ~moved
        /\ pc' = "gateAgain"
        /\ CallGate
        /\ UNCHANGED <<first, joint>>
     \/ Failed
  /\ UNCHANGED <<world, moved>>

LastGateReturns ==
  /\ pc = "gateAgain"
  /\ \/ /\ gate = "accepted"
        /\ run.id = first.id /\ run.attempt = first.attempt
        /\ pc' = "finalMain"
        /\ UNCHANGED <<gateVars, first, joint>>
     \/ gate \in {"accepted", "refused"} /\ Failed
  /\ UNCHANGED <<world, moved>>

\* Mutant: main is not read again.
ResolveMain_Assumed ==
  /\ pc = "finalMain"
  /\ pc' = "observed"
  /\ UNCHANGED <<gateVars, first, joint, world, moved>>

\* Main again, as the last gate may have read many pages.
ResolveMain ==
  /\ pc = "finalMain"
  /\ \/ /\ ~moved
        /\ pc' = "observed"
        /\ UNCHANGED <<gateVars, first, joint>>
     \/ Failed
  /\ UNCHANGED <<world, moved>>

Returned == pc \in {"observed", "failed"} /\ UNCHANGED vars

Step ==
  \/ ResolveSource \/ RunGate \/ FirstGateReturns \/ CheckSignatures
  \/ ResolveSourceAgain \/ LastGateReturns \/ ResolveMain

Init ==
  /\ WorldInit
  /\ GateInit
  /\ moved = FALSE
  /\ pc = "resolve"
  /\ first = NoRun
  /\ joint = FALSE

Next == WorldMoves \/ Step \/ Returned

Spec == Init /\ [][Next]_vars

-----------------------------------------------------------------------------
\* An observation was true at one moment: while the last gate listed the runs,
\* main was the observed commit and the observed run its latest, although no
\* request read both (verify, "GitHub provides no atomic snapshot").
ObservedAtOnce == pc = "observed" => joint
=============================================================================
