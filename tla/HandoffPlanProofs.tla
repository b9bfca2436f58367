--------------------------- MODULE HandoffPlanProofs ---------------------------
(***************************************************************************)
(* What Execute starts was approved by a builder and, when callers keep to *)
(* the discovered-plan builders, found by the resolver, for every set of   *)
(* executables, files and hosts and however often values are changed.      *)
(***************************************************************************)
EXTENDS HandoffPlan, TLAPS

\* The invariant holds before anything was discovered.
LEMMA HandoffInitially == Init => HandoffInv
<1> SUFFICES ASSUME Init PROVE HandoffInv
  OBVIOUS
<1>1. PICK b \in Binaries, v \in Vectors :
        /\ client = [flavor |-> "qt", binary |-> b, discovered |-> FALSE, info |-> NoFile,
                     binding |-> [flavor |-> "qt", binary |-> b]]
        /\ plan = [route |-> "windows", flavor |-> "qt", binary |-> b,
                   args |-> v, qtPlatform |-> "",
                   local |-> FALSE, validated |-> FALSE, discovered |-> FALSE,
                   binding |-> [flavor |-> "qt", binary |-> b], info |-> NoFile,
                   argsBinding |-> v, qtBinding |-> ""]
        /\ child = [flavor |-> "qt", binary |-> b, args |-> v, qtPlatform |-> ""]
  BY DEF Init
<1>2. v \in ArgumentVectors
  BY VectorsAssumption
<1>3. client \in ClientValues
  BY <1>1 DEF ClientValues, Bindings, Flavors
<1>4. plan \in PlanValues
  BY <1>1, <1>2 DEF PlanValues, Bindings, Flavors, Routes, QtPlatforms
<1>5. child \in ChildValues
  BY <1>1, <1>2 DEF ChildValues, Flavors, QtPlatforms
<1>6. TypeOK
  <2>1. canceled \in BOOLEAN
    BY DEF Init
  <2>2. 0 \in 0..MaxDiscoveries /\ 0 \in 0..MaxApprovals /\ 0 \in 0..MaxEdits
    BY BoundsAssumption
  <2> QED BY <1>3, <1>4, <1>5, <2>1, <2>2 DEF Init, TypeOK
<1> QED
  BY <1>1, <1>6 DEF Init, HandoffInv, ClientFromDiscovery, PlanFromApproval,
                    PlanFromDiscovery, ProcessChecked

\* What a builder hands to Approve is an argument vector.
LEMMA ApproveKeepsTypes ==
  ASSUME TypeOK, NEW args \in ArgumentVectors, NEW platform \in QtPlatforms,
         NEW route \in Routes, NEW local \in BOOLEAN, Approve(args, platform, route, local)
  PROVE  /\ plan' \in PlanValues
         /\ approvals' \subseteq [args : ArgumentVectors, qtPlatform : QtPlatforms]
         /\ approved' \in 0..MaxApprovals
<1>1. plan' \in PlanValues
  BY DEF TypeOK, Approve, PlanValues, ClientValues, Bindings
<1>2. approved' \in 0..MaxApprovals
  BY BoundsAssumption DEF TypeOK, Approve
<1> QED BY <1>1, <1>2 DEF TypeOK, Approve

\* Every step keeps the types.
LEMMA StepTypes == TypeOK /\ [Next]_vars => TypeOK'
<1> SUFFICES ASSUME TypeOK, [Next]_vars PROVE TypeOK'
  OBVIOUS
<1> USE BoundsAssumption DEF vars, history, counters
<1>1. CASE bindDiscoveredClient
  <2>1. PICK flavor \in Flavors, binary \in Binaries, real \in BOOLEAN :
          LET info == IF real THEN disk[binary] ELSE NoFile
          IN  /\ client' = [flavor |-> flavor, binary |-> binary, discovered |-> TRUE,
                            info |-> info, binding |-> [flavor |-> flavor, binary |-> binary]]
              /\ discoveries' = discoveries \cup
                   {[flavor |-> flavor, binary |-> binary, info |-> info]}
    BY <1>1 DEF bindDiscoveredClient
  <2> DEFINE info == IF real THEN disk[binary] ELSE NoFile
  <2>2. info \in Files \cup {NoFile}
    BY DEF TypeOK
  <2> HIDE DEF info
  <2>3. client' \in ClientValues
    BY <2>1, <2>2 DEF info, ClientValues, Bindings
  <2>4. discoveries' \subseteq [flavor : Flavors, binary : Binaries, info : Files \cup {NoFile}]
    BY <2>1, <2>2 DEF info, TypeOK
  <2>5. discovered' \in 0..MaxDiscoveries
    BY <1>1 DEF bindDiscoveredClient, TypeOK
  <2> QED BY <1>1, <2>3, <2>4, <2>5 DEF bindDiscoveredClient, TypeOK
<1>2. CASE BuildPlan
  <2>1. PICK op \in Operations \ {"map"}, host \in Hosts, platform \in QtPlatforms,
             route \in Routes \ {""} :
          Approve([prefix |-> client.flavor = "flatpak",
                   env |-> IF client.flavor = "flatpak" THEN platform ELSE "",
                   op |-> op,
                   form |-> IF op = "stream" THEN streamOptionFlavor(client.flavor) ELSE "any",
                   host |-> host],
                  platform, route, FALSE)
    BY <1>2 DEF BuildPlan
  <2>2. client.flavor \in Flavors
    BY DEF TypeOK, ClientValues
  <2>3. [prefix |-> client.flavor = "flatpak",
         env |-> IF client.flavor = "flatpak" THEN platform ELSE "",
         op |-> op,
         form |-> IF op = "stream" THEN streamOptionFlavor(client.flavor) ELSE "any",
         host |-> host] \in ArgumentVectors
    <3>1. (client.flavor = "flatpak") \in BOOLEAN
      OBVIOUS
    <3>2. (IF client.flavor = "flatpak" THEN platform ELSE "") \in QtPlatforms
      BY DEF QtPlatforms
    <3>3. (IF op = "stream" THEN streamOptionFlavor(client.flavor) ELSE "any")
            \in {"any", "qt", "embedded"}
      BY <2>2 DEF streamOptionFlavor, Flavors
    <3> QED BY <3>1, <3>2, <3>3 DEF ArgumentVectors
  <2>4. plan' \in PlanValues /\ approved' \in 0..MaxApprovals
        /\ approvals' \subseteq [args : ArgumentVectors, qtPlatform : QtPlatforms]
    BY <2>1, <2>3, ApproveKeepsTypes
  <2> QED BY <1>2, <2>4 DEF BuildPlan, TypeOK
<1>3. CASE BuildInputMappingPlan
  <2>1. [prefix |-> FALSE, env |-> "", op |-> "map", form |-> "any", host |-> NoHost]
          \in ArgumentVectors
    BY DEF ArgumentVectors, Operations, QtPlatforms
  <2>2. "" \in QtPlatforms /\ "" \in Routes
    BY DEF QtPlatforms, Routes
  <2>3. plan' \in PlanValues /\ approved' \in 0..MaxApprovals
        /\ approvals' \subseteq [args : ArgumentVectors, qtPlatform : QtPlatforms]
    BY <1>3, <2>1, <2>2, ApproveKeepsTypes DEF BuildInputMappingPlan
  <2> QED BY <1>3, <2>3 DEF BuildInputMappingPlan, TypeOK
<1>4. CASE ChangeClient
  <2>1. client' \in ClientValues
    BY <1>4 DEF ChangeClient, TypeOK, ClientValues
  <2> QED BY <1>4, <2>1 DEF ChangeClient, TypeOK
<1>5. CASE ChangePlan
  <2>1. plan' \in PlanValues
    BY <1>5, VectorsAssumption DEF ChangePlan, TypeOK, PlanValues
  <2>2. edits < MaxEdits /\ edits' = edits + 1
        /\ UNCHANGED <<disk, client, canceled, process, history, discovered, approved>>
    BY <1>5 DEF ChangePlan
  <2> QED BY <2>1, <2>2 DEF TypeOK
<1>6. CASE DecodePlan
  <2>1. plan' \in PlanValues
    BY <1>6 DEF DecodePlan, TypeOK, PlanValues
  <2> QED BY <1>6, <2>1 DEF DecodePlan, TypeOK
<1>7. CASE ReplaceFile
  <2>1. disk' \in [Binaries -> Files \cup {NoFile}]
    BY <1>7 DEF ReplaceFile, TypeOK
  <2> QED BY <1>7, <2>1 DEF ReplaceFile, TypeOK
<1>8. CASE Cancel
  <2>1. canceled' \in BOOLEAN
    BY <1>8 DEF Cancel
  <2> QED BY <1>8, <2>1 DEF Cancel, TypeOK
<1>9. CASE Execute
  BY <1>9 DEF Execute, TypeOK
<1>10. CASE Run
  <2>1. child' \in ChildValues
    BY <1>10 DEF Run, TypeOK, PlanValues, ChildValues
  <2> QED BY <1>10, <2>1 DEF Run, TypeOK
<1>11. CASE Return
  BY <1>11 DEF Return, TypeOK
<1>12. CASE UNCHANGED vars
  BY <1>12 DEF TypeOK
<1> QED
  BY <1>1, <1>2, <1>3, <1>4, <1>5, <1>6, <1>7, <1>8, <1>9, <1>10, <1>11, <1>12 DEF Next

\* A new plan records the vector that was approved and the client's binding.
LEMMA ApprovedPlan ==
  ASSUME NEW args, NEW platform, NEW route, NEW local, Approve(args, platform, route, local)
  PROVE  /\ plan'.argsBinding = args /\ plan'.qtBinding = platform
         /\ [args |-> args, qtPlatform |-> platform] \in approvals'
         /\ plan'.binding = [flavor |-> client.flavor, binary |-> client.binary]
         /\ plan'.info = client.info
BY DEF Approve

\* Every step keeps the unexported fields true to their origin.
LEMMA StepOrigin ==
  ASSUME Builders \subseteq {"BuildDiscoveredPlan"}, HandoffInv, [Next]_vars
  PROVE  ClientFromDiscovery' /\ PlanFromDiscovery'
<1> USE DEF HandoffInv, ClientFromDiscovery, PlanFromDiscovery, vars, history, counters
<1>1. CASE bindDiscoveredClient
  BY <1>1 DEF bindDiscoveredClient
<1>2. CASE BuildPlan
  <2>1. ClientUnchanged
    BY <1>2 DEF BuildPlan
  <2>2. PICK args, platform, route : Approve(args, platform, route, FALSE)
    BY <1>2 DEF BuildPlan
  <2>3. plan'.binding = client.binding /\ plan'.info = client.info
    BY <2>1, <2>2, ApprovedPlan DEF ClientUnchanged
  <2>4. UNCHANGED <<client, discoveries>>
    BY <1>2 DEF BuildPlan
  <2> QED BY <2>1, <2>3, <2>4 DEF ClientUnchanged
<1>3. CASE BuildInputMappingPlan
  <2>1. ClientUnchanged /\ UNCHANGED <<client, discoveries>>
    BY <1>3 DEF BuildInputMappingPlan
  <2>2. PICK args : Approve(args, "", "", TRUE)
    BY <1>3 DEF BuildInputMappingPlan
  <2>3. plan'.binding = client.binding /\ plan'.info = client.info
    BY <2>1, <2>2, ApprovedPlan DEF ClientUnchanged
  <2> QED BY <2>1, <2>3 DEF ClientUnchanged
<1>4. CASE ChangeClient
  BY <1>4 DEF ChangeClient, TypeOK, ClientValues
<1>5. CASE ChangePlan
  BY <1>5 DEF ChangePlan, TypeOK, PlanValues
<1>6. CASE DecodePlan
  BY <1>6 DEF DecodePlan, TypeOK, PlanValues
<1>7. CASE ReplaceFile \/ Cancel \/ Execute \/ Run \/ Return
  BY <1>7 DEF ReplaceFile, Cancel, Execute, Run, Return
<1>8. CASE UNCHANGED vars
  BY <1>8
<1> QED BY <1>1, <1>2, <1>3, <1>4, <1>5, <1>6, <1>7, <1>8 DEF Next

\* Every step keeps the approval of a plan, whichever builders callers use.
LEMMA StepApproval == TypeOK /\ PlanFromApproval /\ [Next]_vars => PlanFromApproval'
<1> SUFFICES ASSUME TypeOK, PlanFromApproval, [Next]_vars PROVE PlanFromApproval'
  OBVIOUS
<1> USE DEF PlanFromApproval, vars, history, counters
<1>1. CASE bindDiscoveredClient \/ ChangeClient \/ ReplaceFile \/ Cancel
  <2>1. UNCHANGED <<plan, approvals>>
    BY <1>1 DEF bindDiscoveredClient, ChangeClient, ReplaceFile, Cancel
  <2> QED BY <2>1
<1>2. CASE BuildPlan \/ BuildInputMappingPlan
  <2>1. PICK args, platform, route, local : Approve(args, platform, route, local)
    BY <1>2 DEF BuildPlan, BuildInputMappingPlan
  <2> QED BY <2>1, ApprovedPlan
<1>3. CASE ChangePlan
  BY <1>3 DEF ChangePlan, TypeOK, PlanValues
<1>4. CASE DecodePlan
  BY <1>4 DEF DecodePlan, TypeOK, PlanValues
<1>5. CASE Execute \/ Run \/ Return \/ UNCHANGED vars
  BY <1>5 DEF Execute, Run, Return
<1> QED BY <1>1, <1>2, <1>3, <1>4, <1>5 DEF Next

\* While a process runs, its plan is the one that passed Execute.
LEMMA StepProcess == ProcessChecked /\ [Next]_vars => ProcessChecked'
<1> SUFFICES ASSUME ProcessChecked, [Next]_vars PROVE ProcessChecked'
  OBVIOUS
<1> USE DEF ProcessChecked, vars, history, counters
<1>1. CASE bindDiscoveredClient \/ BuildPlan \/ BuildInputMappingPlan
           \/ ChangeClient \/ ChangePlan \/ DecodePlan
  BY <1>1 DEF bindDiscoveredClient, BuildPlan, BuildInputMappingPlan,
              ChangeClient, ChangePlan, DecodePlan
<1>2. CASE ReplaceFile \/ Cancel
  BY <1>2 DEF ReplaceFile, Cancel
<1>3. CASE Execute
  BY <1>3 DEF Execute, FileUnchanged
<1>4. CASE Run
  BY <1>4 DEF Run
<1>5. CASE Return \/ UNCHANGED vars
  BY <1>5 DEF Return
<1> QED BY <1>1, <1>2, <1>3, <1>4, <1>5 DEF Next

\* Only values of the declared types are reachable.
THEOREM TypeCorrect == Spec => []TypeOK
<1>1. Init => TypeOK
  BY HandoffInitially DEF HandoffInv
<1> QED BY <1>1, StepTypes, PTL DEF Spec

\* No change to an exported field makes Execute start a vector or a Qt platform
\* that no builder approved, whichever builders callers use.
THEOREM OnlyApprovedVectorsStart == Spec => []StartedWasApproved
<1> DEFINE Inv == TypeOK /\ PlanFromApproval /\ ProcessChecked
<1>1. Init => Inv
  BY HandoffInitially DEF HandoffInv
<1>2. Inv /\ [Next]_vars => Inv'
  BY StepTypes, StepApproval, StepProcess
<1>3. Inv => StartedWasApproved
  BY DEF StartedWasApproved, PlanFromApproval, ProcessChecked, BoundToPlanning
<1> HIDE DEF Inv
<1> QED BY <1>1, <1>2, <1>3, PTL DEF Spec

\* Callers that keep to the discovered-plan builders start only clients that
\* the resolver returned, under the flavor it returned.
THEOREM OnlyDiscoveredClientsStart ==
  ASSUME Builders \subseteq {"BuildDiscoveredPlan"}
  PROVE  Spec => []StartedWasDiscovered
<1>1. HandoffInv /\ [Next]_vars => HandoffInv'
  BY StepTypes, StepApproval, StepProcess, StepOrigin DEF HandoffInv
<1>2. HandoffInv => StartedWasDiscovered
  <2> SUFFICES ASSUME HandoffInv, process = "started" PROVE StartedWasDiscovered
    BY DEF StartedWasDiscovered
  <2>1. /\ [flavor |-> plan.flavor, binary |-> plan.binary, info |-> plan.info] \in discoveries
        /\ child.flavor = plan.flavor /\ child.binary = plan.binary
        /\ plan.info # NoFile
    BY DEF HandoffInv, PlanFromDiscovery, ProcessChecked, BoundToPlanning
  <2> QED BY <2>1 DEF StartedWasDiscovered
<1> QED BY <1>1, <1>2, HandoffInitially, PTL DEF Spec

\* The same callers pass the boundary only with the very file that discovery
\* bound, whatever was replaced on disk before the check.
THEOREM OnlyDiscoveredFilesPass ==
  ASSUME Builders \subseteq {"BuildDiscoveredPlan"}
  PROVE  Spec => CheckedFileWasDiscovered
<1> DEFINE Same ==
      \E d \in discoveries :
        /\ d.flavor = plan.flavor /\ d.binary = plan.binary
        /\ d.info # NoFile /\ disk[plan.binary] = d.info
<1>1. HandoffInv /\ [Next]_vars => HandoffInv'
  BY StepTypes, StepApproval, StepProcess, StepOrigin DEF HandoffInv
<1>2. HandoffInv /\ [Next]_vars => [process = "none" /\ process' = "checked" => Same]_vars
  <2> SUFFICES ASSUME HandoffInv, Next, process = "none", process' = "checked" PROVE Same
    BY DEF vars, history, counters
  <2>1. Execute
    BY DEF Next, bindDiscoveredClient, BuildPlan, BuildInputMappingPlan, ChangeClient, ChangePlan,
           DecodePlan, ReplaceFile, Cancel, history, counters, Run, Return
  <2>2. /\ [flavor |-> plan.flavor, binary |-> plan.binary, info |-> plan.info] \in discoveries
        /\ plan.info # NoFile /\ disk[plan.binary] = plan.info
    BY <2>1 DEF Execute, BoundToPlanning, FileUnchanged, HandoffInv, PlanFromDiscovery
  <2> QED BY <2>2
<1> HIDE DEF Same
<1>3. Init => HandoffInv
  BY HandoffInitially
<1>4. Spec => [][process = "none" /\ process' = "checked" => Same]_vars
  BY <1>1, <1>2, <1>3, PTL DEF Spec
<1> QED BY <1>4 DEF Same, CheckedFileWasDiscovered
================================================================================
