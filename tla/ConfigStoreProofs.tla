-------------------------- MODULE ConfigStoreProofs --------------------------
(***************************************************************************)
(* For any number of writers and directories, Load reads whole files only, *)
(* and WriteNew implements ExclusiveCreate, whatever the operator does and *)
(* whoever crashes.                                                        *)
(***************************************************************************)
EXTENDS ConfigStore, TLAPS

\* The strengthening: a name that leads to a writer's file was linked by a
\* writer that has finished writing it, and a writer past the pinning of its
\* directory has one.
Published(w) == content[w] = "complete" /\ pc[w] \in {"cleanCreated", "created"}

Holding == {"create", "write", "sync", "link"}

StoreInv ==
  /\ TypeOK
  /\ \A d \in Directories : target[d] \in Writers => Published(target[d])
  /\ file \in Writers => Published(file)
  /\ \A w \in Writers : pc[w] \in Holding => root[w] \in Directories
  /\ \A w \in Writers : pc[w] \in {"sync", "link"} => content[w] = "complete"
  /\ \A w \in Writers : pc[w] = "pin" => info[w] \in Directories

\* The invariant holds before any writer has begun.
LEMMA StoreInit == Init => StoreInv
<1> SUFFICES ASSUME Init PROVE StoreInv
  OBVIOUS
<1>1. Writers \cap {"other", "link"} = {} /\ Nothing \notin Writers
  BY NamesAssumption
<1>2. TypeOK
  <2>1. target \in [Directories -> FileNames \cup {Nothing}]
    BY DEF Init, FileNames
  <2> QED BY <2>1 DEF Init, TypeOK, PathNames, Contents, WriterStates, Finished, ReaderStates
<1> QED BY <1>1, <1>2 DEF Init, StoreInv, Published, Holding

\* A step of one writer preserves it: what is visible to others is never
\* written again.
LEMMA StoreWriter ==
  ASSUME StoreInv, NEW w \in Writers, WriteNew(w)
  PROVE  StoreInv'
<1> USE DEF treeVars, readerVars, Goto, Published, Holding
<1>t. TypeOK
  BY DEF StoreInv
<1>n. Writers \cap {"other", "link"} = {} /\ Nothing \notin Writers
  BY NamesAssumption
<1>1. CASE EnsureDirectory(w)
  <2>1. TypeOK'
    BY <1>t, <1>1 DEF TypeOK, EnsureDirectory, WriterStates, Finished
  <2> QED BY <1>t, <1>n, <1>1, <2>1 DEF StoreInv, TypeOK, EnsureDirectory, Finished
<1>2. CASE MakeDirectory(w)
  <2>1. TypeOK'
    BY <1>t, <1>2 DEF TypeOK, MakeDirectory, WriterStates, Finished, PathNames
  <2> QED BY <1>t, <1>n, <1>2, <2>1 DEF StoreInv, TypeOK, MakeDirectory, Finished
<1>3. CASE InspectCreated(w)
  <2>1. TypeOK'
    BY <1>t, <1>3 DEF TypeOK, InspectCreated, WriterStates, Finished
  <2> QED BY <1>t, <1>n, <1>3, <2>1 DEF StoreInv, TypeOK, InspectCreated, Finished
<1>4. CASE InspectTarget(w)
  <2>1. TypeOK'
    BY <1>t, <1>4 DEF TypeOK, InspectTarget, WriterStates, Finished
  <2> QED BY <1>t, <1>n, <1>4, <2>1 DEF StoreInv, TypeOK, InspectTarget, Finished
<1>5. CASE InspectDirectory(w)
  <2>1. TypeOK'
    BY <1>t, <1>5 DEF TypeOK, InspectDirectory, WriterStates, Finished, PathNames
  <2> QED BY <1>t, <1>n, <1>5, <2>1 DEF StoreInv, TypeOK, InspectDirectory, Finished
<1>6. CASE PinDirectory(w)
  <2>1. TypeOK'
    BY <1>t, <1>6 DEF StoreInv, TypeOK, PinDirectory, WriterStates, Finished
  <2> QED BY <1>t, <1>n, <1>6, <2>1 DEF StoreInv, TypeOK, PinDirectory, Finished
<1>7. CASE CreateTemp(w)
  <2>1. TypeOK'
    BY <1>t, <1>7 DEF TypeOK, CreateTemp, WriterStates, Finished, Contents
  <2> QED BY <1>t, <1>n, <1>7, <2>1 DEF StoreInv, TypeOK, CreateTemp, Finished
<1>8. CASE WriteTemp(w)
  <2>1. TypeOK'
    BY <1>t, <1>8 DEF TypeOK, WriteTemp, WriterStates, Finished, Contents
  <2> QED BY <1>t, <1>n, <1>8, <2>1 DEF StoreInv, TypeOK, WriteTemp, Finished
<1>9. CASE SyncTemp(w)
  <2>1. TypeOK'
    BY <1>t, <1>9 DEF TypeOK, SyncTemp, WriterStates, Finished
  <2> QED BY <1>t, <1>n, <1>9, <2>1 DEF StoreInv, TypeOK, SyncTemp, Finished
<1>10. CASE Publish(w)
  <2>1. TypeOK'
    BY <1>t, <1>10 DEF TypeOK, Publish, WriterStates, Finished, FileNames
  <2> QED BY <1>t, <1>n, <1>10, <2>1 DEF StoreInv, TypeOK, Publish, Finished
<1>11. CASE CleanUp(w)
  <2>1. TypeOK'
    BY <1>t, <1>11 DEF TypeOK, CleanUp, WriterStates, Finished
  <2> QED BY <1>t, <1>n, <1>11, <2>1 DEF StoreInv, TypeOK, CleanUp, Finished
<1>12. CASE Crash(w)
  <2>1. TypeOK'
    BY <1>t, <1>12 DEF TypeOK, Crash, WriterStates, Finished, Contents
  <2> QED BY <1>t, <1>n, <1>12, <2>1 DEF StoreInv, TypeOK, Crash, Finished
<1> QED BY <1>1, <1>2, <1>3, <1>4, <1>5, <1>6, <1>7, <1>8, <1>9, <1>10, <1>11, <1>12 DEF WriteNew

\* Nor do Load and the operator disturb it.
LEMMA StoreOthers == StoreInv /\ (Load \/ Operator) => StoreInv'
<1> SUFFICES ASSUME StoreInv, Load \/ Operator PROVE StoreInv'
  OBVIOUS
<1> USE DEF treeVars, writerVars, readerVars, Published, Holding
<1>t. TypeOK
  BY DEF StoreInv
<1>n. Writers \cap {"other", "link"} = {} /\ Nothing \notin Writers
  BY NamesAssumption
<1>f. ASSUME NEW result \in ReaderStates, LoadFails(result), UNCHANGED <<treeVars, writerVars>>
      PROVE  StoreInv'
  BY <1>n, <1>f DEF LoadFails, StoreInv, TypeOK
<1>1. CASE LoadParents
  BY <1>1 DEF LoadParents, StoreInv, TypeOK, ReaderStates
<1>2. CASE LoadInspect
  BY <1>2 DEF LoadInspect, StoreInv, TypeOK, ReaderStates, Regular
<1>3. CASE LoadOpen
  <2>1. CASE LoadFails("notFound") \/ LoadFails("failed")
    BY <1>3, <1>f, <2>1 DEF LoadOpen, ReaderStates
  <2>2. CASE /\ file' \in Regular
             /\ \E d \in Directories : file' = target[d]
             /\ reader' = "reinspect" /\ UNCHANGED before
    <3>1. TypeOK'
      BY <1>t, <1>3, <2>2 DEF LoadOpen, TypeOK, ReaderStates, Regular
    <3>2. file' \in Writers => Published(file')
      BY <2>2 DEF StoreInv
    <3>3. UNCHANGED <<target, content, pc, root, info>>
      BY <1>3 DEF LoadOpen
    <3> QED BY <3>1, <3>2, <3>3 DEF StoreInv
  <2>3. Named \cap Regular \subseteq {target[d] : d \in Directories}
    <3>1. Resolved \subseteq Directories
      BY DEF Resolved
    <3>2. Nothing \notin Regular
      BY NamesAssumption DEF Regular, FileNames
    <3> QED BY <3>1, <3>2 DEF Named
  <2> QED BY <1>3, <2>1, <2>2, <2>3 DEF LoadOpen
<1>4. CASE LoadReinspect
  <2>1. CASE LoadFails("notFound") \/ LoadFails("failed")
    BY <1>4, <1>f, <2>1 DEF LoadReinspect, ReaderStates
  <2>2. CASE reader' = "read" /\ UNCHANGED <<before, file>>
    BY <1>4, <2>2 DEF LoadReinspect, StoreInv, TypeOK, ReaderStates
  <2> QED BY <1>4, <2>1, <2>2 DEF LoadReinspect
<1>5. CASE LoadRead
  <2>1. CASE LoadFails("failed")
    BY <1>5, <1>f, <2>1 DEF LoadRead, ReaderStates
  <2>2. CASE reader' = "loaded" /\ UNCHANGED <<before, file>>
    BY <1>5, <2>2 DEF LoadRead, StoreInv, TypeOK, ReaderStates
  <2> QED BY <1>5, <2>1, <2>2 DEF LoadRead
<1>6. CASE LoadAgain
  BY <1>n, <1>6 DEF LoadAgain, StoreInv, TypeOK, ReaderStates
<1>7. CASE MoveDirectory
  BY <1>7 DEF MoveDirectory, StoreInv, TypeOK
<1>8. CASE RemoveTarget
  BY <1>n, <1>8 DEF RemoveTarget, StoreInv, TypeOK
<1> QED BY <1>1, <1>2, <1>3, <1>4, <1>5, <1>6, <1>7, <1>8 DEF Load, Operator

\* The invariant holds in every reachable state.
LEMMA StoreAlways == Spec => []StoreInv
<1>1. StoreInv /\ [Next]_vars => StoreInv'
  <2> SUFFICES ASSUME StoreInv, [Next]_vars PROVE StoreInv'
    OBVIOUS
  <2>1. CASE UNCHANGED vars
    BY <2>1 DEF vars, treeVars, writerVars, readerVars, StoreInv, TypeOK, Published, Holding
  <2> QED BY <2>1, StoreWriter, StoreOthers DEF Next
<1> QED BY <1>1, StoreInit, PTL DEF Spec

\* Load reads no file of a WriteNew that failed, crashed or is still writing.
THEOREM LoadReadsWholeFiles == Spec => []ReadsWholeFiles
<1>1. StoreInv => ReadsWholeFiles
  BY DEF StoreInv, Published, ReadsWholeFiles
<1> QED BY <1>1, StoreAlways, PTL

-----------------------------------------------------------------------------
(* The refinement. *)

\* What became of the writers after one of them went to a place.
LEMMA OutcomesStep ==
  ASSUME TypeOK, NEW w \in Writers, NEW place, Goto(w, place)
  PROVE  Outcomes' = [Outcomes EXCEPT ![w] = Outcome(place)]
BY DEF TypeOK, Goto, Outcomes

\* A place with the same outcome is not seen; failing is giving up.
LEMMA UnseenStep ==
  ASSUME TypeOK, NEW w \in Writers, NEW place, Goto(w, place), target' = target,
         \/ Outcome(place) = Outcome(pc[w])
         \/ Outcome(place) = "failed" /\ Outcome(pc[w]) = "writing"
  PROVE  [Abstract!Next]_<<Stored, Outcomes>>
<1>1. Stored' = Stored
  BY DEF Stored
<1>2. Outcomes[w] = Outcome(pc[w]) /\ Outcomes' = [Outcomes EXCEPT ![w] = Outcome(place)]
  BY OutcomesStep DEF Outcomes
<1>3. CASE Outcome(place) = Outcome(pc[w])
  BY <1>1, <1>2, <1>3 DEF Outcomes
<1>4. CASE Outcome(place) = "failed" /\ Outcome(pc[w]) = "writing"
  BY <1>1, <1>2, <1>4 DEF Abstract!Next, Abstract!GiveUp
<1> QED BY <1>3, <1>4

\* A step of a writer creates the configuration, finds another, gives up, or is
\* not seen.
LEMMA RefineWriter ==
  ASSUME StoreInv, NEW w \in Writers, WriteNew(w)
  PROVE  [Abstract!Next]_<<Stored, Outcomes>>
<1> USE DEF treeVars, readerVars
<1>t. TypeOK
  BY DEF StoreInv
<1>n. Nothing # "other" /\ Nothing # "link"
  BY NamesAssumption
<1>o. Outcomes[w] = Outcome(pc[w])
  BY DEF Outcomes
<1>1. CASE EnsureDirectory(w)
  <2>1. PICK place \in {"make", "inspect", "failed"} : Goto(w, place)
    BY <1>1 DEF EnsureDirectory
  <2>2. pc[w] = "ensure" /\ target' = target
    BY <1>1 DEF EnsureDirectory
  <2> QED BY <1>t, <2>1, <2>2, UnseenStep DEF Outcome
<1>2. CASE MakeDirectory(w)
  <2>1. PICK place \in {"made", "failed"} : Goto(w, place)
    BY <1>2 DEF MakeDirectory
  <2>2. pc[w] = "make"
    BY <1>2 DEF MakeDirectory
  <2>3. CASE target' = target
    BY <1>t, <2>1, <2>2, <2>3, UnseenStep DEF Outcome
  <2>4. CASE target' # target
    <3>1. PICK d \in Directories : target' = [target EXCEPT ![d] = Nothing] /\ Goto(w, "made")
      BY <1>2, <2>4 DEF MakeDirectory
    <3>2. target[d] # Nothing
      BY <1>t, <2>4, <3>1 DEF TypeOK
    <3>3. Stored[d] # Nothing /\ Stored' = [Stored EXCEPT ![d] = Nothing]
      BY <1>t, <1>n, <3>1, <3>2 DEF TypeOK, Stored
    <3>4. Outcomes[w] = "writing" /\ Outcomes' = [Outcomes EXCEPT ![w] = "writing"]
      BY <1>t, <1>o, <2>2, <3>1, OutcomesStep DEF Outcome
    <3>5. Outcomes' = Outcomes
      BY <3>4 DEF Outcomes
    <3> QED BY <3>3, <3>5 DEF Abstract!Next, Abstract!Remove
  <2> QED BY <2>3, <2>4
<1>3. CASE InspectCreated(w)
  <2>1. PICK place \in {"inspect", "failed"} : Goto(w, place)
    BY <1>3 DEF InspectCreated
  <2>2. pc[w] = "made" /\ target' = target
    BY <1>3 DEF InspectCreated
  <2> QED BY <1>t, <2>1, <2>2, UnseenStep DEF Outcome
<1>4. CASE InspectTarget(w)
  <2>1. pc[w] = "inspect" /\ target' = target /\ Stored' = Stored
    BY <1>4 DEF InspectTarget, Stored
  <2>2. CASE Goto(w, "open") \/ Goto(w, "failed")
    BY <1>t, <2>1, <2>2, UnseenStep DEF Outcome
  <2>3. CASE Goto(w, "exists") /\ \E f \in Named : f # Nothing
    <3>1. PICK d \in Directories : target[d] # Nothing
      BY <2>3 DEF Named, Resolved
    <3>2. Stored[d] # Nothing
      BY <1>n, <3>1 DEF Stored
    <3>3. Outcomes[w] = "writing" /\ Outcomes' = [Outcomes EXCEPT ![w] = "exists"]
      BY <1>t, <1>o, <2>1, <2>3, OutcomesStep DEF Outcome
    <3> QED BY <2>1, <3>2, <3>3 DEF Abstract!Next, Abstract!Exists
  <2> QED BY <1>4, <2>2, <2>3 DEF InspectTarget
<1>5. CASE InspectDirectory(w)
  <2>1. PICK place \in {"pin", "failed"} : Goto(w, place)
    BY <1>5 DEF InspectDirectory
  <2>2. pc[w] = "open" /\ target' = target
    BY <1>5 DEF InspectDirectory
  <2> QED BY <1>t, <2>1, <2>2, UnseenStep DEF Outcome
<1>6. CASE PinDirectory(w)
  <2>1. PICK place \in {"create", "failed"} : Goto(w, place)
    BY <1>6 DEF PinDirectory
  <2>2. pc[w] = "pin" /\ target' = target
    BY <1>6 DEF PinDirectory
  <2> QED BY <1>t, <2>1, <2>2, UnseenStep DEF Outcome
<1>7. CASE CreateTemp(w)
  <2>1. PICK place \in {"write", "failed"} : Goto(w, place)
    BY <1>7 DEF CreateTemp
  <2>2. pc[w] = "create" /\ target' = target
    BY <1>7 DEF CreateTemp
  <2> QED BY <1>t, <2>1, <2>2, UnseenStep DEF Outcome
<1>8. CASE WriteTemp(w)
  <2>1. PICK place \in {"sync", "cleanFailed"} : Goto(w, place)
    BY <1>8 DEF WriteTemp
  <2>2. pc[w] = "write" /\ target' = target
    BY <1>8 DEF WriteTemp
  <2> QED BY <1>t, <2>1, <2>2, UnseenStep DEF Outcome
<1>9. CASE SyncTemp(w)
  <2>1. PICK place \in {"link", "cleanFailed"} : Goto(w, place)
    BY <1>9 DEF SyncTemp
  <2>2. pc[w] = "sync" /\ target' = target
    BY <1>9 DEF SyncTemp
  <2> QED BY <1>t, <2>1, <2>2, UnseenStep DEF Outcome
<1>10. CASE Publish(w)
  <2>1. pc[w] = "link" /\ root[w] \in Directories
    BY <1>10 DEF Publish, StoreInv, Holding
  <2>2. CASE Goto(w, "cleanFailed") /\ target' = target
    BY <1>t, <2>1, <2>2, UnseenStep DEF Outcome
  <2>3. CASE Goto(w, "cleanExists") /\ target' = target /\ target[root[w]] # Nothing
    <3>1. Stored[root[w]] # Nothing /\ Stored' = Stored
      BY <1>n, <2>1, <2>3 DEF Stored
    <3>2. Outcomes[w] = "writing" /\ Outcomes' = [Outcomes EXCEPT ![w] = "exists"]
      BY <1>t, <1>o, <2>1, <2>3, OutcomesStep DEF Outcome
    <3> QED BY <2>1, <3>1, <3>2 DEF Abstract!Next, Abstract!Exists
  <2>4. CASE Goto(w, "cleanCreated") /\ target[root[w]] = Nothing /\ target' = [target EXCEPT ![root[w]] = w]
    <3>1. w # "link"
      BY NamesAssumption
    <3>2. Stored[root[w]] = Nothing /\ Stored' = [Stored EXCEPT ![root[w]] = w]
      BY <1>t, <1>n, <2>1, <2>4, <3>1 DEF TypeOK, Stored
    <3>3. Outcomes[w] = "writing" /\ Outcomes' = [Outcomes EXCEPT ![w] = "created"]
      BY <1>t, <1>o, <2>1, <2>4, OutcomesStep DEF Outcome
    <3> QED BY <2>1, <3>2, <3>3 DEF Abstract!Next, Abstract!Create
  <2> QED BY <1>10, <2>2, <2>3, <2>4 DEF Publish
<1>11. CASE CleanUp(w)
  <2>1. PICK place \in {"created", "exists", "failed"} :
          Goto(w, place) /\ Outcome(place) = Outcome(pc[w])
    BY <1>11 DEF CleanUp, Outcome
  <2>2. target' = target
    BY <1>11 DEF CleanUp
  <2> QED BY <1>t, <2>1, <2>2, UnseenStep
<1>12. CASE Crash(w)
  <2>1. Goto(w, "crashed") /\ target' = target
    BY <1>12 DEF Crash
  <2>2. Outcome(pc[w]) = "writing"
    BY <1>t, <1>12 DEF Crash, TypeOK, WriterStates, Finished, Outcome
  <2> QED BY <1>t, <2>1, <2>2, UnseenStep DEF Outcome
<1> QED BY <1>1, <1>2, <1>3, <1>4, <1>5, <1>6, <1>7, <1>8, <1>9, <1>10, <1>11, <1>12 DEF WriteNew

\* Load is not seen, and the operator at most removes a configuration.
LEMMA RefineOthers ==
  StoreInv /\ (Load \/ Operator \/ UNCHANGED vars) => [Abstract!Next]_<<Stored, Outcomes>>
<1> SUFFICES ASSUME StoreInv, Load \/ Operator \/ UNCHANGED vars
             PROVE  [Abstract!Next]_<<Stored, Outcomes>>
  OBVIOUS
<1> USE DEF vars, treeVars, writerVars, readerVars
<1>1. CASE Load \/ MoveDirectory \/ UNCHANGED vars
  <2>1. target' = target /\ pc' = pc
    BY <1>1 DEF Load, LoadParents, LoadInspect, LoadOpen, LoadReinspect, LoadRead, LoadAgain, MoveDirectory
  <2> QED BY <2>1 DEF Stored, Outcomes
<1>2. CASE RemoveTarget
  <2>1. PICK d \in Directories : target[d] # Nothing /\ target' = [target EXCEPT ![d] = Nothing]
    BY <1>2 DEF RemoveTarget
  <2>2. Stored[d] # Nothing /\ Stored' = [Stored EXCEPT ![d] = Nothing]
    BY <2>1, NamesAssumption DEF StoreInv, TypeOK, Stored
  <2>3. Outcomes' = Outcomes
    BY <1>2 DEF RemoveTarget, Outcomes
  <2> QED BY <2>2, <2>3 DEF Abstract!Next, Abstract!Remove
<1> QED BY <1>1, <1>2 DEF Operator

\* WriteNew implements an atomic exclusive creation: a configuration appears
\* whole and only where there was none, and every writer learns the truth.
THEOREM StoreImplementsExclusiveCreate == Spec => ImplementsExclusiveCreate
<1>1. Init => Abstract!Init
  <2> SUFFICES ASSUME Init PROVE Abstract!Init
    OBVIOUS
  <2>1. Stored \in [Directories -> {Nothing} \cup {"other"}]
    BY DEF Init, Stored
  <2>2. Outcomes = [w \in Writers |-> "writing"]
    BY DEF Init, Outcomes, Outcome
  <2> QED BY <2>1, <2>2 DEF Abstract!Init
<1>2. StoreInv /\ [Next]_vars => [Abstract!Next]_<<Stored, Outcomes>>
  BY RefineWriter, RefineOthers DEF Next
<1> QED BY <1>1, <1>2, StoreAlways, PTL DEF Spec, ImplementsExclusiveCreate, Abstract!Spec
=============================================================================
