------------------------- MODULE RemoteSessionProofs -------------------------
(***************************************************************************)
(* RemoteSession is type correct, streams only from a client whose listing *)
(* admitted it, and implements StreamGate, for every platform, every set   *)
(* of PATH states and every set of invocations.                            *)
(***************************************************************************)
EXTENDS RemoteSession, TLAPS

-----------------------------------------------------------------------------
(* The operators of Discovery.                                             *)

\* A lookup candidate is named, ranked and given a flavor.
LEMMA CandidateType ==
  ASSUME NEW goos \in Platforms, NEW preferred \in Selections,
         NEW c \in LookupCandidates(goos, preferred)
  PROVE  c.name \in Names /\ c.rank \in 1..4 /\ c.flavor \in Flavors
BY DEF LookupCandidates, Candidate, Platforms, Selections, Names, Flavors,
       defaultMoonlightFlavorFor, genericMoonlightIsEmbedded, flatpakSupportedForPlatform

\* A set of candidates that is not empty has a first one.
LEMMA FirstCandidate ==
  ASSUME NEW hits, hits # {}, \A c \in hits : c.rank \in 1..4
  PROVE  \E c \in hits : \A d \in hits : c.rank <= d.rank
<1>1. CASE \E c \in hits : c.rank = 1
  BY <1>1
<1>2. CASE (\A c \in hits : c.rank # 1) /\ (\E c \in hits : c.rank = 2)
  BY <1>2
<1>3. CASE (\A c \in hits : c.rank \notin {1, 2}) /\ (\E c \in hits : c.rank = 3)
  BY <1>3
<1>4. CASE \A c \in hits : c.rank \notin {1, 2, 3}
  BY <1>4
<1> QED BY <1>1, <1>2, <1>3, <1>4

\* discoverForPlatform returns an installed client or NoClient.
LEMMA DiscoverType ==
  ASSUME NEW paths \in PathStates, NEW goos \in Platforms, NEW preferred \in Selections
  PROVE  discoverForPlatform(paths, goos, preferred) \in Clients \cup {NoClient}
<1> DEFINE hits == {c \in LookupCandidates(goos, preferred) : paths[c.name] # NoBinary}
           first == CHOOSE c \in hits : \A d \in hits : c.rank <= d.rank
<1>1. \A c \in hits : c.rank \in 1..4 /\ c.name \in Names /\ c.flavor \in Flavors
                      /\ paths[c.name] \in Binaries
  BY CandidateType DEF PathStates
<1>2. CASE hits = {}
  BY <1>2 DEF discoverForPlatform
<1>3. CASE hits # {}
  <2>1. first \in hits
    BY <1>1, <1>3, FirstCandidate
  <2>2. [flavor |-> first.flavor, binary |-> paths[first.name]] \in Clients
    BY <1>1, <2>1 DEF Clients
  <2> QED BY <1>3, <2>2 DEF discoverForPlatform
<1> QED BY <1>2, <1>3

\* The recovery search only resolves known selections.
LEMMA SelectionsType ==
  ASSUME NEW goos \in Platforms, NEW i \in 1..Len(AutomaticClientSelections(goos))
  PROVE  AutomaticClientSelections(goos)[i] \in Selections
<1>1. CASE goos = "linux"
  BY <1>1 DEF AutomaticClientSelections, flatpakSupportedForPlatform, Selections, Names
<1>2. CASE goos # "linux"
  BY <1>2 DEF AutomaticClientSelections, flatpakSupportedForPlatform, Selections, Names
<1> QED BY <1>1, <1>2

\* At most four selections, at least three.
LEMMA SelectionsLength ==
  ASSUME NEW goos \in Platforms
  PROVE  Len(AutomaticClientSelections(goos)) \in 3..4
BY DEF AutomaticClientSelections, flatpakSupportedForPlatform

\* Recovery returns an installed client or NoClient as well.
LEMMA AutomaticDiscoverType ==
  ASSUME NEW paths \in PathStates, NEW goos \in Platforms, NEW selection \in Selections
  PROVE  DiscoverAutomaticClientForPlatform(paths, goos, selection) \in Clients \cup {NoClient}
<1> DEFINE found == discoverForPlatform(paths, goos, selection)
<1>1. found \in Clients \cup {NoClient}
  BY DiscoverType
<1>2. found # NoClient => [found EXCEPT !.flavor = "qt"] \in Clients
  BY <1>1 DEF Clients, Flavors
<1> QED BY <1>1, <1>2 DEF DiscoverAutomaticClientForPlatform

\* The failed lookup is no client.
LEMMA NoClientIsNone == NoClient \notin Clients
BY BinariesAssumption DEF NoClient, Clients, Flavors

-----------------------------------------------------------------------------
(* The session.                                                            *)

\* The fields of an invocation.
LEMMA RequestFields ==
  ASSUME NEW r \in Requests
  PROVE  /\ r \in RequestType
         /\ r.op \in Operations
         /\ r.selection \in Selections
         /\ r.wakeRetries \in 0..5
         /\ r.reconnects \in 0..5
         /\ r.automatic \in BOOLEAN /\ r.wake \in BOOLEAN /\ r.dryRun \in BOOLEAN
         /\ r.confirmed \in BOOLEAN /\ r.acknowledged \in BOOLEAN
BY RequestsAssumption DEF RequestType

\* What discovery and recovery find is a client or NoClient.
LEMMA DiscoveredType ==
  ASSUME TypeOK, scan <= Len(AutomaticClientSelections(Goos))
  PROVE  /\ discoverForPlatform(path, Goos, req.selection) \in Clients \cup {NoClient}
         /\ ScannedCandidate \in Clients \cup {NoClient}
<1>1. path \in PathStates /\ req.selection \in Selections
  BY PathsAssumption, RequestFields DEF TypeOK
<1>2. discoverForPlatform(path, Goos, req.selection) \in Clients \cup {NoClient}
  BY <1>1, DiscoverType, GoosAssumption
<1>3. scan \in 1..Len(AutomaticClientSelections(Goos))
  BY DEF TypeOK
<1>4. ScannedCandidate \in Clients \cup {NoClient}
  BY <1>1, <1>3, SelectionsType, AutomaticDiscoverType, GoosAssumption DEF ScannedCandidate
<1> QED BY <1>2, <1>4

\* The invariant holds when the command starts.
LEMMA InitInvariant == Init => SessionInv
<1> SUFFICES ASSUME Init PROVE SessionInv
  OBVIOUS
<1>1. TypeOK
  <2>1. canceled \in BOOLEAN /\ fallbackTried \in BOOLEAN
    BY DEF Init
  <2> QED BY <2>1 DEF Init, TypeOK, PCs
<1>2. PlansBound
  BY DEF Init, PlansBound, Planned, Recovering
<1>3. ProcessBound
  BY DEF Init, ProcessBound, StreamPoints
<1>4. req.reconnects \in 0..5
  BY RequestFields DEF Init
<1>5. CountersBound
  <2>1. scan <= Len(AutomaticClientSelections(Goos))
    BY SelectionsLength, GoosAssumption DEF Init
  <2> QED BY <1>4, <2>1 DEF Init, CountersBound, Recovering
<1> QED BY <1>1, <1>2, <1>3, <1>5 DEF SessionInv

\* Every step of the command and of its surroundings preserves the invariant.
LEMMA StepInvariant == SessionInv /\ [Next]_vars => SessionInv'
<1> SUFFICES ASSUME SessionInv, [Next]_vars PROVE SessionInv'
  OBVIOUS
<1> USE DEF vars, host, plans, loops, search, history
<1>0. /\ req.wakeRetries \in 0..5 /\ req.reconnects \in 0..5
  BY RequestFields DEF SessionInv, TypeOK
<1>t. TypeOK /\ PlansBound /\ ProcessBound /\ CountersBound
  BY DEF SessionInv
<1>s. Len(AutomaticClientSelections(Goos)) \in 3..4
  BY SelectionsLength, GoosAssumption
<1>1. CASE Preflight
  <2>1. TypeOK'
    BY <1>t, <1>1 DEF TypeOK, PCs, Preflight, StartSearch, Goto, Finish
  <2>2. PlansBound'
    BY <1>1 DEF Preflight, StartSearch, Goto, Finish, PlansBound, Planned, Recovering
  <2>3. ProcessBound'
    BY <1>t, <1>1 DEF Preflight, StartSearch, Goto, Finish, ProcessBound, StreamPoints
  <2>4. CountersBound'
    BY <1>t, <1>1 DEF TypeOK, Preflight, StartSearch, Goto, Finish, CountersBound, BeforePackets, Recovering
  <2> QED BY <2>1, <2>2, <2>3, <2>4 DEF SessionInv
<1>2. CASE DiscoverForPlatform
  <2> DEFINE found == discoverForPlatform(path, Goos, req.selection)
  <2>0. discoverForPlatform(path, Goos, req.selection) \in Clients \cup {NoClient}
        /\ ScannedCandidate \in Clients \cup {NoClient}
    BY <1>t, DiscoveredType DEF CountersBound
  <2> HIDE DEF found
  <2>1. TypeOK'
    BY <1>t, <1>2, <2>0 DEF TypeOK, PCs, DiscoverForPlatform, StartSearch, Goto, Finish
  <2>2. PlansBound'
    BY <1>2, <2>0 DEF DiscoverForPlatform, StartSearch, Goto, Finish, PlansBound, Planned, Recovering
  <2>3. ProcessBound'
    BY <1>t, <1>2 DEF DiscoverForPlatform, StartSearch, Goto, Finish, ProcessBound, StreamPoints
  <2>4. CountersBound'
    BY <1>t, <1>2 DEF TypeOK, DiscoverForPlatform, StartSearch, Goto, Finish, CountersBound, BeforePackets, Recovering
  <2> QED BY <2>1, <2>2, <2>3, <2>4 DEF SessionInv
<1>3. CASE SearchFound
  <2>0. discoverForPlatform(path, Goos, req.selection) \in Clients \cup {NoClient}
        /\ ScannedCandidate \in Clients \cup {NoClient}
    BY <1>t, DiscoveredType DEF CountersBound
  <2>1. TypeOK'
    BY <1>t, <1>3, <2>0 DEF TypeOK, PCs, SearchFound, rebuildPlans, Goto, Finish, CountersBound, Recovering
  <2>2. PlansBound'
    BY <1>3, <2>0 DEF SearchFound, CandidateUsable, rebuildPlans, Goto, Finish, PlansBound, Planned, Recovering
  <2>3. ProcessBound'
    BY <1>t, <1>3 DEF SearchFound, rebuildPlans, Goto, Finish, ProcessBound, StreamPoints
  <2>4. CountersBound'
    BY <1>t, <1>3 DEF TypeOK, SearchFound, rebuildPlans, Goto, Finish, CountersBound, BeforePackets, Recovering
  <2> QED BY <2>1, <2>2, <2>3, <2>4 DEF SessionInv
<1>4. CASE SearchSkip
  <2>0. scan < Len(AutomaticClientSelections(Goos)) => scan + 1 \in 1..4
    <3> DEFINE n == Len(AutomaticClientSelections(Goos))
    <3>1. scan \in 1..4 /\ n \in 3..4
      BY <1>t, <1>s DEF TypeOK
    <3> HIDE DEF n
    <3>2. scan < n => scan + 1 \in 1..4
      BY <3>1
    <3> QED BY <3>2 DEF n
  <2>1. TypeOK'
    BY <1>t, <1>4, <2>0 DEF TypeOK, PCs, SearchSkip, Goto, Finish
  <2>2. PlansBound'
    BY <1>t, <1>4 DEF SearchSkip, Goto, Finish, PlansBound, Planned, Recovering
  <2>3. ProcessBound'
    BY <1>t, <1>4 DEF SearchSkip, Goto, Finish, ProcessBound, StreamPoints
  <2>4. CountersBound'
    BY <1>t, <1>4 DEF TypeOK, SearchSkip, Goto, Finish, CountersBound, BeforePackets, Recovering
  <2> QED BY <2>1, <2>2, <2>3, <2>4 DEF SessionInv
<1>5. CASE BuildPlan
  <2>1. TypeOK'
    BY <1>t, <1>5 DEF TypeOK, PCs, BuildPlan, Goto, Finish
  <2>2. PlansBound'
    BY <1>t, <1>5 DEF BuildPlan, Goto, Finish, PlansBound, Planned, Recovering
  <2>3. ProcessBound'
    BY <1>t, <1>5 DEF BuildPlan, Goto, Finish, ProcessBound, StreamPoints
  <2>4. CountersBound'
    BY <1>t, <1>5 DEF TypeOK, BuildPlan, Goto, Finish, CountersBound, BeforePackets, Recovering
  <2> QED BY <2>1, <2>2, <2>3, <2>4 DEF SessionInv
<1>6. CASE SendWake
  <2>0. packets = 0
    BY <1>t, <1>6 DEF SendWake, CountersBound, BeforePackets
  <2>1. TypeOK'
    BY <1>t, <1>6, <2>0 DEF TypeOK, PCs, SendWake, Goto, Finish
  <2>2. PlansBound'
    BY <1>t, <1>6 DEF SendWake, Goto, Finish, PlansBound, Planned, Recovering
  <2>3. ProcessBound'
    BY <1>t, <1>6 DEF SendWake, Goto, Finish, ProcessBound, StreamPoints
  <2>4. CountersBound'
    BY <1>t, <1>6 DEF TypeOK, SendWake, Goto, Finish, CountersBound, BeforePackets, Recovering
  <2> QED BY <2>1, <2>2, <2>3, <2>4 DEF SessionInv
<1>24. CASE SendPacket
  <2>0. packets = 0
    BY <1>t, <1>24 DEF SendPacket, CountersBound, BeforePackets
  <2>1. TypeOK'
    BY <1>t, <1>24, <2>0 DEF TypeOK, PCs, SendPacket, Goto, Finish
  <2>2. PlansBound'
    BY <1>t, <1>24 DEF SendPacket, Goto, Finish, PlansBound, Planned, Recovering
  <2>3. ProcessBound'
    BY <1>t, <1>24 DEF SendPacket, Goto, Finish, ProcessBound, StreamPoints
  <2>4. CountersBound'
    BY <1>t, <1>24 DEF TypeOK, SendPacket, Goto, Finish, CountersBound, BeforePackets, Recovering
  <2> QED BY <2>1, <2>2, <2>3, <2>4 DEF SessionInv
<1>7. CASE WakeWait
  <2>1. TypeOK'
    BY <1>t, <1>7 DEF TypeOK, PCs, WakeWait, waitForRemoteReconnect, Goto, Finish
  <2>2. PlansBound'
    BY <1>t, <1>7 DEF WakeWait, waitForRemoteReconnect, Goto, Finish, PlansBound, Planned, Recovering
  <2>3. ProcessBound'
    BY <1>t, <1>7 DEF WakeWait, waitForRemoteReconnect, Goto, Finish, ProcessBound, StreamPoints
  <2>4. CountersBound'
    BY <1>t, <1>7 DEF TypeOK, WakeWait, waitForRemoteReconnect, Goto, Finish, CountersBound, BeforePackets, Recovering
  <2> QED BY <2>1, <2>2, <2>3, <2>4 DEF SessionInv
<1>8. CASE Begin
  <2>1. TypeOK'
    BY <1>t, <1>8 DEF TypeOK, PCs, Begin, rebuildPlans, Goto, Finish
  <2>2. PlansBound'
    BY <1>t, <1>8 DEF Begin, rebuildPlans, Finish, PlansBound, Planned, Recovering
  <2>3. ProcessBound'
    BY <1>t, <1>8 DEF Begin, rebuildPlans, Goto, Finish, ProcessBound, StreamPoints
  <2>4. CountersBound'
    BY <1>t, <1>8 DEF TypeOK, Begin, rebuildPlans, Goto, Finish, CountersBound, BeforePackets, Recovering
  <2> QED BY <2>1, <2>2, <2>3, <2>4 DEF SessionInv
<1>9. CASE ExecuteControl
  <2>1. TypeOK'
    BY <1>t, <1>9 DEF TypeOK, PCs, ExecuteControl, Goto, PlansBound, Planned
  <2>2. PlansBound'
    BY <1>t, <1>9 DEF ExecuteControl, PlansBound, Planned
  <2>3. ProcessBound'
    BY <1>t, <1>9 DEF ExecuteControl, Goto, PlansBound, ProcessBound, Planned, StreamPoints
  <2>4. CountersBound'
    BY <1>t, <1>9 DEF ExecuteControl, Goto, CountersBound, BeforePackets, Recovering
  <2> QED BY <2>1, <2>2, <2>3, <2>4 DEF SessionInv
<1>25. CASE StartControl
  <2>1. TypeOK'
    BY <1>t, <1>25 DEF TypeOK, PCs, StartControl, ControlPlan, Goto, PlansBound, Planned
  <2>2. PlansBound'
    BY <1>t, <1>25 DEF StartControl, PlansBound, Planned
  <2>3. ProcessBound'
    BY <1>t, <1>25 DEF StartControl, ControlPlan, Goto, PlansBound, ProcessBound, Planned, StreamPoints
  <2>4. CountersBound'
    BY <1>t, <1>25 DEF StartControl, Goto, CountersBound, BeforePackets, Recovering
  <2> QED BY <2>1, <2>2, <2>3, <2>4 DEF SessionInv
<1>10. CASE ControlSucceeds
  <2>1. TypeOK'
    BY <1>t, <1>10 DEF TypeOK, PCs, ControlSucceeds, Goto, Finish
  <2>2. PlansBound'
    BY <1>t, <1>10 DEF ControlSucceeds, PlansBound, Planned
  <2>3. ProcessBound'
    BY <1>t, <1>10 DEF ControlSucceeds, Goto, Finish, ProcessBound, StreamPoints
  <2>4. CountersBound'
    BY <1>t, <1>10 DEF TypeOK, ControlSucceeds, Goto, Finish, CountersBound, BeforePackets, Recovering
  <2> QED BY <2>1, <2>2, <2>3, <2>4 DEF SessionInv
<1>11. CASE ControlFails
  <2>1. TypeOK'
    BY <1>t, <1>11 DEF TypeOK, PCs, ControlFails, Goto
  <2>2. PlansBound'
    BY <1>t, <1>11 DEF ControlFails, PlansBound, Planned
  <2>3. ProcessBound'
    BY <1>t, <1>11 DEF ControlFails, Goto, ProcessBound, StreamPoints
  <2>4. CountersBound'
    BY <1>t, <1>11 DEF ControlFails, Goto, CountersBound, BeforePackets, Recovering
  <2> QED BY <2>1, <2>2, <2>3, <2>4 DEF SessionInv
<1>12. CASE Recover
  <2>0. fallbackTried' \in BOOLEAN
    BY <1>t, <1>12 DEF TypeOK, Recover
  <2>1. TypeOK'
    BY <1>t, <1>12, <2>0 DEF TypeOK, PCs, Recover, StartSearch, Goto
  <2>2. PlansBound'
    BY <1>t, <1>12 DEF Recover, PlansBound, Planned
  <2>3. ProcessBound'
    BY <1>t, <1>12 DEF Recover, StartSearch, Goto, ProcessBound, StreamPoints
  <2>4. CountersBound'
    BY <1>t, <1>12 DEF TypeOK, Recover, FallbackAllowed, StartSearch, Goto, CountersBound, BeforePackets, Recovering
  <2> QED BY <2>1, <2>2, <2>3, <2>4 DEF SessionInv
<1>13. CASE Retry
  <2>1. TypeOK'
    BY <1>t, <1>13 DEF TypeOK, PCs, Retry, Goto, Finish
  <2>2. PlansBound'
    BY <1>t, <1>13 DEF Retry, PlansBound, Planned
  <2>3. ProcessBound'
    BY <1>t, <1>13 DEF Retry, Goto, Finish, ProcessBound, StreamPoints
  <2>4. CountersBound'
    BY <1>t, <1>13 DEF TypeOK, Retry, RetryAllowed, Goto, Finish, CountersBound, BeforePackets, Recovering
  <2> QED BY <2>1, <2>2, <2>3, <2>4 DEF SessionInv
<1>14. CASE RetryWait
  <2>1. TypeOK'
    BY <1>t, <1>0, <1>14 DEF TypeOK, PCs, RetryWait, waitForRemoteReconnect, Goto, Finish, CountersBound
  <2>2. PlansBound'
    BY <1>t, <1>14 DEF RetryWait, PlansBound, Planned
  <2>3. ProcessBound'
    BY <1>t, <1>14 DEF RetryWait, waitForRemoteReconnect, Goto, Finish, ProcessBound, StreamPoints
  <2>4. CountersBound'
    BY <1>t, <1>14 DEF TypeOK, RetryWait, waitForRemoteReconnect, Goto, Finish, CountersBound, BeforePackets, Recovering
  <2> QED BY <2>1, <2>2, <2>3, <2>4 DEF SessionInv
<1>15. CASE Launch
  <2>1. TypeOK'
    BY <1>t, <1>15 DEF TypeOK, PCs, Launch, Goto, PlansBound, Planned
  <2>2. PlansBound'
    BY <1>t, <1>15 DEF Launch, PlansBound, Planned
  <2>3. ProcessBound'
    BY <1>t, <1>15 DEF Launch, Goto, PlansBound, ProcessBound, Planned, StreamPoints
  <2>4. CountersBound'
    BY <1>t, <1>15 DEF TypeOK, Launch, Goto, CountersBound, BeforePackets, Recovering
  <2> QED BY <2>1, <2>2, <2>3, <2>4 DEF SessionInv
<1>26. CASE StartStream
  <2>1. TypeOK'
    BY <1>t, <1>26 DEF TypeOK, PCs, StartStream, Goto, PlansBound, Planned
  <2>2. PlansBound'
    BY <1>t, <1>26 DEF StartStream, PlansBound, Planned
  <2>3. ProcessBound'
    BY <1>t, <1>26 DEF StartStream, Goto, PlansBound, ProcessBound, Planned, StreamPoints
  <2>4. CountersBound'
    BY <1>t, <1>26 DEF TypeOK, StartStream, Goto, CountersBound, BeforePackets, Recovering
  <2> QED BY <2>1, <2>2, <2>3, <2>4 DEF SessionInv
<1>16. CASE StreamEnds
  <2>1. TypeOK'
    BY <1>t, <1>16 DEF TypeOK, PCs, StreamEnds, Goto, Finish
  <2>2. PlansBound'
    BY <1>t, <1>16 DEF StreamEnds, PlansBound, Planned
  <2>3. ProcessBound'
    BY <1>t, <1>16 DEF StreamEnds, Goto, Finish, ProcessBound, StreamPoints
  <2>4. CountersBound'
    BY <1>t, <1>16 DEF StreamEnds, Goto, Finish, CountersBound, BeforePackets, Recovering
  <2> QED BY <2>1, <2>2, <2>3, <2>4 DEF SessionInv
<1>17. CASE Dropped
  <2>1. TypeOK'
    BY <1>t, <1>17 DEF TypeOK, PCs, Dropped, Goto, Finish
  <2>2. PlansBound'
    BY <1>t, <1>17 DEF Dropped, PlansBound, Planned
  <2>3. ProcessBound'
    BY <1>t, <1>17 DEF Dropped, Goto, Finish, ProcessBound, StreamPoints
  <2>4. CountersBound'
    BY <1>t, <1>17 DEF Dropped, Goto, Finish, CountersBound, BeforePackets, Recovering
  <2> QED BY <2>1, <2>2, <2>3, <2>4 DEF SessionInv
<1>18. CASE ReconnectWait
  <2>1. TypeOK'
    BY <1>t, <1>0, <1>18 DEF TypeOK, PCs, ReconnectWait, waitForRemoteReconnect, Goto, Finish, CountersBound
  <2>2. PlansBound'
    BY <1>t, <1>18 DEF ReconnectWait, PlansBound, Planned
  <2>3. ProcessBound'
    BY <1>t, <1>18 DEF ReconnectWait, waitForRemoteReconnect, Goto, Finish, ProcessBound, StreamPoints
  <2>4. CountersBound'
    BY <1>t, <1>0, <1>18 DEF TypeOK, ReconnectWait, waitForRemoteReconnect, Goto, Finish, CountersBound, BeforePackets, Recovering
  <2> QED BY <2>1, <2>2, <2>3, <2>4 DEF SessionInv
<1>19. CASE ChangePath
  <2>1. TypeOK'
    BY <1>t, <1>19 DEF TypeOK, ChangePath
  <2>2. PlansBound'
    BY <1>t, <1>19 DEF ChangePath, PlansBound, Recovering
  <2>3. ProcessBound'
    BY <1>t, <1>19 DEF ChangePath, ProcessBound
  <2>4. CountersBound'
    BY <1>t, <1>19 DEF ChangePath, CountersBound, Recovering
  <2> QED BY <2>1, <2>2, <2>3, <2>4 DEF SessionInv
<1>20. CASE ChangeListing
  <2>1. TypeOK'
    BY <1>t, <1>20 DEF TypeOK, ChangeListing
  <2>2. PlansBound'
    BY <1>t, <1>20 DEF ChangeListing, PlansBound, Recovering
  <2>3. ProcessBound'
    BY <1>t, <1>20 DEF ChangeListing, ProcessBound
  <2>4. CountersBound'
    BY <1>t, <1>20 DEF ChangeListing, CountersBound, Recovering
  <2> QED BY <2>1, <2>2, <2>3, <2>4 DEF SessionInv
<1>21. CASE Cancel
  <2>1. TypeOK'
    BY <1>t, <1>21 DEF TypeOK, Cancel
  <2>2. PlansBound'
    BY <1>t, <1>21 DEF Cancel, PlansBound, Recovering
  <2>3. ProcessBound'
    BY <1>t, <1>21 DEF Cancel, ProcessBound
  <2>4. CountersBound'
    BY <1>t, <1>21 DEF Cancel, CountersBound, Recovering
  <2> QED BY <2>1, <2>2, <2>3, <2>4 DEF SessionInv
<1>22. CASE Exited
  <2>1. TypeOK'
    BY <1>t, <1>22 DEF TypeOK, Exited
  <2>2. PlansBound'
    BY <1>22 DEF Exited, PlansBound, Planned, Recovering
  <2>3. ProcessBound'
    BY <1>t, <1>22 DEF Exited, ProcessBound
  <2>4. CountersBound'
    BY <1>t, <1>22 DEF Exited, CountersBound, Recovering
  <2> QED BY <2>1, <2>2, <2>3, <2>4 DEF SessionInv
<1>23. CASE UNCHANGED vars
  BY <1>23 DEF SessionInv, TypeOK, PlansBound, ProcessBound, CountersBound, Recovering
<1> QED
  BY <1>1, <1>2, <1>3, <1>4, <1>5, <1>6, <1>7, <1>8, <1>9, <1>10, <1>11, <1>12, <1>13, <1>14, <1>15, <1>16, <1>17, <1>18, <1>19, <1>20, <1>21, <1>22, <1>23, <1>24, <1>25, <1>26 DEF Next, Step, ControlEnds, Environment

\* Every step preserves what is known of the consent and of the outcome.
LEMMA StepConsent == SessionInv /\ ConsentInv /\ [Next]_vars => ConsentInv'
<1> SUFFICES ASSUME SessionInv, ConsentInv, [Next]_vars PROVE ConsentInv'
  OBVIOUS
<1> USE DEF vars, host, plans, loops, search, history
<1>t. TypeOK
  BY DEF SessionInv
<1>n. runs \in Nat /\ streams \in Nat /\ packets \in 0..1
  BY <1>t DEF TypeOK
<1>1. CASE Preflight
  BY <1>1 DEF Preflight, StartSearch, Goto, Finish, ConsentInv, Committed, Planned, Recovering
<1>2. CASE DiscoverForPlatform
  BY <1>2 DEF DiscoverForPlatform, StartSearch, Goto, Finish, ConsentInv, Committed, Planned, Recovering
<1>3. CASE SearchFound
  BY <1>3 DEF SearchFound, rebuildPlans, Goto, Finish, ConsentInv, Consented, Committed, Planned, Recovering
<1>4. CASE SearchSkip
  BY <1>4 DEF SearchSkip, Goto, Finish, ConsentInv, Consented, Committed, Planned, Recovering
<1>5. CASE BuildPlan
  BY <1>5 DEF BuildPlan, Goto, Finish, PlanAllowed, ConsentInv, Consented, Committed, Planned, Recovering
<1>6. CASE SendWake
  BY <1>6 DEF SessionInv, SendWake, Goto, Finish, CountersBound, BeforePackets, ConsentInv, Consented, Committed, Planned, Recovering
<1>24. CASE SendPacket
  BY <1>24 DEF SessionInv, SendPacket, Goto, Finish, CountersBound, BeforePackets, ConsentInv, Consented, Committed, Planned, Recovering
<1>7. CASE WakeWait
  BY <1>7 DEF WakeWait, waitForRemoteReconnect, Goto, Finish, ConsentInv, Consented, Committed
<1>8. CASE Begin
  BY <1>8 DEF Begin, rebuildPlans, Goto, Finish, ConsentInv, Consented, Committed, Planned
<1>9. CASE ExecuteControl
  BY <1>n, <1>9 DEF ExecuteControl, Goto, ConsentInv, Consented, Committed, Planned
<1>25. CASE StartControl
  BY <1>n, <1>25 DEF StartControl, Goto, ConsentInv, Consented, Committed, Planned
<1>10. CASE ControlSucceeds
  BY <1>10 DEF ControlSucceeds, Goto, Finish, ConsentInv, Consented, Committed, Planned
<1>11. CASE ControlFails
  BY <1>11 DEF ControlFails, Goto, ConsentInv, Consented, Committed, Planned
<1>12. CASE Recover
  BY <1>12 DEF Recover, StartSearch, Goto, ConsentInv, Consented, Committed, Planned, Recovering
<1>13. CASE Retry
  BY <1>13 DEF Retry, Goto, Finish, ConsentInv, Consented, Committed, Planned
<1>14. CASE RetryWait
  BY <1>14 DEF RetryWait, waitForRemoteReconnect, Goto, Finish, ConsentInv, Consented, Committed, Planned
<1>15. CASE Launch
  BY <1>n, <1>15 DEF SessionInv, Launch, Goto, ConsentInv, Consented, Committed, Planned, ProcessBound, StreamPoints
<1>26. CASE StartStream
  BY <1>n, <1>26 DEF SessionInv, StartStream, Goto, ConsentInv, Consented, Committed, Planned, ProcessBound, StreamPoints
<1>16. CASE StreamEnds
  BY <1>16 DEF StreamEnds, Goto, Finish, ConsentInv, Consented, Committed, Planned
<1>17. CASE Dropped
  BY <1>17 DEF Dropped, Goto, Finish, ConsentInv, Consented, Committed, Planned
<1>18. CASE ReconnectWait
  BY <1>18 DEF ReconnectWait, waitForRemoteReconnect, Goto, Finish, ConsentInv, Consented, Committed, Planned
<1>19. CASE ChangePath
  BY <1>19 DEF ChangePath, ConsentInv, Consented, Committed, Recovering
<1>20. CASE ChangeListing
  BY <1>20 DEF ChangeListing, ConsentInv, Consented, Committed, Recovering
<1>21. CASE Cancel
  BY <1>21 DEF Cancel, ConsentInv, Consented, Committed, Recovering
<1>22. CASE Exited
  BY <1>22 DEF Exited, ConsentInv, Consented, Committed, Recovering
<1>23. CASE UNCHANGED vars
  BY <1>23 DEF ConsentInv, Consented, Committed, Recovering
<1> QED
  BY <1>1, <1>2, <1>3, <1>4, <1>5, <1>6, <1>7, <1>8, <1>9, <1>10, <1>11, <1>12, <1>13, <1>14, <1>15, <1>16, <1>17, <1>18, <1>19, <1>20, <1>21, <1>22, <1>23, <1>24, <1>25, <1>26 DEF Next, Step, ControlEnds, Environment

\* Every step preserves what is known of the clients that have run.
LEMMA StepRecovery == SessionInv /\ ConsentInv /\ RecoveryInv /\ [Next]_vars => RecoveryInv'
<1> SUFFICES ASSUME SessionInv, ConsentInv, RecoveryInv, [Next]_vars PROVE RecoveryInv'
  OBVIOUS
<1> USE DEF vars, host, plans, loops, search, history
<1>t. TypeOK /\ PlansBound /\ ProcessBound
  BY DEF SessionInv
<1>n. PICK other \in Clients \cup {NoClient} : ran \subseteq {client, other}
  BY DEF RecoveryInv
<1>1. CASE Preflight
  BY <1>1 DEF Preflight, StartSearch, Goto, Finish, RecoveryInv, Committed, Planned, Recovering
<1>2. CASE DiscoverForPlatform
  BY <1>2 DEF DiscoverForPlatform, StartSearch, Goto, Finish, RecoveryInv, Committed, Planned, Recovering
<1>3. CASE SearchFound
  <2>1. CASE ret = "run"
    <3>1. ran \subseteq {client', client} /\ client \in Clients
      BY <1>t, <1>3, <2>1 DEF SearchFound, RecoveryInv, Recovering, PlansBound
    <3> QED BY <1>3, <3>1 DEF SearchFound, rebuildPlans, Goto, Finish, RecoveryInv, Committed, Recovering, Planned
  <2>2. CASE ret # "run"
    BY <1>3, <2>2 DEF SearchFound, RecoveryInv, Committed, Recovering, Planned
  <2> QED BY <2>1, <2>2
<1>4. CASE SearchSkip
  BY <1>4 DEF SearchSkip, Goto, RecoveryInv, Committed, Planned, Recovering
<1>5. CASE BuildPlan
  BY <1>5 DEF BuildPlan, Goto, Finish, RecoveryInv, Committed, Recovering
<1>6. CASE SendWake
  BY <1>6 DEF SendWake, Goto, Finish, RecoveryInv, Committed, Recovering
<1>24. CASE SendPacket
  BY <1>24 DEF SendPacket, Goto, Finish, RecoveryInv, Committed, Recovering
<1>7. CASE WakeWait
  BY <1>7 DEF WakeWait, waitForRemoteReconnect, Goto, Finish, RecoveryInv, Committed, Recovering
<1>8. CASE Begin
  BY <1>8 DEF Begin, rebuildPlans, Goto, Finish, RecoveryInv, Committed, Planned, Recovering
<1>9. CASE ExecuteControl
  BY <1>t, <1>9 DEF ExecuteControl, Goto, RecoveryInv, Committed, Planned, Recovering, PlansBound
<1>25. CASE StartControl
  BY <1>t, <1>25 DEF StartControl, ControlPlan, Goto, RecoveryInv, Committed, Planned, Recovering, PlansBound
<1>10. CASE ControlSucceeds
  BY <1>10 DEF ControlSucceeds, Goto, Finish, RecoveryInv, Committed, Planned, Recovering
<1>11. CASE ControlFails
  BY <1>11 DEF ControlFails, Goto, RecoveryInv, Committed, Planned, Recovering
<1>12. CASE Recover
  BY <1>12 DEF Recover, FallbackAllowed, StartSearch, Goto, RecoveryInv, Committed, Planned, Recovering
<1>13. CASE Retry
  BY <1>13 DEF Retry, Goto, Finish, RecoveryInv, Committed, Planned, Recovering
<1>14. CASE RetryWait
  BY <1>14 DEF RetryWait, waitForRemoteReconnect, Goto, Finish, RecoveryInv, Committed, Planned, Recovering
<1>15. CASE Launch
  BY <1>t, <1>15 DEF Launch, Goto, RecoveryInv, Committed, Planned, Recovering, PlansBound
<1>26. CASE StartStream
  BY <1>t, <1>26 DEF StartStream, Goto, RecoveryInv, Committed, Planned, Recovering, PlansBound
<1>16. CASE StreamEnds
  BY <1>16 DEF StreamEnds, Goto, Finish, RecoveryInv, Committed, Planned, Recovering
<1>17. CASE Dropped
  BY <1>17 DEF Dropped, Goto, Finish, RecoveryInv, Committed, Planned, Recovering
<1>18. CASE ReconnectWait
  BY <1>18 DEF ReconnectWait, waitForRemoteReconnect, Goto, Finish, RecoveryInv, Committed, Planned, Recovering
<1>19. CASE ChangePath
  BY <1>19 DEF ChangePath, RecoveryInv, Committed, Recovering
<1>20. CASE ChangeListing
  BY <1>20 DEF ChangeListing, RecoveryInv, Committed, Recovering
<1>21. CASE Cancel
  BY <1>21 DEF Cancel, RecoveryInv, Committed, Recovering
<1>22. CASE Exited
  BY <1>22 DEF Exited, RecoveryInv, Recovering
<1>23. CASE UNCHANGED vars
  BY <1>23 DEF RecoveryInv, Committed, Recovering
<1> QED
  BY <1>1, <1>2, <1>3, <1>4, <1>5, <1>6, <1>7, <1>8, <1>9, <1>10, <1>11, <1>12, <1>13, <1>14, <1>15, <1>16, <1>17, <1>18, <1>19, <1>20, <1>21, <1>22, <1>23, <1>24, <1>25, <1>26 DEF Next, Step, ControlEnds, Environment

\* The invariants hold in every reachable state.
LEMMA AllInvariants == Spec => [](SessionInv /\ ConsentInv /\ RecoveryInv)
<1>1. Init => ConsentInv
  <2> SUFFICES ASSUME Init PROVE ConsentInv
    OBVIOUS
  <2> QED BY DEF Init, ConsentInv, Committed, Planned, Recovering
<1>2. Init => RecoveryInv
  <2> SUFFICES ASSUME Init PROVE RecoveryInv
    OBVIOUS
  <2> QED BY DEF Init, RecoveryInv, Committed, Planned, Recovering
<1> QED
  BY <1>1, <1>2, InitInvariant, StepInvariant, StepConsent, StepRecovery, PTL DEF Spec

\* Every variable keeps its type: the control flow of runRemote never searches
\* past the last selection, and its counters stay within the flags' bounds.
THEOREM TypeCorrect == Spec => []TypeOK
<1>1. SessionInv => TypeOK
  BY DEF SessionInv
<1> QED BY <1>1, AllInvariants, PTL

\* Whatever is recovered, retried or reconnected, a stream only ever runs the
\* client whose own listing has just named the application.
THEOREM StreamsAreAuthorized == Spec => []StreamAuthorized
<1>1. SessionInv => StreamAuthorized
  <2> SUFFICES ASSUME SessionInv, pc = "streaming" PROVE proc # NoClient /\ proc = authorized
    BY DEF StreamAuthorized
  <2>1. proc = client /\ authorized = client
    BY DEF SessionInv, ProcessBound
  <2>2. client \in Clients
    BY DEF SessionInv, PlansBound, Planned
  <2> QED BY <2>1, <2>2, NoClientIsNone
<1> QED BY <1>1, AllInvariants, PTL

\* No process starts and no packet leaves without --yes and, for a stream or a
\* wake-up, the acknowledgement flag.
THEOREM ConsentPrecedesEffects == Spec => []ConsentGiven
<1>1. SessionInv /\ ConsentInv => ConsentGiven
  <2> SUFFICES ASSUME SessionInv, ConsentInv PROVE ConsentGiven
    OBVIOUS
  <2>1. runs \in Nat /\ streams \in Nat /\ packets \in 0..1
    BY DEF SessionInv, TypeOK
  <2> QED BY <2>1 DEF ConsentInv, Consented, ConsentGiven
<1> QED BY <1>1, AllInvariants, PTL

\* An invocation runs the client it discovered and at most one replacement,
\* and a client that --client names is never replaced.
THEOREM RecoversAtMostOnce == Spec => []AtMostOneRecovery
<1>1. SessionInv /\ ConsentInv /\ RecoveryInv => AtMostOneRecovery
  <2> SUFFICES ASSUME RecoveryInv PROVE AtMostOneRecovery
    OBVIOUS
  <2> QED BY DEF RecoveryInv, AtMostOneRecovery
<1> QED BY <1>1, AllInvariants, PTL

\* Every step preserves the account of the processes.
LEMMA StepBudget == SessionInv /\ RecoveryInv /\ BudgetInv /\ [Next]_vars => BudgetInv'
<1> SUFFICES ASSUME SessionInv, RecoveryInv, BudgetInv, [Next]_vars PROVE BudgetInv'
  OBVIOUS
<1> USE DEF vars, host, plans, loops, search, history
<1>n. /\ runs \in Nat /\ attempt \in 0..5 /\ reconnects \in 0..5 /\ req.wakeRetries \in 0..5
      /\ req.op \in Operations /\ fallbackTried \in BOOLEAN /\ req.wake \in BOOLEAN /\ req.automatic \in BOOLEAN
  BY RequestFields DEF SessionInv, TypeOK
<1>r. /\ Recovering /\ req.op # "stream" => attempt = 0
      /\ Recovering => req.automatic
      /\ pc = "reconnectWait" => req.op = "stream"
  BY DEF SessionInv, CountersBound, ProcessBound, StreamPoints, RecoveryInv
<1> USE DEF BudgetInv, Paid, NothingOutstanding, Recovering, AttemptLimit, Retries, Extra, Operations
<1>1. CASE Preflight
  BY <1>n, <1>r, <1>1 DEF Preflight, StartSearch, Goto, Finish
<1>2. CASE DiscoverForPlatform
  BY <1>n, <1>r, <1>2 DEF DiscoverForPlatform, StartSearch, Goto, Finish
<1>3. CASE SearchFound
  <2>1. CASE ret = "run" /\ req.op # "stream"
    <3>1. attempt = 0 /\ attempt' = 1 /\ req.automatic /\ req.op \in {"list", "pair", "quit"}
      BY <1>n, <1>r, <1>3, <2>1 DEF SearchFound
    <3>2. runs' = runs /\ req' = req /\ pc' \in {"execute", "done"} /\ runs <= 1
      BY <1>n, <1>3, <2>1, <3>1 DEF SearchFound, rebuildPlans, Goto, Finish
    <3> QED BY <1>n, <3>1, <3>2
  <2>2. CASE ret = "run" /\ req.op = "stream"
    BY <1>n, <1>3, <2>2 DEF SearchFound, rebuildPlans, Goto, Finish
  <2>3. CASE ret # "run"
    BY <1>n, <1>3, <2>3 DEF SearchFound, Goto
  <2> QED BY <2>1, <2>2, <2>3
<1>4. CASE SearchSkip
  BY <1>n, <1>r, <1>4 DEF SearchSkip, Goto, Finish
<1>5. CASE BuildPlan
  BY <1>n, <1>r, <1>5 DEF BuildPlan, Goto, Finish
<1>6. CASE SendWake
  BY <1>n, <1>r, <1>6 DEF SendWake, Goto, Finish
<1>24. CASE SendPacket
  BY <1>n, <1>r, <1>24 DEF SendPacket, Goto, Finish
<1>7. CASE WakeWait
  BY <1>n, <1>r, <1>7 DEF WakeWait, waitForRemoteReconnect, Goto, Finish
<1>8. CASE Begin
  BY <1>n, <1>r, <1>8 DEF Begin, rebuildPlans, Goto, Finish
<1>9. CASE ExecuteControl
  BY <1>n, <1>r, <1>9 DEF ExecuteControl, Goto
<1>25. CASE StartControl
  BY <1>n, <1>r, <1>25 DEF StartControl, Goto
<1>10. CASE ControlSucceeds
  BY <1>n, <1>r, <1>10 DEF ControlSucceeds, Goto, Finish
<1>11. CASE ControlFails
  BY <1>n, <1>r, <1>11 DEF ControlFails, Goto
<1>12. CASE Recover
  BY <1>n, <1>r, <1>12 DEF Recover, FallbackAllowed, StartSearch, Goto
<1>13. CASE Retry
  BY <1>n, <1>r, <1>13 DEF Retry, RetryAllowed, Goto, Finish
<1>14. CASE RetryWait
  BY <1>n, <1>r, <1>14 DEF RetryWait, waitForRemoteReconnect, Goto, Finish
<1>15. CASE Launch
  BY <1>n, <1>r, <1>15 DEF Launch, Goto
<1>26. CASE StartStream
  BY <1>n, <1>r, <1>26 DEF StartStream, Goto
<1>16. CASE StreamEnds
  BY <1>n, <1>r, <1>16 DEF StreamEnds, Goto, Finish
<1>17. CASE Dropped
  BY <1>n, <1>r, <1>17 DEF Dropped, Goto, Finish
<1>18. CASE ReconnectWait
  BY <1>n, <1>r, <1>18 DEF ReconnectWait, waitForRemoteReconnect, Goto, Finish
<1>19. CASE Environment \/ Exited \/ UNCHANGED vars
  BY <1>19 DEF Environment, ChangePath, ChangeListing, Cancel, Exited
<1> QED
  BY <1>1, <1>2, <1>3, <1>4, <1>5, <1>6, <1>7, <1>8, <1>9, <1>10, <1>11, <1>12, <1>13, <1>14, <1>15, <1>16, <1>17, <1>18, <1>19, <1>24, <1>25, <1>26 DEF Next, Step, ControlEnds

\* One invocation starts no more listings than its wake-up retries, its one
\* recovery and its reconnects pay for, and no more streams than its reconnects.
THEOREM RetriesAreBounded == Spec => []RetryBudget
<1>1. Init => BudgetInv
  <2> SUFFICES ASSUME Init PROVE BudgetInv
    OBVIOUS
  <2>1. req.wakeRetries \in 0..5
    BY RequestFields DEF Init
  <2> QED BY <2>1 DEF Init, BudgetInv, Paid, NothingOutstanding, Recovering, AttemptLimit, Retries, Extra
<1>2. SessionInv /\ RecoveryInv /\ BudgetInv => RetryBudget
  <2> SUFFICES ASSUME SessionInv, RecoveryInv, BudgetInv PROVE RetryBudget
    OBVIOUS
  <2>1. /\ runs \in Nat /\ streams \in Nat /\ attempt \in 0..5 /\ reconnects \in 0..5
        /\ req.wakeRetries \in 0..5 /\ req.reconnects \in 0..5 /\ req.op \in Operations
    BY RequestFields DEF SessionInv, TypeOK
  <2>2. streams <= reconnects + 1 /\ reconnects <= req.reconnects
    BY <2>1 DEF SessionInv, CountersBound
  <2>3. fallbackTried => req.automatic
    BY DEF RecoveryInv
  <2> QED BY <2>1, <2>2, <2>3 DEF RetryBudget, BudgetInv, Paid, NothingOutstanding, AttemptLimit, Retries, Extra
<1> QED BY <1>1, <1>2, AllInvariants, StepBudget, PTL DEF Spec

\* Exit code 0 stays honest.
LEMMA StepHonest == SessionInv /\ ConsentInv /\ ExitHonest /\ [Next]_vars => ExitHonest'
<1> SUFFICES ASSUME SessionInv, ConsentInv, ExitHonest, [Next]_vars, exit' = "ok"
             PROVE  ExitHonest'
  BY DEF ExitHonest
<1> USE DEF vars, host, plans, loops, search, history
<1>n. runs \in Nat /\ streams \in Nat /\ packets \in 0..1 /\ req \in Requests
  BY DEF SessionInv, TypeOK
<1>1. CASE Preflight
  BY <1>1 DEF Preflight, StartSearch, Goto, Finish, ConsentInv
<1>2. CASE DiscoverForPlatform
  BY <1>2 DEF DiscoverForPlatform, StartSearch, Goto, Finish, ConsentInv
<1>3. CASE SearchFound
  BY <1>3 DEF SearchFound, rebuildPlans, Goto, Finish, ConsentInv
<1>4. CASE SearchSkip
  BY <1>4 DEF SearchSkip, Goto, Finish, ConsentInv
<1>5. CASE BuildPlan
  BY <1>5 DEF BuildPlan, Goto, Finish, ExitHonest, ConsentInv, Committed, Planned, Recovering
<1>6. CASE SendWake
  BY <1>6 DEF SendWake, Goto, Finish, ConsentInv
<1>24. CASE SendPacket
  BY <1>24 DEF SendPacket, Goto, Finish, ConsentInv
<1>7. CASE WakeWait
  BY <1>7 DEF WakeWait, waitForRemoteReconnect, Goto, Finish, ConsentInv
<1>8. CASE Begin
  BY <1>8 DEF Begin, rebuildPlans, Goto, Finish, ConsentInv
<1>9. CASE ExecuteControl
  BY <1>9 DEF ExecuteControl, Goto, ConsentInv
<1>25. CASE StartControl
  BY <1>25 DEF StartControl, Goto, ConsentInv
<1>10. CASE ControlSucceeds
  BY <1>10 DEF ControlSucceeds, Goto, Finish, ExitHonest, ConsentInv, Consented
<1>11. CASE ControlFails
  BY <1>11 DEF ControlFails, Goto, ConsentInv
<1>12. CASE Recover
  BY <1>12 DEF Recover, StartSearch, Goto, ConsentInv
<1>13. CASE Retry
  BY <1>13 DEF Retry, Goto, Finish, ConsentInv
<1>14. CASE RetryWait
  BY <1>14 DEF RetryWait, waitForRemoteReconnect, Goto, Finish, ConsentInv
<1>15. CASE Launch
  BY <1>15 DEF Launch, Goto, ConsentInv
<1>26. CASE StartStream
  BY <1>26 DEF StartStream, Goto, ConsentInv
<1>16. CASE StreamEnds
  BY <1>16 DEF StreamEnds, ExitHonest, ConsentInv, Consented
<1>17. CASE Dropped
  BY <1>17 DEF Dropped, Goto, Finish, ConsentInv
<1>18. CASE ReconnectWait
  BY <1>18 DEF ReconnectWait, waitForRemoteReconnect, Goto, Finish, ConsentInv
<1>19. CASE Environment \/ Exited \/ UNCHANGED vars
  BY <1>19 DEF Environment, ChangePath, ChangeListing, Cancel, Exited, ExitHonest
<1> QED
  BY <1>1, <1>2, <1>3, <1>4, <1>5, <1>6, <1>7, <1>8, <1>9, <1>10, <1>11, <1>12, <1>13, <1>14, <1>15, <1>16, <1>17, <1>18, <1>19, <1>24, <1>25, <1>26 DEF Next, Step, ControlEnds

\* Exit code 0 means that the operation itself ran last and succeeded, after
\* its wake-up was sent; that of a dry run, that nothing was started or sent.
THEOREM ExitCodeIsHonest == Spec => []ExitHonest
<1>1. Init => ExitHonest
  BY DEF Init, ExitHonest
<1> QED BY <1>1, AllInvariants, StepHonest, PTL DEF Spec

\* The command starts at the gate's initial state.
LEMMA GateInitially == Init => Gate!GateInit
<1> SUFFICES ASSUME Init PROVE Gate!GateInit
  OBVIOUS
<1>1. req.reconnects + 1 \in Nat
  BY RequestFields DEF Init
<1> QED BY <1>1 DEF Init, Gate!GateInit

\* Every step of the command is a step of the gate or leaves it alone.
LEMMA GateSteps ==
  SessionInv /\ SessionInv' /\ [Next]_vars => [Gate!GateNext]_Gate!gateVars
<1> SUFFICES ASSUME SessionInv, SessionInv', [Next]_vars
             PROVE  [Gate!GateNext]_Gate!gateVars
  OBVIOUS
<1> USE DEF vars, host, plans, loops, search, history, Gate!gateVars
<1>n. streams \in Nat /\ reconnects \in 0..5 /\ req.reconnects \in 0..5 /\ reconnects <= req.reconnects
  BY RequestFields DEF SessionInv, TypeOK, CountersBound
<1>1. CASE Preflight
  BY <1>1 DEF Preflight, StartSearch, Goto, Finish, SessionInv, ProcessBound, Gate!GateNext, Gate!Leave
<1>2. CASE DiscoverForPlatform
  BY <1>2 DEF DiscoverForPlatform, StartSearch, Finish, SessionInv, ProcessBound, Gate!GateNext, Gate!Leave
<1>3. CASE SearchFound
  BY <1>3 DEF SearchFound, rebuildPlans, Goto, Finish, SessionInv, ProcessBound, Gate!GateNext, Gate!Leave
<1>4. CASE SearchSkip
  BY <1>4 DEF SearchSkip, Goto, Finish, SessionInv, ProcessBound, Gate!GateNext, Gate!Leave
<1>5. CASE BuildPlan
  BY <1>5 DEF BuildPlan, Goto, Finish, SessionInv, ProcessBound, Gate!GateNext, Gate!Leave
<1>6. CASE SendWake
  BY <1>6 DEF SendWake, Goto, Finish, SessionInv, ProcessBound, Gate!GateNext, Gate!Leave
<1>24. CASE SendPacket
  BY <1>24 DEF SendPacket, Goto, Finish, SessionInv, ProcessBound, Gate!GateNext, Gate!Leave
<1>7. CASE WakeWait
  BY <1>7 DEF WakeWait, waitForRemoteReconnect, Goto, Finish, SessionInv, ProcessBound, Gate!GateNext, Gate!Leave
<1>8. CASE Begin
  BY <1>8 DEF Begin, rebuildPlans, Goto, Finish, SessionInv, ProcessBound, Gate!GateNext, Gate!Leave
<1>9. CASE ExecuteControl
  BY <1>9 DEF ExecuteControl, Goto
<1>25. CASE StartControl
  BY <1>25 DEF StartControl, Goto
<1>10. CASE ControlSucceeds
  BY <1>10 DEF ControlSucceeds, Goto, Finish, SessionInv, ProcessBound, PlansBound, Planned, Gate!GateNext, Gate!Authorize, Gate!Leave
<1>11. CASE ControlFails
  BY <1>11 DEF ControlFails, Goto
<1>12. CASE Recover
  BY <1>12 DEF Recover, StartSearch, Goto
<1>13. CASE Retry
  BY <1>13 DEF Retry, Goto, Finish, SessionInv, ProcessBound, Gate!GateNext, Gate!Leave
<1>14. CASE RetryWait
  BY <1>14 DEF RetryWait, waitForRemoteReconnect, Goto, Finish, SessionInv, ProcessBound, Gate!GateNext, Gate!Leave
<1>15. CASE Launch
  BY <1>n, <1>15 DEF Launch, Goto, SessionInv, CountersBound, Gate!GateNext, Gate!Admit, Gate!Revoke
<1>26. CASE StartStream
  BY <1>n, <1>26 DEF StartStream, Goto, SessionInv, CountersBound, Gate!GateNext, Gate!Admit, Gate!Revoke
<1>16. CASE StreamEnds
  BY <1>16 DEF StreamEnds, Goto, Finish, Gate!GateNext, Gate!Leave, Gate!Revoke
<1>17. CASE Dropped
  BY <1>17 DEF Dropped, Goto, Finish, SessionInv, ProcessBound, Gate!GateNext, Gate!Leave
<1>18. CASE ReconnectWait
  BY <1>18 DEF ReconnectWait, waitForRemoteReconnect, Goto, Finish, SessionInv, ProcessBound, Gate!GateNext, Gate!Leave
<1>19. CASE ChangePath
  BY <1>19 DEF ChangePath
<1>20. CASE ChangeListing
  BY <1>20 DEF ChangeListing
<1>21. CASE Cancel
  BY <1>21 DEF Cancel
<1>22. CASE Exited
  BY <1>22 DEF Exited
<1>23. CASE UNCHANGED vars
  BY <1>23
<1> QED
  BY <1>1, <1>2, <1>3, <1>4, <1>5, <1>6, <1>7, <1>8, <1>9, <1>10, <1>11, <1>12, <1>13, <1>14, <1>15, <1>16, <1>17, <1>18, <1>19, <1>20, <1>21, <1>22, <1>24, <1>25, <1>26 DEF Next, Step, ControlEnds, Environment

\* runRemote implements the gate: each stream session is admitted by a listing
\* of its own client, within the reconnect budget.
THEOREM SessionImplementsGate == Spec => ImplementsGate
<1>1. Spec => []SessionInv
  BY AllInvariants, PTL
<1> QED
  BY <1>1, GateInitially, GateSteps, PTL DEF Spec, ImplementsGate, Gate!GateSpec

\* Recovery never goes on with the executable that has just failed, whatever PATH
\* does between the failure and the search (discoverAutomaticStreamClientExcluding).
THEOREM RecoveryChangesTheExecutable == Spec => RecoverySwitchesExecutable
<1>1. SessionInv /\ [Next]_vars => [pc = "search" /\ pc' = "execute" => plan'.binary # plan.binary]_vars
  <2> SUFFICES ASSUME SessionInv, Next, pc = "search", pc' = "execute"
               PROVE  plan'.binary # plan.binary
    OBVIOUS
  <2>1. SearchFound
    <3>1. CASE SearchSkip
      BY <3>1 DEF SearchSkip, Goto, Finish
    <3>2. CASE Environment
      BY <3>2 DEF Environment, ChangePath, ChangeListing, Cancel
    <3> QED
      BY <3>1, <3>2 DEF Next, Step, ControlEnds, Exited, Preflight, DiscoverForPlatform, BuildPlan,
         SendWake, SendPacket, WakeWait, Begin, ExecuteControl, StartControl, Recover, Retry,
         RetryWait, Launch, StartStream, Dropped,
         ReconnectWait, ControlSucceeds, ControlFails, StreamEnds
  <2>2. ret = "run"
    BY <2>1 DEF SearchFound, Goto
  <2>3. plan' = ScannedCandidate /\ ScannedCandidate.binary # client.binary
    BY <2>1, <2>2 DEF SearchFound, rebuildPlans, Goto, Finish, CandidateUsable
  <2>4. plan = client
    BY <2>2 DEF SessionInv, PlansBound, Recovering
  <2> QED BY <2>3, <2>4
<1> QED BY <1>1, AllInvariants, PTL DEF Spec, RecoverySwitchesExecutable
=============================================================================
