---------------------------- MODULE RemoteSession ----------------------------
(***************************************************************************)
(* One live or dry "leaguebridge remote pair|unpair|list|stream|quit"      *)
(* (runRemote in internal/app/remote.go), from the local client preflight  *)
(* to the exit code: client discovery and recovery, plan building, Wake-   *)
(* on-LAN, the application listing that precedes every stream, retries,    *)
(* reconnects and cancellation.                                            *)
(*                                                                         *)
(* The host changes under the command: packages appear on and disappear    *)
(* from PATH, the physical host advertises or withdraws the application,   *)
(* and the operator may cancel at any time.                                *)
(***************************************************************************)
EXTENDS Discovery

CONSTANTS
  Goos,       \* a.GOOS
  Paths,      \* the states PATH may be in
  Requests    \* the invocations that may be started

Operations == {"pair", "unpair", "list", "stream", "quit"}
Waits == {"wake", "retry", "reconnect"}

\* What the flag parser and the configuration leave of an invocation.
\* selection is target.Client once effectiveRemoteStreamClientSelection has
\* narrowed it, need the flavor the options require, and waits the delays that
\* are not zero.
RequestType ==
  [op : Operations, automatic : BOOLEAN, selection : Selections,
   need : {"none", "qt", "embedded"}, dryRun : BOOLEAN,
   confirmed : BOOLEAN, acknowledged : BOOLEAN, check : BOOLEAN,
   wake : BOOLEAN, wakeRetries : 0..5, reconnects : 0..5,
   waits : SUBSET Waits]

\* The selection an automatic request is narrowed to before preflight.
effectiveRemoteStreamClientSelection(op, need) ==
  CASE op = "unpair"     -> "moonlight-embedded"
    [] need = "qt"       -> "moonlight-qt"
    [] need = "embedded" -> "moonlight-embedded"
    [] OTHER             -> "auto"

\* The early returns of runRemote with a usage error, as a predicate on the
\* requests that get past them.
Accepted(r) ==
  /\ IF r.automatic
     THEN r.selection = effectiveRemoteStreamClientSelection(r.op, r.need)
     ELSE /\ r.selection # "auto"
          /\ r.need = "qt" => r.selection \in {"moonlight-qt", "flatpak"}
          /\ r.need = "embedded" => r.selection \in {"moonlight", "moonlight-embedded"}
  /\ r.need = "embedded" => r.op = "stream"
  /\ r.op = "unpair" => r.need = "none"
  /\ r.check => r.op \in {"list", "stream"} /\ ~r.dryRun
  /\ r.wake => r.op \in {"pair", "list", "stream"}
  /\ r.acknowledged => r.op = "stream" \/ (r.op \in {"pair", "list"} /\ r.wake)
  /\ r.reconnects > 0 => r.op = "stream"

ASSUME GoosAssumption == Goos \in Platforms
ASSUME PathsAssumption == Paths \subseteq PathStates
ASSUME RequestsAssumption == Requests \subseteq {r \in RequestType : Accepted(r)}

VARIABLES
  req,            \* the invocation
  path,           \* executable name -> binary, read by discovery
  listing,        \* how the physical host advertises the application
  canceled,       \* ctx.Err() # nil
  pc,
  client,         \* the discovered client
  plan,           \* the client the operation's plan is bound to
  listPlan,       \* the client the stream's application-list plan is bound to
  phase,          \* "initial" until the first stream attempt has failed
  attempt,        \* the control loop's attempt counter
  reconnects,     \* the stream loop's attempt counter
  fallbackTried,  \* automaticClientFallbackTried
  scan,           \* index of the recovery search in AutomaticClientSelections
  ret,            \* who called the recovery search
  proc,           \* the client whose process is running
  result,         \* how the last control process ended
  exit            \* the command's exit code

\* History, read by the properties only.
VARIABLES
  authorized,     \* the client whose listing named the application, until used
  runs,           \* control processes started
  streams,        \* stream processes started
  packets,        \* Wake-on-LAN packets sent
  ran,            \* clients that started any process
  streamed        \* clients that started a stream

host == <<path, listing, canceled>>
plans == <<client, plan, listPlan>>
loops == <<phase, attempt, reconnects, fallbackTried>>
search == <<scan, ret>>
history == <<authorized, runs, streams, packets, ran, streamed>>
vars == <<req, host, pc, plans, loops, search, proc, result, exit, history>>

PCs == {"preflight", "search", "discover", "build", "wake", "send", "wakeWait", "begin",
        "execute", "start", "running", "failed", "retry", "retryWait", "launch",
        "startStream", "streaming", "dropped", "reconnectWait", "done"}

TypeOK ==
  /\ req \in Requests
  /\ path \in Paths
  /\ listing \in {"exact", "folded", "absent"}
  /\ canceled \in BOOLEAN
  /\ pc \in PCs
  /\ client \in Clients \cup {NoClient}
  /\ plan \in Clients \cup {NoClient}
  /\ listPlan \in Clients \cup {NoClient}
  /\ phase \in {"initial", "reconnect"}
  /\ attempt \in 0..5
  /\ reconnects \in 0..5
  /\ fallbackTried \in BOOLEAN
  /\ scan \in 1..4
  /\ ret \in {"initial", "discover", "run"}
  /\ proc \in Clients \cup {NoClient}
  /\ result \in {"none", "ok", "fail", "timeout", "expired"}
  /\ exit \in {"none", "ok", "blocked", "internal"}
  /\ authorized \in Clients \cup {NoClient}
  /\ runs \in Nat
  /\ streams \in Nat
  /\ packets \in 0..1
  /\ ran \subseteq Clients
  /\ streamed \subseteq Clients

Init ==
  /\ req \in Requests
  /\ path \in Paths
  /\ listing \in {"exact", "folded", "absent"}
  /\ canceled = FALSE
  /\ pc = "preflight"
  /\ client = NoClient
  /\ plan = NoClient
  /\ listPlan = NoClient
  /\ phase = "initial"
  /\ attempt = 0
  /\ reconnects = 0
  /\ fallbackTried = FALSE
  /\ scan = 1
  /\ ret = "initial"
  /\ proc = NoClient
  /\ result = "none"
  /\ exit = "none"
  /\ authorized = NoClient
  /\ runs = 0
  /\ streams = 0
  /\ packets = 0
  /\ ran = {}
  /\ streamed = {}

-----------------------------------------------------------------------------
(* Steps shared by the actions below. *)

Goto(label) == pc' = label /\ exit' = exit

Finish(code) == pc' = "done" /\ exit' = code

StartSearch(caller) ==
  /\ pc' = "search"
  /\ exit' = exit
  /\ scan' = 1
  /\ ret' = caller

\* ApplicationListedForFlavor: Embedded resolves names by exact comparison.
ApplicationListedForFlavor(flavor) ==
  \/ listing = "exact"
  \/ listing = "folded" /\ flavor \in {"qt", "flatpak"}

\* Mutant: a stream needs no acknowledgement.
PlanAllowed_NoAcknowledgement(c) ==
  /\ req.confirmed
  /\ req.op = "unpair" => c.flavor = "embedded"
  /\ streamClientFlavorMatches(req.need, c.flavor)

\* The refusals of BuildDiscoveredPlan that depend on the request and flavor.
PlanAllowed(c) ==
  /\ req.confirmed
  /\ req.op = "stream" => req.acknowledged
  /\ req.op = "unpair" => c.flavor = "embedded"
  /\ streamClientFlavorMatches(req.need, c.flavor)

\* Embedded also refuses an overlong host address and the PIN 0000, and a live
\* Embedded stream needs a controller database on disk, which may come and go
\* (validateEmbeddedStreamMappingAvailability).
PlanRefusable(c) == ~PlanAllowed(c) \/ c.flavor = "embedded"

\* Mutant: recovery rebuilds the listing's plan and keeps the old stream plan.
rebuildPlans_KeepsStreamPlan(c, label) ==
  /\ PlanAllowed(c)
  /\ listPlan' = IF req.op = "stream" THEN c ELSE listPlan
  /\ plan' = IF plan = NoClient \/ req.op # "stream" THEN c ELSE plan
  /\ Goto(label)

\* buildStreamPlan, and for a stream the second plan of rebuildStreamPlans.
rebuildPlans(c, label) ==
  \/ /\ PlanAllowed(c)
     /\ plan' = c
     /\ listPlan' = IF req.op = "stream" THEN c ELSE listPlan
     /\ Goto(label)
  \/ /\ PlanRefusable(c)
     /\ Finish("blocked")
     /\ UNCHANGED <<plan, listPlan>>

\* Mutant: the timer's case is forgotten, only the context ends the wait.
waitForRemoteReconnect_NoTimer(wait, label) ==
  \/ wait \notin req.waits /\ Goto(label)
  \/ wait \in req.waits /\ canceled /\ Finish("internal")

\* waitForRemoteReconnect: no wait at all for a zero delay, otherwise the timer
\* races the context.
waitForRemoteReconnect(wait, label) ==
  \/ Goto(label)
  \/ wait \in req.waits /\ canceled /\ Finish("internal")

-----------------------------------------------------------------------------
(* Local preflight, discovery and recovery. *)

InitialSearchAllowed ==
  /\ req.automatic
  /\ \/ req.op = "stream" /\ (req.need # "none" \/ ~req.dryRun)
     \/ req.op \in {"pair", "list", "quit"} /\ ~req.dryRun

Preflight ==
  /\ pc = "preflight"
  /\ \/ Goto("discover") /\ UNCHANGED search
     \/ InitialSearchAllowed /\ StartSearch("initial")
     \/ ~InitialSearchAllowed /\ Finish("blocked") /\ UNCHANGED search
  /\ UNCHANGED <<req, host, plans, loops, proc, result, history>>

DiscoverRetryAllowed ==
  req.automatic /\ ~req.dryRun /\ req.op \in {"stream", "list"}

\* DiscoverForPlatform fails without a client on PATH, for an executable that
\* cannot be bound, and when its context is canceled or its 3 s are over.
DiscoverForPlatform ==
  /\ pc = "discover"
  /\ LET found == discoverForPlatform(path, Goos, req.selection)
     IN  \/ /\ ~canceled
            /\ found # NoClient
            /\ client' = found
            /\ Goto("build")
            /\ UNCHANGED search
         \/ /\ DiscoverRetryAllowed
            /\ StartSearch("discover")
            /\ UNCHANGED client
         \/ /\ ~DiscoverRetryAllowed
            /\ Finish("blocked")
            /\ UNCHANGED <<client, search>>
  /\ UNCHANGED <<req, host, plan, listPlan, loops, proc, result, history>>

ScannedCandidate ==
  DiscoverAutomaticClientForPlatform(path, Goos, AutomaticClientSelections(Goos)[scan])

\* Mutant: the failed executable is not excluded.
CandidateUsable_NoExclusion(c) ==
  /\ ~canceled
  /\ c # NoClient
  /\ streamClientFlavorMatches(req.need, c.flavor)

\* discoverAutomaticStreamClientForFlavorExcluding and its control twin.
CandidateUsable(c) ==
  /\ ~canceled
  /\ c # NoClient
  /\ streamClientFlavorMatches(req.need, c.flavor)
  /\ ret = "run" => c.binary # client.binary

\* The first usable selection ends the search.  Recovery of a control loop
\* counts as an attempt of that loop; recovery of a stream's listing does not.
SearchFound ==
  /\ pc = "search"
  /\ CandidateUsable(ScannedCandidate)
  /\ client' = ScannedCandidate
  /\ IF ret = "run"
     THEN /\ rebuildPlans(ScannedCandidate, "execute")
          /\ attempt' = IF req.op = "stream" THEN attempt ELSE attempt + 1
     ELSE /\ Goto("build")
          /\ UNCHANGED <<plan, listPlan, attempt>>
  /\ UNCHANGED <<req, host, phase, reconnects, fallbackTried, search, proc, result, history>>

\* Mutant: the search runs past its last selection.
SearchSkip_OffByOne ==
  /\ pc = "search"
  /\ scan' = scan + 1
  /\ Goto("search")
  /\ UNCHANGED <<req, host, plans, loops, ret, proc, result, history>>

\* A selection whose report is not ready, whose lookup fails (the 3 s of the
\* search may be over), or that is filtered out is skipped.
SearchSkip ==
  /\ pc = "search"
  /\ IF scan < Len(AutomaticClientSelections(Goos))
     THEN /\ scan' = scan + 1
          /\ Goto("search")
     ELSE /\ UNCHANGED scan
          /\ IF ret = "run" THEN Goto("retry") ELSE Finish("blocked")
  /\ UNCHANGED <<req, host, plans, loops, ret, proc, result, history>>

-----------------------------------------------------------------------------
(* Plans and Wake-on-LAN. *)

\* buildStreamPlan and wol.BuildPlan; a dry run prints the plans and returns.
BuildPlan ==
  /\ pc = "build"
  /\ \/ /\ PlanAllowed(client)
        /\ req.wake => req.acknowledged
        /\ plan' = client
        /\ IF req.dryRun
           THEN Finish("ok")
           ELSE Goto(IF req.wake THEN "wake" ELSE "begin")
     \/ /\ PlanRefusable(client) \/ (req.wake /\ ~req.acknowledged)
        /\ Finish("blocked")
        /\ UNCHANGED plan
  /\ UNCHANGED <<req, host, client, listPlan, loops, search, proc, result, history>>

\* wol.Execute refuses a canceled context before it opens the socket.
SendWake ==
  /\ pc = "wake"
  /\ \/ ~canceled /\ Goto("send")
     \/ Finish("internal")
  /\ UNCHANGED <<req, host, plans, loops, search, proc, result, history>>

\* Mutant: a packet that could not be sent is only warned about.
SendPacket_IgnoresError ==
  /\ pc = "send"
  /\ packets' \in {packets, packets + 1}
  /\ Goto("wakeWait")
  /\ UNCHANGED <<req, host, plans, loops, search, proc, result,
                 authorized, runs, streams, ran, streamed>>

\* The operator may have canceled since; the socket may fail as well.
SendPacket ==
  /\ pc = "send"
  /\ \/ /\ packets' = packets + 1
        /\ Goto("wakeWait")
     \/ /\ Finish("internal")
        /\ UNCHANGED packets
  /\ UNCHANGED <<req, host, plans, loops, search, proc, result,
                 authorized, runs, streams, ran, streamed>>

WakeWait ==
  /\ pc = "wakeWait"
  /\ waitForRemoteReconnect("wake", "begin")
  /\ UNCHANGED <<req, host, plans, loops, search, proc, result, history>>

\* A stream builds its plan again, with the application-list plan beside it.
Begin ==
  /\ pc = "begin"
  /\ IF req.op = "stream"
     THEN rebuildPlans(client, "execute")
     ELSE Goto("execute") /\ UNCHANGED <<plan, listPlan>>
  /\ UNCHANGED <<req, host, client, loops, search, proc, result, history>>

-----------------------------------------------------------------------------
(* Control processes: the operation itself, or a stream's listing. *)

ControlPlan == IF req.op = "stream" THEN listPlan ELSE plan

\* remote.Execute refuses a canceled context, and a plan whose executable was
\* removed or replaced after discovery.
ExecuteControl ==
  /\ pc = "execute"
  /\ \/ ~canceled /\ Goto("start") /\ UNCHANGED result
     \/ result' = "fail" /\ Goto("failed")
  /\ UNCHANGED <<req, host, plans, loops, search, proc, history>>

\* The child starts, although the operator may have canceled since then: the
\* context then kills it.  The start may fail as well.
StartControl ==
  /\ pc = "start"
  /\ \/ /\ proc' = ControlPlan
        /\ runs' = runs + 1
        /\ ran' = ran \cup {ControlPlan}
        /\ Goto("running")
        /\ UNCHANGED result
     \/ /\ result' = "fail"
        /\ Goto("failed")
        /\ UNCHANGED <<proc, runs, ran>>
  /\ UNCHANGED <<req, host, plans, loops, search, authorized, streams, packets, streamed>>

ChecksApplication == req.op = "stream" \/ req.check

ControlSucceeds ==
  /\ pc = "running"
  /\ result' = "ok"
  /\ proc' = NoClient
  /\ \/ /\ ChecksApplication
        /\ ~ApplicationListedForFlavor(proc.flavor)
        /\ Finish("blocked")
        /\ UNCHANGED authorized
     \/ /\ ChecksApplication => ApplicationListedForFlavor(proc.flavor)
        /\ IF req.op = "stream"
           THEN Goto("launch") /\ authorized' = proc
           ELSE Finish("ok") /\ UNCHANGED authorized
  /\ UNCHANGED <<req, host, plans, loops, search, runs, streams, packets, ran, streamed>>

\* "timeout": the 60 s deadline killed the child, and the error is its exit
\* status; "expired": the error wraps context.DeadlineExceeded; "fail": any
\* other failure, an Embedded pair or unpair that printed no success line
\* among them, and a child killed because the caller canceled.
ControlFails ==
  /\ pc = "running"
  /\ result' \in {"fail", "timeout", "expired"}
  /\ proc' = NoClient
  /\ Goto("failed")
  /\ UNCHANGED <<req, host, plans, loops, search, history>>

\* Mutant: recovery also replaces a client the operator named.
FallbackAllowed_Explicit ==
  /\ ~fallbackTried
  /\ ~canceled
  /\ \/ req.op = "stream" /\ result = "fail"
     \/ req.op \in {"list", "pair", "quit"} /\ attempt = 0 /\ result # "expired"

\* A stream's listing that timed out is not a client failure; for the control
\* operations only an error that wraps the deadline stops recovery.
FallbackAllowed ==
  /\ req.automatic
  /\ ~fallbackTried
  /\ ~canceled
  /\ \/ req.op = "stream" /\ result = "fail"
     \/ req.op \in {"list", "pair", "quit"} /\ attempt = 0 /\ result # "expired"

\* Mutant: recovery does not note that it was tried.
Recover_Forgets ==
  /\ pc = "failed"
  /\ IF FallbackAllowed THEN StartSearch("run") ELSE Goto("retry") /\ UNCHANGED search
  /\ UNCHANGED <<req, host, plans, loops, proc, result, history>>

Recover ==
  /\ pc = "failed"
  /\ IF FallbackAllowed
     THEN fallbackTried' = TRUE /\ StartSearch("run")
     ELSE Goto("retry") /\ UNCHANGED <<fallbackTried, search>>
  /\ UNCHANGED <<req, host, plans, phase, attempt, reconnects, proc, result, history>>

\* The Wake-on-LAN retries cover the first listing only.
RetryAllowed ==
  /\ req.wake
  /\ req.op \in {"list", "stream"}
  /\ phase = "initial"
  /\ attempt < req.wakeRetries
  /\ ~canceled
  /\ req.op = "list" => result # "expired"

Retry ==
  /\ pc = "retry"
  /\ IF RetryAllowed THEN Goto("retryWait") ELSE Finish("internal")
  /\ UNCHANGED <<req, host, plans, loops, search, proc, result, history>>

RetryWait ==
  /\ pc = "retryWait"
  /\ waitForRemoteReconnect("retry", "execute")
  /\ attempt' = attempt + 1
  /\ UNCHANGED <<req, host, plans, phase, reconnects, fallbackTried, search, proc, result, history>>

-----------------------------------------------------------------------------
(* The stream and its reconnects. *)

\* The same checks and the same start, of the stream's own plan.
Launch ==
  /\ pc = "launch"
  /\ \/ ~canceled /\ Goto("startStream") /\ UNCHANGED authorized
     \/ Goto("dropped") /\ authorized' = NoClient
  /\ UNCHANGED <<req, host, plans, loops, search, proc, result, runs, streams, packets, ran, streamed>>

StartStream ==
  /\ pc = "startStream"
  /\ \/ /\ proc' = plan
        /\ streams' = streams + 1
        /\ ran' = ran \cup {plan}
        /\ streamed' = streamed \cup {plan}
        /\ Goto("streaming")
        /\ UNCHANGED authorized
     \/ /\ Goto("dropped")
        /\ authorized' = NoClient
        /\ UNCHANGED <<proc, streams, ran, streamed>>
  /\ UNCHANGED <<req, host, plans, loops, search, result, runs, packets>>

\* Mutant: the stream process is not tied to the context, nothing ends it.
StreamEnds_NotKilled ==
  /\ pc = "streaming"
  /\ ~canceled
  /\ Finish("ok") \/ Goto("dropped")
  /\ proc' = NoClient
  /\ authorized' = NoClient
  /\ UNCHANGED <<req, host, plans, loops, search, result, runs, streams, packets, ran, streamed>>

StreamEnds ==
  /\ pc = "streaming"
  /\ Finish("ok") \/ Goto("dropped")
  /\ proc' = NoClient
  /\ authorized' = NoClient
  /\ UNCHANGED <<req, host, plans, loops, search, result, runs, streams, packets, ran, streamed>>

Dropped ==
  /\ pc = "dropped"
  /\ IF reconnects < req.reconnects /\ ~canceled
     THEN Goto("reconnectWait")
     ELSE Finish("internal")
  /\ UNCHANGED <<req, host, plans, loops, search, proc, result, history>>

\* Mutant: a reconnect trusts the listing made before the first attempt.
ReconnectWait_NoListing ==
  /\ pc = "reconnectWait"
  /\ waitForRemoteReconnect("reconnect", "launch")
  /\ phase' = "reconnect"
  /\ reconnects' = reconnects + 1
  /\ UNCHANGED <<req, host, plans, attempt, fallbackTried, search, proc, result, history>>

ReconnectWait ==
  /\ pc = "reconnectWait"
  /\ waitForRemoteReconnect("reconnect", "execute")
  /\ phase' = "reconnect"
  /\ reconnects' = reconnects + 1
  /\ UNCHANGED <<req, host, plans, attempt, fallbackTried, search, proc, result, history>>

-----------------------------------------------------------------------------
(* The world outside. *)

ChangePath ==
  /\ pc # "done"
  /\ path' \in Paths
  /\ UNCHANGED <<req, listing, canceled, pc, plans, loops, search, proc, result, exit, history>>

ChangeListing ==
  /\ pc # "done"
  /\ listing' \in {"exact", "folded", "absent"}
  /\ UNCHANGED <<req, path, canceled, pc, plans, loops, search, proc, result, exit, history>>

Cancel ==
  /\ pc # "done"
  /\ canceled' = TRUE
  /\ UNCHANGED <<req, path, listing, pc, plans, loops, search, proc, result, exit, history>>

\* A command that has exited.
Exited == pc = "done" /\ UNCHANGED vars

Step ==
  \/ Preflight \/ DiscoverForPlatform \/ SearchFound \/ SearchSkip
  \/ BuildPlan \/ SendWake \/ SendPacket \/ WakeWait \/ Begin
  \/ ExecuteControl \/ StartControl \/ Recover \/ Retry \/ RetryWait
  \/ Launch \/ StartStream \/ Dropped \/ ReconnectWait

ControlEnds == ControlSucceeds \/ ControlFails

Environment == ChangePath \/ ChangeListing \/ Cancel

Next == Step \/ ControlEnds \/ StreamEnds \/ Environment \/ Exited

Spec == Init /\ [][Next]_vars

\* The command itself always runs on, a control process ends within its 60 s
\* deadline and the 2 s of WaitDelay, and a stream process ends once the
\* canceled context kills it; a stream nobody cancels may run for ever.
Fairness ==
  /\ WF_vars(Step)
  /\ WF_vars(ControlEnds)
  /\ WF_vars(canceled /\ StreamEnds)

FairSpec == Spec /\ Fairness

-----------------------------------------------------------------------------
(* Properties. *)

\* A stream process is always the client whose own listing, made since the
\* previous stream attempt, named the application (checkStreamApplication).
StreamAuthorized ==
  pc = "streaming" => proc # NoClient /\ proc = authorized

\* The strengthening that makes TypeOK and StreamAuthorized inductive: which
\* client the plans are bound to at each step, and the counters at the waits.
BeforePackets == {"preflight", "discover", "build", "wake", "send"}

Planned ==
  {"execute", "start", "running", "failed", "retry", "retryWait",
   "launch", "startStream", "streaming", "dropped", "reconnectWait"}

StreamPoints == {"launch", "startStream", "streaming", "dropped", "reconnectWait"}

Recovering == pc = "search" /\ ret = "run"

PlansBound ==
  /\ pc \in {"build", "wake", "send", "wakeWait", "begin"} => client \in Clients
  /\ pc \in {"wake", "send", "wakeWait", "begin"} => plan = client
  /\ pc \in Planned \/ Recovering =>
       client \in Clients /\ plan = client /\ (req.op = "stream" => listPlan = client)

ProcessBound ==
  /\ pc = "running" => proc = client
  /\ pc = "streaming" => proc = client
  /\ pc \in StreamPoints => req.op = "stream"
  /\ pc \in {"launch", "startStream", "streaming"} => authorized = client
  /\ pc \notin {"launch", "startStream", "streaming"} => authorized = NoClient

CountersBound ==
  /\ scan <= Len(AutomaticClientSelections(Goos))
  /\ pc \in BeforePackets \/ (pc = "search" /\ ~Recovering) => packets = 0
  /\ Recovering /\ req.op # "stream" => attempt = 0
  /\ pc = "retryWait" => attempt < req.wakeRetries
  /\ pc = "reconnectWait" => reconnects < req.reconnects
  /\ reconnects <= req.reconnects
  /\ streams <= reconnects + (IF pc \in {"streaming", "dropped", "reconnectWait", "done"} THEN 1 ELSE 0)

SessionInv == TypeOK /\ PlansBound /\ ProcessBound /\ CountersBound

\* The strengthening for ConsentGiven and ExitHonest: what is known of the
\* request once its plan is built, and that nothing was started before.
Committed == pc \in {"wake", "send", "wakeWait", "begin"} \cup Planned \/ Recovering

Consented ==
  /\ req.confirmed
  /\ ~req.dryRun
  /\ req.op = "stream" \/ req.wake => req.acknowledged

ConsentInv ==
  /\ Committed => Consented
  /\ ~Committed /\ pc # "done" => runs = 0 /\ streams = 0 /\ packets = 0
  /\ runs > 0 \/ streams > 0 \/ packets > 0 => Consented
  /\ streams > 0 => req.op = "stream"
  /\ pc \in {"wake", "send"} \/ packets > 0 => req.wake
  /\ Committed /\ pc \notin {"wake", "send"} /\ req.wake => packets = 1
  /\ pc = "running" => runs > 0
  /\ pc = "streaming" => streams > 0
  /\ pc \in {"launch", "startStream", "streaming"} => result = "ok"
  /\ pc # "done" => exit = "none"

\* The strengthening for AtMostOneRecovery: before the recovery only the
\* current client has run, after it one other client may have.
RecoveryInv ==
  /\ ~Committed /\ pc # "done" => ran = {} /\ ~fallbackTried
  /\ ~fallbackTried \/ Recovering => ran \subseteq {client}
  /\ \E other \in Clients \cup {NoClient} : ran \subseteq {client, other}
  /\ Recovering => fallbackTried
  /\ fallbackTried => req.automatic

\* The strengthening for RetryBudget: every process but one was paid for with an
\* attempt, with a reconnect, or with the recovery of a stream's listing, and
\* none is outstanding where the next one starts.
Retries == IF req.wake THEN req.wakeRetries ELSE 0
Extra == IF req.automatic THEN 1 ELSE 0

AttemptLimit ==
  CASE req.op = "stream"         -> Retries
    [] req.op = "list"           -> IF Retries > Extra THEN Retries ELSE Extra
    [] req.op \in {"pair", "quit"} -> Extra
    [] OTHER                     -> 0

Paid ==
  attempt + (IF req.op = "stream" THEN reconnects + (IF fallbackTried THEN 1 ELSE 0) ELSE 0)

NothingOutstanding ==
  \/ pc \in {"preflight", "discover", "build", "wake", "send", "wakeWait", "begin", "execute", "start"}
  \/ pc = "search" /\ (ret = "run" => req.op = "stream")

BudgetInv ==
  /\ runs <= Paid + (IF NothingOutstanding THEN 0 ELSE 1)
  /\ attempt <= AttemptLimit
  /\ pc = "retryWait" => req.wake /\ req.op \in {"list", "stream"} /\ attempt < req.wakeRetries
  /\ Recovering => req.op # "unpair"

\* An invocation runs at most one client and its one recovery, and only one if
\* the operator named it (automaticClientFallbackTried, "never replace an
\* explicit --client choice").
AtMostOneRecovery ==
  \A c, d, e \in ran :
    /\ req.automatic \/ c = d
    /\ c = d \/ d = e \/ c = e

\* The plan that recovery retries with is bound to another executable than the
\* one that just failed (the excludedBinary of the recovery search).
RecoverySwitchesExecutable ==
  [][pc = "search" /\ pc' = "execute" => plan'.binary # plan.binary]_vars

\* The listings and streams one invocation may start.  The recovery of a list
\* uses one of the attempts up, the recovery of a stream's listing is extra.
RetryBudget ==
  /\ streams <= req.reconnects + 1
  /\ req.op = "stream" => runs <= 1 + Retries + Extra + req.reconnects
  /\ req.op = "list" => runs <= 1 + (IF Retries > Extra THEN Retries ELSE Extra)
  /\ req.op \in {"pair", "quit"} => runs <= 1 + Extra
  /\ req.op = "unpair" => runs <= 1

\* Exit code 0 means that the operation itself ran last and succeeded, or that
\* a dry run started nothing and sent nothing.
ExitHonest ==
  exit = "ok" =>
    IF req.dryRun
    THEN runs = 0 /\ streams = 0 /\ packets = 0
    ELSE /\ result = "ok"
         /\ IF req.op = "stream" THEN streams > 0 ELSE runs > 0
         /\ req.wake => packets = 1

\* Every operation that reaches beyond this machine was confirmed, and a stream
\* or a wake-up was acknowledged.
ConsentGiven ==
  /\ runs + streams + packets > 0 => req.confirmed
  /\ streams + packets > 0 => req.acknowledged

\* Cancellation ends the command, whatever is running.
CancelEnds == canceled ~> pc = "done"

\* Every operation except a stream ends by itself.
ControlOperationEnds == req.op # "stream" ~> pc = "done"

\* docs/REMOTE_PLAY.md on reconnects: "Every attempt reuses the same discovered
\* executable".  The recovery of a reconnect's listing replaces it.
EveryAttemptSameExecutable ==
  \A c, d \in streamed : c.binary = d.binary

Gate == INSTANCE StreamGate WITH
  Holders  <- Clients,
  NoHolder <- NoClient,
  gate     <- CASE pc \in {"launch", "startStream"} -> "open"
                [] pc = "streaming" -> "streaming"
                [] pc = "done"      -> "over"
                [] OTHER            -> "closed",
  holder   <- authorized,
  sessions <- streams,
  budget   <- req.reconnects + 1

\* The command implements the gate.
ImplementsGate == Gate!GateSpec
=============================================================================
