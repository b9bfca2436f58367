---------------------------- MODULE HandoffPlan ----------------------------
(***************************************************************************)
(* The life of a Client and a Plan (internal/remote/remote.go) between     *)
(* discovery and the child process.  Both are exported values: a caller    *)
(* may change their exported fields, decode them from JSON or write them   *)
(* by hand, and executables may be replaced on disk meanwhile.  Execute is *)
(* the one boundary that decides whether a process starts.                 *)
(*                                                                         *)
(* Files are file identities (os.SameFile); a flavor stands for the flavor *)
(* together with the command prefix that validateClientPrefix ties to it.  *)
(* An argument vector is the record of what its grammar distinguishes.     *)
(***************************************************************************)
EXTENDS Naturals

CONSTANTS
  Binaries,   \* absolute executable paths
  Files,      \* file identities
  NoFile,     \* no file, and the nil os.FileInfo
  Hosts,      \* physical hosts an operation may be sent to
  NoHost,     \* of a local operation
  Builders,   \* the plan builders callers use
  Vectors,    \* the argument vectors a caller may write into a plan
  MaxDiscoveries, MaxApprovals, MaxEdits  \* bounds of the instance

ASSUME NoFileAssumption == NoFile \notin Files
ASSUME NoHostAssumption == NoHost \notin Hosts
ASSUME BoundsAssumption == MaxDiscoveries \in Nat /\ MaxApprovals \in Nat /\ MaxEdits \in Nat
ASSUME BuildersAssumption == Builders \subseteq {"BuildDiscoveredPlan", "BuildPlan"}

Flavors == {"qt", "embedded", "flatpak"}
Operations == {"list", "stream", "unpair", "map"}
Routes == {"windows", "macos", ""}
QtPlatforms == {"", "xcb", "offscreen"}

\* prefix and env are the Flatpak launcher's; form is the flavor whose option
\* syntax a stream vector uses, the other vectors are the same in both.
ArgumentVectors ==
  [prefix : BOOLEAN, env : QtPlatforms, op : Operations,
   form : {"any", "qt", "embedded"}, host : Hosts \cup {NoHost}]

ASSUME VectorsAssumption == Vectors \subseteq ArgumentVectors

\* clientBinding: the snapshot of flavor and binary, with the file identity.
Bindings == [flavor : Flavors, binary : Binaries]

ClientValues ==
  [flavor : Flavors, binary : Binaries, discovered : BOOLEAN,
   info : Files \cup {NoFile}, binding : Bindings]

PlanValues ==
  [route : Routes, flavor : Flavors, binary : Binaries,
   args : ArgumentVectors, qtPlatform : QtPlatforms,
   local : BOOLEAN, validated : BOOLEAN, discovered : BOOLEAN,
   binding : Bindings, info : Files \cup {NoFile},
   argsBinding : ArgumentVectors, qtBinding : QtPlatforms]

VARIABLES
  disk,         \* path -> the file it names
  client,       \* the caller's Client
  plan,         \* the caller's Plan
  canceled,     \* ctx.Err() # nil
  process       \* "none", "checked" by Execute, or "started"

\* History.
VARIABLES
  discoveries,  \* what the resolver returned: flavor, binary, file
  approvals,    \* what a builder approved: vector and Qt platform
  child         \* what the process was started with

\* Counters of the bounds.
VARIABLES discovered, approved, edits

history == <<discoveries, approvals, child>>
counters == <<discovered, approved, edits>>
vars == <<disk, client, plan, canceled, process, history, counters>>

streamOptionFlavor(flavor) == IF flavor = "flatpak" THEN "qt" ELSE flavor

ValidateQtPlatformForOperation(platform, op) ==
  CASE op = "list"   -> TRUE
    [] op = "stream" -> platform # "offscreen"
    [] OTHER         -> FALSE

validatePlanArguments(flavor, args) ==
  /\ args.prefix = (flavor = "flatpak")
  /\ args.env # "" => args.prefix /\ ValidateQtPlatformForOperation(args.env, args.op)
  /\ args.op \in {"unpair", "map"} => flavor = "embedded"
  /\ (args.op = "map") = (args.host = NoHost)
  /\ args.form = (IF args.op = "stream" THEN streamOptionFlavor(flavor) ELSE "any")

ChildValues ==
  [flavor : Flavors, binary : Binaries, args : ArgumentVectors, qtPlatform : QtPlatforms]

TypeOK ==
  /\ disk \in [Binaries -> Files \cup {NoFile}]
  /\ client \in ClientValues
  /\ plan \in PlanValues
  /\ canceled \in BOOLEAN
  /\ process \in {"none", "checked", "started"}
  /\ discoveries \subseteq [flavor : Flavors, binary : Binaries, info : Files \cup {NoFile}]
  /\ approvals \subseteq [args : ArgumentVectors, qtPlatform : QtPlatforms]
  /\ child \in ChildValues
  /\ discovered \in 0..MaxDiscoveries
  /\ approved \in 0..MaxApprovals
  /\ edits \in 0..MaxEdits

\* A Client and a Plan written by hand: every unexported field is zero.
Init ==
  /\ disk \in [Binaries -> Files \cup {NoFile}]
  /\ \E b \in Binaries, v \in Vectors :
       /\ client = [flavor |-> "qt", binary |-> b, discovered |-> FALSE, info |-> NoFile,
                    binding |-> [flavor |-> "qt", binary |-> b]]
       /\ plan = [route |-> "windows", flavor |-> "qt", binary |-> b,
                  args |-> v, qtPlatform |-> "",
                  local |-> FALSE, validated |-> FALSE, discovered |-> FALSE,
                  binding |-> [flavor |-> "qt", binary |-> b], info |-> NoFile,
                  argsBinding |-> v, qtBinding |-> ""]
       /\ child = [flavor |-> "qt", binary |-> b, args |-> v, qtPlatform |-> ""]
  /\ canceled = FALSE
  /\ process = "none"
  /\ discoveries = {}
  /\ approvals = {}
  /\ discovered = 0
  /\ approved = 0
  /\ edits = 0

-----------------------------------------------------------------------------
(* Discovery and planning. *)

\* The real environment binds the file the path names; a fixture environment
\* returns a discovered client without one.
bindDiscoveredClient ==
  /\ process = "none"
  /\ discovered < MaxDiscoveries
  /\ discovered' = discovered + 1
  /\ \E flavor \in Flavors, binary \in Binaries, real \in BOOLEAN :
       LET info == IF real THEN disk[binary] ELSE NoFile
       IN  /\ real => info # NoFile
           /\ client' = [flavor |-> flavor, binary |-> binary, discovered |-> TRUE,
                         info |-> info, binding |-> [flavor |-> flavor, binary |-> binary]]
           /\ discoveries' = discoveries \cup
                {[flavor |-> flavor, binary |-> binary, info |-> info]}
  /\ UNCHANGED <<disk, plan, canceled, process, approvals, child, approved, edits>>

\* Mutant: a discovered client is planned for whatever it says now.
ClientUnchanged_Trusting == client.discovered

\* The two tests BuildDiscoveredPlan makes before it calls BuildPlan.
ClientUnchanged ==
  /\ client.discovered
  /\ client.binding = [flavor |-> client.flavor, binary |-> client.binary]

Approve(args, platform, route, local) ==
  /\ plan' = [route |-> route, flavor |-> client.flavor, binary |-> client.binary,
              args |-> args, qtPlatform |-> platform,
              local |-> local, validated |-> TRUE, discovered |-> client.discovered,
              binding |-> [flavor |-> client.flavor, binary |-> client.binary],
              info |-> client.info, argsBinding |-> args, qtBinding |-> platform]
  /\ approvals' = approvals \cup {[args |-> args, qtPlatform |-> platform]}
  /\ approved < MaxApprovals
  /\ approved' = approved + 1

\* BuildPlan: the physical host is confirmed, and a stream acknowledged.
BuildPlan ==
  /\ process = "none"
  /\ \E builder \in Builders, op \in Operations \ {"map"}, host \in Hosts,
        platform \in QtPlatforms, route \in Routes \ {""},
        confirmed \in BOOLEAN, acknowledged \in BOOLEAN :
       /\ builder = "BuildDiscoveredPlan" => ClientUnchanged
       /\ confirmed
       /\ op = "stream" => acknowledged
       /\ op = "unpair" => client.flavor = "embedded"
       /\ platform # "" => client.flavor \in {"qt", "flatpak"}
                           /\ ValidateQtPlatformForOperation(platform, op)
       /\ Approve([prefix |-> client.flavor = "flatpak",
                   env |-> IF client.flavor = "flatpak" THEN platform ELSE "",
                   op |-> op,
                   form |-> IF op = "stream" THEN streamOptionFlavor(client.flavor) ELSE "any",
                   host |-> host],
                  platform, route, FALSE)
  /\ UNCHANGED <<disk, client, canceled, process, discoveries, child, discovered, edits>>

\* BuildDiscoveredInputMappingPlan: local, so there is nothing to confirm.
BuildInputMappingPlan ==
  /\ process = "none"
  /\ ClientUnchanged
  /\ client.flavor = "embedded"
  /\ Approve([prefix |-> FALSE, env |-> "", op |-> "map", form |-> "any", host |-> NoHost],
             "", "", TRUE)
  /\ UNCHANGED <<disk, client, canceled, process, discoveries, child, discovered, edits>>

-----------------------------------------------------------------------------
(* What callers and the host may do meanwhile. *)

\* Assign to the exported fields of the Client.
ChangeClient ==
  /\ edits < MaxEdits
  /\ edits' = edits + 1
  /\ process = "none"
  /\ \E flavor \in Flavors, binary \in Binaries :
       client' = [client EXCEPT !.flavor = flavor, !.binary = binary]
  /\ UNCHANGED <<disk, plan, canceled, process, history, discovered, approved>>

\* Assign to the exported fields of the Plan.  The Local flag of the JSON form
\* is not read by Execute.
ChangePlan ==
  /\ edits < MaxEdits
  /\ edits' = edits + 1
  /\ process = "none"
  /\ \/ \E route \in Routes : plan' = [plan EXCEPT !.route = route]
     \/ \E flavor \in Flavors, binary \in Binaries :
          plan' = [plan EXCEPT !.flavor = flavor, !.binary = binary]
     \/ \E args \in Vectors : plan' = [plan EXCEPT !.args = args]
     \/ \E platform \in QtPlatforms : plan' = [plan EXCEPT !.qtPlatform = platform]
  /\ UNCHANGED <<disk, client, canceled, process, history, discovered, approved>>

\* A plan that went through JSON has lost its unexported fields.
DecodePlan ==
  /\ edits < MaxEdits
  /\ edits' = edits + 1
  /\ process = "none"
  /\ plan' = [plan EXCEPT !.local = FALSE, !.validated = FALSE,
                          !.discovered = FALSE, !.info = NoFile]
  /\ UNCHANGED <<disk, client, canceled, process, history, discovered, approved>>

ReplaceFile ==
  /\ edits < MaxEdits
  /\ edits' = edits + 1
  /\ \E binary \in Binaries, file \in Files \cup {NoFile} :
       disk' = [disk EXCEPT ![binary] = file]
  /\ UNCHANGED <<client, plan, canceled, process, history, discovered, approved>>

Cancel ==
  /\ canceled' = TRUE
  /\ UNCHANGED <<disk, client, plan, process, history, counters>>

-----------------------------------------------------------------------------
(* The execution boundary. *)

WellFormed(p) ==
  /\ IF p.local THEN p.route = "" ELSE p.route # ""
  /\ validatePlanArguments(p.flavor, p.args)
  /\ p.flavor = "flatpak" => p.args.env = p.qtPlatform
  /\ p.qtPlatform # "" => p.flavor \in {"qt", "flatpak"}
                          /\ ValidateQtPlatformForOperation(p.qtPlatform, p.args.op)
  /\ p.local = (p.args.op = "map")

\* Mutant: the argument binding is not compared.
BoundToPlanning_NoArguments(p) ==
  /\ p.validated
  /\ p.discovered
  /\ p.binding = [flavor |-> p.flavor, binary |-> p.binary]
  /\ p.qtBinding = p.qtPlatform

BoundToPlanning(p) ==
  /\ p.validated
  /\ p.discovered
  /\ p.binding = [flavor |-> p.flavor, binary |-> p.binary]
  /\ p.argsBinding = p.args
  /\ p.qtBinding = p.qtPlatform

\* Mutant: any file will do.
FileUnchanged_Exists(p) == disk[p.binary] # NoFile

FileUnchanged(p) ==
  /\ p.info # NoFile
  /\ disk[p.binary] = p.info

Execute ==
  /\ process = "none"
  /\ WellFormed(plan)
  /\ BoundToPlanning(plan)
  /\ ~canceled
  /\ FileUnchanged(plan)
  /\ process' = "checked"
  /\ UNCHANGED <<disk, client, plan, canceled, history, counters>>

\* runExecutable starts whatever file the path names by now, if it is one.
Run ==
  /\ process = "checked"
  /\ disk[plan.binary] # NoFile
  /\ ~canceled
  /\ process' = "started"
  /\ child' = [flavor |-> plan.flavor, binary |-> plan.binary,
               args |-> plan.args, qtPlatform |-> plan.qtPlatform]
  /\ UNCHANGED <<disk, client, plan, canceled, discoveries, approvals, counters>>

\* The process has ended, or was never started.
Return ==
  /\ process \in {"checked", "started"}
  /\ process' = "none"
  /\ UNCHANGED <<disk, client, plan, canceled, history, counters>>

Next ==
  \/ bindDiscoveredClient \/ BuildPlan \/ BuildInputMappingPlan
  \/ ChangeClient \/ ChangePlan \/ DecodePlan \/ ReplaceFile \/ Cancel
  \/ Execute \/ Run \/ Return

Spec == Init /\ [][Next]_vars

-----------------------------------------------------------------------------
(* Properties. *)

\* Whatever callers do to the exported values, a process that starts runs the
\* vector and the Qt platform that a builder approved, which includes the
\* consent the operation needs.
StartedWasApproved ==
  process = "started" =>
    [args |-> child.args, qtPlatform |-> child.qtPlatform] \in approvals

\* A process that starts is a client the passive resolver returned, under the
\* flavor it returned ("mutating either Client before planning or Plan.Client
\* after planning cannot redirect execution", remote.go on clientBinding).
StartedWasDiscovered ==
  process = "started" =>
    \E d \in discoveries :
      d.flavor = child.flavor /\ d.binary = child.binary /\ d.info # NoFile

\* The boundary only lets through the very file that discovery bound.
CheckedFileWasDiscovered ==
  [][process = "none" /\ process' = "checked" =>
       \E d \in discoveries :
         /\ d.flavor = plan.flavor /\ d.binary = plan.binary
         /\ d.info # NoFile /\ disk[plan.binary] = d.info]_vars

\* The strengthening of the three invariants: the unexported fields of a plan
\* repeat what a builder approved and what the resolver returned, and a plan
\* stays as Execute found it while its process runs.
ClientFromDiscovery ==
  client.discovered =>
    [flavor |-> client.binding.flavor, binary |-> client.binding.binary,
     info |-> client.info] \in discoveries

PlanFromApproval ==
  plan.validated =>
    [args |-> plan.argsBinding, qtPlatform |-> plan.qtBinding] \in approvals

PlanFromDiscovery ==
  plan.discovered =>
    [flavor |-> plan.binding.flavor, binary |-> plan.binding.binary,
     info |-> plan.info] \in discoveries

ProcessChecked ==
  /\ process # "none" => WellFormed(plan) /\ BoundToPlanning(plan) /\ plan.info # NoFile
  /\ process = "started" =>
       child = [flavor |-> plan.flavor, binary |-> plan.binary,
                args |-> plan.args, qtPlatform |-> plan.qtPlatform]

HandoffInv ==
  TypeOK /\ ClientFromDiscovery /\ PlanFromApproval /\ PlanFromDiscovery /\ ProcessChecked
=============================================================================
