------------------------------- MODULE KvmPlan -------------------------------
(***************************************************************************)
(* The browser plan of a hardware KVM (internal/kvm): Launcher and Plan    *)
(* are exported values that callers may change, decode or mix, and         *)
(* executables are replaced on disk, before Execute decides whether a      *)
(* browser starts. Any builder may be used.                                *)
(*                                                                         *)
(* A launcher's name stands for the class of names with the same rules:    *)
(* "gio" needs the prefix open, "opener" and "browser" have none, "other"  *)
(* is in no list. An endpoint is "https", "http" or unacceptable ("bad").  *)
(***************************************************************************)
EXTENDS Naturals

CONSTANTS
  Executables,    \* absolute executable paths
  FileIds,     \* file identities
  NoFileId,    \* no file, and the nil os.FileInfo
  MaxSteps     \* bound: discoveries, plans and changes together

VARIABLES
  names,       \* path -> the file it names
  launcher,    \* the caller's Launcher
  browserPlan, \* the caller's Plan
  browser,     \* what Execute has started
  bound,       \* history: files that a discovery bound, with their path
  consented,   \* history: argument vectors that a builder approved
  steps

kvmVars == <<names, launcher, browserPlan, browser, bound, consented, steps>>

LauncherNames == {"opener", "gio", "browser", "other"}
Endpoints == {"https", "http", "bad"}
Vectors == [open : BOOLEAN, endpoint : Endpoints]
Requests == [endpoint : Endpoints, allowHTTP : BOOLEAN, confirmed : BOOLEAN, accepted : BOOLEAN]

Exported(l) == [name |-> l.name, binary |-> l.binary, open |-> l.open]
LauncherBindings == [name : LauncherNames, binary : Executables, open : BOOLEAN]

\* A Launcher with nothing in its unexported fields: written by hand or decoded.
Plain(e) == [name |-> e.name, binary |-> e.binary, open |-> e.open,
             discovered |-> FALSE, info |-> NoFileId, binding |-> e]

PlainPlan(l, vector) ==
  [launcher |-> l, args |-> vector, validated |-> FALSE, binding |-> Exported(l),
   argsBinding |-> vector, allowHTTP |-> FALSE]

validateLauncher(l) == l.name # "other" /\ l.open = (l.name = "gio")

ValidateEndpoint(endpoint, allowHTTP) ==
  endpoint = "https" \/ (endpoint = "http" /\ allowHTTP)

Bounded == steps < MaxSteps /\ browser.file = NoFileId /\ steps' = steps + 1

\* Discover: the first allowlisted name that PATH resolves, bound to the file that
\* Stat sees, or to none in a fixture environment.
Discover ==
  /\ Bounded
  /\ \E name \in LauncherNames \ {"other"}, binary \in Executables, seen \in BOOLEAN :
       LET found == [name |-> name, binary |-> binary, open |-> name = "gio"]
           info == IF seen THEN names[binary] ELSE NoFileId
       IN  /\ launcher' = [Plain(found) EXCEPT !.discovered = TRUE, !.info = info]
           /\ bound' = IF info = NoFileId THEN bound ELSE bound \cup {<<binary, info>>}
  /\ UNCHANGED <<names, browserPlan, browser, consented>>

BuildPlan(l, request) ==
  /\ validateLauncher(l)
  /\ ValidateEndpoint(request.endpoint, request.allowHTTP)
  /\ request.confirmed
  /\ request.accepted
  /\ LET vector == [open |-> l.open, endpoint |-> request.endpoint]
     IN  /\ browserPlan' = [launcher |-> l, args |-> vector, validated |-> TRUE,
                            binding |-> Exported(l), argsBinding |-> vector,
                            allowHTTP |-> request.allowHTTP]
         /\ consented' = consented \cup {vector}

BuildDiscoveredPlan(l, request) ==
  /\ l.discovered
  /\ l.binding = Exported(l)
  /\ BuildPlan(l, request)

Build ==
  /\ Bounded
  /\ \E request \in Requests : BuildPlan(launcher, request) \/ BuildDiscoveredPlan(launcher, request)
  /\ UNCHANGED <<names, launcher, browser, bound>>

ChangeLauncher ==
  /\ Bounded
  /\ \/ \E name \in LauncherNames : launcher' = [launcher EXCEPT !.name = name]
     \/ \E binary \in Executables : launcher' = [launcher EXCEPT !.binary = binary]
     \/ \E open \in BOOLEAN : launcher' = [launcher EXCEPT !.open = open]
     \/ launcher' = Plain(Exported(launcher))
     \/ launcher' = browserPlan.launcher
  /\ UNCHANGED <<names, browserPlan, browser, bound, consented>>

ChangePlan ==
  /\ Bounded
  /\ \/ browserPlan' = [browserPlan EXCEPT !.launcher = launcher]
     \/ \E vector \in Vectors : browserPlan' = [browserPlan EXCEPT !.args = vector]
     \/ browserPlan' = PlainPlan(Plain(Exported(browserPlan.launcher)), browserPlan.args)
  /\ UNCHANGED <<names, launcher, browser, bound, consented>>

ReplaceExecutable ==
  /\ Bounded
  /\ \E binary \in Executables, id \in FileIds \cup {NoFileId} :
       names' = [names EXCEPT ![binary] = id]
  /\ UNCHANGED <<launcher, browserPlan, browser, bound, consented>>

\* Mutant: the executable is checked, but not that it is the discovered one.
SameFile_Regular(plan) == names[plan.launcher.binary] # NoFileId

SameFile(plan) == names[plan.launcher.binary] = plan.launcher.info

ArgumentsMatch(plan) == plan.argsBinding = plan.args

Execute ==
  /\ browser.file = NoFileId
  /\ browserPlan.validated
  /\ browserPlan.launcher.discovered
  /\ browserPlan.binding = Exported(browserPlan.launcher)
  /\ ArgumentsMatch(browserPlan)
  /\ validateLauncher(browserPlan.launcher)
  /\ browserPlan.args.open = browserPlan.launcher.open
  /\ ValidateEndpoint(browserPlan.args.endpoint, browserPlan.allowHTTP)
  /\ browserPlan.launcher.info # NoFileId
  /\ SameFile(browserPlan)
  /\ browser' = [file |-> names[browserPlan.launcher.binary],
                 binary |-> browserPlan.launcher.binary, args |-> browserPlan.args]
  /\ UNCHANGED <<names, launcher, browserPlan, bound, consented, steps>>

KvmInit ==
  /\ names \in [Executables -> FileIds]
  /\ \E binary \in Executables :
       LET plain == Plain([name |-> "opener", binary |-> binary, open |-> FALSE])
           vector == [open |-> FALSE, endpoint |-> "https"]
       IN  /\ launcher = plain
           /\ browserPlan = PlainPlan(plain, vector)
           /\ browser = [file |-> NoFileId, binary |-> binary, args |-> vector]
  /\ bound = {}
  /\ consented = {}
  /\ steps = 0

KvmNext ==
  \/ Discover \/ Build \/ ChangeLauncher \/ ChangePlan \/ ReplaceExecutable \/ Execute

KvmSpec == KvmInit /\ [][KvmNext]_kvmVars

-----------------------------------------------------------------------------
\* A browser that starts is a file that some discovery bound, with a vector that a
\* builder approved for a confirmed and accepted request, whatever callers did to
\* the values in between and whichever builder they used (Execute).
BrowserWasBoundAndApproved ==
  browser.file # NoFileId =>
    /\ \E binary \in Executables : <<binary, browser.file>> \in bound
    /\ browser.args \in consented
=============================================================================
