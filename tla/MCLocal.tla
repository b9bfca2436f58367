------------------------------ MODULE MCLocal ------------------------------
(***************************************************************************)
(* The components that work on the local machine and share no state are    *)
(* checked in one run: subject is the one that moves, the others stay in   *)
(* an initial state of theirs.                                             *)
(***************************************************************************)
EXTENDS ConfigStore, FileInput, InstallScripts, ReleaseScript, KvmPlan, DirectCommands,
  ClientScan, TLC

VARIABLE subject

-----------------------------------------------------------------------------
(* Each component begins in its own Init, or rests in one state of it.     *)

ConfigIdle ==
  /\ visible = Nothing /\ target = [d \in Directories |-> Nothing] /\ temp = {}
  /\ content = [w \in Writers |-> "none"] /\ pc = [w \in Writers |-> "ensure"]
  /\ info = [w \in Writers |-> Nothing] /\ root = info
  /\ reader = "idle" /\ before = Nothing /\ file = Nothing

InputIdle ==
  /\ name = [object |-> "none", link |-> FALSE] /\ length = [f \in {"file1", "file2"} |-> 0]
  /\ place = "inspect" /\ inspected = "none" /\ inner = "none" /\ opened = "none"
  /\ data = 0 /\ wasNamed = {}

ReleaseIdle ==
  /\ dist = "absent" /\ staging = "absent" /\ backup = "absent" /\ at = "check"
  /\ failures = 0 /\ former = "absent"

KvmIdle ==
  /\ names = [b \in {"binary1", "binary2"} |-> "old"]
  /\ launcher = Plain([name |-> "opener", binary |-> "binary1", open |-> FALSE])
  /\ browserPlan = PlainPlan(launcher, [open |-> FALSE, endpoint |-> "https"])
  /\ browser = [file |-> "none", binary |-> "binary1", args |-> browserPlan.args]
  /\ bound = {} /\ consented = {} /\ steps = 0

DirectIdle ==
  /\ call = [command |-> "map", route |-> "none", url |-> "none", config |-> FALSE,
             confirm |-> "none", acknowledged |-> FALSE, wake |-> FALSE, delay |-> FALSE,
             dryRun |-> FALSE]
  /\ fresh = TRUE /\ interrupted = FALSE /\ phase = "begin" /\ route = "windows"
  /\ confirmed = [value |-> FALSE, of |-> "flag"] /\ endpoint = FALSE /\ verified = {}
  /\ packets = 0 /\ process = FALSE

SearchIdle ==
  /\ goos = "linux" /\ path = [n \in Names |-> "none"] /\ need = "none"
  /\ excluded = "none" /\ unready = {} /\ scan = 1 /\ found = NoClient

Starts(s, init, idle) == IF subject = s THEN init ELSE idle

LocalInit ==
  /\ subject \in {"config", "input", "install", "release", "kvm", "direct", "search"}
  /\ Starts("config", Init, ConfigIdle)
  /\ Starts("input", InputInit, InputIdle)
  /\ InstallInit
  /\ Starts("release", ReleaseInit, ReleaseIdle)
  /\ Starts("kvm", KvmInit, KvmIdle)
  /\ Starts("direct", CommandInit, DirectIdle)
  /\ Starts("search", ScanInit, SearchIdle)

-----------------------------------------------------------------------------
(* Only the subject moves.                                                 *)

ConfigMoves ==
  /\ subject = "config" /\ Next
  /\ UNCHANGED <<subject, inputVars, installVars, releaseVars, kvmVars, callVars, scanVars>>

InputMoves ==
  /\ subject = "input" /\ InputNext
  /\ UNCHANGED <<subject, vars, installVars, releaseVars, kvmVars, callVars, scanVars>>

InstallMoves ==
  /\ subject = "install" /\ InstallNext
  /\ UNCHANGED <<subject, vars, inputVars, releaseVars, kvmVars, callVars, scanVars>>

ReleaseMoves ==
  /\ subject = "release" /\ ReleaseNext
  /\ UNCHANGED <<subject, vars, inputVars, installVars, kvmVars, callVars, scanVars>>

KvmMoves ==
  /\ subject = "kvm" /\ KvmNext
  /\ UNCHANGED <<subject, vars, inputVars, installVars, releaseVars, callVars, scanVars>>

DirectMoves ==
  /\ subject = "direct" /\ CommandNext
  /\ UNCHANGED <<subject, vars, inputVars, installVars, releaseVars, kvmVars, scanVars>>

SearchMoves ==
  /\ subject = "search" /\ ScanNext
  /\ UNCHANGED <<subject, vars, inputVars, installVars, releaseVars, kvmVars, callVars>>

LocalNext ==
  \/ ConfigMoves \/ InputMoves \/ InstallMoves \/ ReleaseMoves \/ KvmMoves \/ DirectMoves
  \/ SearchMoves

localVars == <<subject, vars, inputVars, installVars, releaseVars, kvmVars, callVars, scanVars>>

LocalSpec == LocalInit /\ [][LocalNext]_localVars

LocalSymmetry == Permutations(Writers) \cup Permutations(Directories)
=============================================================================
