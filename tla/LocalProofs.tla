---------------------------- MODULE LocalProofs ----------------------------
(***************************************************************************)
(* What the components of the local machine promise, for every value of    *)
(* their constants: the bounded read, the scripts of an installation and   *)
(* of a release, the direct commands, the browser plan and the recovery    *)
(* search. They share no state; each has an invariant of its own.          *)
(***************************************************************************)
EXTENDS FileInput, InstallScripts, ReleaseScript, DirectCommands, KvmPlan, ClientScan, TLAPS

-----------------------------------------------------------------------------
(* The bounded read. Its first inspection saw the name mean the inspected  *)
(* file, so it is enough that the handle it reads is that of this file.    *)

InputInv ==
  /\ InputTypeOK
  /\ place \notin {"inspect", "failed"} => inspected \in wasNamed
  /\ place \in {"read", "final", "returned"} => opened = inspected
  /\ place \in {"final", "returned"} => data <= Maximum

\* What Lstat accepts as the inspected file is one of the regular files.
LEMMA InspectedFile ==
  ASSUME InputTypeOK, IsRegular
  PROVE  name.object \in Files
BY DEF IsRegular

LEMMA StepInput == ASSUME InputInv, [InputNext]_inputVars PROVE InputInv'
<1> USE InputAssumption DEF InputInv, InputTypeOK, tree, locals, Failed
<1>1. CASE Inspect
  BY <1>1 DEF Inspect, IsRegular
<1>2. CASE InnerInspect
  BY <1>2 DEF InnerInspect, IsRegular
<1>3. CASE Open
  BY <1>3 DEF Open, Meanings, Objects
<1>4. CASE Reinspect
  BY <1>4 DEF Reinspect
<1>5. CASE StatOpened
  BY <1>5 DEF StatOpened
<1>6. CASE Read
  <2>1. opened \in Files /\ length[opened] \in Nat
    BY <1>6 DEF Read, Lengths
  <2> QED BY <1>6, <2>1 DEF Read
<1>7. CASE FinalInspect
  BY <1>7 DEF FinalInspect
<1>8. CASE Rearrange
  BY <1>8 DEF Rearrange
<1>9. CASE RewriteFile
  BY <1>9 DEF RewriteFile
<1>10. CASE UNCHANGED inputVars
  BY <1>10 DEF inputVars
<1> QED
  BY <1>1, <1>2, <1>3, <1>4, <1>5, <1>6, <1>7, <1>8, <1>9, <1>10 DEF InputNext, ReadStep

\* What the bounded read returns are the bytes of one regular file within the
\* limit, which the name meant, as a file and not through a link, during the call,
\* for any files, devices, lengths and limit, whatever the tree does meanwhile.
THEOREM ReadIsOfTheNamedFile == InputSpec => []ReadsTheNamedFile
<1>1. InputInit => InputInv
  BY InputAssumption DEF InputInit, InputInv, InputTypeOK
<1>2. InputInv /\ [InputNext]_inputVars => InputInv'
  BY StepInput
<1>3. InputInv => ReadsTheNamedFile
  BY DEF InputInv, ReadsTheNamedFile
<1> QED BY <1>1, <1>2, <1>3, PTL DEF InputSpec

-----------------------------------------------------------------------------
(* install.sh and uninstall.sh. Unless the operator interferes, every path *)
(* before the current one is done, and uninstall.sh comes last.            *)

InstallTypes ==
  /\ installed \in [Paths -> {"release", "other", "link", "directory", "absent"}]
  /\ temporary \in {"absent", "partial", "release"}
  /\ next \in 1..8
  /\ script = "install" => step \in {"directories", "check", "copy", "recheck", "publish"}
  /\ script = "uninstall" => step \in {"directories", "remove", "rmdir"}
  /\ touched \in BOOLEAN /\ rescue \in BOOLEAN

Installing ==
  script = "install" =>
    /\ step = "directories" => next = 1
    /\ step \in {"recheck", "publish"} => temporary = "release"
    /\ ~touched => \A i \in 1..8 : i < next => installed[InstallOrder[i]] = "release"
    /\ step = "publish" /\ ~touched => Replaceable
    /\ ~rescue

Uninstalling ==
  script = "uninstall" =>
    /\ step = "directories" => next = 1
    /\ step \in {"directories", "remove"} /\ ~touched =>
         /\ \A i \in 1..8 : i < next => installed[UninstallOrder[i]] = "absent"
         /\ rescue => installed["uninstall.sh"] = "release"
    /\ step = "rmdir" /\ ~touched => \A p \in Paths : installed[p] = "absent"

InstallInv ==
  /\ InstallTypes
  /\ Installing
  /\ Uninstalling
  /\ ReportedDone
  /\ UninstallerRemains

\* Both orders go over the same eight paths, and uninstall.sh is the last to be
\* removed.
LEMMA Orders ==
  /\ Len(InstallOrder) = 8 /\ Len(UninstallOrder) = 8
  /\ Paths = {InstallOrder[i] : i \in 1..8}
  /\ Paths = {UninstallOrder[i] : i \in 1..8}
  /\ \A i \in 1..8 : UninstallOrder[i] = "uninstall.sh" => i = 8
  /\ "uninstall.sh" \in Paths
<1>1. Len(InstallOrder) = 8 /\ Len(UninstallOrder) = 8
  BY DEF InstallOrder, UninstallOrder
<1>2. DOMAIN InstallOrder = 1..8
  BY DEF InstallOrder
<1>3. Paths = {InstallOrder[i] : i \in 1..8}
  BY <1>2 DEF Paths, ToSet
<1> DEFINE all == {"leaguebridge", "uninstall.sh", "client-smoke.sh", "remote-session.sh",
                   "README.md", "LICENSE", "SBOM", "PACKAGE-MANIFEST"}
<1>4. \A i \in 1..8 : i = 1 \/ i = 2 \/ i = 3 \/ i = 4 \/ i = 5 \/ i = 6 \/ i = 7 \/ i = 8
  OBVIOUS
<1>5. {InstallOrder[i] : i \in 1..8} = all
  <2>1. /\ InstallOrder[1] = "leaguebridge" /\ InstallOrder[2] = "uninstall.sh"
        /\ InstallOrder[3] = "client-smoke.sh" /\ InstallOrder[4] = "remote-session.sh"
        /\ InstallOrder[5] = "README.md" /\ InstallOrder[6] = "LICENSE"
        /\ InstallOrder[7] = "SBOM" /\ InstallOrder[8] = "PACKAGE-MANIFEST"
    BY DEF InstallOrder
  <2> HIDE DEF InstallOrder
  <2> QED BY <1>4, <2>1
<1>6. {UninstallOrder[i] : i \in 1..8} = all
      /\ \A i \in 1..8 : UninstallOrder[i] = "uninstall.sh" => i = 8
  <2>1. /\ UninstallOrder[1] = "leaguebridge" /\ UninstallOrder[2] = "README.md"
        /\ UninstallOrder[3] = "LICENSE" /\ UninstallOrder[4] = "SBOM"
        /\ UninstallOrder[5] = "PACKAGE-MANIFEST" /\ UninstallOrder[6] = "client-smoke.sh"
        /\ UninstallOrder[7] = "remote-session.sh" /\ UninstallOrder[8] = "uninstall.sh"
    BY DEF UninstallOrder
  <2> QED BY <1>4, <2>1
<1> QED BY <1>1, <1>3, <1>5, <1>6

\* A script that ends without having changed a path keeps what is known of them.
LEMMA EndedScript ==
  ASSUME InstallInv, UNCHANGED <<installed, touched, rescue>>,
         temporary' \in {"absent", "partial", "release"},
         NEW how \in {"failed", "killed"}, Ends(how)
  PROVE  InstallInv'
BY DEF InstallInv, InstallTypes, Installing, Uninstalling, ReportedDone, UninstallerRemains, Ends

LEMMA InstallStep ==
  ASSUME InstallInv,
         StartInstall \/ EnsureDirectories \/ CheckDestination \/ CopySource
           \/ RecheckDestination
  PROVE  InstallInv'
<1> USE DEF InstallInv, InstallTypes, Installing, Uninstalling, ReportedDone,
            UninstallerRemains, World
<1>1. CASE StartInstall
  <2>1. \A i \in 1..8 : ~(i < 1)
    OBVIOUS
  <2>2. InstallTypes'
    <3>1. touched' \in BOOLEAN /\ rescue' \in BOOLEAN
      BY <1>1, Zenon DEF StartInstall
    <3>2. next' \in 1..8 /\ installed' = installed /\ temporary' = "absent"
      BY <1>1 DEF StartInstall
    <3>3. script' = "install" /\ step' = "directories"
      BY <1>1 DEF StartInstall
    <3> QED BY <3>1, <3>2, <3>3
  <2>3. Installing' /\ Uninstalling'
    BY <1>1, <2>1 DEF StartInstall
  <2>4. ReportedDone' /\ UninstallerRemains'
    BY <1>1 DEF StartInstall
  <2> QED BY <2>2, <2>3, <2>4
<1>2. CASE EnsureDirectories
  <2>1. CASE Exits("failed")
    BY <1>2, <2>1, EndedScript DEF EnsureDirectories, Exits
  <2> QED BY <1>2, <2>1 DEF EnsureDirectories
<1>3. CASE CheckDestination
  <2>1. CASE Exits("failed")
    BY <1>3, <2>1, EndedScript DEF CheckDestination, Exits
  <2> QED BY <1>3, <2>1 DEF CheckDestination
<1>4. CASE CopySource
  <2>1. CASE Exits("failed")
    BY <1>4, <2>1, EndedScript DEF CopySource, Exits
  <2> QED BY <1>4, <2>1 DEF CopySource
<1>5. CASE RecheckDestination
  <2>1. CASE Exits("failed")
    BY <1>5, <2>1, EndedScript DEF RecheckDestination, Exits
  <2> QED BY <1>5, <2>1 DEF RecheckDestination, Replaceable, Destination
<1> QED BY <1>1, <1>2, <1>3, <1>4, <1>5

LEMMA PublishStep == ASSUME InstallInv, PublishFile PROVE InstallInv'
<1> USE DEF InstallInv, World
<1>1. CASE Exits("failed") /\ UNCHANGED installed
  BY <1>1, EndedScript DEF PublishFile, Exits
<1>2. SUFFICES ASSUME temporary' = "absent", Advance(InstallOrder, "check", "installed"),
                      IF installed[Destination] = "directory"
                      THEN UNCHANGED installed
                      ELSE installed' = [installed EXCEPT ![Destination] = temporary]
               PROVE  InstallInv'
  BY <1>1 DEF PublishFile
<1>3. /\ script = "install" /\ step = "publish" /\ temporary = "release"
      /\ touched' = touched /\ rescue' = rescue /\ ~rescue
  BY DEF PublishFile, InstallTypes, Installing
<1>4. Destination \in Paths /\ Destination = InstallOrder[next] /\ next \in 1..8
  BY Orders DEF Destination, InstallTypes
<1>5. installed' \in [Paths -> {"release", "other", "link", "directory", "absent"}]
  BY <1>2, <1>3, <1>4 DEF InstallTypes
<1>6. ~touched => \A i \in 1..8 : i <= next => installed'[InstallOrder[i]] = "release"
  <2>1. ASSUME ~touched PROVE installed' = [installed EXCEPT ![Destination] = "release"]
    BY <1>2, <1>3, <2>1 DEF Installing, Replaceable
  <2>2. SUFFICES ASSUME ~touched, NEW i \in 1..8, i <= next
                 PROVE  installed'[InstallOrder[i]] = "release"
    OBVIOUS
  <2>3. i = next \/ installed[InstallOrder[i]] = "release"
    BY <1>3, <1>4, <2>2 DEF Installing
  <2>4. InstallOrder[i] \in Paths
    BY Orders
  <2> QED BY <1>4, <2>1, <2>2, <2>3, <2>4 DEF InstallTypes
<1>7. CASE next = 8
  <2>1. script' = "installed" /\ next' = 1
    BY <1>2, <1>7, Orders DEF Advance, Ends
  <2>2. ~touched => \A p \in Paths : installed'[p] = "release"
    BY <1>6, <1>7, Orders
  <2> QED BY <1>2, <1>3, <1>5, <2>1, <2>2
     DEF InstallTypes, Installing, Uninstalling, ReportedDone, UninstallerRemains
<1>8. CASE next # 8
  <2>1. next' = next + 1 /\ step' = "check" /\ script' = "install"
    BY <1>2, <1>3, <1>8, Orders DEF Advance
  <2>2. next' \in 1..8
    BY <1>4, <1>8, <2>1
  <2>3. ~touched => \A i \in 1..8 : i < next' => installed'[InstallOrder[i]] = "release"
    BY <1>4, <1>6, <2>1
  <2> QED BY <1>2, <1>3, <1>5, <2>1, <2>2, <2>3
     DEF InstallTypes, Installing, Uninstalling, ReportedDone, UninstallerRemains
<1> QED BY <1>7, <1>8

LEMMA RemoveStep == ASSUME InstallInv, RemoveFile PROVE InstallInv'
<1> USE DEF InstallInv, World
<1>1. CASE Ends("failed") /\ UNCHANGED installed
  BY <1>1, EndedScript DEF RemoveFile, InstallTypes
<1>2. SUFFICES ASSUME installed' = [installed EXCEPT ![Removed] = "absent"],
                      IF next = Len(UninstallOrder)
                      THEN step' = "rmdir" /\ UNCHANGED <<script, next>>
                      ELSE next' = next + 1 /\ UNCHANGED <<script, step>>
               PROVE  InstallInv'
  BY <1>1 DEF RemoveFile
<1>3. /\ script = "uninstall" /\ step = "remove" /\ script' = script
      /\ touched' = touched /\ rescue' = rescue /\ temporary' = temporary
  BY <1>2 DEF RemoveFile
<1>4. Removed \in Paths /\ Removed = UninstallOrder[next] /\ next \in 1..8
  BY Orders DEF Removed, InstallTypes
<1>5. installed' \in [Paths -> {"release", "other", "link", "directory", "absent"}]
  BY <1>2, <1>4 DEF InstallTypes
<1>6. ~touched => \A i \in 1..8 : i <= next => installed'[UninstallOrder[i]] = "absent"
  <2>1. SUFFICES ASSUME ~touched, NEW i \in 1..8, i <= next
                 PROVE  installed'[UninstallOrder[i]] = "absent"
    OBVIOUS
  <2>2. i = next \/ installed[UninstallOrder[i]] = "absent"
    BY <1>3, <1>4, <2>1 DEF Uninstalling
  <2>3. UninstallOrder[i] \in Paths
    BY Orders
  <2> QED BY <1>2, <1>4, <2>2, <2>3 DEF InstallTypes
<1>7. CASE next = 8
  <2>1. step' = "rmdir" /\ next' = next
    BY <1>2, <1>7, Orders
  <2>2. ~touched => \A p \in Paths : installed'[p] = "absent"
    BY <1>6, <1>7, Orders
  <2> QED BY <1>2, <1>3, <1>4, <1>5, <2>1, <2>2
     DEF InstallTypes, Installing, Uninstalling, ReportedDone, UninstallerRemains
<1>8. CASE next # 8
  <2>1. next' = next + 1 /\ step' = "remove"
    BY <1>2, <1>3, <1>8, Orders
  <2>2. next' \in 1..8
    BY <1>4, <1>8, <2>1
  <2>3. ~touched => \A i \in 1..8 : i < next' => installed'[UninstallOrder[i]] = "absent"
    BY <1>4, <1>6, <2>1
  <2>4. Removed # "uninstall.sh"
    BY <1>4, <1>8, Orders
  <2>5. ~touched /\ rescue => installed'["uninstall.sh"] = "release"
    BY <1>2, <1>3, <2>4, Orders DEF Uninstalling, InstallTypes
  <2> QED BY <1>2, <1>3, <1>5, <2>1, <2>2, <2>3, <2>5
     DEF InstallTypes, Installing, Uninstalling, ReportedDone, UninstallerRemains
<1> QED BY <1>7, <1>8

LEMMA UninstallStep ==
  ASSUME InstallInv, StartUninstall \/ CheckDirectories \/ RemoveDirectories
  PROVE  InstallInv'
<1> USE DEF InstallInv, InstallTypes, Installing, Uninstalling, ReportedDone,
            UninstallerRemains, World
<1>1. CASE StartUninstall
  <2>1. \A i \in 1..8 : ~(i < 1)
    OBVIOUS
  <2>2. InstallTypes'
    <3>1. touched' \in BOOLEAN /\ rescue' \in BOOLEAN
      BY <1>1, Zenon DEF StartUninstall
    <3>2. next' \in 1..8 /\ installed' = installed /\ temporary' = temporary
      BY <1>1 DEF StartUninstall
    <3>3. script' = "uninstall" /\ step' = "directories"
      BY <1>1 DEF StartUninstall
    <3> QED BY <3>1, <3>2, <3>3
  <2>3. Installing' /\ Uninstalling'
    BY <1>1, <2>1 DEF StartUninstall
  <2>4. ReportedDone' /\ UninstallerRemains'
    BY <1>1 DEF StartUninstall
  <2> QED BY <2>2, <2>3, <2>4
<1>2. CASE CheckDirectories
  <2>1. CASE Ends("failed")
    BY <1>2, <2>1, EndedScript DEF CheckDirectories
  <2> QED BY <1>2, <2>1 DEF CheckDirectories
<1>3. CASE RemoveDirectories
  BY <1>3 DEF RemoveDirectories, Ends
<1> QED BY <1>1, <1>2, <1>3

LEMMA WorldStep ==
  ASSUME InstallInv, Signal \/ Kill \/ Edit \/ Redirect \/ UNCHANGED installVars
  PROVE  InstallInv'
<1> USE DEF InstallInv, World
<1>1. CASE Signal
  BY <1>1, EndedScript DEF Signal, Exits, InstallTypes
<1>2. CASE Kill
  BY <1>2, EndedScript DEF Kill, InstallTypes
<1>3. CASE Edit
  BY <1>3
  DEF Edit, InstallTypes, Installing, Uninstalling, ReportedDone, UninstallerRemains
<1>4. CASE Redirect \/ UNCHANGED installVars
  BY <1>4
  DEF Redirect, installVars, InstallTypes, Installing, Uninstalling, ReportedDone,
      UninstallerRemains, Replaceable, Destination
<1> QED BY <1>1, <1>2, <1>3, <1>4

LEMMA InvariantOfScripts == InstallSpec => []InstallInv
<1>1. InstallInit => InstallInv
  <2>1. InstallInit => InstallTypes
    <3>1. InstallInit => touched \in BOOLEAN /\ rescue \in BOOLEAN
      BY Zenon DEF InstallInit
    <3> QED BY <3>1 DEF InstallInit, InstallTypes
  <2>2. InstallInit => Installing /\ Uninstalling
    BY DEF InstallInit, Installing, Uninstalling
  <2>3. InstallInit => ReportedDone
    BY DEF InstallInit, ReportedDone
  <2>4. InstallInit => UninstallerRemains
    BY DEF InstallInit, UninstallerRemains
  <2> QED BY <2>1, <2>2, <2>3, <2>4 DEF InstallInv
<1>2. InstallInv /\ [InstallNext]_installVars => InstallInv'
  BY InstallStep, PublishStep, UninstallStep, RemoveStep, WorldStep DEF InstallNext
<1> QED BY <1>1, <1>2, PTL DEF InstallSpec

\* An exit code of 0 of install.sh and uninstall.sh is true and no path ever has an
\* unfinished file, for any number of runs, signals, kills and changes by the
\* operator (install_file, remove_file).
THEOREM ScriptsReportWhatIsDone == InstallSpec => []ReportedDone
<1>1. InstallInv => ReportedDone
  BY DEF InstallInv
<1> QED BY <1>1, InvariantOfScripts, PTL

\* An uninstall.sh that has not finished is still there to be run again, for any
\* number of runs, signals, kills and changes by the operator (the order of
\* remove_file).
THEOREM UninstallerIsLast == InstallSpec => []UninstallerRemains
<1>1. InstallInv => UninstallerRemains
  BY DEF InstallInv
<1> QED BY <1>1, InvariantOfScripts, PTL

-----------------------------------------------------------------------------
(* The release script. The invariant follows the two directories through   *)
(* the steps: an old output is in its place until the move, in the backup  *)
(* until the publication, and cleanup may start from any of these.         *)

ReleaseTypes ==
  /\ former \in {"absent", "old"}
  /\ dist \in {"absent", "old", "complete"}
  /\ staging \in {"absent", "partial", "complete"}
  /\ backup \in {"absent", "empty", "old"}
  /\ at \in Steps \cup Cleaning \cup EndedRelease

Untouched == dist = former /\ backup \in {"absent", "empty"}
Aside == dist = "absent" /\ former = "old" /\ backup = "old"

ReleaseInv ==
  /\ ReleaseTypes
  /\ at \in {"check", "build", "aside"} => dist = former /\ backup = "absent"
  /\ at \in {"aside", "move", "publish"} => staging = "complete"
  /\ at = "move" => dist = former /\ former = "old" /\ backup = "empty"
  /\ at = "publish" =>
       dist = "absent" /\ backup = (IF former = "old" THEN "old" ELSE "absent")
  /\ at \in {"discard", "published"} => dist = "complete"
  /\ at = "restore" => Untouched \/ Aside \/ dist = "complete"
  /\ at = "killed" => dist \in {former, "complete"} \/ Aside
  /\ at \in {"removeStaging", "removeBackup", "failed"} => dist \in {former, "complete"}

LEMMA StepRelease ==
  ASSUME ~RestoreFails, ReleaseInv, [ReleaseNext]_releaseVars
  PROVE  ReleaseInv'
<1> USE DEF ReleaseInv, ReleaseTypes, Untouched, Aside, Steps, Cleaning, EndedRelease
<1>1. CASE CheckSource
  BY <1>1 DEF CheckSource
<1>2. CASE BuildAndVerify
  BY <1>2 DEF BuildAndVerify
<1>3. CASE MakeBackup
  BY <1>3 DEF MakeBackup
<1>4. CASE MoveAside
  BY <1>4 DEF MoveAside
<1>5. CASE PublishOutput
  BY <1>5 DEF PublishOutput
<1>6. CASE DiscardBackup
  BY <1>6 DEF DiscardBackup
<1>7. CASE InterruptScript
  BY <1>7 DEF InterruptScript
<1>8. CASE KillScript
  BY <1>8 DEF KillScript
<1>9. CASE CleanupRestore
  BY <1>9 DEF CleanupRestore, Restorable
<1>10. CASE CleanupStaging
  BY <1>10 DEF CleanupStaging
<1>11. CASE CleanupBackup
  BY <1>11 DEF CleanupBackup
<1>12. CASE UNCHANGED releaseVars
  BY <1>12 DEF releaseVars
<1> QED
  BY <1>1, <1>2, <1>3, <1>4, <1>5, <1>6, <1>7, <1>8, <1>9, <1>10, <1>11, <1>12 DEF ReleaseNext

\* An output that was there is never lost, and none but a complete one is ever in
\* its place, for any number of failing moves, signals and kills, provided that
\* the move back of cleanup succeeds (release.sh).
THEOREM OutputIsNotLost == ASSUME ~RestoreFails PROVE ReleaseSpec => []OutputNotLost
<1>1. ReleaseInit => ReleaseInv
  BY DEF ReleaseInit, ReleaseInv, ReleaseTypes, Steps
<1>2. ReleaseInv /\ [ReleaseNext]_releaseVars => ReleaseInv'
  BY StepRelease
<1>3. ReleaseInv => OutputNotLost
  BY DEF ReleaseInv, ReleaseTypes, Untouched, Aside, Steps, Cleaning, EndedRelease, OutputNotLost
<1> QED BY <1>1, <1>2, <1>3, PTL DEF ReleaseSpec

-----------------------------------------------------------------------------
(* remote map, kvm and wake. A route enters the history when its contract  *)
(* is found in force and is not changed after that; a plan is built only   *)
(* with the consent that the effects need.                                 *)

Preparing ==
  {"begin", "load", "contract", "validate", "kvmContract", "discover", "plan"}

CallTypes ==
  /\ call \in Calls /\ Accepted(call)
  /\ phase \in Preparing \cup {"wake", "waiting", "start", "running"} \cup Codes
  /\ packets \in Nat

Planned == phase \in {"wake", "waiting", "start", "running"}

CallInv ==
  /\ CallTypes
  /\ confirmed.of \in {"flag", route}
  /\ phase \in {"load", "contract", "validate", "kvmContract"} => call.command # "map"
  /\ phase \in {"validate", "kvmContract"} => route \in verified
  /\ phase \in {"discover", "plan"} \/ Planned => call.command = "map" \/ route \in verified
  /\ Planned => ~call.dryRun /\ MayPlan
  /\ phase \in {"wake", "waiting"} => call.wake
  /\ phase \in Preparing \cup {"wake"} => packets = 0
  /\ packets = 0 \/ (packets = 1 /\ call.wake)
  /\ process => phase \in {"running"} \cup Codes
  /\ DirectEffectsConsented

LEMMA GatheringStep ==
  ASSUME CallInv, UNCHANGED call,
         Begin \/ LoadValues \/ VerifyContract \/ ValidateConfig \/ VerifyKvmContract
           \/ DiscoverTool
  PROVE  CallInv'
<1> USE DEF CallInv, CallTypes, Preparing, Planned, Exit, Proceed, Values, Effects, Codes, MayPlan,
            Consented, DirectEffectsConsented
<1>1. CASE Begin
  BY <1>1 DEF Begin, FlagConfirmation
<1>2. CASE LoadValues
  BY <1>2 DEF LoadValues, LoadedRoute, FlagConfirmation
<1>3. CASE VerifyContract
  BY <1>3 DEF VerifyContract
<1>4. CASE ValidateConfig
  BY <1>4 DEF ValidateConfig
<1>5. CASE VerifyKvmContract
  BY <1>5 DEF VerifyKvmContract
<1>6. CASE DiscoverTool
  BY <1>6 DEF DiscoverTool
<1> QED BY <1>1, <1>2, <1>3, <1>4, <1>5, <1>6

LEMMA EffectStep ==
  ASSUME CallInv, UNCHANGED call,
         BuildPlans \/ SendPacket \/ Wait \/ StartProcess \/ ProcessEnds
  PROVE  CallInv'
<1> USE DEF CallInv, CallTypes, Preparing, Planned, Exit, Proceed, Values, Effects, Codes, MayPlan,
            Consented, DirectEffectsConsented
<1>1. CASE BuildPlans
  BY <1>1 DEF BuildPlans
<1>2. CASE SendPacket
  <2>1. call.wake /\ packets = 0 /\ call.command # "map"
    BY <1>2 DEF SendPacket, Accepted
  <2>2. CASE packets' = 1 /\ UNCHANGED <<Values, process>>
    BY <1>2, <2>1, <2>2 DEF SendPacket
  <2>3. CASE Exit("internal")
    BY <1>2, <2>1, <2>3 DEF SendPacket
  <2> QED BY <1>2, <2>1, <2>2, <2>3 DEF SendPacket
<1>3. CASE Wait
  BY <1>3 DEF Wait
<1>4. CASE StartProcess
  BY <1>4 DEF StartProcess
<1>5. CASE ProcessEnds
  BY <1>5 DEF ProcessEnds
<1> QED BY <1>1, <1>2, <1>3, <1>4, <1>5

LEMMA StepCall == ASSUME CallInv, [CommandNext]_callVars PROVE CallInv'
<1>1. CASE CommandStep
  BY <1>1, GatheringStep, EffectStep DEF CommandStep
<1>2. CASE Expire \/ Interrupt \/ UNCHANGED callVars
  BY <1>2
  DEF Expire, Interrupt, callVars, CallInv, CallTypes, Preparing, Planned, Values, Effects,
      MayPlan, Consented, DirectEffectsConsented
<1> QED BY <1>1, <1>2 DEF CommandNext

\* A packet is sent and a browser started only live, acknowledged, confirmed by
\* this invocation's flag or by the configuration of the very route whose contract
\* was in force, and at most one packet, whatever the file holds when it is read
\* (runRemoteKVM, runRemoteWake).
THEOREM DirectEffectsAreConsented == CommandSpec => []DirectEffectsConsented
<1>1. CommandInit => CallInv
  BY DEF CommandInit, CallInv, CallTypes, Preparing, Planned, Codes, DirectEffectsConsented
<1>2. CallInv /\ [CommandNext]_callVars => CallInv'
  BY StepCall
<1>3. CallInv => DirectEffectsConsented
  BY DEF CallInv
<1> QED BY <1>1, <1>2, <1>3, PTL DEF CommandSpec

-----------------------------------------------------------------------------
(* The browser plan. A launcher carries no file identity but one that a    *)
(* discovery bound, and a validated plan keeps the vector that its builder *)
(* approved, whatever callers write into the exported fields around them.  *)

Infos == FileIds \cup {NoFileId}

Launchers == [name : LauncherNames, binary : Executables, open : BOOLEAN,
              discovered : BOOLEAN, info : Infos, binding : LauncherBindings]

Plans == [launcher : Launchers, args : Vectors, validated : BOOLEAN,
          binding : LauncherBindings, argsBinding : Vectors, allowHTTP : BOOLEAN]

KvmTypes ==
  /\ names \in [Executables -> Infos]
  /\ launcher \in Launchers
  /\ browserPlan \in Plans

\* A launcher's identity was read by a discovery of its bound path.
BoundByDiscovery(l) == l.info # NoFileId => <<l.binding.binary, l.info>> \in bound

KvmInv ==
  /\ KvmTypes
  /\ BoundByDiscovery(launcher) /\ BoundByDiscovery(browserPlan.launcher)
  /\ browserPlan.validated => browserPlan.argsBinding \in consented
  /\ BrowserWasBoundAndApproved

\* The exported fields of a launcher, taken on their own.
LEMMA PlainLauncher ==
  ASSUME NEW e \in LauncherBindings
  PROVE  Plain(e) \in Launchers /\ Plain(e).info = NoFileId
BY DEF Plain, Launchers, Infos, LauncherBindings

LEMMA ExportedLauncher == ASSUME NEW l \in Launchers PROVE Exported(l) \in LauncherBindings
BY DEF Exported, Launchers, LauncherBindings

\* A plan written by hand or decoded is never a validated one.
LEMMA UnvalidatedPlan ==
  ASSUME NEW l \in Launchers, NEW vector \in Vectors
  PROVE  /\ PlainPlan(l, vector) \in Plans
         /\ PlainPlan(l, vector).launcher = l /\ ~PlainPlan(l, vector).validated
<1>1. Exported(l) \in LauncherBindings
  BY ExportedLauncher
<1> QED BY <1>1 DEF PlainPlan, Plans

LEMMA InitKvm == ASSUME KvmInit PROVE KvmInv
<1>1. PICK binary \in Executables :
        LET plain == Plain([name |-> "opener", binary |-> binary, open |-> FALSE])
            vector == [open |-> FALSE, endpoint |-> "https"]
        IN  /\ launcher = plain
            /\ browserPlan = PlainPlan(plain, vector)
            /\ browser = [file |-> NoFileId, binary |-> binary, args |-> vector]
  BY DEF KvmInit
<1> DEFINE e == [name |-> "opener", binary |-> binary, open |-> FALSE]
           vector == [open |-> FALSE, endpoint |-> "https"]
<1>2. e \in LauncherBindings /\ vector \in Vectors
  BY DEF LauncherBindings, LauncherNames, Vectors, Endpoints
<1> HIDE DEF e, vector
<1>3. launcher \in Launchers /\ launcher.info = NoFileId /\ launcher = Plain(e)
  BY <1>1, <1>2, PlainLauncher DEF e
<1>4. /\ browserPlan \in Plans /\ browserPlan.launcher = launcher /\ ~browserPlan.validated
      /\ browser.file = NoFileId
  BY <1>1, <1>2, <1>3, UnvalidatedPlan DEF e, vector
<1>5. names \in [Executables -> Infos]
  BY DEF KvmInit, Infos
<1> QED
  BY <1>3, <1>4, <1>5 DEF KvmInv, KvmTypes, BoundByDiscovery, BrowserWasBoundAndApproved

LEMMA StepKvm == ASSUME KvmInv, [KvmNext]_kvmVars PROVE KvmInv'
<1> USE DEF KvmInv
<1>0. /\ launcher \in Launchers /\ browserPlan \in Plans /\ browserPlan.launcher \in Launchers
      /\ browserPlan.args \in Vectors /\ names \in [Executables -> Infos]
  BY DEF KvmTypes, Plans
<1>1. CASE Discover
  <2>1. PICK n \in LauncherNames \ {"other"}, binary \in Executables, seen \in BOOLEAN :
          LET chosen == [name |-> n, binary |-> binary, open |-> n = "gio"]
              info == IF seen THEN names[binary] ELSE NoFileId
          IN  /\ launcher' = [Plain(chosen) EXCEPT !.discovered = TRUE, !.info = info]
              /\ bound' = IF info = NoFileId THEN bound ELSE bound \cup {<<binary, info>>}
    BY <1>1 DEF Discover
  <2> DEFINE chosen == [name |-> n, binary |-> binary, open |-> n = "gio"]
             info == IF seen THEN names[binary] ELSE NoFileId
  <2>2. chosen \in LauncherBindings /\ info \in Infos /\ chosen.binary = binary
    BY <1>0 DEF LauncherBindings, Infos
  <2>3. /\ launcher' = [Plain(chosen) EXCEPT !.discovered = TRUE, !.info = info]
        /\ bound' = IF info = NoFileId THEN bound ELSE bound \cup {<<binary, info>>}
    BY <2>1
  <2> HIDE DEF chosen, info
  <2>4. launcher' \in Launchers /\ launcher'.info = info /\ launcher'.binding = chosen
    BY <2>2, <2>3 DEF Plain, Launchers, LauncherBindings
  <2>5. bound \subseteq bound' /\ (info # NoFileId => <<binary, info>> \in bound')
    BY <2>3
  <2> QED
    BY <1>0, <1>1, <2>2, <2>4, <2>5
    DEF Discover, KvmTypes, BoundByDiscovery, BrowserWasBoundAndApproved
<1>2. CASE Build
  <2>1. PICK request \in Requests : BuildPlan(launcher, request)
    BY <1>2 DEF Build, BuildDiscoveredPlan
  <2> DEFINE vector == [open |-> launcher.open, endpoint |-> request.endpoint]
  <2>2. vector \in Vectors /\ request.allowHTTP \in BOOLEAN
    BY <1>0 DEF Requests, Vectors, Launchers
  <2>3. /\ browserPlan' = [launcher |-> launcher, args |-> vector, validated |-> TRUE,
                           binding |-> Exported(launcher), argsBinding |-> vector,
                           allowHTTP |-> request.allowHTTP]
        /\ consented' = consented \cup {vector}
    BY <2>1 DEF BuildPlan
  <2> HIDE DEF vector
  <2>4. Exported(launcher) \in LauncherBindings
    BY <1>0, ExportedLauncher
  <2>5. /\ browserPlan' \in Plans /\ browserPlan'.launcher = launcher
        /\ browserPlan'.argsBinding \in consented' /\ consented \subseteq consented'
    BY <1>0, <2>2, <2>3, <2>4 DEF Plans
  <2> QED
    BY <1>0, <1>2, <2>5 DEF Build, KvmTypes, BoundByDiscovery, BrowserWasBoundAndApproved
<1>3. CASE ChangeLauncher
  <2>1. launcher' \in Launchers /\ BoundByDiscovery(launcher)'
    <3>1. bound' = bound
      BY <1>3 DEF ChangeLauncher
    <3>2. CASE \/ \E n \in LauncherNames : launcher' = [launcher EXCEPT !.name = n]
               \/ \E binary \in Executables : launcher' = [launcher EXCEPT !.binary = binary]
               \/ \E open \in BOOLEAN : launcher' = [launcher EXCEPT !.open = open]
      <4>1. /\ launcher' \in Launchers /\ launcher'.info = launcher.info
            /\ launcher'.binding = launcher.binding
        BY <1>0, <3>2 DEF Launchers
      <4> QED BY <3>1, <4>1 DEF BoundByDiscovery
    <3>3. CASE launcher' = Plain(Exported(launcher))
      <4>1. launcher' \in Launchers /\ launcher'.info = NoFileId
        BY <1>0, <3>3, ExportedLauncher, PlainLauncher
      <4> QED BY <4>1 DEF BoundByDiscovery
    <3>4. CASE launcher' = browserPlan.launcher
      BY <1>0, <3>1, <3>4 DEF BoundByDiscovery
    <3> QED BY <1>3, <3>2, <3>3, <3>4 DEF ChangeLauncher
  <2> QED
    BY <1>0, <1>3, <2>1 DEF ChangeLauncher, KvmTypes, BoundByDiscovery, BrowserWasBoundAndApproved
<1>4. CASE ChangePlan
  <2>1. CASE browserPlan' = [browserPlan EXCEPT !.launcher = launcher]
    <3>1. /\ browserPlan' \in Plans /\ browserPlan'.launcher = launcher
          /\ browserPlan'.validated = browserPlan.validated
          /\ browserPlan'.argsBinding = browserPlan.argsBinding
      BY <1>0, <2>1 DEF Plans
    <3> QED
      BY <1>0, <1>4, <3>1 DEF ChangePlan, KvmTypes, BoundByDiscovery, BrowserWasBoundAndApproved
  <2>2. CASE \E vector \in Vectors : browserPlan' = [browserPlan EXCEPT !.args = vector]
    <3>1. /\ browserPlan' \in Plans /\ browserPlan'.launcher = browserPlan.launcher
          /\ browserPlan'.validated = browserPlan.validated
          /\ browserPlan'.argsBinding = browserPlan.argsBinding
      BY <1>0, <2>2 DEF Plans
    <3> QED
      BY <1>0, <1>4, <3>1 DEF ChangePlan, KvmTypes, BoundByDiscovery, BrowserWasBoundAndApproved
  <2>3. CASE browserPlan' = PlainPlan(Plain(Exported(browserPlan.launcher)), browserPlan.args)
    <3> DEFINE l == Plain(Exported(browserPlan.launcher))
    <3>1. l \in Launchers /\ l.info = NoFileId
      BY <1>0, ExportedLauncher, PlainLauncher
    <3> HIDE DEF l
    <3>2. browserPlan' \in Plans /\ browserPlan'.launcher = l /\ ~browserPlan'.validated
      BY <1>0, <2>3, <3>1, UnvalidatedPlan DEF l
    <3> QED
      BY <1>0, <1>4, <3>1, <3>2
      DEF ChangePlan, KvmTypes, BoundByDiscovery, BrowserWasBoundAndApproved
  <2> QED BY <1>4, <2>1, <2>2, <2>3 DEF ChangePlan
<1>5. CASE ReplaceExecutable
  <2>1. names' \in [Executables -> Infos]
    BY <1>0, <1>5 DEF ReplaceExecutable, Infos
  <2> QED
    BY <1>0, <1>5, <2>1
    DEF ReplaceExecutable, KvmTypes, BoundByDiscovery, BrowserWasBoundAndApproved
<1>6. CASE Execute
  <2>1. /\ browserPlan.validated /\ browserPlan.argsBinding = browserPlan.args
        /\ browserPlan.launcher.info # NoFileId
        /\ names[browserPlan.launcher.binary] = browserPlan.launcher.info
    BY <1>6 DEF Execute, ArgumentsMatch, SameFile
  <2>2. /\ <<browserPlan.launcher.binding.binary, browserPlan.launcher.info>> \in bound
        /\ browserPlan.launcher.binding.binary \in Executables
    BY <1>0, <2>1 DEF BoundByDiscovery, Launchers, LauncherBindings
  <2>3. /\ browser'.file = browserPlan.launcher.info /\ browser'.args = browserPlan.args
        /\ browserPlan.args \in consented
    BY <1>6, <2>1 DEF Execute
  <2>4. BrowserWasBoundAndApproved'
    BY <1>6, <2>2, <2>3 DEF Execute, BrowserWasBoundAndApproved
  <2> QED BY <1>0, <1>6, <2>4 DEF Execute, KvmTypes, BoundByDiscovery
<1>7. CASE UNCHANGED kvmVars
  BY <1>0, <1>7 DEF kvmVars, KvmTypes, BoundByDiscovery, BrowserWasBoundAndApproved
<1> QED BY <1>1, <1>2, <1>3, <1>4, <1>5, <1>6, <1>7 DEF KvmNext

\* A browser that Execute starts is a file that some discovery bound, with a vector
\* that a builder approved for a confirmed and accepted request, for any paths,
\* files and number of changes to the callers' values (kvm.Execute).
THEOREM BrowserIsBoundAndApproved == KvmSpec => []BrowserWasBoundAndApproved
<1>1. KvmInit => KvmInv
  BY InitKvm
<1>2. KvmInv /\ [KvmNext]_kvmVars => KvmInv'
  BY StepKvm
<1>3. KvmInv => BrowserWasBoundAndApproved
  BY DEF KvmInv
<1> QED BY <1>1, <1>2, <1>3, PTL DEF KvmSpec

-----------------------------------------------------------------------------
(* The recovery search. Every selection before the current one has been    *)
(* resolved and rejected, and the selections name every client that the    *)
(* automatic resolver knows, so that none is left out at the end.          *)

Chosen(i) == AutomaticClientSelections(goos)[i]

ResolutionOf(i) == DiscoverAutomaticClientForPlatform(path, goos, Chosen(i))

ScanTypes ==
  /\ goos \in Platforms /\ path \in PathStates
  /\ excluded \in Binaries \cup {NoBinary}
  /\ scan \in Nat \ {0}

ScanInv ==
  /\ ScanTypes
  /\ SearchSound
  /\ found = NoClient /\ unready = {} =>
       \A i \in 1..Len(AutomaticClientSelections(goos)) : i < scan =>
         \/ ResolutionOf(i) = NoClient
         \/ ~streamClientFlavorMatches(need, ResolutionOf(i).flavor)
         \/ ResolutionOf(i).binary = excluded

\* What the recovery search makes of a candidate of a selection: the flavor of the
\* platform's convention for a generic executable.
Refined(selection, flavor) ==
  IF selection = "moonlight" /\ ~genericMoonlightIsEmbedded(goos) THEN "qt" ELSE flavor

\* The selections, one by one.
LEMMA ScannedSelections ==
  ASSUME goos \in Platforms
  PROVE  /\ Len(AutomaticClientSelections(goos)) = (IF goos = "linux" THEN 4 ELSE 3)
         /\ Chosen(1) = "moonlight-qt" /\ Chosen(2) = "moonlight-embedded"
         /\ Chosen(3) = "moonlight"
         /\ goos = "linux" => Chosen(4) = "flatpak"
         /\ \A i \in 1..Len(AutomaticClientSelections(goos)) :
              Chosen(i) \in Names /\ (Chosen(i) = "flatpak" => goos = "linux")
<1>1. CASE goos = "linux"
  <2>1. /\ Len(AutomaticClientSelections(goos)) = 4
        /\ Chosen(1) = "moonlight-qt" /\ Chosen(2) = "moonlight-embedded"
        /\ Chosen(3) = "moonlight" /\ Chosen(4) = "flatpak"
    BY <1>1 DEF AutomaticClientSelections, flatpakSupportedForPlatform, Chosen
  <2>2. \A i \in 1..4 : i = 1 \/ i = 2 \/ i = 3 \/ i = 4
    OBVIOUS
  <2> QED BY <1>1, <2>1, <2>2 DEF Names
<1>2. CASE goos # "linux"
  <2>1. /\ Len(AutomaticClientSelections(goos)) = 3
        /\ Chosen(1) = "moonlight-qt" /\ Chosen(2) = "moonlight-embedded"
        /\ Chosen(3) = "moonlight"
    BY <1>2 DEF AutomaticClientSelections, flatpakSupportedForPlatform, Chosen
  <2>2. \A i \in 1..3 : i = 1 \/ i = 2 \/ i = 3
    OBVIOUS
  <2> QED BY <1>2, <2>1, <2>2 DEF Names
<1> QED BY <1>1, <1>2

\* The lookups of the automatic resolver, and those of every other selection.
LEMMA AutomaticLookups ==
  /\ Candidate(1, "moonlight-qt", "qt") \in LookupCandidates(goos, "auto")
  /\ Candidate(2, "moonlight-embedded", "embedded") \in LookupCandidates(goos, "auto")
  /\ Candidate(3, "moonlight", defaultMoonlightFlavorFor(goos)) \in LookupCandidates(goos, "auto")
  /\ goos = "linux" => Candidate(4, "flatpak", "flatpak") \in LookupCandidates(goos, "auto")
  /\ \A d \in LookupCandidates(goos, "auto") :
       \/ d = Candidate(1, "moonlight-qt", "qt")
       \/ d = Candidate(2, "moonlight-embedded", "embedded")
       \/ d = Candidate(3, "moonlight", defaultMoonlightFlavorFor(goos))
       \/ d = Candidate(4, "flatpak", "flatpak") /\ goos = "linux"
<1>1. LookupCandidates(goos, "auto") =
        {Candidate(1, "moonlight-qt", "qt"), Candidate(2, "moonlight-embedded", "embedded"),
         Candidate(3, "moonlight", defaultMoonlightFlavorFor(goos))}
        \cup (IF goos = "linux" THEN {Candidate(4, "flatpak", "flatpak")} ELSE {})
  BY Zenon DEF LookupCandidates, flatpakSupportedForPlatform
<1> QED BY <1>1

LEMMA SelectionLookups ==
  /\ \A c : c \in LookupCandidates(goos, "moonlight-qt") <=>
       \/ c = Candidate(1, "moonlight-qt", "qt")
       \/ c = Candidate(2, "moonlight", "qt") /\ ~genericMoonlightIsEmbedded(goos)
  /\ \A c : c \in LookupCandidates(goos, "moonlight-embedded") <=>
       \/ c = Candidate(1, "moonlight-embedded", "embedded")
       \/ c = Candidate(2, "moonlight", "embedded") /\ genericMoonlightIsEmbedded(goos)
  /\ \A c : c \in LookupCandidates(goos, "moonlight") <=>
       c = Candidate(1, "moonlight", "embedded")
  /\ \A c : c \in LookupCandidates(goos, "flatpak") <=>
       c = Candidate(1, "flatpak", "flatpak") /\ goos = "linux"
<1>1. LookupCandidates(goos, "moonlight-qt") =
        {Candidate(1, "moonlight-qt", "qt")}
        \cup (IF genericMoonlightIsEmbedded(goos)
              THEN {} ELSE {Candidate(2, "moonlight", "qt")})
  BY Zenon DEF LookupCandidates
<1>2. LookupCandidates(goos, "moonlight-embedded") =
        {Candidate(1, "moonlight-embedded", "embedded")}
        \cup (IF genericMoonlightIsEmbedded(goos)
              THEN {Candidate(2, "moonlight", "embedded")} ELSE {})
  BY Zenon DEF LookupCandidates
<1>3. LookupCandidates(goos, "moonlight") = {Candidate(1, "moonlight", "embedded")}
  BY Zenon DEF LookupCandidates
<1>4. LookupCandidates(goos, "flatpak") =
        IF goos = "linux" THEN {Candidate(1, "flatpak", "flatpak")} ELSE {}
  BY Zenon DEF LookupCandidates, flatpakSupportedForPlatform
<1> QED BY <1>1, <1>2, <1>3, <1>4

\* Every lookup of a selection is one of the automatic resolver's, which gives the
\* executable the flavor that recovery gives it.
LEMMA LookupsAreAutomatic ==
  ASSUME goos \in Platforms, NEW selection \in Names,
         selection = "flatpak" => goos = "linux",
         NEW c \in LookupCandidates(goos, selection)
  PROVE  /\ c.rank \in 1..4
         /\ \E d \in LookupCandidates(goos, "auto") :
              d.name = c.name /\ d.flavor = Refined(selection, c.flavor)
<1>1. CASE selection = "moonlight-qt"
  BY <1>1, SelectionLookups, AutomaticLookups
  DEF Candidate, Refined, defaultMoonlightFlavorFor
<1>2. CASE selection = "moonlight-embedded"
  BY <1>2, SelectionLookups, AutomaticLookups
  DEF Candidate, Refined, defaultMoonlightFlavorFor
<1>3. CASE selection = "moonlight"
  BY <1>3, SelectionLookups, AutomaticLookups
  DEF Candidate, Refined, defaultMoonlightFlavorFor
<1>4. CASE selection = "flatpak"
  BY <1>4, SelectionLookups, AutomaticLookups
  DEF Candidate, Refined, defaultMoonlightFlavorFor
<1> QED BY <1>1, <1>2, <1>3, <1>4 DEF Names

\* A name of the automatic resolver is the first lookup of its own selection.
LEMMA OwnLookupIsFirst ==
  ASSUME goos \in Platforms, NEW d \in LookupCandidates(goos, "auto")
  PROVE  /\ \E i \in 1..Len(AutomaticClientSelections(goos)) : Chosen(i) = d.name
         /\ \E c \in LookupCandidates(goos, d.name) :
              /\ c.name = d.name /\ Refined(d.name, c.flavor) = d.flavor
              /\ \A other \in LookupCandidates(goos, d.name) : other # c => c.rank < other.rank
              /\ c.rank \in Nat
<1> DEFINE Length == Len(AutomaticClientSelections(goos))
<1>1. Length \in Nat /\ Length >= 3 /\ (goos = "linux" => Length = 4)
  <2>1. Length = IF goos = "linux" THEN 4 ELSE 3
    BY ScannedSelections
  <2> HIDE DEF Length
  <2> QED BY <2>1
<1> HIDE DEF Length
<1>2. CASE d = Candidate(1, "moonlight-qt", "qt")
  <2>1. 1 \in 1..Length /\ Chosen(1) = d.name /\ d.name = "moonlight-qt"
    BY <1>1, <1>2, ScannedSelections DEF Candidate
  <2> DEFINE c == Candidate(1, "moonlight-qt", "qt")
  <2>2. c \in LookupCandidates(goos, d.name)
    BY <1>2, <2>1, SelectionLookups
  <2>3. c.name = d.name /\ Refined(d.name, c.flavor) = d.flavor /\ c.rank \in Nat
    BY <1>2, <2>1 DEF Candidate, Refined
  <2>4. \A other \in LookupCandidates(goos, d.name) : other # c => c.rank < other.rank
    BY <2>1, SelectionLookups DEF Candidate
  <2> HIDE DEF c
  <2> QED BY <2>1, <2>2, <2>3, <2>4 DEF Length
<1>3. CASE d = Candidate(2, "moonlight-embedded", "embedded")
  <2>1. 2 \in 1..Length /\ Chosen(2) = d.name /\ d.name = "moonlight-embedded"
    BY <1>1, <1>3, ScannedSelections DEF Candidate
  <2> DEFINE c == Candidate(1, "moonlight-embedded", "embedded")
  <2>2. c \in LookupCandidates(goos, d.name)
    BY <1>3, <2>1, SelectionLookups
  <2>3. c.name = d.name /\ Refined(d.name, c.flavor) = d.flavor /\ c.rank \in Nat
    BY <1>3, <2>1 DEF Candidate, Refined
  <2>4. \A other \in LookupCandidates(goos, d.name) : other # c => c.rank < other.rank
    BY <2>1, SelectionLookups DEF Candidate
  <2> HIDE DEF c
  <2> QED BY <2>1, <2>2, <2>3, <2>4 DEF Length
<1>4. CASE d = Candidate(3, "moonlight", defaultMoonlightFlavorFor(goos))
  <2>1. 3 \in 1..Length /\ Chosen(3) = d.name /\ d.name = "moonlight"
    BY <1>1, <1>4, ScannedSelections DEF Candidate
  <2> DEFINE c == Candidate(1, "moonlight", "embedded")
  <2>2. c \in LookupCandidates(goos, d.name)
    BY <1>4, <2>1, SelectionLookups
  <2>3. c.name = d.name /\ Refined(d.name, c.flavor) = d.flavor /\ c.rank \in Nat
    BY <1>4, <2>1 DEF Candidate, Refined, defaultMoonlightFlavorFor
  <2>4. \A other \in LookupCandidates(goos, d.name) : other # c => c.rank < other.rank
    BY <2>1, SelectionLookups DEF Candidate
  <2> HIDE DEF c
  <2> QED BY <2>1, <2>2, <2>3, <2>4 DEF Length
<1>5. CASE d = Candidate(4, "flatpak", "flatpak") /\ goos = "linux"
  <2>1. 4 \in 1..Length /\ Chosen(4) = d.name /\ d.name = "flatpak"
    BY <1>1, <1>5, ScannedSelections DEF Candidate
  <2> DEFINE c == Candidate(1, "flatpak", "flatpak")
  <2>2. c \in LookupCandidates(goos, d.name)
    BY <1>5, <2>1, SelectionLookups
  <2>3. c.name = d.name /\ Refined(d.name, c.flavor) = d.flavor /\ c.rank \in Nat
    BY <1>5, <2>1 DEF Candidate, Refined
  <2>4. \A other \in LookupCandidates(goos, d.name) : other # c => c.rank < other.rank
    BY <2>1, SelectionLookups DEF Candidate
  <2> HIDE DEF c
  <2> QED BY <2>1, <2>2, <2>3, <2>4 DEF Length
<1> QED BY <1>2, <1>3, <1>4, <1>5, AutomaticLookups

\* A set of candidates that is not empty has a first one.
LEMMA FirstLookup ==
  ASSUME NEW hits, hits # {}, \A c \in hits : c.rank \in 1..4
  PROVE  \E c \in hits : \A d \in hits : c.rank <= d.rank
<1>1. CASE \E c \in hits : c.rank = 1
  BY <1>1
<1>2. CASE (\A c \in hits : c.rank # 1) /\ (\E c \in hits : c.rank = 2)
  BY <1>2
<1>3. CASE (\A c \in hits : c.rank \notin {1, 2}) /\ (\E c \in hits : c.rank = 3)
  BY <1>3
<1>4. CASE \A c \in hits : c.rank \notin {1, 2, 3}
  BY <1>4
<1> QED BY <1>1, <1>2, <1>3, <1>4

\* The failed lookup is no installed client.
LEMMA InstalledIsClient ==
  ASSUME path \in PathStates, goos \in Platforms, NEW c \in Installed
  PROVE  c # NoClient /\ c.binary # NoBinary
BY DEF Installed, NoClient

\* A selection resolves to nothing or to an installed client.
LEMMA ResolvesToInstalled ==
  ASSUME ScanTypes, NEW i \in 1..Len(AutomaticClientSelections(goos))
  PROVE  ResolutionOf(i) = NoClient \/ ResolutionOf(i) \in Installed
<1> DEFINE selection == Chosen(i)
           hits == {c \in LookupCandidates(goos, selection) : path[c.name] # NoBinary}
           first == CHOOSE c \in hits : \A d \in hits : c.rank <= d.rank
           plain == discoverForPlatform(path, goos, selection)
<1>1. /\ goos \in Platforms /\ selection \in Names
      /\ selection = "flatpak" => goos = "linux"
  BY ScannedSelections DEF ScanTypes
<1>2. CASE hits = {}
  BY <1>2 DEF discoverForPlatform, DiscoverAutomaticClientForPlatform, ResolutionOf
<1>3. CASE hits # {}
  <2>1. \A c \in hits : c.rank \in 1..4
    BY <1>1, LookupsAreAutomatic
  <2>2. first \in hits
    BY <1>3, <2>1, FirstLookup
  <2>3. plain = [flavor |-> first.flavor, binary |-> path[first.name]]
    BY <1>3 DEF discoverForPlatform
  <2>4. path[first.name] # NoBinary /\ first \in LookupCandidates(goos, selection)
    BY <2>2
  <2> HIDE DEF first, hits, selection
  <2>5. plain # NoClient
    BY <2>3, <2>4 DEF NoClient
  <2>6. ResolutionOf(i) =
          [flavor |-> Refined(selection, first.flavor), binary |-> path[first.name]]
    BY <2>3, <2>5
    DEF ResolutionOf, DiscoverAutomaticClientForPlatform, Refined, selection
  <2>7. PICK d \in LookupCandidates(goos, "auto") :
          d.name = first.name /\ d.flavor = Refined(selection, first.flavor)
    BY <1>1, <2>4, LookupsAreAutomatic
  <2> QED BY <2>4, <2>6, <2>7 DEF Installed
<1> QED BY <1>2, <1>3

\* The selection of an installed client's own name resolves to this client.
LEMMA InstalledIsResolved ==
  ASSUME ScanTypes, NEW c \in Installed
  PROVE  \E i \in 1..Len(AutomaticClientSelections(goos)) : ResolutionOf(i) = c
<1>1. PICK d \in LookupCandidates(goos, "auto") :
        path[d.name] # NoBinary /\ c = [flavor |-> d.flavor, binary |-> path[d.name]]
  BY DEF Installed
<1>2. PICK i \in 1..Len(AutomaticClientSelections(goos)) : Chosen(i) = d.name
  BY OwnLookupIsFirst DEF ScanTypes
<1>3. PICK own \in LookupCandidates(goos, d.name) :
        /\ own.name = d.name /\ Refined(d.name, own.flavor) = d.flavor
        /\ \A other \in LookupCandidates(goos, d.name) : other # own => own.rank < other.rank
        /\ own.rank \in Nat
  BY OwnLookupIsFirst DEF ScanTypes
<1>4. \A other \in LookupCandidates(goos, d.name) : other.rank \in 1..4
  BY <1>2, ScannedSelections, LookupsAreAutomatic DEF ScanTypes
<1> DEFINE hits == {e \in LookupCandidates(goos, d.name) : path[e.name] # NoBinary}
           first == CHOOSE e \in hits : \A o \in hits : e.rank <= o.rank
<1>5. own \in hits
  BY <1>1, <1>3
<1>6. first \in hits /\ \A o \in hits : first.rank <= o.rank
  BY <1>4, <1>5, FirstLookup
<1>7. first = own
  <2>1. first.rank <= own.rank /\ first \in LookupCandidates(goos, d.name)
    BY <1>5, <1>6
  <2>2. first # own => own.rank < first.rank
    BY <1>3, <2>1
  <2>3. first.rank \in Nat
    BY <1>4, <2>1
  <2> HIDE DEF first
  <2> QED BY <1>3, <2>1, <2>2, <2>3
<1>8. discoverForPlatform(path, goos, d.name) = [flavor |-> own.flavor, binary |-> path[d.name]]
  BY <1>3, <1>5, <1>7 DEF discoverForPlatform
<1>9. [flavor |-> own.flavor, binary |-> path[d.name]] # NoClient
  BY <1>1 DEF NoClient
<1>10. ResolutionOf(i) = [flavor |-> Refined(d.name, own.flavor), binary |-> path[d.name]]
  BY <1>2, <1>8, <1>9 DEF ResolutionOf, DiscoverAutomaticClientForPlatform, Refined
<1> QED BY <1>1, <1>3, <1>10

LEMMA StepScan == ASSUME ScanInv, [ScanNext]_scanVars PROVE ScanInv'
<1> DEFINE Length == Len(AutomaticClientSelections(goos))
<1>1. CASE UNCHANGED scanVars
  BY <1>1
  DEF scanVars, ScanInv, ScanTypes, SearchSound, Installed, ResolutionOf, Chosen
<1>2. SUFFICES ASSUME Searching, UNCHANGED <<goos, path, need, excluded, unready>>,
                      IF Rejected(Resolution)
                      THEN scan' = scan + 1 /\ UNCHANGED found
                      ELSE found' = Resolution /\ UNCHANGED scan
               PROVE  ScanInv'
  BY <1>1 DEF ScanNext
<1>3. ScanTypes' /\ ScanTypes /\ scan \in Nat \ {0} /\ goos \in Platforms
  BY <1>2 DEF ScanInv, ScanTypes
<1>4. Length \in Nat /\ scan \in 1..Length
  BY <1>2, <1>3, ScannedSelections DEF Searching
<1>5. Resolution = ResolutionOf(scan)
  BY DEF Resolution, Selection, ResolutionOf, Chosen
<1>6. CASE Rejected(Resolution)
  <2>1. SearchSound'
    BY <1>2, <1>6 DEF ScanInv, SearchSound, Installed
  <2>2. ASSUME found = NoClient, unready = {}, NEW i \in 1..Length, i < scan + 1
        PROVE  \/ ResolutionOf(i) = NoClient
               \/ ~streamClientFlavorMatches(need, ResolutionOf(i).flavor)
               \/ ResolutionOf(i).binary = excluded
    <3>1. i = scan \/ i < scan
      BY <1>3, <2>2
    <3>2. CASE i = scan
      BY <1>5, <1>6, <2>2, <3>2 DEF Rejected
    <3> QED BY <2>2, <3>1, <3>2 DEF ScanInv
  <2> QED BY <1>2, <1>3, <1>6, <2>1, <2>2 DEF ScanInv, ResolutionOf, Chosen
<1>7. CASE ~Rejected(Resolution)
  <2>1. /\ Resolution \in Installed /\ Resolution # NoClient
        /\ streamClientFlavorMatches(need, Resolution.flavor)
        /\ excluded = NoBinary \/ Resolution.binary # excluded
    BY <1>3, <1>4, <1>5, <1>7, ResolvesToInstalled DEF Rejected
  <2>2. Resolution.binary # excluded
    BY <1>3, <2>1, InstalledIsClient DEF ScanTypes
  <2>3. found' = Resolution /\ Installed' = Installed
    BY <1>2, <1>7 DEF Installed
  <2> HIDE DEF Resolution
  <2>4. SearchSound'
    BY <1>2, <2>1, <2>2, <2>3 DEF SearchSound
  <2>5. found' # NoClient
    BY <2>1, <2>3
  <2> QED BY <1>3, <2>4, <2>5 DEF ScanInv
<1> QED BY <1>6, <1>7

\* A search that has ended without a client has resolved every selection.
LEMMA SearchIsComplete == ASSUME ScanInv PROVE SearchComplete
<1>1. SUFFICES ASSUME ~Searching, found = NoClient, unready = {}, NEW c \in Installed
               PROVE  ~streamClientFlavorMatches(need, c.flavor) \/ c.binary = excluded
  BY DEF SearchComplete
<1>2. ScanTypes /\ goos \in Platforms /\ path \in PathStates
  BY DEF ScanInv, ScanTypes
<1>3. PICK i \in 1..Len(AutomaticClientSelections(goos)) : ResolutionOf(i) = c
  BY <1>2, InstalledIsResolved
<1>4. i < scan
  BY <1>1, <1>2, ScannedSelections DEF Searching, ScanTypes
<1>5. c # NoClient
  BY <1>2, InstalledIsClient
<1> QED BY <1>1, <1>3, <1>4, <1>5 DEF ScanInv

\* A recovery search returns a client that is installed and was not excluded, and
\* gives up only when it has seen every installed client, on every platform, for
\* any executables on PATH (discoverAutomaticStreamClientForFlavorExcluding).
THEOREM RecoverySearchIsExact == ScanSpec => []SearchIsExact
<1>1. ScanInit => ScanInv
  BY DEF ScanInit, ScanInv, ScanTypes, SearchSound
<1>2. ScanInv /\ [ScanNext]_scanVars => ScanInv'
  BY StepScan
<1>3. ScanInv => SearchIsExact
  BY SearchIsComplete DEF ScanInv, SearchIsExact
<1> QED BY <1>1, <1>2, <1>3, PTL DEF ScanSpec
=============================================================================
