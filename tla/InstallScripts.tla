---------------------------- MODULE InstallScripts ----------------------------
(***************************************************************************)
(* install.sh and uninstall.sh of a release archive, run one after the     *)
(* other over one destination. A run may be ended by a signal the script   *)
(* traps or by one that it cannot trap, at any step, and the operator may  *)
(* put other objects in the places of the installed files meanwhile.       *)
(*                                                                         *)
(* An installed path holds "release" (the bytes of the archive), "other"   *)
(* (any other regular file, an older release too), "partial" (bytes of an  *)
(* unfinished copy), a "link", a "directory", or nothing ("absent").       *)
(***************************************************************************)
EXTENDS Naturals, Sequences, SequencesExt

CONSTANTS
  MaxRuns,   \* bound: runs of the scripts
  MaxEdits   \* bound: changes by the operator

VARIABLES
  installed,   \* what each installed path is
  doc, helper, \* what the documentation and helper directories are
  temporary,   \* the temporary file of the last install.sh, beside the path it installs
  script,      \* the script that runs, and how the last one ended
  step,        \* where it is
  next,        \* the path it works on
  runsDone,    \* runs of the scripts so far
  edits,       \* changes so far
  touched,     \* history: the operator changed something during this run
  rescue       \* history: the uninstaller was there when uninstall.sh began

installVars == <<installed, doc, helper, temporary, script, step, next, runsDone, edits,
                 touched, rescue>>

InstallOrder ==
  <<"leaguebridge", "uninstall.sh", "client-smoke.sh", "remote-session.sh",
    "README.md", "LICENSE", "SBOM", "PACKAGE-MANIFEST">>

\* Mutant: the script removes itself before the rest.
UninstallOrder_SelfFirst ==
  <<"uninstall.sh", "leaguebridge", "README.md", "LICENSE", "SBOM", "PACKAGE-MANIFEST",
    "client-smoke.sh", "remote-session.sh">>

UninstallOrder ==
  <<"leaguebridge", "README.md", "LICENSE", "SBOM", "PACKAGE-MANIFEST",
    "client-smoke.sh", "remote-session.sh", "uninstall.sh">>

Paths == ToSet(InstallOrder)
Documents == {"README.md", "LICENSE", "SBOM", "PACKAGE-MANIFEST"}
Helpers == {"client-smoke.sh", "remote-session.sh", "uninstall.sh"}
Running == script \in {"install", "uninstall"}

Ends(how) ==
  /\ script' = how
  /\ step' = "ended"
  /\ next' = 1

\* install.sh exits through its trap: cleanup removes the temporary file of this
\* process.
Exits(how) == Ends(how) /\ temporary' = "absent"

World == <<doc, helper, edits, touched>>

-----------------------------------------------------------------------------
(* install.sh                                                              *)

StartInstall ==
  /\ ~Running
  /\ runsDone < MaxRuns
  /\ script' = "install" /\ step' = "directories" /\ next' = 1
  /\ runsDone' = runsDone + 1
  /\ touched' = FALSE
  /\ rescue' = FALSE
  /\ temporary' = "absent"
  /\ UNCHANGED <<installed, doc, helper, edits>>

\* ensure_directory_tree, for the three directories: one component at a time is
\* created or refused.
EnsureDirectories ==
  /\ script = "install" /\ step = "directories"
  /\ \/ /\ doc # "link" /\ helper # "link"
        /\ doc' = "directory" /\ helper' = "directory"
        /\ step' = "check"
        /\ UNCHANGED <<installed, temporary, script, next>>
     \/ Exits("failed") /\ UNCHANGED <<installed, doc, helper>>
  /\ UNCHANGED <<runsDone, edits, touched, rescue>>

Destination == InstallOrder[next]

Replaceable == installed[Destination] \notin {"link", "directory"}

\* The tests at the start of install_file, and new_temporary.
CheckDestination ==
  /\ script = "install" /\ step = "check"
  /\ \/ /\ Replaceable
        /\ temporary' = "partial"
        /\ step' = "copy"
        /\ UNCHANGED <<script, next>>
     \/ Exits("failed")
  /\ UNCHANGED <<World, installed, runsDone, rescue>>

\* cp and chmod on the temporary file.
CopySource ==
  /\ script = "install" /\ step = "copy"
  /\ \/ /\ temporary' = "release"
        /\ step' = "recheck"
        /\ UNCHANGED <<script, next>>
     \/ Exits("failed")
  /\ UNCHANGED <<World, installed, runsDone, rescue>>

RecheckDestination ==
  /\ script = "install" /\ step = "recheck"
  /\ \/ Replaceable /\ step' = "publish" /\ UNCHANGED <<temporary, script, next>>
     \/ Exits("failed")
  /\ UNCHANGED <<World, installed, runsDone, rescue>>

\* The next file, or the end of the script.
Advance(order, place, how) ==
  IF next = Len(order)
  THEN Ends(how)
  ELSE next' = next + 1 /\ step' = place /\ UNCHANGED script

\* mv -f replaces a file or a link, and moves into a directory that has appeared
\* since the recheck; the temporary name is given up.
PublishFile ==
  /\ script = "install" /\ step = "publish"
  /\ \/ /\ IF installed[Destination] = "directory"
           THEN UNCHANGED installed
           ELSE installed' = [installed EXCEPT ![Destination] = temporary]
        /\ temporary' = "absent"
        /\ Advance(InstallOrder, "check", "installed")
     \/ Exits("failed") /\ UNCHANGED installed
  /\ UNCHANGED <<World, runsDone, rescue>>

-----------------------------------------------------------------------------
(* uninstall.sh                                                            *)

StartUninstall ==
  /\ ~Running
  /\ runsDone < MaxRuns
  /\ script' = "uninstall" /\ step' = "directories" /\ next' = 1
  /\ runsDone' = runsDone + 1
  /\ touched' = FALSE
  /\ rescue' = (installed["uninstall.sh"] = "release")
  /\ UNCHANGED <<installed, doc, helper, temporary, edits>>

\* check_directory_tree: no component is a link; absent ones are no error.
CheckDirectories ==
  /\ script = "uninstall" /\ step = "directories"
  /\ \/ doc # "link" /\ helper # "link" /\ step' = "remove" /\ UNCHANGED <<script, next>>
     \/ Ends("failed")
  /\ UNCHANGED <<World, installed, temporary, runsDone, rescue>>

Removed == UninstallOrder[next]

\* Mutant: a failed rm is overlooked.
RemoveFile_IgnoresFailure ==
  /\ script = "uninstall" /\ step = "remove"
  /\ installed' = [installed EXCEPT ![Removed] = "absent"] \/ UNCHANGED installed
  /\ IF next = Len(UninstallOrder)
     THEN step' = "rmdir" /\ UNCHANGED next
     ELSE next' = next + 1 /\ UNCHANGED step
  /\ UNCHANGED <<World, script, temporary, runsDone, rescue>>

\* remove_file: a link is removed and not followed, a directory is refused.
RemoveFile ==
  /\ script = "uninstall" /\ step = "remove"
  /\ \/ /\ installed[Removed] # "directory"
        /\ installed' = [installed EXCEPT ![Removed] = "absent"]
        /\ IF next = Len(UninstallOrder)
           THEN step' = "rmdir" /\ UNCHANGED <<script, next>>
           ELSE next' = next + 1 /\ UNCHANGED <<script, step>>
     \/ Ends("failed") /\ UNCHANGED installed
  /\ UNCHANGED <<World, temporary, runsDone, rescue>>

\* rmdir of the two directories of LeagueBridge, which fails if they are not empty.
RemoveDirectories ==
  /\ script = "uninstall" /\ step = "rmdir"
  /\ doc' \in (IF \A p \in Documents : installed[p] = "absent" THEN {doc, "absent"} ELSE {doc})
  /\ helper' \in (IF \A p \in Helpers : installed[p] = "absent" THEN {helper, "absent"} ELSE {helper})
  /\ Ends("uninstalled")
  /\ UNCHANGED <<installed, temporary, runsDone, edits, touched, rescue>>

-----------------------------------------------------------------------------
(* Signals and the operator.                                               *)

\* HUP, INT, QUIT and TERM: install.sh exits through its trap, uninstall.sh,
\* which has none, ends at once.
Signal ==
  /\ \/ script = "install" /\ Exits("failed")
     \/ script = "uninstall" /\ Ends("failed") /\ UNCHANGED temporary
  /\ UNCHANGED <<World, installed, runsDone, rescue>>

\* KILL, a power failure: no trap runs. A copy may be unfinished.
Kill ==
  /\ Running
  /\ Ends("killed")
  /\ UNCHANGED <<World, installed, temporary, runsDone, rescue>>

Edit ==
  /\ edits < MaxEdits
  /\ \E p \in Paths, kind \in {"other", "link", "directory", "absent"} :
       /\ installed[p] # kind
       /\ installed' = [installed EXCEPT ![p] = kind]
  /\ edits' = edits + 1
  /\ touched' = TRUE
  /\ UNCHANGED <<doc, helper, temporary, script, step, next, runsDone, rescue>>

\* Whole directories are replaced only while no script runs.
Redirect ==
  /\ ~Running
  /\ edits < MaxEdits
  /\ doc' \in {"link", "directory"} /\ doc' # doc
  /\ edits' = edits + 1
  /\ UNCHANGED <<installed, helper, temporary, script, step, next, runsDone, touched, rescue>>

InstallInit ==
  /\ installed = [p \in Paths |-> "absent"]
  /\ doc = "absent" /\ helper = "absent"
  /\ temporary = "absent"
  /\ script = "never" /\ step = "ended" /\ next = 1
  /\ runsDone = 0
  /\ edits = 0
  /\ touched = FALSE
  /\ rescue = FALSE

InstallNext ==
  \/ StartInstall \/ EnsureDirectories \/ CheckDestination \/ CopySource
  \/ RecheckDestination \/ PublishFile
  \/ StartUninstall \/ CheckDirectories \/ RemoveFile \/ RemoveDirectories
  \/ Signal \/ Kill \/ Edit \/ Redirect

InstallSpec == InstallInit /\ [][InstallNext]_installVars

-----------------------------------------------------------------------------
\* An exit code of 0 is true, after any history of killed and failed runs: after
\* install.sh every path has the bytes of the archive, after uninstall.sh none
\* remains, unless the operator interfered with this run. Whoever ends, no path
\* ever has an unfinished file (install_file, remove_file).
ReportedDone ==
  /\ \A p \in Paths : installed[p] # "partial"
  /\ script = "installed" /\ ~touched => \A p \in Paths : installed[p] = "release"
  /\ script = "uninstalled" /\ ~touched => \A p \in Paths : installed[p] = "absent"

\* An interrupted or refused uninstall.sh can be run again: it leaves itself in
\* place until every other file is gone (the order of remove_file).
UninstallerRemains ==
  rescue /\ ~touched /\ (\E p \in Paths : installed[p] = "release")
    => installed["uninstall.sh"] = "release"
=============================================================================
