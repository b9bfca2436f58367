---------------------------- MODULE ReleaseScript ----------------------------
(***************************************************************************)
(* release.sh: nine archives are built and checked in a staging directory, *)
(* which then replaces dist. A step may fail, a signal may end the script  *)
(* through its EXIT trap (cleanup), and it may be killed.                  *)
(***************************************************************************)
EXTENDS Naturals

CONSTANTS
  MaxFailures,  \* bound: moves that fail
  RestoreFails  \* whether the move back may be one of them

VARIABLES
  dist,      \* the published output: of an earlier release, or this one
  staging,   \* .dist-staging: its content
  backup,    \* .dist-backup: absent, or the directory with what was moved there
  at,        \* the step of the script, of cleanup, or how it ended
  failures,  \* moves that have failed
  former     \* history: dist when the script began

releaseVars == <<dist, staging, backup, at, failures, former>>

Steps == {"check", "build", "aside", "move", "publish", "discard"}
Cleaning == {"restore", "removeStaging", "removeBackup"}
EndedRelease == {"published", "failed", "killed"}

\* Everything that exits before the output is touched: the tools, the source
\* commit and its tree, the clean worktree, the snapshot and its checks.
CheckSource ==
  /\ at = "check"
  /\ \/ at' = "build" /\ staging' = "partial"
     \/ at' = "restore" /\ UNCHANGED staging
  /\ UNCHANGED <<dist, backup, failures, former>>

\* The archives, the checksums, releasecheck and the native stagings.
BuildAndVerify ==
  /\ at = "build"
  /\ \/ at' = "aside" /\ staging' = "complete"
     \/ at' = "restore" /\ UNCHANGED staging
  /\ UNCHANGED <<dist, backup, failures, former>>

\* An existing output is moved aside: first the private directory.
MakeBackup ==
  /\ at = "aside"
  /\ \/ dist # "absent" /\ backup' = "empty" /\ at' = "move"
     \/ dist = "absent" /\ at' = "publish" /\ UNCHANGED backup
     \/ at' = "restore" /\ UNCHANGED backup
  /\ UNCHANGED <<dist, staging, failures, former>>

MayFail == failures < MaxFailures /\ failures' = failures + 1

MoveAside ==
  /\ at = "move"
  /\ \/ backup' = dist /\ dist' = "absent" /\ at' = "publish" /\ UNCHANGED failures
     \/ MayFail /\ at' = "restore" /\ UNCHANGED <<dist, backup>>
  /\ UNCHANGED <<staging, former>>

PublishOutput ==
  /\ at = "publish"
  /\ \/ dist' = staging /\ staging' = "absent" /\ at' = "discard" /\ UNCHANGED failures
     \/ MayFail /\ at' = "restore" /\ UNCHANGED <<dist, staging>>
  /\ UNCHANGED <<backup, former>>

\* The backup is removed, and the script ends; cleanup finds nothing to restore.
DiscardBackup ==
  /\ at = "discard"
  /\ backup' = "absent"
  /\ at' = "published"
  /\ UNCHANGED <<dist, staging, failures, former>>

\* A trapped signal at any step starts cleanup.
InterruptScript ==
  /\ at \in Steps
  /\ at' = "restore"
  /\ UNCHANGED <<dist, staging, backup, failures, former>>

KillScript ==
  /\ at \in Steps \cup Cleaning
  /\ at' = "killed"
  /\ UNCHANGED <<dist, staging, backup, failures, former>>

Restorable == backup \notin {"absent", "empty"} /\ dist = "absent"

\* Mutant: cleanup leaves the output aside.
CleanupRestore_Forgotten ==
  /\ at = "restore"
  /\ at' = "removeStaging"
  /\ UNCHANGED <<dist, backup, failures, staging, former>>

\* cleanup moves the old output back; that this fails is ignored.
CleanupRestore ==
  /\ at = "restore"
  /\ at' = "removeStaging"
  /\ \/ Restorable /\ dist' = backup /\ backup' = "empty" /\ UNCHANGED failures
     \/ Restorable /\ RestoreFails /\ MayFail /\ UNCHANGED <<dist, backup>>
     \/ ~Restorable /\ UNCHANGED <<dist, backup, failures>>
  /\ UNCHANGED <<staging, former>>

CleanupStaging ==
  /\ at = "removeStaging"
  /\ staging' = "absent"
  /\ at' = "removeBackup"
  /\ UNCHANGED <<dist, backup, failures, former>>

CleanupBackup ==
  /\ at = "removeBackup"
  /\ backup' = "absent"
  /\ at' = "failed"
  /\ UNCHANGED <<dist, staging, failures, former>>

ReleaseInit ==
  /\ dist \in {"absent", "old"}
  /\ staging = "absent"
  /\ backup = "absent"
  /\ at = "check"
  /\ failures = 0
  /\ former = dist

ReleaseNext ==
  \/ CheckSource \/ BuildAndVerify \/ MakeBackup \/ MoveAside \/ PublishOutput \/ DiscardBackup
  \/ InterruptScript \/ KillScript \/ CleanupRestore \/ CleanupStaging \/ CleanupBackup

ReleaseSpec == ReleaseInit /\ [][ReleaseNext]_releaseVars

-----------------------------------------------------------------------------
\* dist is never anything but a complete release or absent, and an output that
\* was there is not lost: it is in its place or, while the script moves things or
\* after a kill, in the backup, until the new one is in its place (cleanup). That
\* the move back succeeds is assumed (RestoreFails).
OutputNotLost ==
  /\ dist \in {"absent", "old", "complete"}
  /\ former = "old" => dist # "absent" \/ backup = "old"
  /\ at \in EndedRelease \ {"killed"} => dist \in {former, "complete"}

\* The comment on cleanup, "restore it before removing the private backup": a
\* script that fails does not leave the repository without the output it had.
RestoredBeforeBackupRemoved ==
  at = "failed" /\ former = "old" => dist # "absent"
=============================================================================
