---------------------------- MODULE PackageStaging ----------------------------
(***************************************************************************)
(* Directories of package inputs and of host packages                      *)
(* (tools/nativepackagestage: release-set and candidate-host).  Both build *)
(* in a private directory, reserve the output by its exclusive creation,   *)
(* move the parts in, check them there, and only then add the file that    *)
(* declares the directory complete: the input plan, or the host marker.    *)
(* Renames, links and most reads go by name, so that another directory put *)
(* in its place gets them, until the reserved one is perhaps put back; an  *)
(* open handle shows one directory all the time.  Files, the live release  *)
(* and the local plan may change at any time.                              *)
(***************************************************************************)
EXTENDS Naturals

CONSTANT MaxChanges   \* bounds what others change

VARIABLES
  command,   \* "release-set" or "candidate-host"
  source,    \* the archive, or the staged input, of each cell
  live,      \* what the release publishes now, or the local plan says of it
  facts,     \* what the command knows of it
  temp,      \* the part of each cell in the private directory
  digest,    \* its digest, as recorded for the plan or for the recheck
  dir,       \* what the output name is: "absent", "own" or "other"
  returned,  \* history: the reserved directory was replaced and put back
  handle,    \* the directory that is open as finalRoot
  out,       \* the parts in the reserved directory and in the other one
  complete,  \* the directories with a file that declares them complete
  place, at,
  changes,
  fresh      \* history: the parts read in their place, since a live recheck
             \* where there is one

vars == <<command, source, live, facts, temp, digest, dir, returned, handle, out, complete, place, at,
          changes, fresh>>

Cells == 1..2
Directories == {"own", "other"}

StagingInit ==
  /\ command \in {"release-set", "candidate-host"}
  /\ source \in [Cells -> {"a", "b"}] /\ live = "a" /\ facts = "a"
  /\ temp = [c \in Cells |-> "none"] /\ digest = temp /\ out = [d \in Directories |-> temp]
  /\ dir \in {"absent", "other"} /\ returned = FALSE /\ handle = "none" /\ complete = {}
  /\ place = IF command = "release-set" THEN "archive" ELSE "inputs"
  /\ at = 1 /\ changes = 0 /\ fresh = {}

Running == place \notin {"done", "failed"}

\* The step is done for one cell after the other, then comes place p.
EachThen(p) == IF at = 1 THEN at' = 2 /\ UNCHANGED place ELSE at' = 1 /\ place' = p

\* Only the reserved directory is removed, and the removal may fail as well.
Fail ==
  /\ Running
  /\ place' = "failed"
  /\ \/ UNCHANGED <<dir, out, complete>>
     \/ /\ dir = "own" /\ dir' = "absent"
        /\ out' = [out EXCEPT !["own"] = [c \in Cells |-> "none"]] /\ complete' = complete \ {"own"}
  /\ temp' = [c \in Cells |-> "none"]
  /\ UNCHANGED <<command, source, live, facts, digest, returned, handle, at, changes, fresh>>

-----------------------------------------------------------------------------
(* release-set: stageReleaseSet up to the reservation. *)

CheckReleaseSetArchive ==
  /\ place = "archive" /\ (at = 1 => dir = "absent")
  /\ source[at] = facts
  /\ place' = "stage"
  /\ UNCHANGED <<command, source, live, facts, temp, digest, dir, returned, handle, out, complete, at, changes, fresh>>

\* The archive is read once more; a complete tree appears under its name.
Stage ==
  /\ place = "stage"
  /\ temp' = [temp EXCEPT ![at] = source[at]]
  /\ place' = "verify"
  /\ UNCHANGED <<command, source, live, facts, digest, dir, returned, handle, out, complete, at, changes, fresh>>

\* A tree that verifies and was made from the published archive.
VerifyReleaseSetCell ==
  /\ place = "verify"
  /\ temp[at] = facts
  /\ digest' = [digest EXCEPT ![at] = temp[at]]
  /\ IF at = 1 THEN at' = 2 /\ place' = "archive" ELSE at' = 1 /\ place' = "archives"
  /\ UNCHANGED <<command, source, live, facts, temp, dir, returned, handle, out, complete, changes, fresh>>

RecheckArchives ==
  /\ place = "archives"
  /\ source[at] = facts
  /\ EachThen("reserve")
  /\ UNCHANGED <<command, source, live, facts, temp, digest, dir, returned, handle, out, complete, changes, fresh>>

-----------------------------------------------------------------------------
(* candidate-host: buildHostCandidates up to the reservation. *)

\* The plan is read anew each time; archives and staged inputs are compared
\* with what it says then.
LocalReleaseSetFacts ==
  /\ place \in {"inputs", "inputs2", "inputs3"}
  /\ facts' = IF at = 1 THEN live ELSE facts
  /\ source[at] = facts'
  /\ place = "inputs" /\ at = 2 => dir = "absent"
  /\ EachThen(CASE place = "inputs" -> "build" [] place = "inputs2" -> "reserve" [] OTHER -> "checked")
  /\ UNCHANGED <<command, source, live, temp, digest, dir, returned, handle, out, complete, changes, fresh>>

\* The builder script makes a package from the staged input it finds.
RunBuilder ==
  /\ place = "build"
  /\ temp' = [temp EXCEPT ![at] = source[at]]
  /\ EachThen("digest")
  /\ UNCHANGED <<command, source, live, facts, digest, dir, returned, handle, out, complete, changes, fresh>>

DigestPackages ==
  /\ place = "digest"
  /\ digest' = [digest EXCEPT ![at] = temp[at]]
  /\ EachThen("inputs2")
  /\ UNCHANGED <<command, source, live, facts, temp, dir, returned, handle, out, complete, changes, fresh>>

-----------------------------------------------------------------------------
(* The output directory. *)

Reserve ==
  /\ place = "reserve" /\ dir = "absent"
  /\ dir' = "own" /\ place' = "move"
  /\ UNCHANGED <<command, source, live, facts, temp, digest, returned, handle, out, complete, at, changes, fresh>>

\* Nothing is moved over a part.
Move ==
  /\ place = "move" /\ dir # "absent"
  /\ out[dir][at] = "none"
  /\ out' = [out EXCEPT ![dir][at] = temp[at]]
  /\ temp' = [temp EXCEPT ![at] = "none"]
  /\ EachThen(IF command = "release-set" THEN "open" ELSE "moved")
  /\ UNCHANGED <<command, source, live, facts, digest, dir, returned, handle, complete, changes, fresh>>

\* The name is that of the reserved directory, at this moment.
CheckPublishedHostDirectory ==
  /\ place \in {"moved", "checked", "marked"}
  /\ dir = "own"
  /\ place' = CASE place = "moved" -> "recheck3" [] place = "checked" -> "open" [] OTHER -> "done"
  /\ UNCHANGED <<command, source, live, facts, temp, digest, dir, returned, handle, out, complete, at, changes, fresh>>

OpenFinalRoot ==
  /\ place = "open" /\ dir # "absent"
  /\ handle' = dir /\ place' = IF command = "release-set" THEN "recheck1" ELSE "finish"
  /\ UNCHANGED <<command, source, live, facts, temp, digest, dir, returned, out, complete, at, changes, fresh>>

\* The trees of release-set are read through the handle, those of a host by name.
Looked == IF command = "release-set" THEN handle ELSE dir

RecheckThen ==
  EachThen(CASE place = "recheck1" -> "live1" [] place = "recheck2" -> "live2" [] OTHER -> "inputs3")

\* Mutant: the moved trees are checked once, before the release is.
RecheckParts_Once ==
  /\ place \in {"recheck1", "recheck2", "recheck3"}
  /\ Looked # "absent"
  /\ place # "recheck2" => out[Looked][at] = digest[at]
  /\ fresh' = IF place # "recheck2" THEN fresh \cup {<<Looked, at, out[Looked][at]>>} ELSE fresh
  /\ RecheckThen
  /\ UNCHANGED <<command, source, live, facts, temp, digest, dir, returned, handle, out, complete, changes>>

\* The parts are read where they are now.
RecheckParts ==
  /\ place \in {"recheck1", "recheck2", "recheck3"}
  /\ Looked # "absent" /\ out[Looked][at] = digest[at]
  /\ fresh' = fresh \cup {<<Looked, at, out[Looked][at]>>}
  /\ RecheckThen
  /\ UNCHANGED <<command, source, live, facts, temp, digest, dir, returned, handle, out, complete, changes>>

\* The live release is rechecked, which may take minutes; after the first time
\* the trees are read again, after the second the plan is linked.
RecheckRelease ==
  /\ place \in {"live1", "live2"}
  /\ live = facts
  /\ IF place = "live1" THEN place' = "recheck2" /\ fresh' = {} ELSE place' = "finish" /\ UNCHANGED fresh
  /\ UNCHANGED <<command, source, live, facts, temp, digest, dir, returned, handle, out, complete, at, changes>>

\* The plan is linked by name, or the marker created through the handle, where
\* no such file is.
Finish ==
  /\ place = "finish"
  /\ \E d \in Directories \ complete :
       /\ d = IF command = "release-set" THEN dir ELSE handle
       /\ complete' = complete \cup {d}
  /\ place' = IF command = "release-set" THEN "published" ELSE "marked"
  /\ UNCHANGED <<command, source, live, facts, temp, digest, dir, returned, handle, out, at, changes, fresh>>

\* The reserved directory has its name, and then what has the name has the plan.
CheckReleaseSetPublished ==
  /\ \/ place = "published" /\ dir = "own" /\ place' = "planned"
     \/ place = "planned" /\ dir \in complete /\ place' = "done"
  /\ UNCHANGED <<command, source, live, facts, temp, digest, dir, returned, handle, out, complete, at, changes, fresh>>

-----------------------------------------------------------------------------

Reserved ==
  place \in {"move", "moved", "open", "recheck1", "live1", "recheck2", "live2", "recheck3", "inputs3",
            "checked", "finish", "marked", "published", "planned"}

\* Others change an archive or input, the release or the local plan, a part, or
\* put another directory in the place of the reserved one, which may have parts,
\* or put the reserved one back.
Change ==
  /\ Running /\ changes < MaxChanges
  /\ changes' = changes + 1
  /\ \/ \E c \in Cells, v \in {"a", "b"} :
          source' = [source EXCEPT ![c] = v] /\ UNCHANGED <<live, temp, dir, returned, out>>
     \/ live' \in {"a", "b"} /\ UNCHANGED <<source, temp, dir, returned, out>>
     \/ \E c \in Cells : temp[c] # "none" /\ temp' = [temp EXCEPT ![c] = "b"]
                         /\ UNCHANGED <<source, live, dir, returned, out>>
     \/ \E d \in Directories, c \in Cells :
          /\ out[d][c] # "none" /\ out' = [out EXCEPT ![d][c] = "b"]
          /\ UNCHANGED <<source, live, temp, dir, returned>>
     \/ \E v \in {"none", "a", "b"} :
          /\ dir # "other" /\ dir' = "other" /\ out' = [out EXCEPT !["other"] = [c \in Cells |-> v]]
          /\ UNCHANGED <<source, live, temp, returned>>
     \/ /\ dir = "other" /\ Reserved /\ dir' = "own" /\ returned' = TRUE
        /\ UNCHANGED <<source, live, temp, out>>
  /\ UNCHANGED <<command, facts, digest, handle, complete, place, at, fresh>>

StagingNext ==
  \/ CheckReleaseSetArchive \/ Stage \/ VerifyReleaseSetCell \/ RecheckArchives
  \/ LocalReleaseSetFacts \/ RunBuilder \/ DigestPackages
  \/ Reserve \/ Move \/ CheckPublishedHostDirectory \/ OpenFinalRoot \/ RecheckParts \/ RecheckRelease
  \/ Finish \/ CheckReleaseSetPublished \/ Fail \/ Change

-----------------------------------------------------------------------------
(* Properties. *)

ReadIn(d, c) == <<d, c, digest[c]>> \in fresh

\* Before any directory gets the plan or the marker, each part was read with the
\* recorded digest after it was moved: those of release-set all in the directory
\* that finalRoot shows, after a live recheck of the release, and only if they
\* are of published archives.  This directory is the reserved one, and success
\* is reported only when it is complete, unless it was replaced and then put
\* back: finalRoot is not compared with the directory that was created, and a
\* host reads by name between two comparisons, so such an exchange is not seen.
CompleteMeansChecked ==
  /\ complete # {} => \A c \in Cells :
       /\ command = "release-set" => ReadIn(handle, c) /\ digest[c] = facts
       /\ \E d \in Directories : ReadIn(d, c)
  /\ ~returned =>
       /\ "own" \in complete => \A c \in Cells : ReadIn("own", c)
       /\ place = "done" => "own" \in complete
=============================================================================
