---------------------------- MODULE ConfigStore ----------------------------
(***************************************************************************)
(* The configuration file: `config init` (config.WriteNew) by several      *)
(* invocations at once, and config.Load, over a file system in which the   *)
(* operator moves and removes things meanwhile. A step is a system call or *)
(* the calls between two that others can observe; a process may crash      *)
(* after any of them.                                                      *)
(*                                                                         *)
(* A file is named by the writer that created it ("other" was there        *)
(* before), so that equal values are the same file in the sense of         *)
(* os.SameFile; content is what the file holds.                            *)
(***************************************************************************)
CONSTANTS
  Writers,      \* invocations of `config init`
  Directories,  \* directories that the configuration path may name
  Nothing       \* no file, no directory

ASSUME NamesAssumption ==
  /\ Nothing \notin Writers \cup Directories \cup {"other", "link", "file"}
  /\ Writers \cap {"other", "link"} = {}
  /\ Directories \cap {"link", "file"} = {}

VARIABLES
  visible,  \* what the directory's path names
  target,   \* the file that config.json names in each directory
  temp,     \* writers whose temporary file has a name
  content,  \* what the file of each writer holds
  pc,       \* where each WriteNew is
  info,     \* local of OpenDirectoryRoot: what Lstat saw
  root,     \* local of WriteNew: the opened directory
  reader,   \* where Load is
  before,   \* local of openRegular: the file Lstat saw
  file      \* local of openRegular: the file opened

treeVars == <<visible, target, temp, content>>
writerVars == <<pc, info, root>>
readerVars == <<reader, before, file>>
vars == <<treeVars, writerVars, readerVars>>

FileNames == Writers \cup {"other", "link"}
PathNames == Directories \cup {"link", "file", Nothing}
Contents == {"none", "empty", "partial", "complete"}
Finished == {"created", "exists", "failed", "crashed"}
WriterStates == Finished \cup
  {"ensure", "make", "made", "inspect", "open", "pin", "create", "write", "sync",
   "link", "cleanCreated", "cleanExists", "cleanFailed"}
ReaderStates == {"idle", "inspect", "open", "reinspect", "read", "loaded", "failed", "notFound"}

TypeOK ==
  /\ visible \in PathNames
  /\ target \in [Directories -> FileNames \cup {Nothing}]
  /\ temp \subseteq Writers
  /\ content \in [Writers -> Contents]
  /\ pc \in [Writers -> WriterStates]
  /\ info \in [Writers -> PathNames]
  /\ root \in [Writers -> Directories \cup {Nothing}]
  /\ reader \in ReaderStates
  /\ before \in FileNames \cup {Nothing}
  /\ file \in FileNames \cup {Nothing}

\* The directories that the path leads to: a link leads to any.
Resolved ==
  IF visible \in Directories THEN {visible}
  ELSE IF visible = "link" THEN Directories ELSE {}

\* What the path of config.json may name.
Named == {target[d] : d \in Resolved} \cup (IF visible \in Directories THEN {} ELSE {Nothing})

Regular == FileNames \ {"link"}

Goto(w, place) == pc' = [pc EXCEPT ![w] = place]

-----------------------------------------------------------------------------
(* WriteNew.                                                               *)

\* EnsureDirectoryTree: an existing directory is used; a link or a file is refused.
EnsureDirectory(w) ==
  /\ pc[w] = "ensure"
  /\ \/ visible = Nothing /\ Goto(w, "make")
     \/ visible \in Directories /\ Goto(w, "inspect")
     \/ Goto(w, "failed")
  /\ UNCHANGED <<treeVars, info, root, readerVars>>

\* Mkdir; that another writer has made it meanwhile is no error.
MakeDirectory(w) ==
  /\ pc[w] = "make"
  /\ \/ /\ visible = Nothing
        /\ \E d \in Directories :
             /\ \A v \in Writers : d \notin {root[v], info[v]}
             /\ visible' = d
             /\ target' = [target EXCEPT ![d] = Nothing]
        /\ Goto(w, "made")
     \/ visible # Nothing /\ Goto(w, "made") /\ UNCHANGED <<visible, target>>
     \/ Goto(w, "failed") /\ UNCHANGED <<visible, target>>
  /\ UNCHANGED <<temp, content, info, root, readerVars>>

\* What is there after Mkdir must be a directory and no link.
InspectCreated(w) ==
  /\ pc[w] = "made"
  /\ Goto(w, IF visible \in Directories THEN "inspect" ELSE "failed")
  /\ UNCHANGED <<treeVars, info, root, readerVars>>

\* Lstat of the destination: whatever is there is not overwritten.
InspectTarget(w) ==
  /\ pc[w] = "inspect"
  /\ \/ Nothing \in Named /\ Goto(w, "open")
     \/ (\E f \in Named : f # Nothing) /\ Goto(w, "exists")
     \/ Goto(w, "failed")
  /\ UNCHANGED <<treeVars, info, root, readerVars>>

\* OpenDirectoryRoot: Lstat of the directory and its parents.
InspectDirectory(w) ==
  /\ pc[w] = "open"
  /\ \/ visible \in Directories /\ info' = [info EXCEPT ![w] = visible] /\ Goto(w, "pin")
     \/ Goto(w, "failed") /\ UNCHANGED info
  /\ UNCHANGED <<treeVars, root, readerVars>>

\* OpenRoot and SameFile: the opened directory is the inspected one.
PinDirectory(w) ==
  /\ pc[w] = "pin"
  /\ \/ /\ visible = info[w]
        /\ root' = [root EXCEPT ![w] = visible]
        /\ Goto(w, "create")
     \/ Goto(w, "failed") /\ UNCHANGED root
  /\ UNCHANGED <<treeVars, info, readerVars>>

\* CreateTempFile: an exclusive random name in the opened directory.
CreateTemp(w) ==
  /\ pc[w] = "create"
  /\ \/ /\ temp' = temp \cup {w}
        /\ content' = [content EXCEPT ![w] = "empty"]
        /\ Goto(w, "write")
     \/ Goto(w, "failed") /\ UNCHANGED <<temp, content>>
  /\ UNCHANGED <<visible, target, info, root, readerVars>>

\* Mutant: a short write is overlooked.
WriteTemp_Short(w) ==
  /\ pc[w] = "write"
  /\ content' = [content EXCEPT ![w] = "partial"] \/ content' = [content EXCEPT ![w] = "complete"]
  /\ Goto(w, "sync")
  /\ UNCHANGED <<visible, target, temp, info, root, readerVars>>

\* Write may fail or be short after some bytes.
WriteTemp(w) ==
  /\ pc[w] = "write"
  /\ \/ content' = [content EXCEPT ![w] = "complete"] /\ Goto(w, "sync")
     \/ content' = [content EXCEPT ![w] = "partial"] /\ Goto(w, "cleanFailed")
  /\ UNCHANGED <<visible, target, temp, info, root, readerVars>>

SyncTemp(w) ==
  /\ pc[w] = "sync"
  /\ Goto(w, "link") \/ Goto(w, "cleanFailed")
  /\ UNCHANGED <<treeVars, info, root, readerVars>>

\* Mutant: the file is published by a rename, which replaces another.
Publish_Rename(w) ==
  /\ pc[w] = "link"
  /\ \/ /\ target' = [target EXCEPT ![root[w]] = w]
        /\ Goto(w, "cleanCreated")
     \/ Goto(w, "cleanFailed") /\ UNCHANGED target
  /\ UNCHANGED <<visible, temp, content, info, root, readerVars>>

\* LinkInRoot: the exclusive link publishes the complete file or finds another.
\* It works in the opened directory (Go 1.25), or before that by path, and then
\* fails where the path leads to another directory by now: that one does not
\* hold the temporary file.
Publish(w) ==
  /\ pc[w] = "link"
  /\ \/ /\ target[root[w]] = Nothing
        /\ target' = [target EXCEPT ![root[w]] = w]
        /\ Goto(w, "cleanCreated")
     \/ /\ target[root[w]] # Nothing
        /\ Goto(w, "cleanExists")
        /\ UNCHANGED target
     \/ Goto(w, "cleanFailed") /\ UNCHANGED target
  /\ UNCHANGED <<visible, temp, content, info, root, readerVars>>

\* The deferred calls close and remove the temporary file, and WriteNew returns;
\* a failure to remove it is not reported. A crash here leaves no other traces.
CleanUp(w) ==
  /\ \/ pc[w] = "cleanCreated" /\ Goto(w, "created")
     \/ pc[w] = "cleanExists" /\ Goto(w, "exists")
     \/ pc[w] = "cleanFailed" /\ Goto(w, "failed")
  /\ temp' \in {temp, temp \ {w}}
  /\ UNCHANGED <<visible, target, content, info, root, readerVars>>

\* The process ends at any point; a file being written keeps what it has.
Crash(w) ==
  /\ pc[w] \notin Finished \cup {"cleanCreated", "cleanExists", "cleanFailed"}
  /\ Goto(w, "crashed")
  /\ \/ UNCHANGED content
     \/ pc[w] = "write" /\ content' = [content EXCEPT ![w] = "partial"]
  /\ UNCHANGED <<visible, target, temp, info, root, readerVars>>

-----------------------------------------------------------------------------
(* Load.                                                                   *)

\* RejectSymlinkedParents: no parent is a link; one that is absent is no error.
LoadParents ==
  /\ reader = "idle"
  /\ \/ visible \notin {"link", "file"} /\ reader' = "inspect"
     \/ reader' = "failed"
  /\ UNCHANGED <<treeVars, writerVars, before, file>>

\* openRegular: Lstat of the path, which must name a regular file.
LoadInspect ==
  /\ reader = "inspect"
  /\ \/ before' \in Named \cap Regular /\ reader' = "open"
     \/ Nothing \in Named /\ reader' = "notFound" /\ UNCHANGED before
     \/ reader' = "failed" /\ UNCHANGED before
  /\ UNCHANGED <<treeVars, writerVars, file>>

\* Load returns an error, and its locals are gone.
LoadFails(result) == reader' = result /\ before' = Nothing /\ file' = Nothing

\* The open follows links.
LoadOpen ==
  /\ reader = "open"
  /\ \/ /\ \/ file' \in Named \cap Regular
           \/ "link" \in Named /\ file' \in {target[d] : d \in Directories} \cap Regular
        /\ reader' = "reinspect"
        /\ UNCHANGED before
     \/ Nothing \in Named /\ LoadFails("notFound")
     \/ LoadFails("failed")
  /\ UNCHANGED <<treeVars, writerVars>>

\* The opened file and the path must still be the file that was inspected.
LoadReinspect ==
  /\ reader = "reinspect"
  /\ \/ file = before /\ before \in Named /\ reader' = "read" /\ UNCHANGED <<before, file>>
     \/ Nothing \in Named /\ LoadFails("notFound")
     \/ LoadFails("failed")
  /\ UNCHANGED <<treeVars, writerVars>>

\* The bytes are read and parsed. "other" may not be a configuration at all.
LoadRead ==
  /\ reader = "read"
  /\ \/ /\ file \in Writers => content[file] = "complete"
        /\ reader' = "loaded"
        /\ UNCHANGED <<before, file>>
     \/ (file \in Writers => content[file] # "complete") /\ LoadFails("failed")
  /\ UNCHANGED <<treeVars, writerVars>>

\* Another invocation loads the configuration.
LoadAgain ==
  /\ reader \in {"loaded", "failed", "notFound"}
  /\ reader' = "idle"
  /\ before' = Nothing
  /\ file' = Nothing
  /\ UNCHANGED <<treeVars, writerVars>>

-----------------------------------------------------------------------------
(* The operator.                                                           *)

MoveDirectory ==
  /\ visible' \in PathNames \ {visible}
  /\ UNCHANGED <<target, temp, content, writerVars, readerVars>>

RemoveTarget ==
  /\ \E d \in Directories :
       target[d] # Nothing /\ target' = [target EXCEPT ![d] = Nothing]
  /\ UNCHANGED <<visible, temp, content, writerVars, readerVars>>

Operator == MoveDirectory \/ RemoveTarget

WriteNew(w) ==
  \/ EnsureDirectory(w) \/ MakeDirectory(w) \/ InspectCreated(w) \/ InspectTarget(w)
  \/ InspectDirectory(w) \/ PinDirectory(w) \/ CreateTemp(w) \/ WriteTemp(w)
  \/ SyncTemp(w) \/ Publish(w) \/ CleanUp(w) \/ Crash(w)

Load == LoadParents \/ LoadInspect \/ LoadOpen \/ LoadReinspect \/ LoadRead \/ LoadAgain

Init ==
  /\ visible \in PathNames
  /\ target \in [Directories -> {"other", "link", Nothing}]
  /\ temp = {}
  /\ content = [w \in Writers |-> "none"]
  /\ pc = [w \in Writers |-> "ensure"]
  /\ info = [w \in Writers |-> Nothing]
  /\ root = [w \in Writers |-> Nothing]
  /\ reader = "idle"
  /\ before = Nothing
  /\ file = Nothing

Next == (\E w \in Writers : WriteNew(w)) \/ Load \/ Operator

Spec == Init /\ [][Next]_vars

-----------------------------------------------------------------------------
\* Load never reads a file of WriteNew that is not whole, whoever crashes or
\* fails meanwhile: a name is linked only to a synced file (WriteNew, openRegular).
ReadsWholeFiles ==
  reader \in {"read", "loaded"} /\ file \in Writers => content[file] = "complete"

Outcome(place) ==
  CASE place \in {"cleanCreated", "created"} -> "created"
    [] place \in {"cleanExists", "exists"} -> "exists"
    [] place \in {"cleanFailed", "failed", "crashed"} -> "failed"
    [] OTHER -> "writing"

\* What the abstract specification sees of the store.
Stored == [d \in Directories |-> IF target[d] = "link" THEN "other" ELSE target[d]]
Outcomes == [w \in Writers |-> Outcome(pc[w])]

Abstract == INSTANCE ExclusiveCreate WITH stored <- Stored, outcome <- Outcomes

\* WriteNew creates a configuration at once and only where there was none; a
\* writer learns the truth about it, however two invocations, the operator and
\* crashes interleave (WriteNew, ErrExists).
ImplementsExclusiveCreate == Abstract!Spec
=============================================================================
