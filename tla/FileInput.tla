----------------------------- MODULE FileInput -----------------------------
(***************************************************************************)
(* fileinput.ReadRegularBoundedFromRoot and the open beneath it            *)
(* (openRegularFromRoot), while the tree under the root is rearranged and  *)
(* files grow and shrink. Handles keep the object they opened; names may   *)
(* mean another object at every step.                                      *)
(*                                                                         *)
(* A name under the root means [object, link]: link says that it is a      *)
(* symbolic link to the object.                                            *)
(***************************************************************************)
EXTENDS Naturals

CONSTANTS
  Files,      \* regular files
  Specials,   \* devices, pipes and sockets
  Maximum,    \* the caller's limit
  MaxLength,  \* bound: longest content
  Absent      \* no object

ASSUME InputAssumption ==
  /\ Maximum \in Nat /\ MaxLength \in Nat
  /\ Absent \notin Files \cup Specials

VARIABLES
  name,      \* what the file's name means
  length,    \* the length of each file
  place,     \* where the read is
  inspected,    \* local: the Lstat of ReadRegularBoundedFromRoot
  inner,     \* local: the Lstat of openRegularFromRoot
  opened,      \* local: the opened file
  data,      \* local: the length of the bytes read
  wasNamed   \* history: the file was what the name meant, as a file and no link

tree == <<name, length>>
locals == <<place, inspected, inner, opened, data>>
inputVars == <<tree, locals, wasNamed>>

Objects == Files \cup Specials
Meanings == [object : Objects, link : BOOLEAN] \cup {[object |-> Absent, link |-> FALSE]}
Lengths == 0..MaxLength

InputTypeOK ==
  /\ name \in Meanings
  /\ length \in [Files -> Lengths]
  /\ place \in {"inspect", "innerInspect", "open", "reinspect", "stat", "read", "final",
                "returned", "failed"}
  /\ inspected \in Files \cup {Absent}
  /\ inner \in Files \cup {Absent}
  /\ opened \in Objects \cup {Absent}
  /\ data \in 0..(Maximum + 1)
  /\ wasNamed \subseteq Files

IsRegular == ~name.link /\ name.object \in Files

Failed ==
  /\ place' = "failed"
  /\ UNCHANGED <<inspected, inner, opened, data>>

\* Lstat: a regular file that is not too long.
Inspect ==
  /\ place = "inspect"
  /\ \/ /\ IsRegular
        /\ length[name.object] <= Maximum
        /\ inspected' = name.object
        /\ place' = "innerInspect"
        /\ UNCHANGED <<inner, opened, data>>
     \/ Failed
  /\ wasNamed' = (IF IsRegular THEN {name.object} ELSE {})
  /\ UNCHANGED tree

\* openRegularFromRoot: Lstat again.
InnerInspect ==
  /\ place = "innerInspect"
  /\ \/ /\ IsRegular
        /\ inner' = name.object
        /\ place' = "open"
        /\ UNCHANGED <<inspected, opened, data>>
     \/ Failed
  /\ UNCHANGED <<tree, wasNamed>>

\* A nonblocking open, which follows links and takes whatever is there.
Open ==
  /\ place = "open"
  /\ \/ /\ name.object # Absent
        /\ opened' = name.object
        /\ place' = "reinspect"
        /\ UNCHANGED <<inspected, inner, data>>
     \/ Failed
  /\ UNCHANGED <<tree, wasNamed>>

\* Stat of the handle and Lstat of the name: both the inspected file.
Reinspect ==
  /\ place = "reinspect"
  /\ \/ /\ opened \in Files
        /\ IsRegular
        /\ opened = inner
        /\ name.object = inner
        /\ place' = "stat"
        /\ UNCHANGED <<inspected, inner, opened, data>>
     \/ Failed
  /\ UNCHANGED <<tree, wasNamed>>

\* Back in ReadRegularBoundedFromRoot: its own inspection and the length.
StatOpened ==
  /\ place = "stat"
  /\ \/ /\ opened = inspected
        /\ length[opened] <= Maximum
        /\ place' = "read"
        /\ UNCHANGED <<inspected, inner, opened, data>>
     \/ Failed
  /\ UNCHANGED <<tree, wasNamed>>

\* Mutant: the read is not limited, and the file may have grown.
Read_Unlimited ==
  /\ place = "read"
  /\ data' = length[opened]
  /\ place' = "final"
  /\ UNCHANGED <<tree, inspected, inner, opened, wasNamed>>

\* The limited read: one byte more than the limit is too many.
Read ==
  /\ place = "read"
  /\ LET count == IF length[opened] > Maximum THEN Maximum + 1 ELSE length[opened]
     IN  \/ /\ count <= Maximum
            /\ data' = count
            /\ place' = "final"
            /\ UNCHANGED <<inspected, inner, opened>>
         \/ Failed
  /\ UNCHANGED <<tree, wasNamed>>

\* Handle and name once more: still the file, still as long as what was read.
FinalInspect ==
  /\ place = "final"
  /\ \/ /\ IsRegular
        /\ opened = inspected
        /\ name.object = inspected
        /\ length[opened] = data
        /\ place' = "returned"
        /\ UNCHANGED <<inspected, inner, opened, data>>
     \/ Failed
  /\ UNCHANGED <<tree, wasNamed>>

Rearrange ==
  /\ name' \in Meanings
  /\ wasNamed' = IF ~name'.link /\ name'.object \in Files
                 THEN wasNamed \cup {name'.object} ELSE wasNamed
  /\ UNCHANGED <<length, locals>>

RewriteFile ==
  /\ \E f \in Files, n \in Lengths : length' = [length EXCEPT ![f] = n]
  /\ UNCHANGED <<name, locals, wasNamed>>

ReadStep ==
  Inspect \/ InnerInspect \/ Open \/ Reinspect \/ StatOpened \/ Read \/ FinalInspect

InputInit ==
  /\ name \in Meanings
  /\ length \in [Files -> Lengths]
  /\ place = "inspect"
  /\ inspected = Absent
  /\ inner = Absent
  /\ opened = Absent
  /\ data = 0
  /\ wasNamed = {}

InputNext == ReadStep \/ Rearrange \/ RewriteFile

InputSpec == InputInit /\ [][InputNext]_inputVars

-----------------------------------------------------------------------------
\* What is returned are the bytes of one regular file within the limit, which the
\* name meant, as a file and not through a link, during the call; a device is
\* never read, even if it was opened (ReadRegularBoundedFromRoot).
ReadsTheNamedFile ==
  /\ place \in {"read", "final", "returned"} => opened \in wasNamed
  /\ place = "returned" => data <= Maximum
=============================================================================
