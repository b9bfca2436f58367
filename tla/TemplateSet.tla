----------------------------- MODULE TemplateSet -----------------------------
(***************************************************************************)
(* publishEvidenceTemplateSet (internal/app/evidence.go): the templates of *)
(* a validation run, or a payload to sign, become new files of a           *)
(* directory, all or none.  Two commands publish at once, and the user     *)
(* creates and removes files of the same names; nobody touches a file of a *)
(* command that is running.                                                *)
(***************************************************************************)

CONSTANT Commands

VARIABLES
  names,    \* the files that each command publishes
  files,    \* the directory: whose file has a name, "free" if none has
  temps,    \* staged files, by command
  linked,   \* the names that each command has linked
  pc,
  checked,  \* names found free
  seen      \* names whose file cleanup found to be the own one

vars == <<names, files, temps, linked, pc, checked, seen>>

Set == {"host", "client", "session"}

TemplateInit ==
  /\ names \in [Commands -> {Set, {"client"}}]
  /\ files \in [Set -> {"free", "user"}]
  /\ temps = [c \in Commands |-> {}] /\ linked = temps /\ checked = temps /\ seen = temps
  /\ pc = [c \in Commands |-> "check"]

Goes(c, to) == pc' = [pc EXCEPT ![c] = to]

\* The complete destination set is looked at first.
CheckFree(c, f) ==
  /\ pc[c] = "check"
  /\ f \in names[c] \ checked[c]
  /\ IF files[f] = "free"
     THEN /\ checked' = [checked EXCEPT ![c] = @ \cup {f}]
          /\ Goes(c, IF checked'[c] = names[c] THEN "stage" ELSE "check")
     ELSE Goes(c, "failed") /\ UNCHANGED checked
  /\ UNCHANGED <<names, files, temps, linked, seen>>

\* A private file has the bytes; one that fails is staged too, and removed.
Stage(c, f) ==
  /\ pc[c] = "stage"
  /\ f \in names[c] \ temps[c]
  /\ temps' = [temps EXCEPT ![c] = @ \cup {f}]
  /\ \/ Goes(c, IF temps'[c] = names[c] THEN "link" ELSE "stage")
     \/ Goes(c, "discard")
  /\ UNCHANGED <<names, files, linked, checked, seen>>

\* Mutant: cleanup(false) when a name cannot be linked.
Link_KeepsLinked(c, f) ==
  /\ pc[c] = "link"
  /\ f \in names[c] \ linked[c]
  /\ \/ /\ files[f] = "free"
        /\ files' = [files EXCEPT ![f] = c]
        /\ linked' = [linked EXCEPT ![c] = @ \cup {f}]
        /\ Goes(c, IF linked'[c] = names[c] THEN "clean" ELSE "link")
     \/ Goes(c, "discard") /\ UNCHANGED <<files, linked>>
  /\ UNCHANGED <<names, temps, checked, seen>>

\* A link needs a free name, and may fail for other reasons.
Link(c, f) ==
  /\ pc[c] = "link"
  /\ f \in names[c] \ linked[c]
  /\ \/ /\ files[f] = "free"
        /\ files' = [files EXCEPT ![f] = c]
        /\ linked' = [linked EXCEPT ![c] = @ \cup {f}]
        /\ Goes(c, IF linked'[c] = names[c] THEN "clean" ELSE "link")
     \/ Goes(c, "withdraw") /\ UNCHANGED <<files, linked>>
  /\ UNCHANGED <<names, temps, checked, seen>>

\* cleanup(true): a linked name is removed if its file is the staged one; it is
\* looked at first.
LookAgain(c, f) ==
  /\ pc[c] = "withdraw"
  /\ f \in linked[c] /\ f \notin seen[c]
  /\ IF files[f] = c
     THEN seen' = [seen EXCEPT ![c] = @ \cup {f}] /\ UNCHANGED linked
     ELSE linked' = [linked EXCEPT ![c] = @ \ {f}] /\ UNCHANGED seen
  /\ UNCHANGED <<names, files, temps, pc, checked>>

Withdraw(c, f) ==
  /\ pc[c] = "withdraw"
  /\ f \in seen[c] \cap linked[c]
  /\ files' = [files EXCEPT ![f] = "free"]
  /\ linked' = [linked EXCEPT ![c] = @ \ {f}]
  /\ UNCHANGED <<names, temps, pc, checked, seen>>

\* The staged names are removed in any case.
RemoveTemps(c) ==
  /\ \/ pc[c] = "clean" /\ Goes(c, "published")
     \/ pc[c] = "discard" /\ Goes(c, "failed")
     \/ pc[c] = "withdraw" /\ linked[c] = {} /\ Goes(c, "failed")
  /\ temps' = [temps EXCEPT ![c] = {}]
  /\ UNCHANGED <<names, files, linked, checked, seen>>

UserEdits ==
  /\ \E f \in Set : \/ files[f] = "free" /\ files' = [files EXCEPT ![f] = "user"]
                    \/ files[f] = "user" /\ files' = [files EXCEPT ![f] = "free"]
  /\ UNCHANGED <<names, temps, linked, pc, checked, seen>>

TemplateNext ==
  \/ \E c \in Commands, f \in Set :
       CheckFree(c, f) \/ Stage(c, f) \/ Link(c, f) \/ LookAgain(c, f) \/ Withdraw(c, f)
  \/ \E c \in Commands : RemoveTemps(c)
  \/ UserEdits

TemplateSpec == TemplateInit /\ [][TemplateNext]_vars

-----------------------------------------------------------------------------
(* Properties. *)

\* What a command reports is what remains: a published set is complete, and a
\* failed command leaves no subset of it beside the files of others, nor staged
\* files, whatever the two commands and the user do at the same time.
SetsAreWhole ==
  \A c \in Commands :
    /\ pc[c] = "published" => \A f \in names[c] : files[f] = c
    /\ pc[c] = "failed" => \A f \in Set : files[f] # c
    /\ pc[c] \in {"published", "failed"} => temps[c] = {}
=============================================================================
