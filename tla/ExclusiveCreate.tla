-------------------------- MODULE ExclusiveCreate --------------------------
(***************************************************************************)
(* What config.WriteNew promises its callers: a configuration appears in a *)
(* directory at once and whole, only where there was none, and the writer  *)
(* knows whether it was its own. The operator may remove it again.         *)
(***************************************************************************)
CONSTANTS
  Writers,      \* invocations of `config init`
  Directories,  \* directories that the path may name
  Nothing       \* no file

VARIABLES
  stored,  \* the writer whose configuration a directory holds
  outcome  \* what became of each writer

Init ==
  /\ stored \in [Directories -> {Nothing} \cup {"other"}]
  /\ outcome = [w \in Writers |-> "writing"]

Create(w, d) ==
  /\ outcome[w] = "writing"
  /\ stored[d] = Nothing
  /\ stored' = [stored EXCEPT ![d] = w]
  /\ outcome' = [outcome EXCEPT ![w] = "created"]

Exists(w) ==
  /\ outcome[w] = "writing"
  /\ \E d \in Directories : stored[d] # Nothing
  /\ outcome' = [outcome EXCEPT ![w] = "exists"]
  /\ UNCHANGED stored

GiveUp(w) ==
  /\ outcome[w] = "writing"
  /\ outcome' = [outcome EXCEPT ![w] = "failed"]
  /\ UNCHANGED stored

Remove(d) ==
  /\ stored[d] # Nothing
  /\ stored' = [stored EXCEPT ![d] = Nothing]
  /\ UNCHANGED outcome

Next ==
  \/ \E w \in Writers : Exists(w) \/ GiveUp(w) \/ (\E d \in Directories : Create(w, d))
  \/ \E d \in Directories : Remove(d)

Spec == Init /\ [][Next]_<<stored, outcome>>
=============================================================================
