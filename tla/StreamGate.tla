----------------------------- MODULE StreamGate -----------------------------
(***************************************************************************)
(* What a live "remote stream" promises about the Moonlight processes it   *)
(* starts, without saying how clients are found, retried or replaced: each *)
(* stream session is admitted through a gate that only a successful        *)
(* application listing opens, the listing's client is the one that         *)
(* streams, each listing admits one session, and the sessions stay within  *)
(* the reconnect budget.  RemoteSession implements this specification.     *)
(***************************************************************************)
EXTENDS Naturals

CONSTANTS
  Holders,    \* the clients that may hold an authorization
  NoHolder    \* no client holds one

VARIABLES
  gate,       \* "closed", "open", "streaming" or "over"
  holder,     \* the client the open gate admits, or that is streaming
  sessions,   \* stream processes started so far
  budget      \* stream processes the invocation may start

gateVars == <<gate, holder, sessions, budget>>

GateInit ==
  /\ gate = "closed"
  /\ holder = NoHolder
  /\ sessions = 0
  /\ budget \in Nat

Authorize(c) ==
  /\ gate = "closed"
  /\ gate' = "open"
  /\ holder' = c
  /\ UNCHANGED <<sessions, budget>>

Admit ==
  /\ gate = "open"
  /\ sessions < budget
  /\ gate' = "streaming"
  /\ sessions' = sessions + 1
  /\ UNCHANGED <<holder, budget>>

\* A refused launch or a session that ended uses its authorization up.
Revoke ==
  /\ gate \in {"open", "streaming"}
  /\ gate' = "closed"
  /\ holder' = NoHolder
  /\ UNCHANGED <<sessions, budget>>

Leave ==
  /\ gate \in {"closed", "streaming"}
  /\ gate' = "over"
  /\ holder' = NoHolder
  /\ UNCHANGED <<sessions, budget>>

GateNext ==
  \/ \E c \in Holders : Authorize(c)
  \/ Admit
  \/ Revoke
  \/ Leave

GateSpec == GateInit /\ [][GateNext]_gateVars
=============================================================================
