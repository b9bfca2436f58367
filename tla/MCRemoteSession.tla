--------------------------- MODULE MCRemoteSession ---------------------------
(***************************************************************************)
(* Small instances of RemoteSession: PATH states in which native clients,  *)
(* a generic alias and the Flatpak come and go, and the invocations of one *)
(* operation at a time.                                                    *)
(***************************************************************************)
EXTENDS RemoteSession, TLC

CONSTANTS qt, embedded, generic, launcher

MCBinaries == {qt, embedded, generic, launcher}

Installed(q, e, m, f) ==
  "moonlight-qt" :> q @@ "moonlight-embedded" :> e @@ "moonlight" :> m @@ "flatpak" :> f

\* Nothing; Qt with a generic alias of it; every client; Embedded and Flatpak.
MCPaths ==
  {Installed(NoBinary, NoBinary, NoBinary, NoBinary),
   Installed(qt, NoBinary, qt, NoBinary),
   Installed(qt, embedded, generic, launcher),
   Installed(NoBinary, embedded, NoBinary, launcher)}

\* The same, without the Flatpak, for the BSDs.
MCPathsBSD ==
  {Installed(NoBinary, NoBinary, NoBinary, NoBinary),
   Installed(qt, NoBinary, generic, NoBinary),
   Installed(NoBinary, embedded, generic, NoBinary)}

\* Two clients to choose from.
MCPathsFew ==
  {Installed(NoBinary, NoBinary, NoBinary, NoBinary),
   Installed(qt, embedded, NoBinary, NoBinary)}

AcceptedRequests == {r \in RequestType : Accepted(r)}

\* Streams with two reconnects, woken or not.
MCStreams ==
  {r \in AcceptedRequests :
     /\ r.op = "stream" /\ ~r.dryRun /\ r.check
     /\ r.confirmed /\ r.acknowledged
     /\ r.selection \in {"auto", "moonlight-qt", "moonlight-embedded"}
     /\ r.reconnects = 2
     /\ r.wakeRetries = (IF r.wake THEN 2 ELSE 0)
     /\ r.waits = {"retry", "reconnect"}}

\* Every control operation and selection, with and without a wake-up, and
\* every operation dry or with its consent withheld. A wait of zero is one that
\* its timer wins: positive waits have those steps too.
MCControls ==
  {r \in AcceptedRequests :
     /\ r.op # "stream" /\ ~r.dryRun
     /\ r.confirmed
     /\ r.wakeRetries \in (IF r.wake THEN {0, 2} ELSE {0})
     /\ r.waits = Waits}
  \cup
  {r \in AcceptedRequests :
     /\ r.automatic
     /\ r.dryRun \/ ~(r.confirmed /\ r.acknowledged)
     /\ r.wakeRetries = 0
     /\ r.reconnects = 0
     /\ r.waits = {}}

\* A stream with one reconnect, for the liveness properties: the control
\* operations reach the other waits.
MCEnding ==
  {r \in AcceptedRequests :
     /\ r.op = "stream" /\ r.automatic /\ ~r.dryRun
     /\ r.confirmed /\ r.acknowledged /\ r.check
     /\ r.need = "none"
     /\ ~r.wake
     /\ r.wakeRetries = 0
     /\ r.reconnects = 1
     /\ r.waits = Waits}

MCControlsAndEnding == MCControls \cup MCEnding
=============================================================================
