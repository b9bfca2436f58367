---------------------------- MODULE DirectCommands ----------------------------
(***************************************************************************)
(* remote map, remote kvm and remote wake (internal/app/remote.go): the    *)
(* commands beside runRemote. Each takes its values from flags and the     *)
(* configuration file, checks the contracts of the embedded manifest,      *)
(* plans, and then sends a packet, waits, and starts a process, while the  *)
(* manifest expires and the operator interrupts. A command reads the file  *)
(* once: what it holds by then, whoever rewrites it, is a choice.          *)
(***************************************************************************)
EXTENDS Naturals

VARIABLES
  call,         \* the invocation, after parseFlags
  fresh,        \* the manifest has not expired
  interrupted,  \* ctx.Err() # nil
  phase,        \* where the command is, or its exit code
  route,        \* selectedRoute
  confirmed,    \* the confirmation in force, and where it comes from
  endpoint,     \* the endpoint passes ValidateEndpoint
  verified,     \* history: routes whose contract was found in force
  packets,      \* packets sent
  process       \* whether the browser or the mapping process has been started

callVars == <<call, fresh, interrupted, phase, route, confirmed, endpoint, verified,
              packets, process>>

Routes == {"windows", "macos"}
Codes == {"ok", "usage", "blocked", "internal"}

\* confirm is the flag: absent, or given with a value. delay: a wait above zero.
Calls ==
  [command : {"map", "kvm", "wake"}, route : Routes \cup {"none"}, url : {"none", "good", "bad"},
   config : BOOLEAN, confirm : {"none", "yes", "no"}, acknowledged : BOOLEAN,
   wake : BOOLEAN, delay : BOOLEAN, dryRun : BOOLEAN]

\* The flags that each command has.
Accepted(c) ==
  /\ c.command = "map" =>
       c.confirm = "none" /\ ~c.acknowledged /\ ~c.config /\ ~c.wake
  /\ c.command = "wake" => c.wake
  /\ c.command # "kvm" => c.route = "none" /\ c.url = "none" /\ ~c.delay
  /\ c.delay => c.wake

\* What Load makes of a file: it is absent, broken, or valid with these values.
\* A stored KVM endpoint has passed Validate.
StoredConfigs ==
  [state : {"valid"}, route : Routes, confirmed : BOOLEAN, kvm : BOOLEAN]
  \cup [state : {"absent", "broken"}, route : {"windows"}, confirmed : {FALSE}, kvm : {FALSE}]

Done == phase \in Codes

Effects == <<packets, process>>
Values == <<route, confirmed, endpoint, verified>>

Exit(code) == phase' = code /\ UNCHANGED <<Values, Effects>>
Proceed(place) == phase' = place /\ UNCHANGED <<Values, Effects>>

\* The confirmation of the flag.
FlagConfirmation(c) == [value |-> c.confirm = "yes", of |-> "flag"]

-----------------------------------------------------------------------------
(* Gathering.                                                              *)

\* kvm: without a URL, with a named file, or for a wake-up's confirmation.
NeedsConfiguredValues(c) ==
  c.url = "none" \/ c.config \/ (c.wake /\ c.confirm = "none")

\* parseFlags and the platform; map also looks at the input device when it is live.
Begin ==
  /\ phase = "begin"
  /\ \/ Exit("usage")
     \/ Exit("blocked")
     \/ call.command = "map" /\ Proceed("discover")
     \/ call.command = "wake" /\ Proceed("load")
     \/ call.command = "kvm" /\ NeedsConfiguredValues(call) /\ Proceed("load")
     \/ /\ call.command = "kvm"
        /\ ~NeedsConfiguredValues(call)
        /\ route' = (IF call.route = "none" THEN "windows" ELSE call.route)
        /\ confirmed' = FlagConfirmation(call)
        /\ endpoint' = (call.url = "good")
        /\ phase' = "contract"
        /\ UNCHANGED <<verified, Effects>>

\* loadRemoteConfig: a named file must load, the default file may be absent; a
\* requested route must be the one of the configuration.
Loads(file) ==
  /\ file.state = "valid" \/ (file.state = "absent" /\ ~call.config)
  /\ call.route # "none" /\ file.state = "valid" => file.route = call.route

\* The route of an absent default file is the requested one, or "windows".
LoadedRoute(file) ==
  IF file.state = "absent" /\ call.route # "none" THEN call.route ELSE file.route

\* Mutant: the confirmation of the file is used for any route that was asked for.
LoadValues_AnyRoute ==
  /\ phase = "load"
  /\ \E file \in StoredConfigs :
       /\ file.state = "valid" \/ (file.state = "absent" /\ ~call.config)
       /\ route' = (IF call.route = "none" THEN LoadedRoute(file) ELSE call.route)
       /\ confirmed' = (IF call.confirm # "none" THEN FlagConfirmation(call)
                        ELSE [value |-> file.confirmed, of |-> LoadedRoute(file)])
       /\ endpoint' = (IF call.url = "none" THEN file.kvm ELSE call.url = "good")
       /\ phase' = "contract"
  /\ UNCHANGED <<verified, Effects>>

\* The only reading of the file. Without a stored endpoint kvm needs a URL, and
\* wake needs a valid host, which the built-in defaults do not have.
LoadValues ==
  /\ phase = "load"
  /\ \/ /\ \E file \in StoredConfigs :
             /\ Loads(file)
             /\ call.command = "kvm" /\ call.url = "none" => file.kvm
             /\ route' = LoadedRoute(file)
             /\ confirmed' = (IF call.confirm # "none" THEN FlagConfirmation(call)
                              ELSE [value |-> file.confirmed, of |-> LoadedRoute(file)])
             /\ endpoint' = (IF call.url = "none" THEN file.kvm ELSE call.url = "good")
        /\ phase' = "contract"
        /\ UNCHANGED <<verified, Effects>>
     \/ Exit("usage")

\* verifyRemoteHandoffContract, for the route in force.
VerifyContract ==
  /\ phase = "contract"
  /\ \/ /\ fresh
        /\ verified' = verified \cup {route}
        /\ phase' = (IF call.command = "wake" THEN "validate" ELSE "kvmContract")
        /\ UNCHANGED <<route, confirmed, endpoint, Effects>>
     \/ Exit("blocked")

\* cfg.Validate of wake.
ValidateConfig ==
  /\ phase = "validate"
  /\ Proceed("plan") \/ Exit("usage")

\* verifyHardwareKVMContract, then ValidateEndpoint.
VerifyKvmContract ==
  /\ phase = "kvmContract"
  /\ \/ fresh /\ endpoint /\ Proceed("discover")
     \/ ~fresh /\ Exit("blocked")
     \/ ~endpoint /\ Exit("usage")

\* The launcher; for map the preflight report and an Embedded client.
DiscoverTool ==
  /\ phase = "discover"
  /\ Proceed("plan") \/ Exit("blocked") \/ Exit("usage")

\* kvm.BuildDiscoveredPlan and wol.BuildPlan want both; map wants neither.
Consented == confirmed.value /\ call.acknowledged

MayPlan == call.command = "map" \/ Consented

BuildPlans ==
  /\ phase = "plan"
  /\ \/ MayPlan /\ ~call.dryRun /\ call.wake /\ Proceed("wake")
     \/ MayPlan /\ ~call.dryRun /\ ~call.wake /\ Proceed("start")
     \/ MayPlan /\ call.dryRun /\ Exit("ok")
     \/ Exit("blocked")

-----------------------------------------------------------------------------
(* Effects.                                                                *)

\* wol.Execute: the context is asked before the socket is opened.
SendPacket ==
  /\ phase = "wake"
  /\ \/ /\ ~interrupted
        /\ packets' = packets + 1
        /\ phase' = CASE call.command = "wake" -> "ok"
                      [] call.delay -> "waiting"
                      [] OTHER -> "start"
        /\ UNCHANGED <<Values, process>>
     \/ Exit("internal")

Wait ==
  /\ phase = "waiting"
  /\ \/ Proceed("start")
     \/ interrupted /\ Exit("internal")

\* kvm.Execute and remote.Execute.
StartProcess ==
  /\ phase = "start"
  /\ \/ /\ ~interrupted
        /\ process' = TRUE
        /\ phase' = "running"
        /\ UNCHANGED <<Values, packets>>
     \/ Exit("internal")

ProcessEnds ==
  /\ phase = "running"
  /\ Exit("ok") \/ Exit("internal")

CommandStep ==
  /\ \/ Begin \/ LoadValues \/ VerifyContract \/ ValidateConfig \/ VerifyKvmContract
     \/ DiscoverTool \/ BuildPlans \/ SendPacket \/ Wait \/ StartProcess \/ ProcessEnds
  /\ UNCHANGED <<call, fresh, interrupted>>

Expire ==
  /\ ~Done
  /\ fresh
  /\ fresh' = FALSE
  /\ UNCHANGED <<call, interrupted, phase, Values, Effects>>

Interrupt ==
  /\ ~Done
  /\ ~interrupted
  /\ interrupted' = TRUE
  /\ UNCHANGED <<call, fresh, phase, Values, Effects>>

CommandInit ==
  /\ call \in {c \in Calls : Accepted(c)}
  /\ fresh = TRUE
  /\ interrupted = FALSE
  /\ phase = "begin"
  /\ route = "windows"
  /\ confirmed = [value |-> FALSE, of |-> "flag"]
  /\ endpoint = FALSE
  /\ verified = {}
  /\ packets = 0
  /\ process = FALSE

CommandNext == CommandStep \/ Expire \/ Interrupt

CommandSpec == CommandInit /\ [][CommandNext]_callVars

-----------------------------------------------------------------------------
\* A packet is sent and a browser started only live, acknowledged, for a host
\* confirmed by this invocation's flag or by the configuration of the very route
\* whose contract was in force, and no more than one packet (runRemoteKVM,
\* runRemoteWake: the route, its confirmation and its contract come from
\* different places).
DirectEffectsConsented ==
  /\ packets > 0 \/ (process /\ call.command = "kvm") =>
       /\ ~call.dryRun
       /\ call.acknowledged
       /\ confirmed.value
       /\ confirmed.of \in {"flag", route}
       /\ route \in verified
  /\ process => ~call.dryRun
  /\ packets <= 1
=============================================================================
