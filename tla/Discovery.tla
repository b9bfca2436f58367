------------------------------ MODULE Discovery ------------------------------
(***************************************************************************)
(* Passive discovery of a Moonlight client (internal/remote/remote.go).    *)
(*                                                                         *)
(* Discovery maps a client selection to the first known executable name    *)
(* that PATH resolves.  The state of the host it reads is one function,    *)
(* path, from executable names to the binary the name resolves to, or      *)
(* NoBinary.  path["flatpak"] is a binary only when both the launcher and  *)
(* the Moonlight Flatpak application are installed: flatpakClient refuses  *)
(* a launcher without the application, and the launcher is always the last *)
(* candidate, so the refusal and "not found" have the same effect.         *)
(***************************************************************************)
EXTENDS Naturals, Sequences

CONSTANTS
  Binaries,   \* absolute executable paths, bound to a file by RealEnvironment
  NoBinary    \* what a name that PATH does not resolve maps to

ASSUME BinariesAssumption == NoBinary \notin Binaries

Names == {"moonlight-qt", "moonlight-embedded", "moonlight", "flatpak"}
Flavors == {"qt", "embedded", "flatpak"}
Platforms == {"linux", "openbsd", "netbsd", "freebsd", "dragonfly"}
Selections == {"auto"} \cup Names

PathStates == [Names -> Binaries \cup {NoBinary}]

\* A discovered client; NoClient stands for the zero Client of a failed lookup.
Clients == [flavor : Flavors, binary : Binaries]
NoClient == [flavor |-> "none", binary |-> NoBinary]

genericMoonlightIsEmbedded(goos) == goos \in {"freebsd", "dragonfly"}

flatpakSupportedForPlatform(goos) == goos = "linux"

defaultMoonlightFlavorFor(goos) ==
  IF genericMoonlightIsEmbedded(goos) THEN "embedded" ELSE "qt"

\* The names discoverForPlatform looks up for a selection, ranked by the order
\* of the lookups, each with the flavor a hit is given.
Candidate(rank, name, flavor) == [rank |-> rank, name |-> name, flavor |-> flavor]

LookupCandidates(goos, preferred) ==
  CASE preferred = "auto" ->
         {Candidate(1, "moonlight-qt", "qt"),
          Candidate(2, "moonlight-embedded", "embedded"),
          Candidate(3, "moonlight", defaultMoonlightFlavorFor(goos))}
         \cup (IF flatpakSupportedForPlatform(goos)
               THEN {Candidate(4, "flatpak", "flatpak")} ELSE {})
    [] preferred = "moonlight-qt" ->
         {Candidate(1, "moonlight-qt", "qt")}
         \cup (IF genericMoonlightIsEmbedded(goos)
               THEN {} ELSE {Candidate(2, "moonlight", "qt")})
    [] preferred = "moonlight-embedded" ->
         {Candidate(1, "moonlight-embedded", "embedded")}
         \cup (IF genericMoonlightIsEmbedded(goos)
               THEN {Candidate(2, "moonlight", "embedded")} ELSE {})
    [] preferred = "moonlight" -> {Candidate(1, "moonlight", "embedded")}
    [] preferred = "flatpak" ->
         IF flatpakSupportedForPlatform(goos)
         THEN {Candidate(1, "flatpak", "flatpak")} ELSE {}

discoverForPlatform(path, goos, preferred) ==
  LET hits == {c \in LookupCandidates(goos, preferred) : path[c.name] # NoBinary}
  IN  IF hits = {}
      THEN NoClient
      ELSE LET first == CHOOSE c \in hits : \A d \in hits : c.rank <= d.rank
           IN  [flavor |-> first.flavor, binary |-> path[first.name]]

\* Mutant: the generic name is left to the fallbacks of the other selections.
AutomaticClientSelections_NoGeneric(goos) ==
  <<"moonlight-qt", "moonlight-embedded">>
    \o (IF flatpakSupportedForPlatform(goos) THEN <<"flatpak">> ELSE <<>>)

\* The selections automatic recovery tries, in order.
AutomaticClientSelections(goos) ==
  <<"moonlight-qt", "moonlight-embedded", "moonlight">>
    \o (IF flatpakSupportedForPlatform(goos) THEN <<"flatpak">> ELSE <<>>)

\* Mutant: recovery takes the generic executable for the legacy Embedded alias.
DiscoverAutomaticClient_LegacyAlias(path, goos, selection) ==
  discoverForPlatform(path, goos, selection)

\* Recovery gives a generic "moonlight" executable the flavor of the platform's
\* package convention; an explicit "moonlight" selection stays Embedded.
DiscoverAutomaticClientForPlatform(path, goos, selection) ==
  LET found == discoverForPlatform(path, goos, selection)
  IN  IF /\ selection = "moonlight"
         /\ ~genericMoonlightIsEmbedded(goos)
         /\ found # NoClient
      THEN [found EXCEPT !.flavor = "qt"]
      ELSE found

\* Qt options are also served by the Flatpak, which is Moonlight Qt.
streamClientFlavorMatches(required, actual) ==
  \/ required = "none"
  \/ actual = required
  \/ required = "qt" /\ actual = "flatpak"
=============================================================================
