----------------------------- MODULE ClientScan -----------------------------
(***************************************************************************)
(* The recovery search of internal/app/remote.go on a host that does not   *)
(* change: it walks AutomaticClientSelections, resolves each selection and *)
(* stops at the first client that is ready, has the required flavor and is *)
(* not the excluded executable.  The search is compared with the automatic *)
(* resolver, which looks the same names up in one pass.                    *)
(***************************************************************************)
EXTENDS Discovery

VARIABLES
  goos,       \* the platform
  path,       \* executable name -> binary
  need,       \* the flavor the options require
  excluded,   \* the executable that failed, or NoBinary
  unready,    \* the selections whose preflight report is not ready
  scan,       \* index in AutomaticClientSelections
  found       \* the client the search returned

scanVars == <<goos, path, need, excluded, unready, scan, found>>

ScanInit ==
  /\ goos \in Platforms
  /\ path \in PathStates
  /\ need \in {"none", "qt", "embedded"}
  /\ excluded \in Binaries \cup {NoBinary}
  /\ unready \in {{}, {"moonlight-qt"}, {"moonlight-embedded"}, {"moonlight"}}
  /\ scan = 1
  /\ found = NoClient

Searching == found = NoClient /\ scan <= Len(AutomaticClientSelections(goos))

Selection == AutomaticClientSelections(goos)[scan]

Resolution == DiscoverAutomaticClientForPlatform(path, goos, Selection)

Rejected(c) ==
  \/ Selection \in unready
  \/ c = NoClient
  \/ ~streamClientFlavorMatches(need, c.flavor)
  \/ excluded # NoBinary /\ c.binary = excluded

ScanNext ==
  \/ /\ Searching
     /\ IF Rejected(Resolution)
        THEN scan' = scan + 1 /\ UNCHANGED found
        ELSE found' = Resolution /\ UNCHANGED scan
     /\ UNCHANGED <<goos, path, need, excluded, unready>>
  \/ ~Searching /\ UNCHANGED scanVars

ScanSpec == ScanInit /\ [][ScanNext]_scanVars

\* The names a client may be installed under on the platform, with the flavor
\* the automatic resolver gives each.
Installed ==
  {[flavor |-> c.flavor, binary |-> path[c.name]] :
     c \in {d \in LookupCandidates(goos, "auto") : path[d.name] # NoBinary}}

\* A search that gives up has really seen every installed client: whatever it
\* left out has the wrong flavor, or is the excluded executable.
SearchComplete ==
  ~Searching /\ found = NoClient /\ unready = {} =>
    \A c \in Installed :
      ~streamClientFlavorMatches(need, c.flavor) \/ c.binary = excluded

\* Whatever the search returns is an installed client under the flavor the
\* automatic resolver would give it, and was not excluded.
SearchSound ==
  found # NoClient =>
    /\ found \in Installed
    /\ found.binary # excluded
    /\ streamClientFlavorMatches(need, found.flavor)

\* A recovery search returns a client that is installed and was not excluded,
\* and gives up only when it has seen every installed client
\* (discoverAutomaticStreamClientForFlavorExcluding).
SearchIsExact == SearchSound /\ SearchComplete

\* The comment on AutomaticClientSelections, "the same priority order used by
\* automatic discovery": with every client ready and none excluded, the search
\* and the automatic resolver choose the same client.
SearchOrderIsResolverOrder ==
  ~Searching /\ unready = {} /\ need = "none" /\ excluded = NoBinary =>
    found = discoverForPlatform(path, goos, "auto")
=============================================================================
