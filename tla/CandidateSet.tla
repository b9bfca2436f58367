----------------------------- MODULE CandidateSet -----------------------------
(***************************************************************************)
(* The set of native package candidates (internal/productionpackage, and   *)
(* candidate-set and verify-candidate-attestations of nativepackagestage). *)
(* Each package is derived from the published archive, the staging tree    *)
(* and its bytes; its payload is inspected; the release is rechecked; then *)
(* a record of the set is published, or the record and the packages are    *)
(* authenticated as the subjects of a workflow run.  Every file is read    *)
(* several times, and files, release and run change between the reads.     *)
(***************************************************************************)
EXTENDS Naturals

CONSTANT MaxChanges   \* bounds what others change

VARIABLES
  command,    \* "record" or "attested"
  package,    \* the package file of each cell
  tree,       \* its staging tree, named after the archive it is made from
  live,       \* the archives that the release publishes now
  recordFile, \* the packages that the given or published record lists
  own,        \* the file under the record's name is the one that was linked
  runs,       \* the latest attempt of the workflow run
  statements, \* what attempts have attested: records with packages
  place, at,
  summary,    \* the digests of the verified candidates
  snapshot,   \* the bytes that are inspected
  run,        \* the attempt that was authenticated
  pass,       \* the number of passes over the packages since the release was
              \* last rechecked
  changes,
  inspected,  \* history: the packages whose payload matched the staging
  fresh       \* history: the packages read since that recheck

vars == <<command, package, tree, live, recordFile, own, runs, statements, place, at, summary, snapshot,
          run, pass, changes, inspected, fresh>>

Cells == 1..2
Facts == "a"     \* the archives of the authenticated release

\* Package files: two that carry what is in archive a, and one that does not.
Packages == {"a1", "a2", "b1"}
Payload(p) == IF p = "b1" THEN "b" ELSE "a"

NoRecord == [c \in Cells |-> "none"]
Records == {[c \in Cells |-> "a1"], [c \in Cells |-> "a2"], [c \in Cells |-> IF c = 1 THEN "a1" ELSE "b1"]}

CandidateInit ==
  /\ command \in {"record", "attested"}
  /\ package \in [Cells -> Packages]
  /\ tree \in [Cells -> {"a", "b"}]
  /\ live = Facts
  /\ recordFile \in IF command = "record" THEN {NoRecord} ELSE Records
  /\ own = FALSE /\ runs = 1
  /\ statements \in SUBSET (IF command = "record" THEN {} ELSE {<<1, r>> : r \in Records})
  /\ place = "derive" /\ at = 1 /\ summary = NoRecord /\ snapshot = "none" /\ run = 0 /\ pass = 1
  /\ changes = 0 /\ inspected = {} /\ fresh = {}

Ended == place \in {"published", "accepted", "refused"}

EachThen(p) == IF at = 1 THEN at' = 2 /\ UNCHANGED place ELSE at' = 1 /\ place' = p

\* Any read, request or deadline may fail; the record that was linked is then
\* removed, if it still has its name and the removal succeeds.
Refuse ==
  /\ ~Ended
  /\ place' = "refused"
  /\ \/ UNCHANGED <<recordFile, own>>
     \/ own /\ own' = FALSE /\ recordFile' = NoRecord
  /\ UNCHANGED <<command, package, tree, live, runs, statements, at, summary, snapshot, run, pass,
                 changes, inspected, fresh>>

-----------------------------------------------------------------------------
(* One candidate. *)

\* The tree is complete and the one that the published archive makes.
Derivable(c) == tree[c] = Facts

\* The candidate as derived now is the one that was recorded.
Verify(c) == Derivable(c) /\ package[c] = summary[c]

\* The metadata is written to a private directory for the later checks.
Build ==
  /\ place = "derive"
  /\ Derivable(at)
  /\ summary' = [summary EXCEPT ![at] = package[at]]
  /\ EachThen("set")
  /\ UNCHANGED <<command, package, tree, live, recordFile, own, runs, statements, snapshot, run, pass,
                 changes, inspected, fresh>>

-----------------------------------------------------------------------------
(* VerifyPayloadSet. *)

VerifySet ==
  /\ place = "set"
  /\ Verify(at)
  /\ EachThen("snapshot")
  /\ UNCHANGED <<command, package, tree, live, recordFile, own, runs, statements, summary, snapshot, run,
                 pass, changes, inspected, fresh>>

\* The candidate is verified again; then its bytes are read privately.
Snapshot ==
  /\ place = "snapshot"
  /\ Verify(at)
  /\ snapshot' = package[at]
  /\ place' = "inspect"
  /\ UNCHANGED <<command, package, tree, live, recordFile, own, runs, statements, at, summary, run, pass,
                 changes, inspected, fresh>>

\* The files of the package are those of the staging manifest.
MatchInspectedPayload(p, c) == Payload(p) = tree[c]

Inspect ==
  /\ place = "inspect"
  /\ tree[at] = Facts                       \* payloadStagingManifest
  /\ MatchInspectedPayload(snapshot, at)
  /\ inspected' = inspected \cup {<<at, snapshot>>}
  /\ snapshot' = "none"
  /\ IF at = 1 THEN at' = 2 /\ place' = "snapshot" ELSE at' = 1 /\ place' = "release"
  /\ UNCHANGED <<command, package, tree, live, recordFile, own, runs, statements, summary, run, pass,
                 changes, fresh>>

\* The live release is rechecked; every check of the packages begins anew.
RecheckRelease ==
  /\ place \in {"release", "release2"}
  /\ live = Facts
  /\ fresh' = {}
  /\ place' = (IF place = "release2" /\ command = "attested" THEN "set" ELSE "again")
  /\ UNCHANGED <<command, package, tree, live, recordFile, own, runs, statements, at, summary, snapshot,
                 run, pass, changes, inspected>>

\* Mutant: the packages are not read again after the last live recheck.
Again_Skipped ==
  /\ place = "again"
  /\ Verify(at)
  /\ fresh' = IF pass = 1 THEN fresh \cup {<<at, package[at]>>} ELSE fresh
  /\ EachThen(CASE command = "record" /\ pass = 1   -> "write"
                [] command = "record" /\ pass = 2   -> "link"
                [] command = "record"               -> "visible"
                [] command = "attested" /\ pass = 1 -> "given"
                [] OTHER                            -> "given2")
  /\ pass' = IF at = 2 THEN pass + 1 ELSE pass
  /\ UNCHANGED <<command, package, tree, live, recordFile, own, runs, statements, summary, snapshot, run,
                 changes, inspected>>

\* The packages are verified once more, after the release was.
Again ==
  /\ place = "again"
  /\ Verify(at)
  /\ fresh' = fresh \cup {<<at, package[at]>>}
  /\ EachThen(CASE command = "record" /\ pass = 1   -> "write"
                [] command = "record" /\ pass = 2   -> "link"
                [] command = "record"               -> "visible"
                [] command = "attested" /\ pass = 1 -> "given"
                [] OTHER                            -> "given2")
  /\ pass' = IF at = 2 THEN pass + 1 ELSE pass
  /\ UNCHANGED <<command, package, tree, live, recordFile, own, runs, statements, summary, snapshot, run,
                 changes, inspected>>

-----------------------------------------------------------------------------
(* candidate-set: publishCandidateSetRecord. *)

\* A private file has the record; packages and release are checked, then
\* linked under a name that must be free, and checked in full once more.
CheckLocal ==
  /\ place \in {"write", "linked"}
  /\ place = "linked" /\ at = 1 => own /\ recordFile = summary
  /\ Verify(at)
  /\ EachThen("release2")
  /\ UNCHANGED <<command, package, tree, live, recordFile, own, runs, statements, summary, snapshot, run,
                 pass, changes, inspected, fresh>>

LinkRecord ==
  /\ place = "link"
  /\ recordFile = NoRecord
  /\ recordFile' = summary /\ own' = TRUE
  /\ place' = "linked"
  /\ UNCHANGED <<command, package, tree, live, runs, statements, at, summary, snapshot, run, pass,
                 changes, inspected, fresh>>

\* The published file is still the own one, with the same bytes.
CheckRecord ==
  /\ place = "visible"
  /\ own /\ recordFile = summary
  /\ place' = "published"
  /\ UNCHANGED <<command, package, tree, live, recordFile, own, runs, statements, at, summary, snapshot,
                 run, pass, changes, inspected, fresh>>

-----------------------------------------------------------------------------
(* verify-candidate-attestations: verifyAttestedCandidateSet. *)

\* The given record is the derived one, and the package files are the listed.
CheckGiven ==
  /\ place \in {"given", "given2"}
  /\ recordFile = summary /\ package = summary
  /\ place' = IF place = "given" THEN "run" ELSE "run2"
  /\ UNCHANGED <<command, package, tree, live, recordFile, own, runs, statements, at, summary, snapshot,
                 run, pass, changes, inspected, fresh>>

\* The named attempt is the latest one, and was successful.
ReadRun ==
  /\ place = "run"
  /\ runs = 1
  /\ run' = runs /\ place' = "statement"
  /\ UNCHANGED <<command, package, tree, live, recordFile, own, runs, statements, at, summary, snapshot,
                 pass, changes, inspected, fresh>>

\* The attempt has attested a private copy of the record, with these packages.
VerifyStatement ==
  /\ place = "statement"
  /\ <<run, summary>> \in statements
  /\ place' = "release2"
  /\ UNCHANGED <<command, package, tree, live, recordFile, own, runs, statements, at, summary, snapshot,
                 run, pass, changes, inspected, fresh>>

RecheckRun ==
  /\ place = "run2"
  /\ runs = run
  /\ place' = "accepted"
  /\ UNCHANGED <<command, package, tree, live, recordFile, own, runs, statements, at, summary, snapshot,
                 run, pass, changes, inspected, fresh>>

-----------------------------------------------------------------------------

\* Others replace a package, a tree, a published asset or a record, or start
\* another attempt of the run.
Change ==
  /\ ~Ended /\ changes < MaxChanges
  /\ changes' = changes + 1
  /\ \/ \E c \in Cells, p \in Packages :
          package' = [package EXCEPT ![c] = p] /\ UNCHANGED <<tree, live, recordFile, own, runs>>
     \/ \E c \in Cells, v \in {"a", "b"} :
          tree' = [tree EXCEPT ![c] = v] /\ UNCHANGED <<package, live, recordFile, own, runs>>
     \/ live' = "b" /\ UNCHANGED <<package, tree, recordFile, own, runs>>
     \/ /\ recordFile' \in Records /\ own' \in {own, FALSE}
        /\ UNCHANGED <<package, tree, live, runs>>
     \/ runs' = 2 /\ UNCHANGED <<package, tree, live, recordFile, own>>
  /\ UNCHANGED <<command, statements, place, at, summary, snapshot, run, pass, inspected, fresh>>

CandidateNext ==
  \/ Build \/ VerifySet \/ Snapshot \/ Inspect \/ RecheckRelease \/ Again
  \/ CheckLocal \/ LinkRecord \/ CheckRecord
  \/ CheckGiven \/ ReadRun \/ VerifyStatement \/ RecheckRun \/ Refuse \/ Change

-----------------------------------------------------------------------------
(* Properties. *)

\* A record is published, or a set accepted, only for packages that carry what
\* the release publishes: each was inspected against the staging of the
\* published archive, and each had the recorded bytes when it was read after
\* the last live recheck of the release.  An accepted set was attested
\* as a whole by the run that was named.
RecordedPackagesAreReleased ==
  place \in {"published", "accepted"} =>
    /\ \A c \in Cells : Payload(summary[c]) = Facts
    /\ {<<c, summary[c]>> : c \in Cells} \subseteq inspected \cap fresh
    /\ place = "accepted" => <<1, summary>> \in statements
=============================================================================
