---------------------------- MODULE CiAttestation ----------------------------
(***************************************************************************)
(* Attested CI builds and releases (internal/ciattestation).  A cross-build*)
(* job writes one document for each target that declares the digest of its *)
(* binary.  VerifySet reads the documents, or the archives and checksums   *)
(* of a release, and asks the GitHub CLI for each file.  The CLI reads the *)
(* path itself, so every file is read several times and may be rewritten   *)
(* between two reads.                                                      *)
(***************************************************************************)
EXTENDS Naturals, Sequences

CONSTANT MaxRewrites   \* bounds the changes of files

VARIABLES
  mode,       \* the kind of the request: "cross-build" or "release"
  doc,        \* the documents at the two subject paths
  archive,    \* the binary, or the release archive, of each target
  checksums,  \* what checksums.txt lists
  attested,   \* the versions that the expected run attested
  rewrites,
  place,      \* what VerifySet does next
  at,         \* the document or the target it does it for
  claims,     \* the bytes whose digests are verified, by file
  work,       \* the files that are still to be verified for this document
  confirmed   \* history: the files read once more after the CLI confirmed them

vars == <<mode, doc, archive, checksums, attested, rewrites, place, at, claims, work, confirmed>>

Paths == 1..2
Targets == 1..2
Versions == {"a", "b"}

\* A document is of a run and a target, and declares one binary.
Document(run, t, v) == [run |-> run, target |-> t, declares |-> v]
NoDocument == Document("none", 1, "a")

\* A subject path is free, or has a document of another run or for target 1.
CiInit ==
  /\ mode \in {"cross-build", "release"}
  /\ doc \in [Paths -> {NoDocument, Document("expected", 1, "a"), Document("earlier", 2, "a")}]
  /\ archive \in [Targets -> Versions]
  /\ checksums \in [Targets -> Versions]
  /\ attested \in SUBSET Versions
  /\ rewrites = 0
  /\ place = "generate"
  /\ at = 1 /\ claims = <<>> /\ work = <<>> /\ confirmed = {}

Current(n) ==
  CASE n[1] = "document" -> doc[n[2]] [] n[1] = "checksums" -> checksums [] OTHER -> archive[n[2]]

\* The certificate of an attestation of these bytes names the expected source,
\* workflow and run; a document is attested with the binary that its run built.
Certified(n) ==
  CASE n[1] = "document"  -> doc[n[2]].declares \in attested /\ doc[n[2]].run = "expected"
    [] n[1] = "checksums" -> \A t \in Targets : checksums[t] \in attested
    [] OTHER              -> archive[n[2]] \in attested

\* The signed statement names the digest that is being verified.
Named(n) == Current(n) = claims[n]

\* One of the attestations that the CLI returns matches.
Authenticated(n) == Certified(n) /\ Named(n)

Claim(n, c) == [m \in DOMAIN claims \cup {n} |-> IF m = n THEN c ELSE claims[m]]

Ended == place \in {"accepted", "refused"}

\* Any read, invocation or deadline may fail.
Refuse ==
  /\ ~Ended
  /\ place' = "refused"
  /\ UNCHANGED <<mode, doc, archive, checksums, attested, rewrites, at, claims, work, confirmed>>

-----------------------------------------------------------------------------
(* Generation. *)

Hashed(t) == archive[t]

\* The document of a job for target t.
Build(t) == Document("expected", t, Hashed(t))

\* An existing document is never replaced.
WriteNew(p, d) == doc[p] = NoDocument /\ doc' = [doc EXCEPT ![p] = d]

GenerateFile ==
  /\ place = "generate" /\ mode = "cross-build"
  /\ \E p \in Paths, t \in Targets : WriteNew(p, Build(t))
  /\ UNCHANGED <<mode, archive, checksums, attested, rewrites, place, at, claims, work, confirmed>>

VerifySet ==
  /\ place = "generate" /\ mode = "cross-build"
  /\ place' = "load"
  /\ UNCHANGED <<mode, doc, archive, checksums, attested, rewrites, at, claims, work, confirmed>>

VerifyReleaseSet ==
  /\ place = "generate" /\ mode = "release"
  /\ place' = "read"
  /\ UNCHANGED <<mode, doc, archive, checksums, attested, rewrites, at, claims, work, confirmed>>

-----------------------------------------------------------------------------
(* The documents of a cross-build set. *)

OfExpectedSource(d) == d.run = "expected"

LoadDocument ==
  /\ place = "load"
  /\ OfExpectedSource(doc[at])
  /\ claims' = Claim(<<"document", at>>, doc[at])
  /\ IF at = 1 THEN at' = 2 /\ UNCHANGED place ELSE at' = 1 /\ place' = "shape"
  /\ UNCHANGED <<mode, doc, archive, checksums, attested, rewrites, work, confirmed>>

\* Mutant: the number of documents is compared, not their targets.
ValidateSetShape_Counted ==
  /\ place = "shape"
  /\ place' = "hash"
  /\ UNCHANGED <<mode, doc, archive, checksums, attested, rewrites, at, claims, work, confirmed>>

\* One document for each target.
ValidateSetShape ==
  /\ place = "shape"
  /\ {claims[<<"document", p>>].target : p \in Paths} = Targets
  /\ place' = "hash"
  /\ UNCHANGED <<mode, doc, archive, checksums, attested, rewrites, at, claims, work, confirmed>>

\* The declared binary is hashed; then both files are authenticated.
HashBinary ==
  /\ place = "hash"
  /\ LET d == claims[<<"document", at>>]
         n == <<"binary", d.target>>
     IN  /\ Hashed(d.target) = d.declares
         /\ claims' = Claim(n, d.declares)
         /\ work' = <<<<"document", at>>, n>>
  /\ place' = "ask"
  /\ UNCHANGED <<mode, doc, archive, checksums, attested, rewrites, at, confirmed>>

-----------------------------------------------------------------------------
(* The files of a release. *)

ReadArchive ==
  /\ place = "read"
  /\ claims' = Claim(<<"archive", at>>, archive[at])
  /\ IF at = 1 THEN at' = 2 /\ UNCHANGED place ELSE at' = 1 /\ place' = "checksums"
  /\ UNCHANGED <<mode, doc, archive, checksums, attested, rewrites, work, confirmed>>

\* checksums.txt lists exactly the digests that were just computed.
VerifyReleaseChecksums ==
  /\ place = "checksums"
  /\ \A t \in Targets : checksums[t] = claims[<<"archive", t>>]
  /\ claims' = Claim(<<"checksums", 1>>, checksums)
  /\ work' = <<<<"checksums", 1>>, <<"archive", 1>>, <<"archive", 2>>>>
  /\ place' = "before"
  /\ UNCHANGED <<mode, doc, archive, checksums, attested, rewrites, at, confirmed>>

\* A release file is read again before the CLI is asked for it.
RereadSubject ==
  /\ place = "before"
  /\ Current(Head(work)) = claims[Head(work)]
  /\ place' = "ask"
  /\ UNCHANGED <<mode, doc, archive, checksums, attested, rewrites, at, claims, work, confirmed>>

-----------------------------------------------------------------------------
(* One file: verifyGitHubArtifact. *)

\* The CLI reads the path itself, and looks its digest up.
AskGitHub ==
  /\ place = "ask"
  /\ Authenticated(Head(work))
  /\ place' = "after"
  /\ UNCHANGED <<mode, doc, archive, checksums, attested, rewrites, at, claims, work, confirmed>>

\* The file is read once more; the next one follows, or the next document.
RecheckArtifact ==
  /\ place = "after"
  /\ Current(Head(work)) = claims[Head(work)]
  /\ confirmed' = confirmed \cup {Head(work)}
  /\ work' = Tail(work)
  /\ CASE Len(work) > 1 -> place' = (IF mode = "release" THEN "before" ELSE "ask") /\ UNCHANGED at
       [] Len(work) = 1 /\ mode = "cross-build" /\ at = 1 -> place' = "hash" /\ at' = 2
       [] OTHER -> place' = "accepted" /\ UNCHANGED at
  /\ UNCHANGED <<mode, doc, archive, checksums, attested, rewrites, claims>>

-----------------------------------------------------------------------------

\* Another process rewrites a file.
Rewrite ==
  /\ ~Ended /\ rewrites < MaxRewrites
  /\ rewrites' = rewrites + 1
  /\ \/ \E t \in Targets, v \in Versions : archive' = [archive EXCEPT ![t] = v] /\ UNCHANGED <<doc, checksums>>
     \/ mode = "release" /\ \E t \in Targets, v \in Versions :
          checksums' = [checksums EXCEPT ![t] = v] /\ UNCHANGED <<doc, archive>>
     \/ mode = "cross-build" /\ \E p \in Paths, v \in Versions :
          doc' = [doc EXCEPT ![p].declares = v] /\ UNCHANGED <<archive, checksums>>
  /\ UNCHANGED <<mode, attested, place, at, claims, work, confirmed>>

CiNext ==
  \/ GenerateFile \/ VerifySet \/ VerifyReleaseSet \/ LoadDocument \/ ValidateSetShape \/ HashBinary
  \/ ReadArchive \/ VerifyReleaseChecksums \/ RereadSubject
  \/ AskGitHub \/ RecheckArtifact \/ Refuse \/ Rewrite

-----------------------------------------------------------------------------
(* Properties. *)

\* A set is accepted only for the whole set of targets, with versions that the
\* expected run attested, and consistently: each document was read with the
\* digest of the binary that was authenticated for its target, checksums.txt
\* with the digests of the archives that were; and each of these files had
\* the authenticated bytes when it was read after the CLI had answered.
AcceptedSetIsAttested ==
  place = "accepted" =>
    LET Of(kind) == {n \in DOMAIN claims : n[1] = kind}
        main == IF mode = "release" THEN "archive" ELSE "binary"
    IN  /\ confirmed = DOMAIN claims
        /\ Of(main) = {main} \X Targets
        /\ \A n \in Of(main) : claims[n] \in attested
        /\ \A n \in Of("document") :
             claims[n].run = "expected" /\ claims[n].declares = claims[<<"binary", claims[n].target>>]
        /\ \A n \in Of("checksums"), t \in Targets : claims[n][t] = claims[<<"archive", t>>]
=============================================================================
