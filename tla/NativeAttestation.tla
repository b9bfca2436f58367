-------------------------- MODULE NativeAttestation --------------------------
(***************************************************************************)
(* Attested native test runs (internal/nativeattestation).  On each target *)
(* a job hashes its runtime binary and walks the directory of its evidence *)
(* into one document, which is attested and carried to the verifier with   *)
(* the files.  VerifySet authenticates the documents of all targets and    *)
(* every file they list.  Files may be rewritten between any two steps.    *)
(***************************************************************************)
EXTENDS Naturals, FiniteSets

CONSTANT MaxRewrites   \* bounds the changes of files after the jobs

VARIABLES
  files,      \* the bytes at each path
  built,      \* the documents the jobs wrote, by target
  attested,   \* the statements of the run, each the contents it has signed
  carried,    \* the documents at the verifier's two subject paths
  rewrites,
  place,
  at,         \* the target that builds, or the document that is verified
  loaded,     \* the documents VerifySet read
  listed,     \* the paths it has met in a document
  work,       \* what of this document is still to be hashed or authenticated
  asked,      \* what the CLI has just confirmed
  confirmed   \* history: read once more, unchanged, after that

vars == <<files, built, attested, carried, rewrites, place, at, loaded, listed, work, asked, confirmed>>

Targets == 1..2
Bytes == {"a", "b"}

\* Each target has a binary and evidence; both may list a file at one path.
Paths == {<<"binary", 1>>, <<"binary", 2>>, <<"evidence", 1>>, <<"evidence", 2>>, <<"shared", 0>>}

NoDocument == [run |-> "none", host |-> "none", target |-> 0, subjects |-> {}]
Nothing == <<<<"nothing", 0>>, NoDocument>>

DocumentItem(d) == <<<<"document", 0>>, d>>

\* A digest tells what is in a file, and nothing of its path.
Content(w) == <<IF w[1][1] = "document" THEN "document" ELSE "bytes", w[2]>>

RuntimeInit ==
  /\ \E shared \in BOOLEAN :
       files = [p \in Paths |-> IF p[1] = "shared" /\ ~shared THEN "absent" ELSE "a"]
  /\ built = [t \in Targets |-> NoDocument] /\ carried = built /\ loaded = built
  /\ attested = {} /\ rewrites = 0 /\ place = "build" /\ at = 1
  /\ listed = {} /\ work = {} /\ asked = Nothing /\ confirmed = {}

Ended == place \in {"accepted", "refused"}

Refuse ==
  /\ ~Ended
  /\ place' = "refused"
  /\ UNCHANGED <<files, built, attested, carried, rewrites, at, loaded, listed, work, asked, confirmed>>

-----------------------------------------------------------------------------
(* The jobs. *)

\* The walk meets every file of the evidence directory except the document.
EvidenceDirectory(t) == {<<"evidence", t>>, <<"shared", 0>>} \cap {p \in Paths : files[p] # "absent"}

\* The binary is hashed, and the directory is read.
BuildDocument ==
  /\ place = "build"
  /\ EvidenceDirectory(at) # {}
  /\ built' = [built EXCEPT ![at] = [run |-> "expected", host |-> "hosted", target |-> at,
                                     subjects |-> {<<<<"binary", at>>, files[<<"binary", at>>]>>}]]
  /\ work' = EvidenceDirectory(at)
  /\ place' = "walk"
  /\ UNCHANGED <<files, attested, carried, rewrites, at, loaded, listed, asked, confirmed>>

\* Its files are hashed one after the other; then the document is written.
HashEvidence ==
  /\ place = "walk"
  /\ \E p \in work :
       /\ built' = [built EXCEPT ![at].subjects = @ \cup {<<p, files[p]>>}]
       /\ work' = work \ {p}
       /\ IF work = {p} THEN place' = "attest" ELSE UNCHANGED place
  /\ UNCHANGED <<files, attested, carried, rewrites, at, loaded, listed, asked, confirmed>>

\* One statement of the workflow is for the document of the job and for the
\* files it names, with the bytes they have then.
Attest ==
  /\ place = "attest"
  /\ attested' = attested \cup
       {{Content(DocumentItem(built[at]))} \cup {Content(<<s[1], files[s[1]]>>) : s \in built[at].subjects}}
  /\ IF at = 1 THEN at' = 2 /\ place' = "build" ELSE at' = 1 /\ place' = "carry"
  /\ UNCHANGED <<files, built, carried, rewrites, loaded, listed, work, asked, confirmed>>

\* A document may be one of an earlier run, be edited, or be given twice.
Documents ==
  {built[1], built[2], [built[2] EXCEPT !.run = "earlier"], [built[2] EXCEPT !.host = "physical"],
   [built[2] EXCEPT !.subjects = {s \in @ : s[1][1] = "binary"}]}

Carry ==
  /\ place = "carry"
  /\ carried' \in [1..2 -> Documents]
  /\ place' = "load"
  /\ UNCHANGED <<files, built, attested, rewrites, at, loaded, listed, work, asked, confirmed>>

-----------------------------------------------------------------------------
(* The verifier. *)

OfExpectedSource(d) == d.run = "expected"

\* A document of the kind, host class, source and run that are expected.
LoadDocument ==
  /\ place = "load"
  /\ OfExpectedSource(carried[at]) /\ carried[at].host = "hosted"
  /\ loaded' = [loaded EXCEPT ![at] = carried[at]]
  /\ IF at = 1 THEN at' = 2 /\ UNCHANGED place ELSE at' = 1 /\ place' = "shape"
  /\ UNCHANGED <<files, built, attested, carried, rewrites, listed, work, asked, confirmed>>

ValidateSetShape ==
  /\ place = "shape"
  /\ {loaded[i].target : i \in 1..2} = Targets
  /\ work' = loaded[1].subjects
  /\ place' = "hash"
  /\ UNCHANGED <<files, built, attested, carried, rewrites, at, loaded, listed, asked, confirmed>>

\* After its last file a document and its files are to be authenticated.
HashedBut(w) ==
  IF work = {w}
  THEN work' = {DocumentItem(loaded[at])} \cup loaded[at].subjects /\ place' = "ask"
  ELSE work' = work \ {w} /\ UNCHANGED place

\* Mutant: a path that an earlier document lists is not refused.
HashSubject_Forgets ==
  /\ place = "hash"
  /\ \E s \in work :
       /\ files[s[1]] = s[2]
       /\ listed' = listed \cup {s[1]}
       /\ HashedBut(s)
  /\ UNCHANGED <<files, built, attested, carried, rewrites, at, loaded, asked, confirmed>>

\* A file that a document lists is listed by no other and has the declared bytes.
HashSubject ==
  /\ place = "hash"
  /\ \E s \in work :
       /\ s[1] \notin listed /\ files[s[1]] = s[2]
       /\ listed' = listed \cup {s[1]}
       /\ HashedBut(s)
  /\ UNCHANGED <<files, built, attested, carried, rewrites, at, loaded, asked, confirmed>>

\* What the path of an item holds now.
Current(w) == IF w[1][1] = "document" THEN DocumentItem(carried[at]) ELSE <<w[1], files[w[1]]>>

\* Mutant: any subject of the statement will do.
Authenticated_AnySubject(w) == \E S \in attested : Content(Current(w)) \in S

\* The CLI finds a statement of the expected run for what the path holds, and
\* the statement has a subject, under whatever name, with the expected digest.
Authenticated(w) == \E S \in attested : {Content(Current(w)), Content(w)} \subseteq S

\* The CLI reads the path itself.
AskGitHub ==
  /\ place = "ask"
  /\ \E w \in work :
       /\ DocumentItem(loaded[at]) \in work => w[1][1] = "document"
       /\ Authenticated(w)
       /\ asked' = w /\ work' = work \ {w}
  /\ place' = "after"
  /\ UNCHANGED <<files, built, attested, carried, rewrites, at, loaded, listed, confirmed>>

RecheckArtifact ==
  /\ place = "after"
  /\ Current(asked) = asked
  /\ confirmed' = confirmed \cup {asked}
  /\ asked' = Nothing
  /\ CASE work # {}           -> place' = "ask" /\ UNCHANGED <<at, work>>
       [] work = {} /\ at = 1 -> place' = "hash" /\ at' = 2 /\ work' = loaded[2].subjects
       [] OTHER               -> place' = "accepted" /\ UNCHANGED <<at, work>>
  /\ UNCHANGED <<files, built, attested, carried, rewrites, loaded, listed>>

-----------------------------------------------------------------------------

Rewrite ==
  /\ ~Ended /\ rewrites < MaxRewrites
  /\ rewrites' = rewrites + 1
  /\ \/ \E p \in Paths, b \in Bytes : files' = [files EXCEPT ![p] = b] /\ UNCHANGED carried
     \/ /\ place \notin {"build", "walk", "attest", "carry"}
        /\ \E i \in 1..2, d \in Documents : carried' = [carried EXCEPT ![i] = d] /\ UNCHANGED files
  /\ UNCHANGED <<built, attested, place, at, loaded, listed, work, asked, confirmed>>

RuntimeNext ==
  \/ BuildDocument \/ HashEvidence \/ Attest \/ Carry \/ LoadDocument \/ ValidateSetShape \/ HashSubject
  \/ AskGitHub \/ RecheckArtifact \/ Refuse \/ Rewrite

-----------------------------------------------------------------------------
(* Properties. *)

\* What the verifier accepts is what the jobs built: their documents, one for
\* each target; every file had the listed bytes when it was read after the CLI
\* had answered, and the run has attested these bytes; and no file counts as
\* evidence for two targets.  The bytes may have been attested under another
\* name: a digest is all that validateGitHubVerification compares.
AcceptedIsWhatWasBuilt ==
  place = "accepted" =>
    /\ \A t \in Targets : \E i \in 1..2 : loaded[i] = built[t]
    /\ \A i \in 1..2 : {DocumentItem(loaded[i])} \cup loaded[i].subjects \subseteq confirmed
    /\ \A i \in 1..2 : \A s \in loaded[i].subjects : Content(s) \in UNION attested
    /\ Cardinality(listed) = Cardinality(loaded[1].subjects) + Cardinality(loaded[2].subjects)
=============================================================================
