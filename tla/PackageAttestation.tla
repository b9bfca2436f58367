-------------------------- MODULE PackageAttestation --------------------------
(***************************************************************************)
(* Attested native packages (internal/nativepackageattestation).  The job  *)
(* of a package checks its staging tree and the log of its installation,   *)
(* hashes package, tree and log into one document and leaves it to be      *)
(* attested.  The verifier repeats the checks, the hashes and the          *)
(* authentication for the whole set.  What a file says is checked in one   *)
(* read and what it is in another, so a file may change in between.        *)
(***************************************************************************)
EXTENDS Naturals, FiniteSets

CONSTANT MaxRewrites   \* bounds the changes of files

VARIABLES
  files,      \* the bytes at each path
  draft,      \* the document this job is writing
  built,      \* the documents the jobs wrote
  attested,   \* the statements of the run, each the contents it has signed
  carried,    \* the documents at the verifier's two subject paths
  rewrites, touched, \* the changes, and the sides that saw one
  place, at,
  loaded,     \* the documents Verify read
  work,       \* what of this document is still to be hashed or authenticated
  listed,     \* the paths met in documents
  asked,      \* what the CLI has just confirmed
  confirmed   \* history: read once more, unchanged, after that

vars == <<files, draft, built, attested, carried, rewrites, touched, place, at, loaded, work,
          listed, asked, confirmed>>

Packages == 1..2
Roles == {"package", "staging", "log"}
Paths == Roles \X Packages

\* A file is for a package, and a tree or log may not say what is required.
Bytes == {"1", "2", "bad"}
Says(t) == IF t = 1 THEN "1" ELSE "2"

NoSubjects == [r \in {} |-> <<>>]
NoDocument == [run |-> "none", package |-> 0, path |-> NoSubjects, sha256 |-> NoSubjects]
Nothing == <<<<"nothing", 0>>, NoDocument>>

DocumentItem(d) == <<<<"document", 0>>, d>>
Subjects(d) == {<<d.path[r], d.sha256[r]>> : r \in DOMAIN d.sha256}

\* A digest tells what is in a file, and nothing of its path.
Content(w) == <<IF w[1][1] = "document" THEN "document" ELSE "bytes", w[2]>>

PackageInit ==
  /\ files = [p \in Paths |-> Says(p[2])]
  /\ draft = NoDocument
  /\ built = [t \in Packages |-> NoDocument] /\ carried = built /\ loaded = built
  /\ attested = {} /\ rewrites = 0 /\ touched = {}
  /\ place = "begin" /\ at = 1 /\ work = {} /\ listed = {} /\ asked = Nothing /\ confirmed = {}

Ended == place \in {"accepted", "refused"}

Refuse ==
  /\ ~Ended
  /\ place' = "refused"
  /\ UNCHANGED <<files, draft, built, attested, carried, rewrites, touched, at, loaded, work,
                 listed, asked, confirmed>>

-----------------------------------------------------------------------------
(* The checks that the job and the verifier share. *)

\* A complete staging tree whose manifest names this package and target.
VerifyStagingRoot(t, p) == files[p] = Says(t)

\* The log has each marker once: this package, installed and removed.
ValidateInstallEvidence(t, p) == files[p] = Says(t)

-----------------------------------------------------------------------------
(* The job of package number at. *)

\* A job may be given the package file of the other one.
Begin ==
  /\ place = "begin"
  /\ \E p \in {<<"package", at>>, <<"package", 1>>} :
       draft' = [run |-> "expected", package |-> at, sha256 |-> NoSubjects,
                 path |-> [r \in Roles |-> IF r = "package" THEN p ELSE <<r, at>>]]
  /\ VerifyStagingRoot(at, <<"staging", at>>)
  /\ place' = "log"
  /\ UNCHANGED <<files, built, attested, carried, rewrites, touched, at, loaded, work, listed,
                 asked, confirmed>>

CheckLog ==
  /\ place = "log"
  /\ ValidateInstallEvidence(at, draft.path["log"])
  /\ place' = "write"
  /\ UNCHANGED <<files, draft, built, attested, carried, rewrites, touched, at, loaded, work,
                 listed, asked, confirmed>>

\* One file is hashed: the package, then the tree, then the log.
Before(r) == CASE r = "package" -> {} [] r = "staging" -> {"package"} [] OTHER -> {"package", "staging"}

HashPath ==
  /\ place = "write"
  /\ \E r \in Roles \ DOMAIN draft.sha256 :
       /\ Before(r) \subseteq DOMAIN draft.sha256
       /\ draft' = [draft EXCEPT !.sha256 =
            [s \in DOMAIN @ \cup {r} |-> IF s = r THEN files[draft.path[r]] ELSE @[s]]]
  /\ UNCHANGED <<files, built, attested, carried, rewrites, touched, place, at, loaded, work,
                 listed, asked, confirmed>>

\* A document with a subject of every role.
ValidateDocument(d) == DOMAIN d.sha256 = Roles

WriteNew ==
  /\ place = "write"
  /\ ValidateDocument(draft)
  /\ built[at] = NoDocument
  /\ built' = [built EXCEPT ![at] = draft]
  /\ place' = "attest"
  /\ UNCHANGED <<files, draft, attested, carried, rewrites, touched, at, loaded, work, listed,
                 asked, confirmed>>

\* One statement of the workflow is for the document of a job and for the files
\* it names, with the bytes they have then.
Signed(t) ==
  {Content(DocumentItem(built[t]))} \cup {Content(<<s[1], files[s[1]]>>) : s \in Subjects(built[t])}

\* Some packages are made by one job and have one statement.
Attest ==
  /\ place = "attest"
  /\ \/ at = 1 /\ attested' \in {{}, {Signed(1)}}
     \/ at = 2 /\ attested = {} /\ attested' = {Signed(1) \cup Signed(2)}
     \/ at = 2 /\ attested # {} /\ attested' = attested \cup {Signed(2)}
  /\ draft' = NoDocument
  /\ IF at = 1 THEN at' = 2 /\ place' = "begin" ELSE at' = 1 /\ place' = "carry"
  /\ UNCHANGED <<files, built, carried, rewrites, touched, loaded, work, listed, asked, confirmed>>

\* A document may be of an earlier run, lack a subject, or be given twice.
Documents ==
  {built[1], built[2], [built[2] EXCEPT !.run = "earlier"],
   [built[2] EXCEPT !.sha256 = [r \in Roles \ {"log"} |-> @[r]]]}

Carry ==
  /\ place = "carry"
  /\ carried' \in [1..2 -> Documents]
  /\ place' = "load"
  /\ UNCHANGED <<files, draft, built, attested, rewrites, touched, at, loaded, work, listed,
                 asked, confirmed>>

-----------------------------------------------------------------------------
(* The verifier. *)

ValidateExpectedSource(d) == d.run = "expected"

LoadDocument ==
  /\ place = "load"
  /\ ValidateDocument(carried[at]) /\ ValidateExpectedSource(carried[at])
  /\ loaded' = [loaded EXCEPT ![at] = carried[at]]
  /\ IF at = 1 THEN at' = 2 /\ UNCHANGED place ELSE at' = 1 /\ place' = "shape"
  /\ UNCHANGED <<files, draft, built, attested, carried, rewrites, touched, work, listed, asked, confirmed>>

\* Each package of the fixed set once.
ValidateSetShape ==
  /\ place = "shape"
  /\ {loaded[i].package : i \in 1..2} = Packages
  /\ place' = "staging"
  /\ UNCHANGED <<files, draft, built, attested, carried, rewrites, touched, at, loaded, work,
                 listed, asked, confirmed>>

VerifyStagingDocument ==
  /\ place = "staging"
  /\ VerifyStagingRoot(loaded[at].package, loaded[at].path["staging"])
  /\ place' = "evidence"
  /\ UNCHANGED <<files, draft, built, attested, carried, rewrites, touched, at, loaded, work,
                 listed, asked, confirmed>>

\* Mutant: the verifier leaves the log to the job.
VerifyEvidence_Skipped ==
  /\ place = "evidence"
  /\ work' = Subjects(loaded[at])
  /\ place' = "hash"
  /\ UNCHANGED <<files, draft, built, attested, carried, rewrites, touched, at, loaded, listed, asked, confirmed>>

VerifyEvidence ==
  /\ place = "evidence"
  /\ ValidateInstallEvidence(loaded[at].package, loaded[at].path["log"])
  /\ work' = Subjects(loaded[at])
  /\ place' = "hash"
  /\ UNCHANGED <<files, draft, built, attested, carried, rewrites, touched, at, loaded, listed, asked, confirmed>>

\* A declared file belongs to no other document and has the declared bytes.
HashSubject ==
  /\ place = "hash"
  /\ \E s \in work :
       /\ s[1] \notin listed /\ files[s[1]] = s[2]
       /\ listed' = listed \cup {s[1]}
       /\ IF work = {s}
            THEN work' = {DocumentItem(loaded[at])} \cup Subjects(loaded[at]) /\ place' = "ask"
            ELSE work' = work \ {s} /\ UNCHANGED place
  /\ UNCHANGED <<files, draft, built, attested, carried, rewrites, touched, at, loaded, asked, confirmed>>

\* What the path of an item holds now.
Current(w) == IF w[1][1] = "document" THEN DocumentItem(carried[at]) ELSE <<w[1], files[w[1]]>>

\* The CLI finds a statement of the expected run for what the path holds, and
\* the statement has a subject, under whatever name, with the expected digest.
VerifyGitHubOutput(w) == \E S \in attested : {Content(Current(w)), Content(w)} \subseteq S

\* The CLI reads the path itself; the document is the first it is asked for.
AskGitHub ==
  /\ place = "ask"
  /\ \E w \in work :
       /\ DocumentItem(loaded[at]) \in work => w[1][1] = "document"
       /\ VerifyGitHubOutput(w)
       /\ asked' = w /\ work' = work \ {w}
  /\ place' = "after"
  /\ UNCHANGED <<files, draft, built, attested, carried, rewrites, touched, at, loaded, listed, confirmed>>

VerifyGitHubArtifact ==
  /\ place = "after"
  /\ Current(asked) = asked
  /\ confirmed' = confirmed \cup {asked}
  /\ asked' = Nothing
  /\ CASE work # {}           -> place' = "ask" /\ UNCHANGED at
       [] work = {} /\ at = 1 -> place' = "staging" /\ at' = 2
       [] OTHER               -> place' = "accepted" /\ UNCHANGED at
  /\ UNCHANGED <<files, draft, built, attested, carried, rewrites, touched, loaded, work, listed>>

-----------------------------------------------------------------------------

Verifying == place \notin {"begin", "log", "write", "attest", "carry"}

Rewrite ==
  /\ ~Ended /\ rewrites < MaxRewrites
  /\ rewrites' = rewrites + 1
  /\ touched' = touched \cup {IF Verifying THEN "verifier" ELSE "job"}
  /\ \/ \E p \in Paths, b \in Bytes : files' = [files EXCEPT ![p] = b] /\ UNCHANGED carried
     \/ /\ Verifying
        /\ \E i \in 1..2, d \in Documents : carried' = [carried EXCEPT ![i] = d] /\ UNCHANGED files
  /\ UNCHANGED <<draft, built, attested, place, at, loaded, work, listed, asked, confirmed>>

PackageNext ==
  \/ Begin \/ CheckLog \/ HashPath \/ WriteNew \/ Attest \/ Carry
  \/ LoadDocument \/ ValidateSetShape \/ VerifyStagingDocument \/ VerifyEvidence \/ HashSubject
  \/ AskGitHub \/ VerifyGitHubArtifact \/ Refuse \/ Rewrite

-----------------------------------------------------------------------------
(* Properties. *)

\* A set of packages is accepted only if its documents are those of the jobs,
\* one for each package and with package files of their own; if the files had
\* the listed bytes after the CLI had answered, and these bytes were attested
\* (under whatever name: only digests are compared); and, as long as files
\* change on at most one of the two sides, if the listed tree and log are really
\* those of a package that was installed and removed.
AcceptedWasInstalled ==
  place = "accepted" =>
    /\ \A t \in Packages : \E i \in 1..2 : loaded[i] = built[t]
    /\ \A i \in 1..2 : {DocumentItem(loaded[i])} \cup Subjects(loaded[i]) \subseteq confirmed
    /\ \A i \in 1..2 : \A s \in Subjects(loaded[i]) : Content(s) \in UNION attested
    /\ loaded[1].path["package"] # loaded[2].path["package"]
    /\ touched # {"job", "verifier"} =>
         \A i \in 1..2, r \in {"staging", "log"} : loaded[i].sha256[r] = Says(loaded[i].package)
=============================================================================
