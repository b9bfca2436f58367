---------------------------- MODULE EvidenceChain ----------------------------
(***************************************************************************)
(* evidence v2 prepare, verify and promote (internal/app/evidence_v2.go)   *)
(* over the records of one validation run (internal/evidence) and the      *)
(* signatures of two reviewers (internal/evidencev2).  The files are read, *)
(* the artifact bundle of each record is hashed, and the chain of host,    *)
(* client and session records is evaluated at one time; a promotion looks  *)
(* at the clock once more and then at the payload only.  What a file said  *)
(* is chosen where it is first looked at; the embedded compatibility       *)
(* manifest, which records name, is taken to be fresh.                     *)
(***************************************************************************)
EXTENDS Integers

CONSTANT MaxClock   \* bounds the clock and every time a file may name

VARIABLES
  command,    \* "prepare", "verify" or "promote"
  policy,     \* the application's trust policy: when it ends, 0 if unprovisioned
  clock,
  place, at,  \* the step, and the record whose bundle is verified
  dir,        \* the bundle directory: what each of its names holds
  hashed,     \* the names hashed of it
  held,       \* history: what the verified bundles held when last listed
  sampled,    \* now, as PreparePayloadAt or VerifySetAt was given it
  payload,    \* the payload that was read or prepared
  records     \* the records, once they are evaluated

vars == <<command, policy, clock, place, at, dir, hashed, held, sampled, payload, records>>

Names == {"host", "client", "session"}
Declared == {"a1", "a2"}
Contents == {"absent", "declared", "other"}

NoRecords == [n \in {} |-> 0]
NoPayload == [expires |-> 0]
Closed == [f \in {} |-> "absent"]

Signature(k, t) == [key |-> k, at |-> t]

\* Keys of the policy; "short" ends before MaxClock, "revoked" is revoked.
Keys == {"observer", "reviewer", "self", "colleague", "short", "revoked"}

Key(k) ==
  CASE k = "observer"  -> [principal |-> "p1", organization |-> "o1", role |-> "observer", until |-> MaxClock + 1]
    [] k = "self"      -> [principal |-> "p1", organization |-> "o2", role |-> "reviewer", until |-> MaxClock + 1]
    [] k = "colleague" -> [principal |-> "p3", organization |-> "o1", role |-> "reviewer", until |-> MaxClock + 1]
    [] k = "short"     -> [principal |-> "p4", organization |-> "o4", role |-> "reviewer", until |-> MaxClock - 1]
    [] OTHER           -> [principal |-> "p2", organization |-> "o2", role |-> "reviewer", until |-> MaxClock + 1]

\* Key validity lies within the policy's.
KeyUntil(k) == IF Key(k).until < policy THEN Key(k).until ELSE policy

EvidenceInit ==
  /\ command \in {"prepare", "verify", "promote"}
  /\ policy \in {0, MaxClock, MaxClock + 1}
  /\ clock = 1 /\ place = "open" /\ at = "host"
  /\ dir = Closed /\ hashed = {} /\ held = {}
  /\ sampled = 0 /\ payload = NoPayload /\ records = NoRecords

Ended == place \in {"prepared", "verified", "promoted", "refused"}

Refuse ==
  /\ ~Ended
  /\ place' = "refused"
  /\ UNCHANGED <<command, policy, clock, at, dir, hashed, held, sampled, payload, records>>

-----------------------------------------------------------------------------
(* VerifyArtifactBundle, for each record in turn. *)

Bundle == [Declared \cup {"stray"} -> Contents]

\* The directory is opened once, under any name it has then.
OpenBundle ==
  /\ place = "open"
  /\ dir' \in Bundle
  /\ place' = "list"
  /\ UNCHANGED <<command, policy, clock, at, hashed, held, sampled, payload, records>>

\* verifyArtifactEntrySet: the names of the directory are the declared ones.
Listed == {f \in DOMAIN dir : dir[f] # "absent"} = Declared

ListBundle ==
  /\ place = "list"
  /\ Listed
  /\ place' = "hash"
  /\ UNCHANGED <<command, policy, clock, at, dir, hashed, held, sampled, payload, records>>

HashArtifact(f) ==
  /\ place = "hash"
  /\ f \in Declared \ hashed
  /\ dir[f] = "declared"
  /\ hashed' = hashed \cup {f}
  /\ place' = IF hashed' = Declared THEN "relist" ELSE "hash"
  /\ UNCHANGED <<command, policy, clock, at, dir, held, sampled, payload, records>>

Following == CASE at = "host" -> "client" [] at = "client" -> "session" [] OTHER -> "host"

\* The names are enumerated again, and the record has its verification.
RelistBundle ==
  /\ place = "relist"
  /\ Listed
  /\ held' = held \cup {<<at, f>> : f \in hashed}
  /\ dir' = Closed /\ hashed' = {}
  /\ at' = Following
  /\ place' = IF at # "session" THEN "open" ELSE IF command = "prepare" THEN "records" ELSE "envelope"
  /\ UNCHANGED <<command, policy, clock, sampled, payload, records>>

-----------------------------------------------------------------------------
(* Records: Validate, EvaluateVerifiedSetAt. *)

\* A record of the run: when it was made, observed and reviewed (0 if it was
\* not), and when it expires; manifest and run are those of the others.
Plain(reviewed, expires) ==
  [created |-> 1, observed |-> 1, reviewed |-> reviewed, expires |-> expires,
   manifest |-> "current", run |-> "run"]

Reviewed == {Plain(r, e) : r \in {0, 2, 3}, e \in MaxClock..MaxClock + 1}

HostRecords ==
  Reviewed \cup {[Plain(2, MaxClock + 1) EXCEPT !.observed = 0], [Plain(2, MaxClock + 1) EXCEPT !.manifest = "old"]}

ClientRecords == Reviewed \cup {[Plain(2, MaxClock + 1) EXCEPT !.run = "other"]}

\* The session is captured from start (0 if unverified) until it ended; its
\* checks may have been observed at another time.  It names the bytes of a host
\* and of a client record.
SessionRecords ==
  {[created |-> c, observed |-> o, reviewed |-> r, expires |-> e, manifest |-> "current", run |-> "run",
    start |-> s, ended |-> x, bound |-> b] :
     c \in {1, 2}, o \in {2, 4}, r \in {0, 4}, e \in MaxClock..MaxClock + 1, s \in {0, 2, 3}, x \in {3, 4, 5},
     b \in BOOLEAN}

\* validateTimeOrder and validateMeasurementMethodology.
Valid(r) ==
  /\ r.created < r.expires
  /\ r.reviewed # 0 => r.created <= r.reviewed /\ r.reviewed < r.expires
  /\ r.observed # 0 =>
       /\ r.created <= r.observed /\ r.observed < r.expires
       /\ r.reviewed # 0 => r.observed <= r.reviewed

ValidSession(r) ==
  /\ Valid(r)
  /\ r.start # 0 =>
       /\ r.created <= r.start /\ r.start < r.ended /\ r.ended < r.expires
       /\ r.reviewed # 0 => r.ended <= r.reviewed

\* evaluateAt: complete, neither expired nor pending.
Complete(r, now) ==
  /\ now < r.expires
  /\ r.created <= now
  /\ r.manifest = "current"
  /\ r.reviewed \in 1..now
  /\ r.observed \in 1..now

\* Mutant: the session may outlast the records it is bound to.
BoundTogether_Outlasts(h, c, s) ==
  /\ s.bound
  /\ h.run = c.run /\ h.run = s.run
  /\ h.reviewed < s.start /\ c.reviewed < s.start

\* evaluateSetAt: one run, bound to each other, the session no longer valid than
\* each; host and client were reviewed before it was captured.
BoundTogether(h, c, s) ==
  /\ s.bound
  /\ h.run = c.run /\ h.run = s.run
  /\ s.expires <= h.expires /\ s.expires <= c.expires
  /\ h.reviewed < s.start /\ c.reviewed < s.start

Set(h, c, s) == [n \in Names |-> CASE n = "host" -> h [] n = "client" -> c [] OTHER -> s]

\* EvaluateVerifiedSetAt: the sets that are complete at a time, by session.
Sessions(now) ==
  {s \in SessionRecords : ValidSession(s) /\ Complete(s, now) /\ s.start \in 1..now /\ s.ended <= now}

CompleteSets(s, now) ==
  LET Ready(kind) == {r \in kind : Valid(r) /\ Complete(r, now)}
  IN  {set \in {Set(h, c, s) : h \in Ready(HostRecords), c \in Ready(ClientRecords)} :
         BoundTogether(set["host"], set["client"], s)}

\* verifyRecordBindings: the payload is valid as long as the session.
BoundTo(p, s) == p.created = s.created /\ p.expires = s.expires

\* PreparePayloadAt, and the new file with the bytes that reviewers will sign.
Prepare ==
  /\ place = "records" /\ command = "prepare"
  /\ sampled' = clock
  /\ \E s \in Sessions(clock) :
       /\ records' \in CompleteSets(s, clock)
       /\ payload' = [created |-> s.created, expires |-> s.expires, these |-> TRUE, signatures |-> <<>>]
  /\ place' = "prepared"
  /\ UNCHANGED <<command, policy, clock, at, dir, hashed, held>>

-----------------------------------------------------------------------------
(* VerifySetAt and PromoteRemoteSetAt. *)

\* Envelopes: signatures sorted by key, over a payload of these records or of
\* others, of the caller's cell or of another.
Envelopes ==
  {[created |-> c, expires |-> e, these |-> TRUE, cell |-> TRUE,
    signatures |-> <<Signature("observer", t1), Signature(k, t2)>>] :
     c \in {1, 2}, e \in MaxClock..MaxClock + 1, t1, t2 \in 2..MaxClock, k \in Keys \ {"observer"}}
  \cup {[created |-> 1, expires |-> MaxClock + 1, these |-> t, cell |-> ~t,
         signatures |-> <<Signature("observer", 4), Signature("reviewer", 4)>>] : t \in BOOLEAN}

\* VerifySetAt: the payload is of the expected cell and valid now.
CheckPayload ==
  /\ place = "envelope"
  /\ sampled' = clock
  /\ payload' \in {e \in Envelopes : e.cell /\ e.created <= clock /\ clock < e.expires}
  /\ place' = "records"
  /\ UNCHANGED <<command, policy, clock, at, dir, hashed, held, records>>

\* The exact records are named, they are complete, and the policy covers all.
EvaluateRecords ==
  /\ place = "records" /\ command # "prepare"
  /\ payload.these
  /\ \E s \in Sessions(sampled) : BoundTo(payload, s) /\ records' \in CompleteSets(s, sampled)
  /\ policy # 0 /\ sampled < policy /\ payload.expires <= policy
  /\ place' = "signatures"
  /\ UNCHANGED <<command, policy, clock, at, dir, hashed, held, sampled, payload>>

Independent(s, t) ==
  /\ Key(s.key).role = "observer" /\ Key(t.key).role = "reviewer"
  /\ Key(s.key).principal # Key(t.key).principal
  /\ Key(s.key).organization # Key(t.key).organization

\* Mutant: a signature may be older than a review.
Counts_BeforeReview(s) ==
  /\ s.key \in Keys \ {"revoked"}
  /\ payload.expires <= KeyUntil(s.key)
  /\ s.at \in payload.created..sampled

\* A trusted key, valid for the whole payload, that signed it after every review.
Counts(s) ==
  /\ s.key \in Keys \ {"revoked"}
  /\ payload.expires <= KeyUntil(s.key)
  /\ s.at \in payload.created..sampled
  /\ \A n \in Names : records[n].reviewed <= s.at

CheckSignatures ==
  /\ place = "signatures"
  /\ \A i \in DOMAIN payload.signatures : Counts(payload.signatures[i])
  /\ \E i, j \in DOMAIN payload.signatures : Independent(payload.signatures[i], payload.signatures[j])
  /\ place' = IF command = "verify" THEN "verified" ELSE "promote"
  /\ UNCHANGED <<command, policy, clock, at, dir, hashed, held, sampled, payload, records>>

\* PromoteRemoteSetAt looks at the clock again, and at nothing but the token.
Promote ==
  /\ place = "promote"
  /\ payload.created <= clock /\ clock < payload.expires
  /\ place' = "promoted"
  /\ UNCHANGED <<command, policy, clock, at, dir, hashed, held, sampled, payload, records>>

-----------------------------------------------------------------------------

Tick ==
  /\ ~Ended /\ clock < MaxClock + 1
  /\ clock' = clock + 1
  /\ UNCHANGED <<command, policy, place, at, dir, hashed, held, sampled, payload, records>>

\* Others change a bundle while it is verified.
Change ==
  /\ place \in {"list", "hash", "relist"}
  /\ \E f \in DOMAIN dir, c \in Contents : dir' = [dir EXCEPT ![f] = c]
  /\ UNCHANGED <<command, policy, clock, place, at, hashed, held, sampled, payload, records>>

EvidenceNext ==
  \/ OpenBundle \/ ListBundle \/ (\E f \in Declared : HashArtifact(f)) \/ RelistBundle
  \/ Prepare \/ CheckPayload \/ EvaluateRecords \/ CheckSignatures \/ Promote
  \/ Refuse \/ Tick \/ Change

-----------------------------------------------------------------------------
(* Properties. *)

\* A readiness promotion stands on a chain that is in order and, at the later
\* time of the promotion, when only the payload is looked at, still valid as a
\* whole: no record, key or policy has ended.  Artifacts had their declared
\* bytes; the runs were observed, then reviewed, host and client before the
\* session was captured and the session when it had been; and both signatures
\* are younger than every review, by persons of different organizations.
PromotedChainStands ==
  place = "promoted" =>
    /\ held = Names \X Declared
    /\ clock < policy
    /\ \A n \in Names :
         /\ clock < records[n].expires
         /\ records[n].observed <= records[n].reviewed
         /\ \A i \in 1..2 :
              /\ records[n].reviewed <= payload.signatures[i].at
              /\ payload.signatures[i].at <= clock
              /\ clock < Key(payload.signatures[i].key).until
    /\ \A n \in {"host", "client"} : records[n].reviewed < records["session"].start
    /\ records["session"].ended <= records["session"].reviewed
    /\ Independent(payload.signatures[1], payload.signatures[2])
=============================================================================
