-------------------------- MODULE NativeObservation --------------------------
(***************************************************************************)
(* Signed production observations (internal/productionnative): each one is *)
(* verified against the verifier's expectation, the trust policy, the raw  *)
(* artifacts on disk and the signatures of an observer and a reviewer;     *)
(* VerifyCompleteSet then accepts one observation for every cell of a      *)
(* kind.  Time passes, files change and the caller's policy may be renewed *)
(* between any two steps.  The kind is the package lifecycle, its cells    *)
(* are two families of one target.                                         *)
(***************************************************************************)
EXTENDS Integers, FiniteSets

CONSTANTS MaxClock, MaxTampers   \* bounds on time and on the changes of files

VARIABLES
  policy,     \* the trust policy the caller passes
  envelopes,  \* the two signed envelopes
  disk,       \* the raw artifacts of each observation: their bytes and file
  tampers,
  clock,
  stage,      \* what is verified next
  item,       \* the observation that is verified
  artifact,   \* the artifact of it that is read next
  snapshot,   \* the files the first pass over the artifacts read
  sampled,    \* now, as this call was given it
  tokens,     \* the verified observations: when, and under which policy
  reread      \* history: artifacts seen with their signed bytes, by call

vars == <<policy, envelopes, disk, tampers, clock, stage, item, artifact, snapshot, sampled,
          tokens, reread>>

Items == 1..2
Artifacts == 1..2
Cells == {"debian", "rpm"}

Keys == {"observer", "reviewer", "self", "colleague", "short"}

Key(id) ==
  CASE id = "observer"  -> [principal |-> "p1", organization |-> "o1", role |-> "observer", until |-> MaxClock + 1]
    [] id = "reviewer"  -> [principal |-> "p2", organization |-> "o2", role |-> "reviewer", until |-> MaxClock + 1]
    [] id = "self"      -> [principal |-> "p1", organization |-> "o2", role |-> "reviewer", until |-> MaxClock + 1]
    [] id = "colleague" -> [principal |-> "p3", organization |-> "o1", role |-> "reviewer", until |-> MaxClock + 1]
    [] OTHER            -> [principal |-> "p4", organization |-> "o4", role |-> "reviewer", until |-> MaxClock]

\* A provisioned policy repeats no principal in a role and has an active key
\* for each role.
PolicyValid(p) ==
  \/ p.status = "unprovisioned" /\ p.keys = {} /\ p.revoked = {}
  \/ /\ p.status = "provisioned"
     /\ \A k, m \in p.keys :
          Key(k).role = Key(m).role /\ Key(k).principal = Key(m).principal => k = m
     /\ \A role \in {"observer", "reviewer"} :
          \E k \in p.keys \ p.revoked : Key(k).role = role

Provisioned == [status |-> "provisioned", keys |-> Keys, revoked |-> {}, until |-> MaxClock + 1]
Unprovisioned == [status |-> "unprovisioned", keys |-> {}, revoked |-> {}, until |-> MaxClock + 1]

\* One observation as it should be; the second run names another package,
\* challenge and cell.
Good(o) ==
  [cell |-> IF o = 1 THEN "debian" ELSE "rpm", release |-> "v1", archive |-> "archive",
   package |-> o, challenge |-> o, run |-> o, expected |-> TRUE, reused |-> FALSE,
   expires |-> MaxClock + 1, first |-> [key |-> "observer", at |-> 1],
   second |-> [key |-> "reviewer", at |-> 2]]

Signed(first, second, at1, at2, expires) ==
  [Good(1) EXCEPT !.first = [key |-> first, at |-> at1], !.second = [key |-> second, at |-> at2],
                  !.expires = expires]

\* The second envelope may belong to another cell, release, archive, package or
\* run, answer an old challenge, or declare one digest for two artifacts.
Others ==
  LET g == Good(2)
  IN  {g, [g EXCEPT !.cell = "debian"], [g EXCEPT !.release = "v2"], [g EXCEPT !.archive = "other"],
       [g EXCEPT !.package = 1], [g EXCEPT !.challenge = 1], [g EXCEPT !.run = 1],
       [g EXCEPT !.expected = FALSE], [g EXCEPT !.reused = TRUE]}

\* Observations are created at time 1; one of the two is not as it should be.
ObservationInit ==
  /\ policy \in {Provisioned, Unprovisioned}
  /\ \/ \E k \in {"observer", "reviewer"}, m \in Keys, t1, t2 \in 1..2, e \in {MaxClock, MaxClock + 1} :
          envelopes = [o \in Items |-> IF o = 1 THEN Signed(k, m, t1, t2, e) ELSE Good(2)]
     \/ \E g \in Others : envelopes = [o \in Items |-> IF o = 1 THEN Good(1) ELSE g]
  /\ disk = [o \in Items |-> [a \in Artifacts |-> [bytes |-> "signed", file |-> 0]]]
  /\ tampers = 0 /\ clock = 1 /\ stage = "admit" /\ item = 1 /\ artifact = 1
  /\ snapshot = [a \in Artifacts |-> 0] /\ sampled = 1
  /\ tokens = [o \in Items |-> [at |-> 0, policy |-> Unprovisioned]]
  /\ reread = {}

-----------------------------------------------------------------------------
(* One observation: VerifyObservation. *)

Refuse ==
  /\ stage \notin {"accepted", "refused"}
  /\ stage' = "refused"
  /\ UNCHANGED <<policy, envelopes, disk, tampers, clock, item, artifact, snapshot, sampled,
                 tokens, reread>>

\* The policy covers the time of verification.
PolicyCovers(now) == policy.status = "provisioned" /\ now < policy.until

\* Expectation, policy and payload are compared before any artifact is opened.
Admit ==
  /\ stage = "admit"
  /\ PolicyValid(policy)
  /\ envelopes[item].expected
  /\ clock < envelopes[item].expires
  /\ PolicyCovers(clock) /\ envelopes[item].expires <= policy.until
  /\ sampled' = clock
  /\ stage' = "hash" /\ artifact' = 1
  /\ UNCHANGED <<policy, envelopes, disk, tampers, clock, item, snapshot, tokens, reread>>

\* A read that ends has the bytes of one file, whose identity is kept.
Hashed(o, a) == disk[o][a].bytes = "signed"

\* verifyArtifacts, for VerifyObservation and again for the set.
HashArtifact ==
  /\ stage \in {"hash", "setHash"}
  /\ Hashed(item, artifact)
  /\ artifact > 1 => ~envelopes[item].reused
  /\ snapshot' = [snapshot EXCEPT ![artifact] = disk[item][artifact].file]
  /\ IF artifact < Cardinality(Artifacts)
     THEN artifact' = artifact + 1 /\ UNCHANGED stage
     ELSE /\ artifact' = 1
          /\ stage' = IF stage = "hash" THEN "signatures" ELSE "setRecheck"
  /\ UNCHANGED <<policy, envelopes, disk, tampers, clock, item, sampled, tokens, reread>>

\* A signature that counts: a key of the policy that is not revoked, in the role
\* of its position, valid for the whole observation, made within it.
SignedBy(s, role, e) ==
  /\ s.key \in policy.keys \ policy.revoked
  /\ Key(s.key).role = role
  /\ e.expires <= Key(s.key).until
  /\ s.at \in 1..sampled /\ s.at < e.expires /\ s.at < Key(s.key).until

Independent(s, t) ==
  /\ Key(s.key).principal # Key(t.key).principal
  /\ Key(s.key).organization # Key(t.key).organization

CheckSignatures ==
  /\ stage = "signatures"
  /\ LET e == envelopes[item]
     IN  /\ SignedBy(e.first, "observer", e)
         /\ SignedBy(e.second, "reviewer", e)
         /\ Independent(e.first, e.second)
         /\ e.first.at < e.second.at
  /\ stage' = "recheck"
  /\ UNCHANGED <<policy, envelopes, disk, tampers, clock, item, artifact, snapshot, sampled,
                 tokens, reread>>

\* Mutant: the artifacts are not read again after the signatures.
RecheckArtifact_Skipped ==
  /\ stage \in {"recheck", "setRecheck"}
  /\ artifact' = 1
  /\ IF stage = "recheck"
     THEN /\ tokens' = [tokens EXCEPT ![item] = [at |-> sampled, policy |-> policy]]
          /\ stage' = IF item = 1 THEN "admit" ELSE "set"
     ELSE stage' = (IF item = 1 THEN "setItem" ELSE "accepted") /\ UNCHANGED tokens
  /\ item' = IF item = 1 THEN 2 ELSE 1
  /\ UNCHANGED <<policy, envelopes, disk, tampers, clock, snapshot, sampled, reread>>

\* recheckArtifacts: the same file with the same bytes; the last one ends the
\* call with a token, or the item of the set.
RecheckArtifact ==
  /\ stage \in {"recheck", "setRecheck"}
  /\ Hashed(item, artifact) /\ disk[item][artifact].file = snapshot[artifact]
  /\ reread' = reread \cup {<<stage, item, artifact>>}
  /\ IF artifact < Cardinality(Artifacts)
     THEN artifact' = artifact + 1 /\ UNCHANGED <<stage, item, tokens>>
     ELSE /\ artifact' = 1
          /\ IF stage = "recheck"
             THEN /\ tokens' = [tokens EXCEPT ![item] = [at |-> sampled, policy |-> policy]]
                  /\ stage' = IF item = 1 THEN "admit" ELSE "set"
             ELSE stage' = (IF item = 1 THEN "setItem" ELSE "accepted") /\ UNCHANGED tokens
          /\ item' = IF item = 1 THEN 2 ELSE 1
  /\ UNCHANGED <<policy, envelopes, disk, tampers, clock, snapshot, sampled>>

-----------------------------------------------------------------------------
(* The set: VerifyCompleteSet. *)

StartSet ==
  /\ stage = "set"
  /\ PolicyValid(policy) /\ PolicyCovers(clock)
  /\ sampled' = clock
  /\ stage' = "setItem" /\ item' = 1
  /\ UNCHANGED <<policy, envelopes, disk, tampers, clock, artifact, snapshot, tokens, reread>>

\* Mutant: the policies are compared by their id only, which never changes.
CheckItem_PolicyId ==
  /\ stage = "setItem"
  /\ sampled >= tokens[item].at /\ sampled < envelopes[item].expires
  /\ item = 2 => /\ envelopes[1].release = envelopes[2].release
                 /\ envelopes[1].archive = envelopes[2].archive
                 /\ \A f \in {"cell", "run", "challenge", "package"} :
                      envelopes[1][f] # envelopes[2][f]
  /\ stage' = "setHash" /\ artifact' = 1
  /\ UNCHANGED <<policy, envelopes, disk, tampers, clock, item, snapshot, sampled, tokens, reread>>

\* Each token is checked against the policy, the time and the items before it.
CheckItem ==
  /\ stage = "setItem"
  /\ tokens[item].policy = policy
  /\ sampled >= tokens[item].at /\ sampled < envelopes[item].expires
  /\ item = 2 => /\ envelopes[1].release = envelopes[2].release
                 /\ envelopes[1].archive = envelopes[2].archive
                 /\ \A f \in {"cell", "run", "challenge", "package"} :
                      envelopes[1][f] # envelopes[2][f]
  /\ stage' = "setHash" /\ artifact' = 1
  /\ UNCHANGED <<policy, envelopes, disk, tampers, clock, item, snapshot, sampled, tokens, reread>>

-----------------------------------------------------------------------------
(* The world. *)

Ended == stage \in {"accepted", "refused"}

Tick ==
  /\ ~Ended /\ clock < MaxClock
  /\ clock' = clock + 1
  /\ UNCHANGED <<policy, envelopes, disk, tampers, stage, item, artifact, snapshot, sampled,
                 tokens, reread>>

\* A raw artifact is rewritten in place, or replaced by another file.
Tamper ==
  /\ ~Ended /\ tampers < MaxTampers
  /\ tampers' = tampers + 1
  /\ \E o \in Items, a \in Artifacts, b \in {"signed", "other"}, f \in {0, 1} :
       disk' = [disk EXCEPT ![o][a] = [bytes |-> b, file |-> f]]
  /\ UNCHANGED <<policy, envelopes, clock, stage, item, artifact, snapshot, sampled, tokens, reread>>

\* Between two calls the caller takes a policy in which a key is revoked.
Revoke ==
  /\ stage \in {"admit", "set"} /\ policy.status = "provisioned" /\ policy.revoked = {}
  /\ \E k \in {"observer", "reviewer"} : policy' = [policy EXCEPT !.revoked = {k}]
  /\ UNCHANGED <<envelopes, disk, tampers, clock, stage, item, artifact, snapshot, sampled,
                 tokens, reread>>

ObservationNext ==
  \/ Refuse \/ Admit \/ HashArtifact \/ CheckSignatures \/ RecheckArtifact
  \/ StartSet \/ CheckItem \/ Tick \/ Tamper \/ Revoke

-----------------------------------------------------------------------------
(* Properties. *)

\* A complete set that is accepted has every cell once, from one release, and
\* each of its observations was signed, in this order, by an observer and by a
\* reviewer of another organization, with keys that the policy the set was
\* verified under still trusts; none had expired when the set was verified; and
\* every artifact had its signed bytes when it was read after the signatures,
\* and once more for the set.
AcceptedSetIsWitnessed ==
  stage = "accepted" =>
    /\ {envelopes[o].cell : o \in Items} = Cells
    /\ envelopes[1].release = envelopes[2].release
    /\ \A o \in Items :
         LET e == envelopes[o]
         IN  /\ {e.first.key, e.second.key} \cap policy.revoked = {}
             /\ Independent(e.first, e.second)
             /\ e.first.at < e.second.at /\ e.second.at <= tokens[o].at
             /\ sampled < e.expires
    /\ reread = {"recheck", "setRecheck"} \X Items \X Artifacts
=============================================================================
