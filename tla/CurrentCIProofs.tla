--------------------------- MODULE CurrentCIProofs ---------------------------
(***************************************************************************)
(* What the check of main's CI (cireleasegate, currentci) accepts was true *)
(* at one moment, for every page size, number of pages and number of runs, *)
(* as long as fewer runs than a page are deleted.                          *)
(*                                                                         *)
(* The argument: a listing whose total stays the same and that meets no    *)
(* run twice has read exactly the inventory of its first page, because a   *)
(* run lost from the pages to come moves one that was seen into the next   *)
(* page, unless all that were seen are gone.                               *)
(***************************************************************************)
EXTENDS CurrentCI, SequenceTheorems, WellFoundedInduction, TLAPS

RunOrNone == Run \cup {NoRun}

Listings == [page : Nat \ {0}, total : Nat, count : Nat, seen : SUBSET (1..MaxRuns),
             latest : RunOrNone]

TypeOK ==
  /\ runs \in Seq(Run) /\ started \in 0..MaxRuns
  /\ gate \in GateStates /\ listing \in Listings /\ run \in RunOrNone /\ witness \in BOOLEAN

Positions == 1..Len(runs)

\* The inventory is sorted, newest run first, and few runs have been deleted.
Inventory ==
  /\ \A i, j \in Positions : i < j => runs[i].id > runs[j].id
  /\ \A i \in Positions : runs[i].id <= started
  /\ Deletions \in 0..MaxDeletions

\* What was read of a run still stands, or the run has been repeated since.
Stands(r) ==
  /\ r.id <= started
  /\ \A i \in Positions : runs[i].id = r.id =>
       /\ runs[i].eligible = r.eligible
       /\ runs[i].attempt >= r.attempt
       /\ r.status = "running" \/ runs[i] = r \/ runs[i].attempt > r.attempt

Reads ==
  /\ Stands(run) /\ Stands(listing.latest)
  /\ listing.latest = NoRun \/ listing.latest.eligible
  /\ \A id \in listing.seen : id <= started

\* The run that the gate goes on with.
Selected ==
  /\ gate \in {"jobs", "listAgain", "accepted"} => run \in Run /\ run.eligible /\ Successful(run)
  /\ gate \in {"listAgain", "accepted"} => run.status = "complete"
  /\ gate = "accepted" => witness
  /\ gate = "listAgain" /\ LatestEligible(runs) = run => witness
  /\ gate = "jobs" => listing = NewListing

\* The second listing cannot select run: it was repeated or deleted, or a newer
\* run was read or is still to be read, or one of those to be read was deleted.
Blocked(l, q) ==
  \/ l.latest # run /\ \A i \in Positions : runs[i].id = run.id => runs[i].attempt > run.attempt
  \/ l.latest.id > run.id
  \/ \E i \in q + 1..Len(runs) : runs[i].eligible /\ runs[i].id > run.id
  \/ Len(runs) - q < l.total - l.count

\* Positions up to a are runs started since the first page, those up to q are
\* runs that were read, and the others are still to be read. What is missing
\* was deleted.
Unread(l, a, q) ==
  /\ a <= q
  /\ \A i \in Positions : runs[i].id \in l.seen <=> a < i /\ i <= q
  /\ q - a <= l.count
  /\ Len(runs) - q <= l.total - l.count
  /\ l.total - Len(runs) + a <= Deletions
  /\ witness \/ Blocked(l, q)

Reading ==
  gate = "listAgain" /\ listing # NewListing =>
    /\ listing.page > 1
    /\ listing.count = listing.page * PageSize - PageSize /\ listing.count >= PageSize
    /\ \E a, q \in 0..Len(runs) : Unread(listing, a, q)

GateInv == TypeOK /\ Inventory /\ Reads /\ Selected /\ Reading

\* A nonempty set of natural numbers has a smallest one.
LEMMA Smallest ==
  ASSUME NEW T, T \subseteq Nat, T # {}
  PROVE  \E x \in T : \A y \in T : x <= y
<1> DEFINE R == OpToRel(<, Nat)
<1>1. IsWellFoundedOn(R, Nat)
  BY NatLessThanWellFounded, Zenon
<1>2. \A x, y \in Nat : <<x, y>> \in R <=> x < y
  BY DEF OpToRel
<1> HIDE DEF R
<1>3. PICK x \in T : \A y \in T : ~ (<<y, x>> \in R)
  BY <1>1, WFMin, Zenon
<1> SUFFICES ASSUME NEW y \in T PROVE x <= y
  OBVIOUS
<1>4. x \in Nat /\ y \in Nat
  OBVIOUS
<1>5. <<y, x>> \notin R
  BY <1>3, Zenon
<1>6. ~ (y < x)
  BY <1>2, <1>4, <1>5, Zenon
<1> QED BY <1>4, <1>6

\* What latestRun selects from an inventory: none, or an eligible run whose
\* identity is the greatest.
LEMMA LatestIsGreatest ==
  ASSUME NEW inventory \in Seq(RunOrNone)
  PROVE  LET latest == LatestEligible(inventory)
         IN  \/ latest = NoRun /\ \A i \in 1..Len(inventory) : ~inventory[i].eligible
             \/ /\ latest.eligible
                /\ \E k \in 1..Len(inventory) : latest = inventory[k]
                /\ \A i \in 1..Len(inventory) : inventory[i].eligible => inventory[i].id <= latest.id
<1> DEFINE chosen == {i \in 1..Len(inventory) : inventory[i].eligible}
           ids == {MaxRuns - inventory[i].id : i \in chosen}
           greatest(i) == \A j \in chosen : inventory[i].id >= inventory[j].id
<1>1. \A i \in 1..Len(inventory) : inventory[i] \in RunOrNone
  BY ElementOfSeq
<1>2. \A i \in chosen : inventory[i] \in Run
  BY <1>1 DEF RunOrNone, NoRun
<1>3. CASE chosen = {}
  BY <1>3 DEF LatestEligible
<1>4. CASE chosen # {}
  <2>1. ids \subseteq Nat
    BY <1>2, RunBoundsAssumption DEF Run
  <2>2. ids # {}
    BY <1>4
  <2> HIDE DEF ids
  <2>3. PICK x \in ids : \A y \in ids : x <= y
    BY <2>1, <2>2, Smallest
  <2>4. PICK k \in chosen : x = MaxRuns - inventory[k].id
    BY <2>3 DEF ids
  <2>5. \A j \in chosen : MaxRuns - inventory[k].id <= MaxRuns - inventory[j].id
    BY <2>3, <2>4 DEF ids
  <2>6. greatest(k)
    BY <2>5, <1>2, RunBoundsAssumption DEF Run
  <2>7. (CHOOSE i \in chosen : greatest(i)) \in chosen /\ greatest(CHOOSE i \in chosen : greatest(i))
    BY <2>6, Zenon
  <2>8. LatestEligible(inventory) = inventory[CHOOSE i \in chosen : greatest(i)]
    BY <1>4, Zenon DEF LatestEligible
  <2> QED BY <2>7, <2>8, <1>2 DEF Run
<1> QED BY <1>3, <1>4

-----------------------------------------------------------------------------
(* The world keeps the invariant: runs are started, finished, repeated and *)
(* deleted between any two requests.                                       *)

\* A run of the inventory is a record with all its fields.
LEMMA RunFields ==
  ASSUME TypeOK, NEW i \in Positions
  PROVE  /\ runs[i] \in Run
         /\ runs[i].id \in 1..MaxRuns /\ runs[i].attempt \in 1..MaxAttempts
         /\ runs[i].eligible \in BOOLEAN
<1>1. runs[i] \in Run
  BY ElementOfSeq DEF TypeOK, Positions
<1> QED BY <1>1 DEF Run

\* A new run is put before the others (StartRun).
LEMMA StartedRuns ==
  ASSUME TypeOK, StartRun
  PROVE  /\ runs' \in Seq(Run) /\ Len(runs') = Len(runs) + 1
         /\ runs'[1].id = started + 1 /\ runs'[1].attempt = 1
         /\ \A i \in Positions : runs'[i + 1] = runs[i]
         /\ started' = started + 1 /\ started' \in 0..MaxRuns
<1>1. PICK eligible \in BOOLEAN :
        runs' = <<[id |-> started + 1, attempt |-> 1, eligible |-> eligible,
                   status |-> "running"]>> \o runs
  BY DEF StartRun
<1> DEFINE new == [id |-> started + 1, attempt |-> 1, eligible |-> eligible, status |-> "running"]
<1>2. started \in 0..MaxRuns /\ started < MaxRuns /\ started' = started + 1
  BY DEF TypeOK, StartRun
<1>3. new \in Run
  BY <1>2, RunBoundsAssumption DEF Run
<1>4. runs \in Seq(Run) /\ <<new>> \in Seq(Run) /\ Len(<<new>>) = 1 /\ <<new>>[1] = new
  BY <1>3 DEF TypeOK
<1>5. new.id = started + 1 /\ new.attempt = 1
  OBVIOUS
<1> HIDE DEF new
<1>6. runs' = <<new>> \o runs
  BY <1>1 DEF new
<1>7. /\ <<new>> \o runs \in Seq(Run)
      /\ Len(<<new>> \o runs) = 1 + Len(runs)
      /\ \A i \in 1..1 + Len(runs) :
           (<<new>> \o runs)[i] = IF i <= 1 THEN <<new>>[i] ELSE runs[i - 1]
  BY <1>4, ConcatProperties
<1>8. Len(runs) \in Nat
  BY <1>4, LenProperties
<1>9. runs'[1] = new
  BY <1>4, <1>6, <1>7, <1>8
<1>10. ASSUME NEW i \in Positions PROVE runs'[i + 1] = runs[i]
  <2>1. i + 1 \in 1..1 + Len(runs) /\ ~(i + 1 <= 1) /\ (i + 1) - 1 = i
    BY <1>8 DEF Positions
  <2> QED BY <1>6, <1>7, <2>1
<1>11. runs' \in Seq(Run) /\ Len(runs') = Len(runs) + 1
  BY <1>6, <1>7, <1>8
<1>12. started' \in 0..MaxRuns
  BY <1>2, RunBoundsAssumption
<1> QED
  BY <1>2, <1>5, <1>9, <1>10, <1>11, <1>12, Zenon

\* One run finishes, or begins another attempt (FinishRun, RepeatRun).
LEMMA ChangedRun ==
  ASSUME TypeOK, FinishRun \/ RepeatRun
  PROVE  /\ runs' \in Seq(Run) /\ Len(runs') = Len(runs) /\ started' = started
         /\ \A i \in Positions :
              \/ runs'[i] = runs[i]
              \/ /\ runs'[i].id = runs[i].id /\ runs'[i].eligible = runs[i].eligible
                 /\ \/ runs[i].status = "running" /\ runs'[i].attempt = runs[i].attempt
                    \/ runs'[i].attempt = runs[i].attempt + 1
<1>0. runs \in Seq(Run) /\ Len(runs) \in Nat
  BY LenProperties DEF TypeOK
<1>1. CASE FinishRun
  <2>1. PICK k \in Positions, status \in {"failed", "partial", "complete"} :
          /\ runs[k].status = "running"
          /\ runs' = [runs EXCEPT ![k].status = status]
          /\ started' = started
    BY <1>1 DEF FinishRun, Positions
  <2> DEFINE r == [runs[k] EXCEPT !.status = status]
  <2>2. runs[k] \in Run
    BY RunFields
  <2>3. r \in Run /\ r.id = runs[k].id /\ r.eligible = runs[k].eligible /\ r.attempt = runs[k].attempt
    BY <2>2 DEF Run
  <2>4. runs' = [runs EXCEPT ![k] = r]
    BY <2>1
  <2> HIDE DEF r
  <2>5. /\ runs' \in Seq(Run) /\ Len(runs') = Len(runs)
        /\ \A j \in 1..Len(runs) : runs'[j] = IF j = k THEN r ELSE runs[j]
    BY <1>0, <2>3, <2>4, ExceptSeq DEF Positions
  <2> QED BY <2>1, <2>3, <2>5 DEF Positions
<1>2. CASE RepeatRun
  <2>1. PICK k \in Positions :
          /\ runs[k].attempt < MaxAttempts
          /\ runs' = [runs EXCEPT ![k] = Repeated(runs[k])]
          /\ started' = started
    BY <1>2 DEF RepeatRun, Positions
  <2> DEFINE r == Repeated(runs[k])
  <2>2. runs[k] \in Run /\ runs[k].attempt \in 1..MaxAttempts
    BY RunFields
  <2>3. /\ r \in Run /\ r.id = runs[k].id /\ r.eligible = runs[k].eligible
        /\ r.attempt = runs[k].attempt + 1
    <3>1. runs[k].attempt + 1 \in 1..MaxAttempts
      BY <2>1, <2>2, RunBoundsAssumption
    <3>2. r = [runs[k] EXCEPT !.status = "running", !.attempt = runs[k].attempt + 1]
      BY DEF Repeated
    <3> HIDE DEF r
    <3> QED BY <2>2, <3>1, <3>2 DEF Run
  <2>4. runs' = [runs EXCEPT ![k] = r]
    BY <2>1
  <2> HIDE DEF r
  <2>5. /\ runs' \in Seq(Run) /\ Len(runs') = Len(runs)
        /\ \A j \in 1..Len(runs) : runs'[j] = IF j = k THEN r ELSE runs[j]
    BY <1>0, <2>3, <2>4, ExceptSeq DEF Positions
  <2> QED BY <2>1, <2>3, <2>5 DEF Positions
<1> QED BY <1>1, <1>2

\* The position that a run had before the k-th was deleted.
Old(k, i) == IF i < k THEN i ELSE i + 1

\* One run is missing, those after it move up (DeleteRun).
LEMMA DeletedRun ==
  ASSUME TypeOK, DeleteRun
  PROVE  /\ runs' \in Seq(Run) /\ Len(runs') = Len(runs) - 1 /\ started' = started
         /\ Deletions < MaxDeletions
         /\ \E k \in Positions : \A i \in Positions' :
              Old(k, i) \in Positions /\ runs'[i] = runs[Old(k, i)]
<1>0. runs \in Seq(Run) /\ Len(runs) \in Nat
  BY LenProperties DEF TypeOK
<1>1. PICK k \in Positions : runs' = SubSeq(runs, 1, k - 1) \o SubSeq(runs, k + 1, Len(runs))
  BY DEF DeleteRun, Positions
<1> DEFINE before == SubSeq(runs, 1, k - 1)
           after == SubSeq(runs, k + 1, Len(runs))
<1>2. k \in 1..Len(runs) /\ \A i \in 1..Len(runs) : runs[i] \in Run
  BY <1>0, ElementOfSeq DEF Positions
<1>3. /\ before \in Seq(Run) /\ Len(before) = k - 1
      /\ \A i \in 1..k - 1 : before[i] = runs[i]
  <2>1. 1 \in Int /\ k - 1 \in Int /\ \A i \in 1..k - 1 : runs[i] \in Run
    BY <1>0, <1>2
  <2>2. /\ before \in Seq(Run) /\ Len(before) = IF 1 <= k - 1 THEN (k - 1) - 1 + 1 ELSE 0
        /\ \A i \in 1..(k - 1) - 1 + 1 : before[i] = runs[1 + i - 1]
    BY <2>1, SubSeqProperties
  <2> HIDE DEF before
  <2> QED BY <1>0, <1>2, <2>2
<1>4. /\ after \in Seq(Run) /\ Len(after) = Len(runs) - k
      /\ \A i \in 1..Len(runs) - k : after[i] = runs[k + i]
  <2>1. k + 1 \in Int /\ Len(runs) \in Int /\ \A i \in k + 1..Len(runs) : runs[i] \in Run
    BY <1>0, <1>2
  <2>2. /\ after \in Seq(Run)
        /\ Len(after) = IF k + 1 <= Len(runs) THEN Len(runs) - (k + 1) + 1 ELSE 0
        /\ \A i \in 1..Len(runs) - (k + 1) + 1 : after[i] = runs[k + 1 + i - 1]
    BY <2>1, SubSeqProperties
  <2> HIDE DEF after
  <2> QED BY <1>0, <1>2, <2>2
<1> HIDE DEF before, after
<1>5. runs' = before \o after
  BY <1>1 DEF before, after
<1>6. /\ runs' \in Seq(Run) /\ Len(runs') = Len(before) + Len(after)
      /\ \A i \in 1..Len(before) + Len(after) :
           runs'[i] = IF i <= Len(before) THEN before[i] ELSE after[i - Len(before)]
  BY <1>3, <1>4, <1>5, ConcatProperties
<1>7. Len(runs') = Len(runs) - 1
  BY <1>0, <1>2, <1>3, <1>4, <1>6
<1>8. ASSUME NEW i \in Positions', i < k PROVE i \in Positions /\ runs'[i] = runs[i]
  <2>1. i \in 1..k - 1 /\ i \in 1..Len(before) + Len(after) /\ i <= Len(before)
    BY <1>0, <1>2, <1>3, <1>6, <1>8 DEF Positions
  <2>2. i \in Positions
    BY <1>0, <1>7 DEF Positions
  <2> QED BY <1>3, <1>6, <2>1, <2>2
<1>9. ASSUME NEW i \in Positions', k <= i PROVE i + 1 \in Positions /\ runs'[i] = runs[i + 1]
  <2>1. /\ i \in 1..Len(before) + Len(after) /\ ~(i <= Len(before))
        /\ i - Len(before) \in 1..Len(runs) - k /\ k + (i - Len(before)) = i + 1
    BY <1>0, <1>2, <1>3, <1>4, <1>6, <1>9 DEF Positions
  <2>2. runs'[i] = after[i - Len(before)]
    BY <1>6, <2>1
  <2>3. i + 1 \in Positions
    BY <1>0, <1>7 DEF Positions
  <2> QED BY <1>4, <2>1, <2>2, <2>3
<1>10. ASSUME NEW i \in Positions' PROVE Old(k, i) \in Positions /\ runs'[i] = runs[Old(k, i)]
  <2>1. i \in Nat /\ k \in Nat
    BY <1>0, <1>2, <1>7 DEF Positions
  <2> QED BY <1>8, <1>9, <2>1 DEF Old
<1> QED BY <1>6, <1>7, <1>10 DEF DeleteRun

WorldMove == StartRun \/ FinishRun \/ RepeatRun \/ DeleteRun

\* The inventory stays sorted and numbered, and few runs are missing.
LEMMA MoveKeepsInventory ==
  ASSUME TypeOK, Inventory, WorldMove
  PROVE  runs' \in Seq(Run) /\ started' \in 0..MaxRuns /\ Inventory'
<1>0. Len(runs) \in Nat /\ started \in Nat /\ \A i \in Positions : runs[i].id \in 1..MaxRuns
  BY RunFields, LenProperties DEF TypeOK
<1>1. CASE StartRun
  <2>1. /\ runs' \in Seq(Run) /\ Len(runs') = Len(runs) + 1
        /\ runs'[1].id = started + 1 /\ \A i \in Positions : runs'[i + 1] = runs[i]
        /\ started' = started + 1 /\ started' \in 0..MaxRuns
    BY <1>1, StartedRuns
  <2>2. ASSUME NEW i \in Positions', i > 1 PROVE i - 1 \in Positions /\ runs'[i] = runs[i - 1]
    <3>1. i - 1 \in Positions /\ (i - 1) + 1 = i
      BY <1>0, <2>1, <2>2 DEF Positions
    <3> QED BY <2>1, <3>1
  <2>3. ASSUME NEW i \in Positions', NEW j \in Positions', i < j
        PROVE  runs'[i].id > runs'[j].id
    <3>0. i \in Nat /\ j \in Nat /\ i >= 1 /\ j > 1
      BY <1>0, <2>1, <2>3 DEF Positions
    <3>1. j - 1 \in Positions /\ runs'[j] = runs[j - 1]
      BY <2>2, <3>0
    <3>2. CASE i = 1
      <4>1. runs[j - 1].id \in Nat /\ runs[j - 1].id <= started
        BY <1>0, <3>1 DEF Inventory
      <4> QED BY <1>0, <2>1, <3>1, <3>2, <4>1
    <3>3. CASE i > 1
      <4>1. i - 1 \in Positions /\ runs'[i] = runs[i - 1] /\ i - 1 < j - 1
        BY <2>2, <2>3, <3>0, <3>3
      <4>2. runs[i - 1].id > runs[j - 1].id
        BY <3>1, <4>1 DEF Inventory
      <4> QED BY <3>1, <4>1, <4>2
    <3> QED BY <3>0, <3>2, <3>3
  <2>4. ASSUME NEW i \in Positions' PROVE runs'[i].id <= started'
    <3>1. CASE i = 1
      BY <1>0, <2>1, <3>1
    <3>2. CASE i > 1
      BY <1>0, <2>1, <2>2, <3>2 DEF Inventory
    <3> QED BY <3>1, <3>2, <1>0, <2>1 DEF Positions
  <2>5. Deletions' \in 0..MaxDeletions
    BY <1>0, <2>1 DEF Inventory, Deletions
  <2> QED BY <2>1, <2>3, <2>4, <2>5 DEF Inventory
<1>2. CASE FinishRun \/ RepeatRun
  <2>1. /\ runs' \in Seq(Run) /\ Len(runs') = Len(runs) /\ started' = started
        /\ \A i \in Positions : runs'[i].id = runs[i].id
    BY <1>2, ChangedRun
  <2> QED BY <2>1 DEF Inventory, Positions, Deletions, TypeOK
<1>3. CASE DeleteRun
  <2>1. PICK k \in Positions : \A i \in Positions' :
          Old(k, i) \in Positions /\ runs'[i] = runs[Old(k, i)]
    BY <1>3, DeletedRun
  <2>2. /\ runs' \in Seq(Run) /\ Len(runs') = Len(runs) - 1 /\ started' = started
        /\ Deletions < MaxDeletions
    BY <1>3, DeletedRun
  <2>3. Deletions' \in 0..MaxDeletions
    BY <1>0, <2>2, DeletionsAssumption DEF Inventory, Deletions
  <2>4. ASSUME NEW i \in Positions', NEW j \in Positions', i < j PROVE Old(k, i) < Old(k, j)
    BY <1>0, <2>2, <2>4 DEF Positions, Old
  <2>5. \A i \in Positions' : runs'[i].id <= started'
    BY <2>1, <2>2 DEF Inventory
  <2>6. \A i, j \in Positions' : i < j => runs'[i].id > runs'[j].id
    BY <2>1, <2>4 DEF Inventory
  <2> QED BY <2>2, <2>3, <2>5, <2>6 DEF Inventory, TypeOK
<1> QED BY <1>1, <1>2, <1>3 DEF WorldMove

\* What was read of a run is not undone: an attempt that ended stays ended.
LEMMA MoveKeepsStands ==
  ASSUME TypeOK, WorldMove, NEW r \in RunOrNone, Stands(r)
  PROVE  Stands(r)'
<1>0. /\ Len(runs) \in Nat /\ started \in Nat /\ r.id \in Nat /\ r.attempt \in Nat
      /\ \A i \in Positions : runs[i].attempt \in Nat
  BY RunFields, LenProperties, RunBoundsAssumption DEF TypeOK, RunOrNone, Run, NoRun
<1>1. CASE StartRun
  <2>1. /\ Len(runs') = Len(runs) + 1 /\ started' = started + 1
        /\ runs'[1].id = started + 1 /\ \A i \in Positions : runs'[i + 1] = runs[i]
    BY <1>1, StartedRuns
  <2>2. r.id <= started' /\ runs'[1].id # r.id
    BY <1>0, <2>1 DEF Stands
  <2>3. ASSUME NEW i \in Positions', i # 1 PROVE i - 1 \in Positions /\ runs'[i] = runs[i - 1]
    <3>1. i - 1 \in Positions /\ (i - 1) + 1 = i
      BY <1>0, <2>1, <2>3 DEF Positions
    <3> QED BY <2>1, <3>1
  <2> QED BY <2>2, <2>3 DEF Stands
<1>2. CASE FinishRun \/ RepeatRun
  <2>1. /\ Len(runs') = Len(runs) /\ started' = started
        /\ \A i \in Positions :
             \/ runs'[i] = runs[i]
             \/ /\ runs'[i].id = runs[i].id /\ runs'[i].eligible = runs[i].eligible
                /\ \/ runs[i].status = "running" /\ runs'[i].attempt = runs[i].attempt
                   \/ runs'[i].attempt = runs[i].attempt + 1
    BY <1>2, ChangedRun
  <2>2. Positions' = Positions
    BY <2>1 DEF Positions
  <2>3. ASSUME NEW i \in Positions, runs'[i].id = r.id
        PROVE  /\ runs'[i].eligible = r.eligible
               /\ runs'[i].attempt >= r.attempt
               /\ r.status = "running" \/ runs'[i] = r \/ runs'[i].attempt > r.attempt
    <3>1. CASE runs'[i] = runs[i]
      BY <2>3, <3>1 DEF Stands
    <3>2. CASE runs'[i] # runs[i]
      <4>1. /\ runs[i].id = r.id /\ runs'[i].eligible = runs[i].eligible
            /\ \/ runs[i].status = "running" /\ runs'[i].attempt = runs[i].attempt
               \/ runs'[i].attempt = runs[i].attempt + 1
        BY <2>1, <2>3, <3>2
      <4>2. /\ runs[i].eligible = r.eligible /\ runs[i].attempt >= r.attempt
            /\ r.status = "running" \/ runs[i] = r \/ runs[i].attempt > r.attempt
        BY <4>1 DEF Stands
      <4> QED BY <1>0, <4>1, <4>2
    <3> QED BY <3>1, <3>2
  <2> QED BY <2>1, <2>2, <2>3 DEF Stands
<1>3. CASE DeleteRun
  <2>1. PICK k \in Positions : \A i \in Positions' :
          Old(k, i) \in Positions /\ runs'[i] = runs[Old(k, i)]
    BY <1>3, DeletedRun
  <2>2. started' = started
    BY <1>3, DeletedRun
  <2> QED BY <2>1, <2>2 DEF Stands
<1> QED BY <1>1, <1>2, <1>3 DEF WorldMove

\* However runs move, what was read and what is missing keep telling whether the
\* second listing can still select the run.
LEMMA MoveKeepsUnread ==
  ASSUME TypeOK, Inventory, Reads, WorldMove,
         UNCHANGED <<gate, listing, run>>, witness => witness',
         NEW a \in 0..Len(runs), NEW q \in 0..Len(runs), Unread(listing, a, q)
  PROVE  \E b, p \in 0..Len(runs') : Unread(listing, b, p)'
<1>0. /\ Len(runs) \in Nat /\ started \in Nat /\ run.id \in Nat /\ run.attempt \in Nat
      /\ listing.total \in Nat /\ listing.count \in Nat
      /\ \A i \in Positions : runs[i].attempt \in Nat
  <2>1. /\ runs \in Seq(Run) /\ started \in 0..MaxRuns /\ listing \in Listings
        /\ run \in RunOrNone
    BY DEF TypeOK
  <2>2. Len(runs) \in Nat /\ started \in Nat
    BY <2>1, LenProperties, RunBoundsAssumption
  <2>3. run.id \in Nat /\ run.attempt \in Nat
    <3>1. CASE run \in Run
      BY <3>1, RunBoundsAssumption DEF Run
    <3>2. CASE run = NoRun
      BY <3>2 DEF NoRun
    <3> QED BY <2>1, <3>1, <3>2 DEF RunOrNone
  <2>4. listing.total \in Nat /\ listing.count \in Nat
    BY <2>1 DEF Listings
  <2>5. ASSUME NEW i \in Positions PROVE runs[i].attempt \in Nat
    BY RunFields, RunBoundsAssumption
  <2> QED BY <2>2, <2>3, <2>4, <2>5
<1>00. a \in Nat /\ q \in Nat /\ a <= q /\ q <= Len(runs)
  BY <1>0 DEF Unread
<1>1. CASE StartRun
  <2>1. /\ Len(runs') = Len(runs) + 1 /\ started' = started + 1
        /\ runs'[1].id = started + 1 /\ \A i \in Positions : runs'[i + 1] = runs[i]
    BY <1>1, StartedRuns
  <2>2. ASSUME NEW i \in Positions', i # 1
        PROVE  i - 1 \in Positions /\ runs'[i] = runs[i - 1] /\ i \in Nat /\ i > 1
    <3>1. i - 1 \in Positions /\ (i - 1) + 1 = i /\ i \in Nat /\ i > 1
      BY <1>0, <2>1, <2>2 DEF Positions
    <3> QED BY <2>1, <3>1
  <2>3. \A i \in Positions' : runs'[i].id \in listing.seen <=> a + 1 < i /\ i <= q + 1
    <3> SUFFICES ASSUME NEW i \in Positions'
                 PROVE runs'[i].id \in listing.seen <=> a + 1 < i /\ i <= q + 1
      OBVIOUS
    <3>1. CASE i = 1
      <4>1. runs'[i].id \notin listing.seen
        BY <1>0, <2>1, <3>1 DEF Reads
      <4> QED BY <1>00, <3>1, <4>1
    <3>2. CASE i # 1
      <4>1. runs[i - 1].id \in listing.seen <=> a < i - 1 /\ i - 1 <= q
        BY <2>2, <3>2 DEF Unread
      <4>2. i \in Nat /\ runs'[i] = runs[i - 1]
        BY <2>2, <3>2
      <4> QED BY <1>00, <4>1, <4>2
    <3> QED BY <3>1, <3>2
  <2>4. Deletions' = Deletions
    BY <1>0, <2>1 DEF Deletions
  <2>5. /\ a + 1 <= q + 1 /\ (q + 1) - (a + 1) <= listing.count
        /\ Len(runs') - (q + 1) <= listing.total - listing.count
        /\ listing.total - Len(runs') + (a + 1) <= Deletions'
    BY <1>0, <1>00, <2>1, <2>4 DEF Unread, Deletions
  <2>6. Blocked(listing, q) => Blocked(listing, q + 1)'
    <3>1. ASSUME listing.latest # run,
                 \A i \in Positions : runs[i].id = run.id => runs[i].attempt > run.attempt
          PROVE  Blocked(listing, q + 1)'
      <4>1. runs'[1].id # run.id
        BY <1>0, <2>1 DEF Reads, Stands
      <4>2. \A i \in Positions' : runs'[i].id = run.id => runs'[i].attempt > run.attempt
        BY <2>2, <3>1, <4>1
      <4> QED BY <3>1, <4>2 DEF Blocked
    <3>2. ASSUME NEW i \in q + 1..Len(runs), runs[i].eligible, runs[i].id > run.id
          PROVE  Blocked(listing, q + 1)'
      <4>1. i + 1 \in (q + 1) + 1..Len(runs') /\ i \in Positions
        BY <1>0, <1>00, <2>1 DEF Positions
      <4>2. runs'[i + 1] = runs[i]
        BY <2>1, <4>1
      <4> QED BY <3>2, <4>1, <4>2 DEF Blocked
    <3>3. ASSUME Len(runs) - q < listing.total - listing.count PROVE Blocked(listing, q + 1)'
      BY <1>0, <1>00, <2>1, <3>3 DEF Blocked
    <3>4. ASSUME listing.latest.id > run.id PROVE Blocked(listing, q + 1)'
      BY <3>4 DEF Blocked
    <3> QED BY <3>1, <3>2, <3>3, <3>4 DEF Blocked
  <2>7. a + 1 \in 0..Len(runs') /\ q + 1 \in 0..Len(runs')
    BY <1>0, <1>00, <2>1
  <2>8. Unread(listing, a + 1, q + 1)'
    BY <2>3, <2>5, <2>6 DEF Unread
  <2> QED BY <2>7, <2>8
<1>2. CASE FinishRun \/ RepeatRun
  <2>1. /\ Len(runs') = Len(runs) /\ started' = started
        /\ \A i \in Positions :
             \/ runs'[i] = runs[i]
             \/ /\ runs'[i].id = runs[i].id /\ runs'[i].eligible = runs[i].eligible
                /\ \/ runs[i].status = "running" /\ runs'[i].attempt = runs[i].attempt
                   \/ runs'[i].attempt = runs[i].attempt + 1
    BY <1>2, ChangedRun
  <2>2. Positions' = Positions /\ Deletions' = Deletions
    BY <2>1 DEF Positions, Deletions
  <2>3. \A i \in Positions : runs'[i].id = runs[i].id /\ runs'[i].eligible = runs[i].eligible
    BY <2>1
  <2>4. \A i \in Positions : runs[i].attempt > run.attempt => runs'[i].attempt > run.attempt
    BY <1>0, <2>1
  <2>5. q + 1..Len(runs) \subseteq Positions
    BY <1>0, <1>00 DEF Positions
  <2>6. Blocked(listing, q) => Blocked(listing, q)'
    BY <2>1, <2>2, <2>3, <2>4, <2>5 DEF Blocked
  <2>7. Unread(listing, a, q)'
    BY <2>1, <2>2, <2>3, <2>6 DEF Unread
  <2> QED BY <2>1, <2>7
<1>3. CASE DeleteRun
  <2>1. PICK k \in Positions : \A i \in Positions' :
          Old(k, i) \in Positions /\ runs'[i] = runs[Old(k, i)]
    BY <1>3, DeletedRun
  <2>2. Len(runs') = Len(runs) - 1 /\ started' = started
    BY <1>3, DeletedRun
  <2>3. Deletions' = Deletions + 1 /\ Deletions \in Int
    BY <1>0, <2>2 DEF Deletions
  <2>4. k \in Nat /\ 1 <= k /\ k <= Len(runs)
    BY <1>0 DEF Positions
  <2> DEFINE b == IF k <= a THEN a - 1 ELSE a
             p == IF k <= q THEN q - 1 ELSE q
  <2>5. b \in 0..Len(runs') /\ p \in 0..Len(runs') /\ b <= p
    BY <1>0, <1>00, <2>2, <2>4
  <2>6. /\ p - b <= listing.count
        /\ Len(runs') - p <= listing.total - listing.count
        /\ listing.total - Len(runs') + b <= Deletions'
    <3>1. /\ q - a <= listing.count
          /\ Len(runs) - q <= listing.total - listing.count
          /\ listing.total - Len(runs) + a <= Deletions
      BY DEF Unread
    <3>2. \/ b = a - 1 /\ p = q - 1
          \/ b = a /\ p = q - 1
          \/ b = a /\ p = q
      BY <1>00, <2>4
    <3> HIDE DEF b, p
    <3>3. CASE b = a - 1 /\ p = q - 1
      BY <1>0, <1>00, <2>2, <2>3, <3>1, <3>3
    <3>4. CASE b = a /\ p = q - 1
      <4>1. p - b <= listing.count
        BY <1>0, <1>00, <3>1, <3>4
      <4>2. Len(runs') - p <= listing.total - listing.count
        BY <1>0, <1>00, <2>2, <3>1, <3>4
      <4>3. listing.total - Len(runs') + b <= Deletions'
        BY <1>0, <1>00, <2>2, <2>3, <3>1, <3>4
      <4> QED BY <4>1, <4>2, <4>3
    <3>5. CASE b = a /\ p = q
      <4>1. p - b <= listing.count
        BY <3>1, <3>5
      <4>2. Len(runs') - p <= listing.total - listing.count
        BY <1>0, <1>00, <2>2, <3>1, <3>5
      <4>3. listing.total - Len(runs') + b <= Deletions'
        BY <1>0, <1>00, <2>2, <2>3, <3>1, <3>5
      <4> QED BY <4>1, <4>2, <4>3
    <3> QED BY <3>2, <3>3, <3>4, <3>5
  <2>7. ASSUME NEW i \in Positions' PROVE runs'[i].id \in listing.seen <=> b < i /\ i <= p
    <3>1. runs[Old(k, i)].id \in listing.seen <=> a < Old(k, i) /\ Old(k, i) <= q
      BY <2>1 DEF Unread
    <3>2. a < Old(k, i) /\ Old(k, i) <= q <=> b < i /\ i <= p
      BY <1>0, <1>00, <2>2, <2>4 DEF Old, Positions
    <3> QED BY <2>1, <3>1, <3>2
  <2>8. Blocked(listing, q) => Blocked(listing, p)'
    <3>1. ASSUME listing.latest # run,
                 \A i \in Positions : runs[i].id = run.id => runs[i].attempt > run.attempt
          PROVE  Blocked(listing, p)'
      BY <2>1, <3>1 DEF Blocked
    <3>2. ASSUME k <= q, NEW i \in q + 1..Len(runs), runs[i].eligible, runs[i].id > run.id
          PROVE  Blocked(listing, p)'
      <4>1. i - 1 \in p + 1..Len(runs') /\ i - 1 \in Positions' /\ Old(k, i - 1) = i
        BY <1>0, <1>00, <2>2, <2>4, <3>2 DEF Old, Positions
      <4>2. runs'[i - 1] = runs[i]
        BY <2>1, <4>1
      <4> QED BY <3>2, <4>1, <4>2 DEF Blocked
    <3>3. ASSUME Len(runs) - q < listing.total - listing.count \/ ~(k <= q) PROVE Blocked(listing, p)'
      <4>1. Len(runs') - p < listing.total - listing.count
        BY <1>0, <1>00, <2>2, <2>4, <3>3 DEF Unread
      <4> HIDE DEF p
      <4> QED BY <4>1 DEF Blocked
    <3>4. ASSUME listing.latest.id > run.id PROVE Blocked(listing, p)'
      BY <3>4 DEF Blocked
    <3> HIDE DEF p
    <3> QED BY <3>1, <3>2, <3>3, <3>4 DEF Blocked
  <2> HIDE DEF b, p
  <2>9. Unread(listing, b, p)'
    BY <2>5, <2>6, <2>7, <2>8 DEF Unread
  <2> QED BY <2>5, <2>9
<1> QED BY <1>1, <1>2, <1>3 DEF WorldMove

-----------------------------------------------------------------------------
(* One page of a listing. *)

\* What is before a page is a number of whole pages.
LEMMA WholePages ==
  ASSUME NEW page \in Nat \ {0}
  PROVE  /\ page * PageSize - PageSize \in Nat
         /\ (page + 1) * PageSize - PageSize = page * PageSize
         /\ 1 * PageSize - PageSize = 0
<1>1. PICK n \in Nat : page = n + 1
  <2>1. page - 1 \in Nat /\ page = (page - 1) + 1
    OBVIOUS
  <2> QED BY <2>1
<1>2. PageSize \in Nat /\ n * PageSize \in Nat
  BY PagesAssumption
<1>3. (n + 1) * PageSize = n * PageSize + PageSize /\ (page + 1) * PageSize = page * PageSize + PageSize
  BY <1>2
<1> QED BY <1>1, <1>2, <1>3

\* A page holds the next runs of the inventory, at most PageSize of them.
LEMMA PageOfRuns ==
  ASSUME TypeOK, NEW page \in Nat \ {0}, NEW low \in Nat, low = page * PageSize - PageSize
  PROVE  LET response == Page(runs, page)
         IN  /\ response \in Seq(Run)
             /\ Len(response) = IF low >= Len(runs) THEN 0
                                ELSE IF low + PageSize > Len(runs) THEN Len(runs) - low
                                ELSE PageSize
             /\ \A i \in 1..Len(response) : low + i \in Positions /\ response[i] = runs[low + i]
<1>0. runs \in Seq(Run) /\ Len(runs) \in Nat /\ PageSize \in Nat /\ PageSize > 0
  BY LenProperties, PagesAssumption DEF TypeOK
<1> DEFINE last == page * PageSize
           m == last - PageSize + 1
           n == IF last > Len(runs) THEN Len(runs) ELSE last
<1>1. last \in Int /\ last = low + PageSize
  BY <1>0
<1> HIDE DEF last
<1>2. m = low + 1 /\ m \in Int /\ n \in Int /\ n <= Len(runs)
  BY <1>0, <1>1
<1>3. Page(runs, page) = SubSeq(runs, m, n)
  BY DEF Page, last
<1> DEFINE response == SubSeq(runs, m, n)
<1>4. \A i \in m..n : runs[i] \in Run
  <2>1. \A i \in 1..Len(runs) : runs[i] \in Run
    BY <1>0, ElementOfSeq
  <2>2. m..n \subseteq 1..Len(runs)
    BY <1>0, <1>2
  <2> QED BY <2>1, <2>2
<1> HIDE DEF m, n
<1>5. /\ response \in Seq(Run)
      /\ Len(response) = IF m <= n THEN n - m + 1 ELSE 0
      /\ \A i \in 1..n - m + 1 : response[i] = runs[m + i - 1]
  BY <1>2, <1>4, SubSeqProperties
<1> HIDE DEF response
<1>6. Len(response) = IF low >= Len(runs) THEN 0
                      ELSE IF low + PageSize > Len(runs) THEN Len(runs) - low ELSE PageSize
  <2>1. n = IF low + PageSize > Len(runs) THEN Len(runs) ELSE low + PageSize
    BY <1>1 DEF n
  <2>2. CASE low >= Len(runs)
    BY <1>0, <1>2, <1>5, <2>1, <2>2
  <2>3. CASE low < Len(runs) /\ low + PageSize > Len(runs)
    BY <1>0, <1>2, <1>5, <2>1, <2>3
  <2>4. CASE low + PageSize <= Len(runs)
    <3>1. n = low + PageSize /\ m <= n /\ n - m + 1 = PageSize /\ ~(low >= Len(runs))
          /\ ~(low + PageSize > Len(runs))
      BY <1>0, <1>2, <2>1, <2>4
    <3> QED BY <1>5, <3>1
  <2> QED BY <1>0, <2>2, <2>3, <2>4
<1>7. ASSUME NEW i \in 1..Len(response) PROVE low + i \in Positions /\ response[i] = runs[low + i]
  <2>1. i \in Nat /\ m <= n /\ i \in 1..n - m + 1
    BY <1>2, <1>5, <1>7
  <2>2. m + i - 1 = low + i /\ low + i \in 1..Len(runs)
    BY <1>0, <1>2, <2>1
  <2> QED BY <1>5, <2>1, <2>2 DEF Positions
<1> QED BY <1>3, <1>5, <1>6, <1>7 DEF response

\* What a page leaves in the locals of latestRun: a selected run that is the
\* one selected before or one of the page, and the greatest of them.
LEMMA ListedRun ==
  ASSUME TypeOK, NEW response \in Seq(Run), NEW total \in Nat
  PROVE  LET next == Listed(response, total)
         IN  /\ \/ next.latest = NoRun
                \/ next.latest = listing.latest
                \/ \E i \in 1..Len(response) : next.latest = response[i]
             /\ next.latest = NoRun \/ next.latest.eligible
             /\ listing.latest.eligible =>
                  next.latest.eligible /\ listing.latest.id <= next.latest.id
             /\ \A i \in 1..Len(response) : response[i].eligible =>
                  next.latest.eligible /\ response[i].id <= next.latest.id
<1> DEFINE all == <<listing.latest>> \o response
<1>1. listing.latest \in RunOrNone
  BY DEF TypeOK, Listings
<1>2. <<listing.latest>> \in Seq(RunOrNone) /\ Len(<<listing.latest>>) = 1
      /\ <<listing.latest>>[1] = listing.latest
  BY <1>1
<1>3. response \in Seq(RunOrNone) /\ Len(response) \in Nat
  <2>1. Run \subseteq RunOrNone
    BY DEF RunOrNone
  <2> QED BY <2>1, LenProperties, SeqMonotonic
<1>4. /\ all \in Seq(RunOrNone) /\ Len(all) = 1 + Len(response)
      /\ \A i \in 1..1 + Len(response) :
           all[i] = IF i <= 1 THEN <<listing.latest>>[i] ELSE response[i - 1]
  BY <1>2, <1>3, ConcatProperties
<1> HIDE DEF all
<1>5. all[1] = listing.latest /\ 1 \in 1..Len(all)
  BY <1>2, <1>3, <1>4
<1>6. ASSUME NEW i \in 1..Len(response) PROVE i + 1 \in 1..Len(all) /\ all[i + 1] = response[i]
  <2>1. i + 1 \in 1..1 + Len(response) /\ ~(i + 1 <= 1) /\ (i + 1) - 1 = i
    BY <1>3
  <2> QED BY <1>4, <2>1
<1>7. ASSUME NEW i \in 1..Len(all), i # 1
      PROVE  i - 1 \in 1..Len(response) /\ all[i] = response[i - 1]
  BY <1>3, <1>4, <1>7
<1> DEFINE latest == LatestEligible(all)
<1>8. \/ latest = NoRun /\ \A i \in 1..Len(all) : ~all[i].eligible
      \/ /\ latest.eligible
         /\ \E k \in 1..Len(all) : latest = all[k]
         /\ \A i \in 1..Len(all) : all[i].eligible => all[i].id <= latest.id
  BY <1>4, LatestIsGreatest
<1>9. Listed(response, total).latest = latest
  BY DEF Listed, all
<1> HIDE DEF latest
<1> QED BY <1>5, <1>6, <1>7, <1>8, <1>9

\* A page that passes the tests of latestRun holds the runs that follow those
\* read so far: had one of the others been deleted, a run that was read would be
\* on the page, because fewer runs than a page are ever deleted.
LEMMA NothingWasLost ==
  ASSUME TypeOK, Inventory,
         NEW l \in Listings, l.page = listing.page, l.count = listing.count,
         l.seen = listing.seen, l.total = Len(runs),
         l.count = l.page * PageSize - PageSize,
         NEW a \in 0..Len(runs), NEW q \in 0..Len(runs), Unread(l, a, q),
         \/ l.count >= PageSize
         \/ q = 0 /\ l.count = 0,
         PageConsistent(Page(runs, listing.page), Len(runs))
  PROVE  q = l.count
<1> DEFINE response == Page(runs, listing.page)
<1>0. /\ Len(runs) \in Nat /\ l.count \in Nat /\ l.page \in Nat \ {0}
      /\ a \in Nat /\ q \in Nat /\ q <= Len(runs) /\ PageSize \in Nat
  BY LenProperties, PagesAssumption DEF TypeOK, Listings
<1>1. /\ a <= q /\ q - a <= l.count /\ Len(runs) - q <= Len(runs) - l.count
      /\ Len(runs) - Len(runs) + a <= Deletions
      /\ \A i \in Positions : runs[i].id \in l.seen <=> a < i /\ i <= q
  BY DEF Unread
<1>2. a < PageSize
  <2>1. Deletions \in 0..MaxDeletions
    BY DEF Inventory
  <2> HIDE DEF Deletions
  <2> QED BY <1>0, <1>1, <2>1, DeletionsAssumption
<1>3. SUFFICES ASSUME q # l.count PROVE FALSE
  OBVIOUS
<1>4. l.count < q /\ PageSize <= l.count /\ q < l.count + PageSize
  BY <1>0, <1>1, <1>2, <1>3
<1>5. runs[q].id \in listing.seen /\ q \in Positions
  BY <1>0, <1>1, <1>2, <1>4 DEF Positions
<1>6. /\ Len(response) = IF l.count >= Len(runs) THEN 0
                         ELSE IF l.count + PageSize > Len(runs) THEN Len(runs) - l.count
                         ELSE PageSize
      /\ \A i \in 1..Len(response) : response[i] = runs[l.count + i]
  <2>1. listing.page \in Nat \ {0} /\ l.count = listing.page * PageSize - PageSize
    BY <1>0
  <2> HIDE DEF response
  <2> QED BY <1>0, <2>1, PageOfRuns DEF response
<1> HIDE DEF response
<1>7. q - l.count \in 1..Len(response) /\ l.count + (q - l.count) = q
  <2> DEFINE c == l.count
             n == Len(runs)
             s == PageSize
             k == Len(response)
  <2>1. c \in Nat /\ n \in Nat /\ q \in Nat /\ s \in Nat /\ q <= n
    BY <1>0
  <2>2. c < q /\ q < c + s
    BY <1>4
  <2>3. k = IF c >= n THEN 0 ELSE IF c + s > n THEN n - c ELSE s
    BY <1>6
  <2> HIDE DEF c, n, s, k
  <2>4. k \in Int /\ q - c <= k
    BY <2>1, <2>2, <2>3
  <2>5. q - c \in 1..k /\ c + (q - c) = q
    BY <2>1, <2>2, <2>4
  <2> QED BY <2>5 DEF c, k
<1>8. response[q - l.count] = runs[q]
  BY <1>6, <1>7
<1>9. runs[q].id \in Identities(response)
  BY <1>7, <1>8 DEF Identities
<1> QED BY <1>5, <1>9 DEF PageConsistent, response

\* After such a page the second listing still knows what it can select.
LEMMA ReadPage ==
  ASSUME TypeOK, Inventory, Reads, run \in Run,
         NEW l \in Listings, l.page = listing.page, l.count = listing.count,
         l.seen = listing.seen, l.latest = listing.latest, l.total = Len(runs),
         l.count = l.page * PageSize - PageSize,
         NEW a \in 0..Len(runs), NEW q \in 0..Len(runs), Unread(l, a, q),
         \/ l.count >= PageSize
         \/ q = 0 /\ l.count = 0,
         PageConsistent(Page(runs, listing.page), Len(runs))
  PROVE  LET next == Listed(Page(runs, listing.page), Len(runs))
         IN  /\ next.count \in 0..Len(runs) /\ Unread(next, a, next.count)
             /\ ~ListingEnds(next) =>
                  next.count = next.page * PageSize - PageSize /\ next.count >= PageSize
<1> DEFINE response == Page(runs, listing.page)
           next == Listed(response, Len(runs))
<1>0. /\ Len(runs) \in Nat /\ l.count \in Nat /\ l.page \in Nat \ {0}
      /\ a \in Nat /\ q \in Nat /\ q <= Len(runs) /\ PageSize \in Nat /\ PageSize > 0
  BY LenProperties, PagesAssumption DEF TypeOK, Listings
<1>1. q = l.count
  BY NothingWasLost
<1>2. /\ response \in Seq(Run)
      /\ Len(response) = IF q >= Len(runs) THEN 0
                         ELSE IF q + PageSize > Len(runs) THEN Len(runs) - q ELSE PageSize
      /\ \A i \in 1..Len(response) : q + i \in Positions /\ response[i] = runs[q + i]
  <2>1. listing.page \in Nat \ {0} /\ q = listing.page * PageSize - PageSize
    BY <1>0, <1>1
  <2>2. /\ response \in Seq(Run)
        /\ Len(response) = IF q >= Len(runs) THEN 0
                           ELSE IF q + PageSize > Len(runs) THEN Len(runs) - q ELSE PageSize
        /\ \A i \in 1..Len(response) : q + i \in Positions /\ response[i] = runs[q + i]
    BY <1>0, <2>1, PageOfRuns
  <2> QED BY <2>2
<1> HIDE DEF response
<1>3. /\ next.page = l.page + 1 /\ next.total = Len(runs) /\ next.count = q + Len(response)
      /\ next.seen = l.seen \cup Identities(response)
  BY <1>1 DEF Listed
<1>4. /\ \/ next.latest = NoRun
         \/ next.latest = l.latest
         \/ \E i \in 1..Len(response) : next.latest = response[i]
      /\ l.latest.eligible => l.latest.id <= next.latest.id
      /\ \A i \in 1..Len(response) : response[i].eligible => response[i].id <= next.latest.id
  BY <1>0, <1>2, ListedRun
<1> HIDE DEF next
<1>5. /\ next.count \in Nat /\ q <= next.count /\ next.count <= Len(runs)
      /\ next.count # Len(runs) => next.count = q + PageSize
  BY <1>0, <1>2, <1>3
<1>6. ASSUME NEW i \in Positions
      PROVE  runs[i].id \in Identities(response) <=> q < i /\ i <= next.count
  <2>0. i \in Nat /\ runs[i].id \in Nat
    BY <1>0, RunFields DEF Positions
  <2>1. ASSUME q < i, i <= next.count PROVE runs[i].id \in Identities(response)
    <3>1. i - q \in 1..Len(response) /\ q + (i - q) = i
      BY <1>0, <1>2, <1>3, <2>0, <2>1
    <3>2. response[i - q] = runs[i]
      BY <1>2, <3>1
    <3> QED BY <3>1, <3>2 DEF Identities
  <2>2. ASSUME runs[i].id \in Identities(response) PROVE q < i /\ i <= next.count
    <3>1. PICK j \in 1..Len(response) : runs[i].id = response[j].id
      BY <2>2 DEF Identities
    <3>2. q + j \in Positions /\ runs[q + j].id = runs[i].id
      BY <1>2, <3>1
    <3>3. i = q + j
      <4>1. q + j \in Nat /\ runs[q + j].id \in Nat
        BY <1>0, <3>2, RunFields DEF Positions
      <4>2. ~(i < q + j) /\ ~(q + j < i)
        BY <2>0, <3>2, <4>1 DEF Inventory
      <4> QED BY <2>0, <4>1, <4>2
    <3> QED BY <1>0, <1>2, <1>3, <3>1, <3>3
  <2> QED BY <2>1, <2>2
<1>7. \A i \in Positions : runs[i].id \in next.seen <=> a < i /\ i <= next.count
  <2> SUFFICES ASSUME NEW i \in Positions
               PROVE runs[i].id \in next.seen <=> a < i /\ i <= next.count
    OBVIOUS
  <2>1. runs[i].id \in l.seen <=> a < i /\ i <= q
    BY DEF Unread
  <2>2. i \in Nat /\ a <= q
    BY <1>0 DEF Positions, Unread
  <2> QED BY <1>0, <1>3, <1>5, <1>6, <2>1, <2>2
<1>8. a <= q /\ l.total - Len(runs) + a <= Deletions
  BY DEF Unread
<1>9. Blocked(l, q) => Blocked(next, next.count)
  <2>1. ASSUME l.latest # run,
               \A i \in Positions : runs[i].id = run.id => runs[i].attempt > run.attempt
        PROVE  Blocked(next, next.count)
    <3>1. \A i \in Positions : runs[i] # run
      BY <2>1, RunFields DEF Run
    <3>2. NoRun # run
      BY RunBoundsAssumption DEF NoRun, Run
    <3>3. next.latest # run
      BY <1>2, <1>4, <2>1, <3>1, <3>2
    <3> QED BY <2>1, <3>3 DEF Blocked
  <2>2. ASSUME l.latest.id > run.id PROVE Blocked(next, next.count)
    <3>1. l.latest.eligible
      BY <2>2, RunBoundsAssumption DEF Reads, NoRun, Run
    <3>2. l.latest.id \in Nat /\ run.id \in Nat
      BY RunBoundsAssumption DEF Listings, RunOrNone, Run, NoRun
    <3>3. next.latest.id \in Nat
      <4>1. next.latest \in RunOrNone
        BY <1>2, <1>4, ElementOfSeq DEF Listings, RunOrNone
      <4> QED BY <4>1, RunBoundsAssumption DEF RunOrNone, Run, NoRun
    <3> QED BY <1>4, <2>2, <3>1, <3>2, <3>3 DEF Blocked
  <2>3. ASSUME NEW i \in q + 1..Len(runs), runs[i].eligible, runs[i].id > run.id
        PROVE  Blocked(next, next.count)
    <3>1. CASE i <= next.count
      <4>1. i - q \in 1..Len(response) /\ q + (i - q) = i
        BY <1>0, <1>3, <3>1
      <4>2. response[i - q] = runs[i]
        BY <1>2, <4>1
      <4>3. runs[i].id <= next.latest.id
        BY <1>4, <2>3, <4>1, <4>2
      <4>4. runs[i].id \in Nat /\ run.id \in Nat /\ next.latest.id \in Nat
        <5>1. next.latest \in RunOrNone
          BY <1>2, <1>4, ElementOfSeq DEF Listings, RunOrNone
        <5>2. i \in Positions
          BY <1>0 DEF Positions
        <5> QED BY <5>1, <5>2, RunFields, RunBoundsAssumption DEF RunOrNone, Run, NoRun
      <4> QED BY <2>3, <4>3, <4>4 DEF Blocked
    <3>2. CASE i > next.count
      <4>1. i \in next.count + 1..Len(runs)
        BY <1>0, <1>5, <3>2
      <4> QED BY <2>3, <4>1 DEF Blocked
    <3> QED BY <1>0, <1>5, <3>1, <3>2
  <2>4. ~(Len(runs) - q < l.total - l.count)
    BY <1>0, <1>1
  <2> QED BY <2>1, <2>2, <2>3, <2>4 DEF Blocked
<1>10. Unread(next, a, next.count)
  <2>1. witness \/ Blocked(next, next.count)
    BY <1>9 DEF Unread
  <2>2. /\ a <= next.count /\ next.count - a <= next.count
        /\ Len(runs) - next.count <= next.total - next.count
        /\ next.total - Len(runs) + a <= Deletions
    BY <1>0, <1>3, <1>5, <1>8
  <2> QED BY <1>7, <2>1, <2>2 DEF Unread
<1>11. ~ListingEnds(next) =>
         next.count = next.page * PageSize - PageSize /\ next.count >= PageSize
  <2>1. next.page * PageSize - PageSize = l.page * PageSize
    BY <1>0, <1>3, WholePages
  <2>2. l.page * PageSize \in Int /\ q + PageSize = l.page * PageSize
    BY <1>0, <1>1
  <2> QED BY <1>0, <1>3, <1>5, <2>1, <2>2 DEF ListingEnds
<1> QED BY <1>5, <1>10, <1>11, <1>0 DEF next, response

-----------------------------------------------------------------------------
(* The gate keeps the invariant. *)

\* Nothing was read of no run.
LEMMA NoRunStands == ASSUME TypeOK PROVE Stands(NoRun) /\ NoRun \in RunOrNone
<1>1. \A i \in Positions : runs[i].id # 0
  BY RunFields
<1>2. NoRun.id = 0 /\ NoRun \in RunOrNone
  BY DEF NoRun, RunOrNone
<1>3. 0 <= started
  BY DEF TypeOK
<1> QED BY <1>1, <1>2, <1>3, Zenon DEF Stands

\* A page extends the listing by what was just read.
LEMMA ListedReads ==
  ASSUME TypeOK, Inventory, Reads
  PROVE  LET next == Listed(Page(runs, listing.page), Len(runs))
         IN  /\ next \in Listings
             /\ Stands(next.latest)
             /\ next.latest = NoRun \/ next.latest.eligible
             /\ \A id \in next.seen : id <= started
<1> DEFINE response == Page(runs, listing.page)
           next == Listed(response, Len(runs))
<1>0. /\ Len(runs) \in Nat /\ listing.page \in Nat \ {0} /\ listing.count \in Nat
      /\ listing.seen \subseteq 1..MaxRuns /\ listing.latest \in RunOrNone
  BY LenProperties DEF TypeOK, Listings
<1>1. /\ response \in Seq(Run) /\ Len(response) \in Nat
      /\ \A i \in 1..Len(response) : \E j \in Positions : response[i] = runs[j]
  <2>1. listing.page * PageSize - PageSize \in Nat
    BY <1>0, WholePages
  <2>2. /\ response \in Seq(Run)
        /\ \A i \in 1..Len(response) :
             /\ (listing.page * PageSize - PageSize) + i \in Positions
             /\ response[i] = runs[(listing.page * PageSize - PageSize) + i]
    BY <1>0, <2>1, PageOfRuns
  <2> HIDE DEF response
  <2>3. Len(response) \in Nat
    BY <2>2, LenProperties
  <2> QED BY <2>2, <2>3
<1> HIDE DEF response
<1>2. /\ \/ next.latest = NoRun
         \/ next.latest = listing.latest
         \/ \E i \in 1..Len(response) : next.latest = response[i]
      /\ next.latest = NoRun \/ next.latest.eligible
  BY <1>0, <1>1, ListedRun
<1>3. \A id \in Identities(response) : id \in 1..MaxRuns /\ id <= started
  BY <1>1, RunFields DEF Identities, Inventory
<1>4. /\ next = [page |-> next.page, total |-> next.total, count |-> next.count,
                seen |-> next.seen, latest |-> next.latest]
      /\ next.page = listing.page + 1 /\ next.total = Len(runs)
      /\ next.count = listing.count + Len(response)
      /\ next.seen = listing.seen \cup Identities(response)
  BY DEF Listed
<1> HIDE DEF next
<1>5. ASSUME NEW j \in Positions PROVE Stands(runs[j]) /\ runs[j] \in RunOrNone
  <2>1. \A i \in Positions : runs[i].id = runs[j].id => i = j
    <3> SUFFICES ASSUME NEW i \in Positions, runs[i].id = runs[j].id PROVE i = j
      OBVIOUS
    <3>1. i \in Nat /\ j \in Nat /\ runs[i].id \in Nat
      BY RunFields DEF Positions
    <3>2. ~(i < j) /\ ~(j < i)
      BY <3>1 DEF Inventory
    <3> QED BY <3>1, <3>2
  <2>2. runs[j].attempt \in Nat
    BY RunFields
  <2> QED BY <2>1, <2>2, RunFields DEF Stands, Inventory, RunOrNone
<1>6. next.latest \in RunOrNone /\ Stands(next.latest)
  BY <1>0, <1>1, <1>2, <1>5, NoRunStands DEF Reads
<1>7. next.seen \subseteq 1..MaxRuns /\ \A id \in next.seen : id <= started
  BY <1>0, <1>3, <1>4 DEF Reads
<1>8. next \in Listings
  <2>1. next.page \in Nat \ {0} /\ next.total \in Nat /\ next.count \in Nat
    BY <1>0, <1>1, <1>4
  <2>2. next.seen \in SUBSET (1..MaxRuns) /\ next.latest \in RunOrNone
    BY <1>6, <1>7
  <2> QED BY <1>4, <2>1, <2>2 DEF Listings
<1> QED BY <1>2, <1>6, <1>7, <1>8 DEF next, response

\* Before the first page of the second listing: if the run is not the latest,
\* it was repeated or deleted, or a newer one is there to be read.
LEMMA BeforeFirstPage ==
  ASSUME GateInv, gate = "listAgain", listing = NewListing
  PROVE  LET l == [NewListing EXCEPT !.total = Len(runs)]
         IN  l \in Listings /\ Unread(l, 0, 0)
<1> DEFINE l == [NewListing EXCEPT !.total = Len(runs)]
<1>0. Len(runs) \in Nat /\ runs \in Seq(RunOrNone)
  <2>1. Run \subseteq RunOrNone /\ runs \in Seq(Run)
    BY DEF RunOrNone, GateInv, TypeOK
  <2> QED BY <2>1, LenProperties, SeqMonotonic
<1>1. l \in Listings /\ l.total = Len(runs) /\ l.count = 0 /\ l.seen = {} /\ l.latest = NoRun
  BY <1>0 DEF NewListing, Listings, RunOrNone
<1> HIDE DEF l
<1>2. ASSUME ~witness PROVE Blocked(l, 0)
  <2>1. /\ LatestEligible(runs) # run /\ run \in Run /\ run.eligible /\ run.status = "complete"
        /\ Stands(run) /\ TypeOK /\ Inventory
    BY <1>2 DEF GateInv, Selected, Reads
  <2>2. CASE \E i \in Positions : runs[i] = run
    <3>1. PICK i \in Positions : runs[i] = run
      BY <2>2
    <3> DEFINE latest == LatestEligible(runs)
    <3>2. \/ latest = NoRun /\ \A j \in 1..Len(runs) : ~runs[j].eligible
          \/ /\ latest.eligible
             /\ \E k \in 1..Len(runs) : latest = runs[k]
             /\ \A j \in 1..Len(runs) : runs[j].eligible => runs[j].id <= latest.id
      BY <1>0, LatestIsGreatest
    <3>3. PICK k \in Positions : latest = runs[k] /\ latest.eligible /\ run.id <= latest.id
      BY <2>1, <3>1, <3>2 DEF Positions
    <3>4. k # i /\ k \in Nat /\ i \in Nat /\ runs[k].id \in Nat /\ run.id \in Nat
      BY <2>1, <3>1, <3>3, RunFields DEF Positions
    <3>5. runs[k].id # run.id
      BY <2>1, <3>1, <3>4 DEF Inventory
    <3>6. runs[k].id > run.id /\ runs[k].eligible /\ k \in 0 + 1..Len(runs)
      BY <3>3, <3>4, <3>5 DEF Positions
    <3> QED BY <3>6 DEF Blocked
  <2>3. CASE \A i \in Positions : runs[i] # run
    <3>1. \A i \in Positions : runs[i].id = run.id => runs[i].attempt > run.attempt
      BY <2>1, <2>3 DEF Stands
    <3>2. NoRun # run
      BY <2>1, RunBoundsAssumption DEF NoRun, Run
    <3> QED BY <1>1, <3>1, <3>2 DEF Blocked
  <2> QED BY <2>2, <2>3
<1>3. \A i \in Positions : runs[i].id \in l.seen <=> 0 < i /\ i <= 0
  BY <1>0, <1>1 DEF Positions
<1>4. Deletions >= 0
  BY DEF GateInv, Inventory
<1>5. Unread(l, 0, 0)
  BY <1>0, <1>1, <1>2, <1>3, <1>4 DEF Unread
<1> QED BY <1>1, <1>5 DEF l

\* A page of the second listing.
LEMMA SecondListing ==
  ASSUME GateInv, gate = "listAgain", PageConsistent(Page(runs, listing.page), Len(runs))
  PROVE  LET next == Listed(Page(runs, listing.page), Len(runs))
         IN  /\ ~ListingEnds(next) =>
                  /\ next.page > 1
                  /\ next.count = next.page * PageSize - PageSize /\ next.count >= PageSize
                  /\ \E a, q \in 0..Len(runs) : Unread(next, a, q)
             /\ ListingSelects(next) /\ next.latest = run => witness
<1> DEFINE next == Listed(Page(runs, listing.page), Len(runs))
<1>0. /\ TypeOK /\ Inventory /\ Reads /\ run \in Run /\ Len(runs) \in Nat
      /\ listing \in Listings
  BY LenProperties DEF GateInv, Selected, TypeOK
<1>1. next.page = listing.page + 1 /\ next.total = Len(runs)
  BY DEF Listed
<1>2. \E a \in 0..Len(runs) :
        /\ next.count \in 0..Len(runs) /\ Unread(next, a, next.count)
        /\ ~ListingEnds(next) =>
             next.count = next.page * PageSize - PageSize /\ next.count >= PageSize
  <2>1. CASE listing = NewListing
    <3> DEFINE l == [NewListing EXCEPT !.total = Len(runs)]
    <3>1. l \in Listings /\ Unread(l, 0, 0)
      BY <2>1, BeforeFirstPage
    <3>2. /\ l.page = listing.page /\ l.count = listing.count /\ l.seen = listing.seen
          /\ l.latest = listing.latest /\ l.total = Len(runs) /\ l.count = 0 /\ l.page = 1
      BY <2>1 DEF NewListing
    <3> HIDE DEF l, next
    <3>3. l.count = l.page * PageSize - PageSize
      BY <3>2, WholePages
    <3>4. 0 \in 0..Len(runs)
      BY <1>0
    <3> USE DEF next
    <3> QED BY <1>0, <3>1, <3>2, <3>3, <3>4, ReadPage
  <2>2. CASE listing # NewListing
    <3>1. /\ listing.page > 1 /\ listing.count = listing.page * PageSize - PageSize
          /\ listing.count >= PageSize
          /\ \E a, q \in 0..Len(runs) : Unread(listing, a, q)
      BY <2>2 DEF GateInv, Reading
    <3>2. PICK a \in 0..Len(runs), q \in 0..Len(runs) : Unread(listing, a, q)
      BY <3>1
    <3>3. listing.total = Len(runs)
      BY <3>1 DEF PageConsistent
    <3> QED BY <1>0, <3>1, <3>2, <3>3, ReadPage
  <2> QED BY <2>1, <2>2
<1> HIDE DEF next
<1>3. PICK a \in 0..Len(runs) :
        /\ next.count \in 0..Len(runs) /\ Unread(next, a, next.count)
        /\ ~ListingEnds(next) =>
             next.count = next.page * PageSize - PageSize /\ next.count >= PageSize
  BY <1>2
<1>4. next.page > 1
  BY <1>0, <1>1 DEF Listings
<1>5. ASSUME ListingSelects(next), next.latest = run PROVE witness
  <2>1. next.count = Len(runs)
    BY <1>1, <1>5 DEF ListingSelects
  <2>2. ~Blocked(next, Len(runs))
    <3>1. run.id \in Nat
      BY <1>0, RunBoundsAssumption DEF Run
    <3> QED BY <1>0, <1>1, <1>5, <2>1, <3>1 DEF Blocked
  <2> QED BY <1>3, <2>1, <2>2 DEF Unread
<1> QED BY <1>3, <1>4, <1>5 DEF next

\* The gate has not been called: no run, an empty inventory.
LEMMA InitGate == ASSUME Init PROVE GateInv
<1>1. runs = <<>> /\ started = 0 /\ gate = "idle" /\ listing = NewListing /\ run = NoRun
      /\ witness = FALSE
  BY DEF Init, WorldInit, GateInit
<1>2. runs \in Seq(Run) /\ Len(runs) = 0
  BY <1>1, EmptySeq
<1>3. NewListing \in Listings /\ NoRun \in RunOrNone
  BY DEF NewListing, Listings, RunOrNone
<1>4. TypeOK
  <2>1. started \in 0..MaxRuns
    BY <1>1, RunBoundsAssumption
  <2>2. gate \in GateStates /\ witness \in BOOLEAN
    BY <1>1 DEF GateStates
  <2>3. listing \in Listings /\ run \in RunOrNone
    BY <1>1, <1>3, Zenon
  <2> QED BY <1>2, <2>1, <2>2, <2>3, Zenon DEF TypeOK
<1>5. Inventory
  <2>1. Positions = {}
    BY <1>2 DEF Positions
  <2>2. Deletions \in 0..MaxDeletions
    BY <1>1, <1>2, DeletionsAssumption DEF Deletions
  <2> QED BY <2>1, <2>2 DEF Inventory
<1>6. Reads
  BY <1>1, <1>4, NoRunStands DEF Reads, NewListing
<1> QED BY <1>1, <1>4, <1>5, <1>6 DEF GateInv, Selected, Reading

\* What the world does between two requests keeps the invariant.
LEMMA WorldKeepsGate == ASSUME GateInv, WorldChanges PROVE GateInv'
<1>1. /\ WorldMove /\ witness' = Witnessing(runs') /\ gate' = gate /\ listing' = listing
      /\ run' = run /\ TypeOK /\ Inventory /\ Reads
  BY DEF WorldChanges, WorldMove, GateInv
<1>2. runs' \in Seq(Run) /\ started' \in 0..MaxRuns /\ Inventory'
  BY <1>1, MoveKeepsInventory
<1>3. witness' \in BOOLEAN /\ (witness => witness')
      /\ (gate = "listAgain" /\ LatestEligible(runs') = run => witness')
  BY <1>1 DEF Witnessing, TypeOK
<1>4. TypeOK'
  BY <1>1, <1>2, <1>3 DEF TypeOK
<1>5. Reads'
  <2>1. Stands(run)' /\ Stands(listing.latest)'
    <3>1. run \in RunOrNone /\ listing.latest \in RunOrNone
      BY <1>1 DEF TypeOK, Listings
    <3>2. Stands(run) /\ Stands(listing.latest)
      BY <1>1 DEF Reads
    <3>3. \A r \in RunOrNone : Stands(r) => Stands(r)'
      BY <1>1, MoveKeepsStands
    <3> QED BY <1>1, <3>1, <3>2, <3>3 DEF Stands, Positions
  <2>2. \A id \in listing.seen : id <= started'
    <3>1. started' = started \/ started' = started + 1
      BY <1>1, StartedRuns, ChangedRun, DeletedRun DEF WorldMove
    <3>2. started \in Nat /\ listing.seen \subseteq Nat
      BY <1>1 DEF TypeOK, Listings
    <3> QED BY <1>1, <3>1, <3>2 DEF Reads
  <2> QED BY <1>1, <2>1, <2>2 DEF Reads
<1>6. Selected'
  <2>1. LatestEligible(runs)' = LatestEligible(runs')
    BY DEF LatestEligible
  <2> QED BY <1>1, <1>3, <2>1 DEF Selected, GateInv
<1>7. Reading'
  <2>1. SUFFICES ASSUME gate = "listAgain", listing # NewListing
                 PROVE  /\ listing.page > 1
                        /\ listing.count = listing.page * PageSize - PageSize
                        /\ listing.count >= PageSize
                        /\ \E a, q \in 0..Len(runs') : Unread(listing, a, q)'
    BY <1>1 DEF Reading
  <2>2. /\ listing.page > 1 /\ listing.count = listing.page * PageSize - PageSize
        /\ listing.count >= PageSize
        /\ \E a, q \in 0..Len(runs) : Unread(listing, a, q)
    BY <2>1 DEF GateInv, Reading
  <2>3. PICK a \in 0..Len(runs), q \in 0..Len(runs) : Unread(listing, a, q)
    BY <2>2
  <2>4. \E b, p \in 0..Len(runs') : Unread(listing, b, p)'
    BY <1>1, <1>3, <2>3, MoveKeepsUnread
  <2> QED BY <2>2, <2>4
<1> QED BY <1>2, <1>4, <1>5, <1>6, <1>7 DEF GateInv

\* A call of the gate and every step of it keep the invariant.
LEMMA GateKeepsGate ==
  ASSUME GateInv, CallGate \/ GateStep, UNCHANGED world
  PROVE  GateInv'
<1>0. /\ TypeOK /\ Inventory /\ Reads /\ runs' = runs /\ started' = started
      /\ NewListing \in Listings /\ NewListing.latest = NoRun /\ NewListing.seen = {}
  BY DEF GateInv, world, NewListing, Listings, RunOrNone
<1>1. Inventory' /\ Positions' = Positions /\ Deletions' = Deletions
  BY <1>0 DEF Inventory, Positions, Deletions
<1>2. \A r : Stands(r)' <=> Stands(r)
  BY <1>0 DEF Stands, Positions
<1>3. Stands(NoRun) /\ NoRun \in RunOrNone
  BY <1>0, NoRunStands
<1>4. ASSUME CallGate \/ Refuse PROVE GateInv'
  <2>1. /\ gate' \in {"definition", "refused"} /\ listing' = NewListing /\ run' = NoRun
        /\ witness' = FALSE
    BY <1>4 DEF CallGate, Refuse
  <2>2. TypeOK'
    BY <1>0, <1>3, <2>1 DEF TypeOK, GateStates
  <2>3. Reads'
    BY <1>0, <1>2, <1>3, <2>1 DEF Reads, Stands, Positions
  <2> QED BY <1>1, <2>1, <2>2, <2>3 DEF GateInv, Selected, Reading
<1> DEFINE response == Page(runs, listing.page)
           next == Listed(response, Len(runs))
<1>5. /\ next \in Listings /\ Stands(next.latest)
      /\ next.latest = NoRun \/ next.latest.eligible
      /\ \A id \in next.seen : id <= started
  BY <1>0, ListedReads
<1>6. CASE ReadDefinition
  <2>1. CASE Refuse
    BY <1>4, <2>1
  <2>2. CASE gate' = "list" /\ UNCHANGED <<listing, run, witness>>
    <3>1. TypeOK'
      BY <1>0, <2>2 DEF TypeOK, GateStates
    <3>2. Reads'
      BY <1>0, <2>2 DEF Reads, Stands, Positions
    <3> QED BY <1>1, <2>2, <3>1, <3>2 DEF GateInv, Selected, Reading
  <2> QED BY <1>6, <2>1, <2>2 DEF ReadDefinition
<1>7. CASE ListRuns
  <2>1. CASE Refuse
    BY <1>4, <2>1
  <2>2. CASE gate = "list" /\ listing' = next /\ UNCHANGED <<gate, run, witness>>
    <3> HIDE DEF next
    <3>1. TypeOK'
      BY <1>0, <1>5, <2>2 DEF TypeOK, GateStates
    <3>2. Reads'
      BY <1>0, <1>5, <2>2 DEF Reads, Stands, Positions
    <3> QED BY <1>1, <2>2, <3>1, <3>2 DEF GateInv, Selected, Reading
  <2>3. CASE /\ ListingSelects(next) /\ Successful(next.latest) /\ gate' = "jobs"
             /\ run' = next.latest /\ listing' = NewListing /\ UNCHANGED witness
    <3> HIDE DEF next
    <3>1. next.latest \in Run /\ next.latest.eligible
      BY <1>5, <2>3 DEF ListingSelects, Listings, RunOrNone
    <3>2. TypeOK'
      BY <1>0, <2>3, <3>1 DEF TypeOK, GateStates, RunOrNone
    <3>3. Reads'
      BY <1>0, <1>3, <1>5, <2>3 DEF Reads, Stands, Positions
    <3>4. Selected'
      BY <2>3, <3>1 DEF Selected, Successful
    <3> QED BY <1>1, <2>3, <3>2, <3>3, <3>4 DEF GateInv, Reading
  <2> QED BY <1>7, <2>1, <2>2, <2>3 DEF ListRuns
<1>8. CASE ReadJobs
  <2>1. CASE Refuse
    BY <1>4, <2>1
  <2>2. CASE /\ gate = "jobs" /\ run.status = "complete" /\ gate' = "listAgain"
             /\ witness' = (LatestEligible(runs) = run) /\ UNCHANGED <<listing, run>>
    <3>1. TypeOK'
      BY <1>0, <2>2 DEF TypeOK, GateStates
    <3>2. Reads'
      BY <1>0, <2>2 DEF Reads, Stands, Positions
    <3>3. LatestEligible(runs)' = LatestEligible(runs)
      BY <1>0 DEF LatestEligible
    <3>4. Selected'
      BY <2>2, <3>3 DEF GateInv, Selected, Successful
    <3>5. Reading'
      BY <2>2 DEF GateInv, Selected, Reading
    <3> QED BY <1>1, <3>1, <3>2, <3>4, <3>5 DEF GateInv
  <2> QED BY <1>8, <2>1, <2>2 DEF ReadJobs
<1>9. CASE ListRunsAgain
  <2>1. CASE Refuse
    BY <1>4, <2>1
  <2>2. CASE /\ gate = "listAgain" /\ PageConsistent(response, Len(runs)) /\ ~ListingEnds(next)
             /\ listing' = next /\ UNCHANGED <<gate, run, witness>>
    <3>1. /\ next.page > 1
          /\ next.count = next.page * PageSize - PageSize /\ next.count >= PageSize
          /\ \E a, q \in 0..Len(runs) : Unread(next, a, q)
      BY <2>2, SecondListing
    <3> HIDE DEF next, response
    <3>2. TypeOK'
      BY <1>0, <1>5, <2>2 DEF TypeOK, GateStates
    <3>3. Reads'
      BY <1>0, <1>5, <2>2 DEF Reads, Stands, Positions
    <3>4. LatestEligible(runs)' = LatestEligible(runs)
      BY <1>0 DEF LatestEligible
    <3>5. Selected'
      BY <2>2, <3>4 DEF GateInv, Selected, Successful
    <3>6. PICK a \in 0..Len(runs), q \in 0..Len(runs) : Unread(next, a, q)
      BY <3>1
    <3>7. Unread(listing, a, q)'
      BY <1>0, <2>2, <3>6 DEF Unread, Blocked, Positions, Deletions
    <3>8. Reading'
      BY <1>0, <2>2, <3>1, <3>7 DEF Reading
    <3> QED BY <1>1, <3>2, <3>3, <3>5, <3>8 DEF GateInv
  <2>3. CASE /\ gate = "listAgain" /\ PageConsistent(response, Len(runs)) /\ ListingSelects(next)
             /\ next.latest = run /\ gate' = "accepted" /\ listing' = NewListing
             /\ UNCHANGED <<run, witness>>
    <3>1. witness
      BY <2>3, SecondListing
    <3> HIDE DEF next, response
    <3>2. TypeOK'
      BY <1>0, <2>3 DEF TypeOK, GateStates
    <3>3. Reads'
      BY <1>0, <1>3, <2>3 DEF Reads, Stands, Positions
    <3>4. Selected'
      BY <2>3, <3>1 DEF GateInv, Selected, Successful
    <3> QED BY <1>1, <2>3, <3>2, <3>3, <3>4 DEF GateInv, Reading
  <2> QED BY <1>9, <2>1, <2>2, <2>3 DEF ListRunsAgain
<1> QED BY <1>4, <1>6, <1>7, <1>8, <1>9 DEF GateStep

-----------------------------------------------------------------------------
(* The whole check: the gate is called twice, with the evidence between.   *)

\* A step that leaves the inventory and the gate as they are.
LEMMA StillKeepsGate == ASSUME GateInv, UNCHANGED <<world, gateVars>> PROVE GateInv'
<1>1. /\ runs' = runs /\ started' = started /\ gate' = gate /\ listing' = listing
      /\ run' = run /\ witness' = witness
  BY DEF world, gateVars
<1>2. TypeOK' /\ Inventory' /\ Positions' = Positions
  BY <1>1 DEF GateInv, TypeOK, Inventory, Positions, Deletions
<1>3. Reads'
  BY <1>1 DEF GateInv, Reads, Stands, Positions
<1>4. Selected'
  BY <1>1 DEF GateInv, Selected, LatestEligible
<1>5. Reading'
  BY <1>1 DEF GateInv, Reading, Unread, Blocked, Positions, Deletions
<1> QED BY <1>2, <1>3, <1>4, <1>5 DEF GateInv

LEMMA StepGate == ASSUME GateInv, [Next]_vars PROVE GateInv'
<1>1. CASE WorldMoves
  BY <1>1, WorldKeepsGate, StillKeepsGate DEF WorldMoves
<1>2. CASE ResolveSource
  BY <1>2, GateKeepsGate, StillKeepsGate DEF ResolveSource, Failed
<1>3. CASE RunGate
  <2>1. UNCHANGED world
    BY <1>3 DEF RunGate, GateStep, ReadDefinition, ListRuns, ReadJobs, ListRunsAgain
  <2> QED BY <1>3, <2>1, GateKeepsGate DEF RunGate
<1>4. CASE FirstGateReturns
  BY <1>4, StillKeepsGate DEF FirstGateReturns, Failed
<1>5. CASE CheckSignatures
  BY <1>5, StillKeepsGate DEF CheckSignatures, Failed
<1>6. CASE ResolveSourceAgain
  BY <1>6, GateKeepsGate, StillKeepsGate DEF ResolveSourceAgain, Failed
<1>7. CASE LastGateReturns
  BY <1>7, StillKeepsGate DEF LastGateReturns, Failed
<1>8. CASE ResolveMain
  BY <1>8, StillKeepsGate DEF ResolveMain, Failed
<1>9. CASE UNCHANGED vars
  BY <1>9, StillKeepsGate DEF vars
<1> QED
  BY <1>1, <1>2, <1>3, <1>4, <1>5, <1>6, <1>7, <1>8, <1>9 DEF Next, Step, Returned

\* The run of the first gate, once that gate has returned it.
FirstIsComplete ==
  pc \in {"raceVet", "crossBuild", "resolveAgain", "gateAgain", "finalMain", "observed"} =>
    first \in Run /\ first.eligible /\ first.status = "complete"

\* If the last gate has seen the run of the first one as the latest, and main
\* has still not moved, then both agreed at that moment.
JointInv ==
  /\ pc = "gateAgain" /\ gate \in {"listAgain", "accepted"} /\ witness /\ run = first /\ ~moved
       => joint
  /\ pc = "finalMain" /\ ~moved => joint
  /\ pc = "observed" => joint

ObservationInv == GateInv /\ FirstIsComplete /\ JointInv

\* Each step of the check keeps what is known of the first run and of main.
LEMMA StepObservation == ASSUME ObservationInv, [Next]_vars PROVE FirstIsComplete' /\ JointInv'
<1> USE DEF ObservationInv
<1>1. CASE WorldMoves
  <2>1. /\ pc' = pc /\ first' = first /\ run' = run /\ gate' = gate
        /\ joint' = (joint \/ (Watching /\ Holds(runs', moved')))
    BY <1>1 DEF WorldMoves, WorldChanges, gateVars
  <2>2. ASSUME pc = "gateAgain", gate \in {"listAgain", "accepted"}, witness', run = first, ~moved'
        PROVE  joint'
    <3>1. ~moved /\ witness' = Witnessing(runs')
      <4>1. moved' # TRUE
        BY <2>2
      <4>2. WorldChanges /\ moved' = moved
        BY <1>1, <4>1, Zenon DEF WorldMoves
      <4>3. ~moved
        BY <2>2, <4>2, Zenon
      <4>4. witness' = Witnessing(runs')
        BY <4>2 DEF WorldChanges
      <4> QED BY <4>3, <4>4
    <3>2. CASE witness
      BY <2>1, <2>2, <3>1, <3>2 DEF JointInv
    <3>3. CASE gate = "listAgain" /\ LatestEligible(runs') = run
      BY <2>1, <2>2, <3>3 DEF Watching, Holds
    <3> QED BY <2>2, <3>1, <3>2, <3>3 DEF Witnessing
  <2>3. ~moved' => ~moved
    BY <1>1, Zenon DEF WorldMoves
  <2> QED BY <2>1, <2>2, <2>3 DEF JointInv, FirstIsComplete
<1>2. CASE ResolveSource
  <2>1. pc' \in {"gate", "failed"}
    BY <1>2 DEF ResolveSource, Failed
  <2> QED BY <2>1 DEF JointInv, FirstIsComplete
<1>3. CASE RunGate
  <2>1. /\ pc \in {"gate", "gateAgain"} /\ pc' = pc /\ first' = first /\ moved' = moved
        /\ joint' = (joint \/ (pc = "gateAgain" /\ gate' = "listAgain" /\ Holds(runs, moved)))
        /\ GateStep
    BY <1>3 DEF RunGate
  <2>2. ASSUME pc = "gateAgain", gate' \in {"listAgain", "accepted"}, witness', run' = first, ~moved
        PROVE  joint'
    <3>1. ~Refuse
      BY <2>2 DEF Refuse
    <3>2. CASE ReadDefinition
      BY <2>2, <3>1, <3>2 DEF ReadDefinition
    <3>3. CASE ListRuns
      BY <2>2, <3>1, <3>3 DEF ListRuns
    <3>4. CASE ReadJobs
      <4>1. gate' = "listAgain" /\ witness' = (LatestEligible(runs) = run) /\ run' = run
        BY <3>1, <3>4 DEF ReadJobs
      <4> QED BY <2>1, <2>2, <4>1 DEF Holds
    <3>5. CASE ListRunsAgain
      <4>1. gate = "listAgain" /\ witness' = witness /\ run' = run
        BY <3>1, <3>5 DEF ListRunsAgain
      <4> QED BY <2>1, <2>2, <4>1 DEF JointInv
    <3> QED BY <2>1, <3>2, <3>3, <3>4, <3>5 DEF GateStep
  <2> QED BY <2>1, <2>2 DEF JointInv, FirstIsComplete
<1>4. CASE FirstGateReturns
  <2>1. CASE gate = "accepted" /\ pc' = "raceVet" /\ first' = run
    BY <2>1 DEF GateInv, Selected, JointInv, FirstIsComplete
  <2>2. CASE Failed
    BY <2>2 DEF Failed, JointInv, FirstIsComplete
  <2> QED BY <1>4, <2>1, <2>2 DEF FirstGateReturns
<1>5. CASE CheckSignatures
  <2>1. CASE /\ pc \in {"raceVet", "crossBuild"} /\ pc' \in {"crossBuild", "resolveAgain"}
             /\ first' = first
    BY <2>1 DEF JointInv, FirstIsComplete
  <2>2. CASE Failed
    BY <2>2 DEF Failed, JointInv, FirstIsComplete
  <2> QED BY <1>5, <2>1, <2>2 DEF CheckSignatures
<1>6. CASE ResolveSourceAgain
  <2>1. CASE pc = "resolveAgain" /\ pc' = "gateAgain" /\ first' = first /\ gate' = "definition"
    BY <2>1 DEF JointInv, FirstIsComplete
  <2>2. CASE Failed
    BY <2>2 DEF Failed, JointInv, FirstIsComplete
  <2> QED BY <1>6, <2>1, <2>2 DEF ResolveSourceAgain, CallGate
<1>7. CASE LastGateReturns
  <2>1. CASE /\ pc = "gateAgain" /\ gate = "accepted" /\ pc' = "finalMain"
             /\ run.id = first.id /\ run.attempt = first.attempt
             /\ first' = first /\ joint' = joint /\ moved' = moved
    <3>1. /\ run \in Run /\ run.eligible /\ run.status = "complete" /\ witness
          /\ first \in Run /\ first.eligible /\ first.status = "complete"
      BY <2>1 DEF GateInv, Selected, FirstIsComplete
    <3>2. run = first
      BY <2>1, <3>1 DEF Run
    <3> QED BY <2>1, <3>1, <3>2 DEF JointInv, FirstIsComplete
  <2>2. CASE Failed
    BY <2>2 DEF Failed, JointInv, FirstIsComplete
  <2> QED BY <1>7, <2>1, <2>2 DEF LastGateReturns
<1>8. CASE ResolveMain
  <2>1. CASE pc = "finalMain" /\ ~moved /\ pc' = "observed" /\ first' = first /\ joint' = joint
    BY <2>1 DEF JointInv, FirstIsComplete
  <2>2. CASE Failed
    BY <2>2 DEF Failed, JointInv, FirstIsComplete
  <2> QED BY <1>8, <2>1, <2>2 DEF ResolveMain
<1>9. CASE UNCHANGED vars
  BY <1>9 DEF vars, ciVars, world, gateVars, JointInv, FirstIsComplete
<1> QED
  BY <1>1, <1>2, <1>3, <1>4, <1>5, <1>6, <1>7, <1>8, <1>9 DEF Next, Step, Returned

LEMMA ObservationInvHolds == Spec => []ObservationInv
<1>1. Init => ObservationInv
  <2> SUFFICES ASSUME Init PROVE ObservationInv
    OBVIOUS
  <2> QED BY InitGate DEF ObservationInv, FirstIsComplete, JointInv, Init
<1>2. ObservationInv /\ [Next]_vars => ObservationInv'
  <2> SUFFICES ASSUME ObservationInv, [Next]_vars PROVE ObservationInv'
    OBVIOUS
  <2>1. GateInv'
    BY StepGate DEF ObservationInv
  <2>2. FirstIsComplete' /\ JointInv'
    BY StepObservation, Zenon
  <2> QED BY <2>1, <2>2 DEF ObservationInv
<1> QED BY <1>1, <1>2, PTL DEF Spec

\* The run that the gate accepts was the latest of its commit, complete, at one
\* moment of the second listing, however many runs and pages there are and
\* whatever happened between the pages (latestRun, verify).
THEOREM LatestRunIsAccepted == Spec => []AcceptedWasLatest
<1>1. ObservationInv => AcceptedWasLatest
  BY DEF ObservationInv, GateInv, Selected, AcceptedWasLatest
<1> QED BY <1>1, ObservationInvHolds, PTL

\* What the check of main's CI returns was true at one moment, although no
\* request reads both the branch and the runs (currentci.verify).
THEOREM ObservationWasTrueAtOnce == Spec => []ObservedAtOnce
<1>1. ObservationInv => ObservedAtOnce
  BY DEF ObservationInv, JointInv, ObservedAtOnce
<1> QED BY <1>1, ObservationInvHolds, PTL
=============================================================================
