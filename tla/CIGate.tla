------------------------------- MODULE CIGate -------------------------------
(***************************************************************************)
(* cireleasegate.Verify: the live check that the latest CI run of a commit *)
(* is complete and successful. GitHub answers page by page while runs are  *)
(* started, finished, repeated and deleted; the gate trusts no single page *)
(* and reads the inventory again after the jobs.                           *)
(*                                                                         *)
(* runs is the inventory of the commit that is asked about, newest first,  *)
(* as the API lists it. A successful run is "complete" if the inventory of *)
(* its attempt's jobs has every required job, "partial" if it has not.     *)
(***************************************************************************)
EXTENDS Integers, Sequences, FiniteSets

CONSTANTS
  MaxRuns,      \* bound: runs ever started
  MaxAttempts,  \* bound: attempts of a run
  MaxRepeated,  \* bound: runs of the inventory with more than one attempt
  MaxDeletions, \* bound: runs ever deleted
  PageSize,     \* pageSize of the code
  MaxPages      \* maximumEntries / pageSize

ASSUME PagesAssumption ==
  /\ PageSize \in Nat \ {0}
  /\ MaxPages \in Nat \ {0}
ASSUME RunBoundsAssumption == MaxRuns \in Nat /\ MaxAttempts \in Nat \ {0}

\* Who deletes a whole page of runs, 100 of them, while two pages are read can
\* hide a run from the listing: the total and the duplicates that latestRun looks
\* at no longer tell. All that follows is about fewer deletions.
ASSUME DeletionsAssumption == MaxDeletions \in Nat /\ MaxDeletions < PageSize

VARIABLES
  runs,     \* the inventory, newest run first
  started,  \* runs ever started: the next identity
  gate,     \* where verify is: idle, definition, list, jobs, listAgain, accepted or refused
  listing,  \* the locals of latestRun
  run,      \* the run that verify has selected
  witness   \* history: since the second listing began, run has been the latest

world == <<runs, started>>
gateVars == <<gate, listing, run, witness>>

Run == [id : 1..MaxRuns, attempt : 1..MaxAttempts, eligible : BOOLEAN,
        status : {"running", "failed", "partial", "complete"}]

NoRun == [id |-> 0, attempt |-> 0, eligible |-> FALSE, status |-> "none"]

Successful(r) == r.status \in {"partial", "complete"}

GateStates == {"idle", "definition", "list", "jobs", "listAgain", "accepted", "refused"}

NewListing == [page |-> 1, total |-> 0, count |-> 0, seen |-> {}, latest |-> NoRun]

\* The run that latestRun would select if it saw the whole inventory at once.
LatestEligible(inventory) ==
  LET chosen == {i \in 1..Len(inventory) : inventory[i].eligible}
  IN  IF chosen = {} THEN NoRun
      ELSE inventory[CHOOSE i \in chosen : \A j \in chosen : inventory[i].id >= inventory[j].id]

Witnessing(inventory) ==
  witness \/ (gate = "listAgain" /\ LatestEligible(inventory) = run)

-----------------------------------------------------------------------------
(* The world: Actions starts, finishes, repeats and loses runs.            *)

StartRun ==
  /\ started < MaxRuns
  /\ started' = started + 1
  /\ \E eligible \in BOOLEAN :
       runs' = <<[id |-> started + 1, attempt |-> 1, eligible |-> eligible,
                  status |-> "running"]>> \o runs

FinishRun ==
  \E i \in 1..Len(runs) :
    /\ runs[i].status = "running"
    /\ \E status \in {"failed", "partial", "complete"} :
         runs' = [runs EXCEPT ![i].status = status]
    /\ UNCHANGED started

Repeated(r) == [r EXCEPT !.status = "running", !.attempt = r.attempt + 1]

\* A rerun of a run, or of its failed jobs only, is a new attempt.
RepeatRun ==
  \E i \in 1..Len(runs) :
    /\ runs[i].status # "running"
    /\ runs[i].attempt < MaxAttempts
    /\ Cardinality({j \in 1..Len(runs) : runs[j].attempt > 1} \cup {i}) <= MaxRepeated
    /\ runs' = [runs EXCEPT ![i] = Repeated(@)]
    /\ UNCHANGED started

\* Runs that were started and are not in the inventory have been deleted.
Deletions == started - Len(runs)

DeleteRun ==
  /\ Deletions < MaxDeletions
  /\ \E i \in 1..Len(runs) :
       /\ runs[i].status # "running"
       /\ runs' = SubSeq(runs, 1, i - 1) \o SubSeq(runs, i + 1, Len(runs))
  /\ UNCHANGED started

WorldChanges ==
  /\ StartRun \/ FinishRun \/ RepeatRun \/ DeleteRun
  /\ witness' = Witnessing(runs')
  /\ UNCHANGED <<gate, listing, run>>

-----------------------------------------------------------------------------
(* The gate.                                                               *)

Refuse ==
  /\ gate' = "refused"
  /\ listing' = NewListing
  /\ run' = NoRun
  /\ witness' = FALSE

\* verify is called for the commit.
CallGate ==
  /\ gate' = "definition"
  /\ listing' = NewListing
  /\ run' = NoRun
  /\ witness' = FALSE

\* The workflow must be the active CI workflow.
ReadDefinition ==
  /\ gate = "definition"
  /\ \/ /\ gate' = "list"
        /\ UNCHANGED <<listing, run, witness>>
     \/ Refuse
  /\ UNCHANGED world

\* The answer to one request of latestRun.
Page(inventory, page) ==
  LET last == page * PageSize
  IN  SubSeq(inventory, last - PageSize + 1, IF last > Len(inventory) THEN Len(inventory) ELSE last)

Identities(response) == {response[i].id : i \in 1..Len(response)}

\* Mutant: the declared total may change from page to page.
PageConsistent_AnyTotal(response, total) ==
  /\ total <= MaxPages * PageSize
  /\ listing.count + Len(response) <= total
  /\ Len(response) = 0 => listing.count = total
  /\ Identities(response) \cap listing.seen = {}

\* The tests of one page: the declared total, the count so far, duplicates.
PageConsistent(response, total) ==
  /\ total <= MaxPages * PageSize
  /\ listing.page > 1 => listing.total = total
  /\ listing.count + Len(response) <= total
  /\ Len(response) = 0 => listing.count = total
  /\ Identities(response) \cap listing.seen = {}

Listed(response, total) ==
  [page   |-> listing.page + 1,
   total  |-> total,
   count  |-> listing.count + Len(response),
   seen   |-> listing.seen \cup Identities(response),
   latest |-> LatestEligible(<<listing.latest>> \o response)]

\* latestRun stops when it has counted the total or read the last page.
ListingEnds(next) == next.count = next.total \/ next.page > MaxPages

ListingSelects(next) == next.count = next.total /\ next.latest # NoRun

\* One page of the first latestRun, and after the last the test of the status.
ListRuns ==
  /\ gate = "list"
  /\ LET response == Page(runs, listing.page)
         total == Len(runs)
         next == Listed(response, total)
     IN  \/ /\ PageConsistent(response, total)
            /\ ~ListingEnds(next)
            /\ listing' = next
            /\ UNCHANGED <<gate, run, witness>>
         \/ /\ PageConsistent(response, total)
            /\ ListingEnds(next)
            /\ ListingSelects(next)
            /\ Successful(next.latest)
            /\ gate' = "jobs"
            /\ run' = next.latest
            /\ listing' = NewListing
            /\ UNCHANGED witness
         \/ Refuse  \* a failed request, an inconsistent page, no successful run
  /\ UNCHANGED world

\* loadJobs and verifyJobs: the jobs of the selected attempt, fixed once it has
\* completed. The endpoint fails if the run is gone.
ReadJobs ==
  /\ gate = "jobs"
  /\ \/ /\ \E i \in 1..Len(runs) : runs[i].id = run.id
        /\ run.status = "complete"
        /\ gate' = "listAgain"
        /\ witness' = (LatestEligible(runs) = run)
        /\ UNCHANGED <<listing, run>>
     \/ Refuse
  /\ UNCHANGED world

\* One page of the second latestRun, and after the last the comparison.
ListRunsAgain ==
  /\ gate = "listAgain"
  /\ LET response == Page(runs, listing.page)
         total == Len(runs)
         next == Listed(response, total)
     IN  \/ /\ PageConsistent(response, total)
            /\ ~ListingEnds(next)
            /\ listing' = next
            /\ UNCHANGED <<gate, run, witness>>
         \/ /\ PageConsistent(response, total)
            /\ ListingEnds(next)
            /\ ListingSelects(next)
            /\ next.latest = run
            /\ gate' = "accepted"
            /\ listing' = NewListing
            /\ UNCHANGED <<run, witness>>
         \/ Refuse
  /\ UNCHANGED world

GateStep == ReadDefinition \/ ListRuns \/ ReadJobs \/ ListRunsAgain

WorldInit ==
  /\ runs = <<>>
  /\ started = 0

GateInit ==
  /\ gate = "idle"
  /\ listing = NewListing
  /\ run = NoRun
  /\ witness = FALSE

-----------------------------------------------------------------------------
\* The run that the gate accepts was the latest of its commit, completed and
\* with every required job, at one moment of the second listing, whatever
\* happened between the pages (latestRun, verify).
AcceptedWasLatest ==
  gate = "accepted" =>
    /\ witness
    /\ run.status = "complete"
=============================================================================
