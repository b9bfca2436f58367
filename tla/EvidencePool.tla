----------------------------- MODULE EvidencePool -----------------------------
(***************************************************************************)
(* The worker pool at the end of sourceReader.verifyEvidence               *)
(* (internal/releaseassessment/source.go): workers download the evidence   *)
(* blobs of a released scorecard concurrently and compare their digests.   *)
(* The first failure is kept in a channel with room for one error and      *)
(* cancels the others; the feeder hands out blobs over an unbuffered       *)
(* channel until there are none left or the work is canceled.              *)
(***************************************************************************)
EXTENDS FiniteSets

CONSTANTS
  Blobs,      \* the keys of objects: the blobs the scorecard refers to
  Workers,    \* the worker goroutines, four in the code
  NoBlob

ASSUME BlobsAssumption == IsFiniteSet(Blobs) /\ Blobs # {} /\ NoBlob \notin Blobs
ASSUME WorkersAssumption == Workers # {}

VARIABLES
  intact,     \* the blobs whose bytes have the digest the scorecard pins
  remaining,  \* blobs the range loop has not handed out yet
  feeder,     \* the calling goroutine
  state,      \* where each worker is
  task,       \* the blob a worker received and has not verified
  err,        \* the error a worker found
  failure,    \* what the failures channel holds
  canceled,   \* cancel() was called
  stopped,    \* ctx.Err() # nil: the caller's context has ended
  result,     \* what verifyEvidence returns
  verified    \* history: the blobs whose digest was compared and agreed

workers == <<state, task, err>>
vars == <<intact, remaining, feeder, workers, failure, canceled, stopped, result, verified>>

Errors == {"mismatch", "unreachable", "canceled"}

TypeOK ==
  /\ intact \subseteq Blobs
  /\ remaining \subseteq Blobs
  /\ feeder \in {"feed", "wait", "returned"}
  /\ state \in [Workers -> {"receive", "request", "fetch", "report", "cancel", "exited"}]
  /\ task \in [Workers -> Blobs \cup {NoBlob}]
  /\ err \in [Workers -> Errors \cup {"none"}]
  /\ failure \in Errors \cup {"none"}
  /\ canceled \in BOOLEAN
  /\ stopped \in BOOLEAN
  /\ result \in Errors \cup {"none", "ok"}
  /\ verified \subseteq Blobs

Init ==
  /\ intact \in SUBSET Blobs
  /\ remaining = Blobs
  /\ feeder = "feed"
  /\ state = [w \in Workers |-> "receive"]
  /\ task = [w \in Workers |-> NoBlob]
  /\ err = [w \in Workers |-> "none"]
  /\ failure = "none"
  /\ canceled = FALSE
  /\ stopped = FALSE
  /\ result = "none"
  /\ verified = {}

\* workCtx is done when a worker cancels it and when the caller's context ends.
WorkDone == canceled \/ stopped

-----------------------------------------------------------------------------
(* The feeder. *)

\* The rendezvous on tasks.  A select with both cases ready takes either, so
\* a blob may be handed out although the work is done.
Feed(w, b) ==
  /\ feeder = "feed"
  /\ b \in remaining
  /\ state[w] = "receive"
  /\ remaining' = remaining \ {b}
  /\ state' = [state EXCEPT ![w] = "request"]
  /\ task' = [task EXCEPT ![w] = b]
  /\ UNCHANGED <<intact, feeder, err, failure, canceled, stopped, result, verified>>

\* Mutant: the feeder only sends, it does not watch the context.
CloseTasks_NoDone ==
  /\ feeder = "feed"
  /\ remaining = {}
  /\ feeder' = "wait"
  /\ UNCHANGED <<intact, remaining, workers, failure, canceled, stopped, result, verified>>

\* Every blob was handed out, or the loop breaks because the work is done.
CloseTasks ==
  /\ feeder = "feed"
  /\ remaining = {} \/ WorkDone
  /\ feeder' = "wait"
  /\ UNCHANGED <<intact, remaining, workers, failure, canceled, stopped, result, verified>>

\* Mutant: the caller's context is not looked at again.
Return_IgnoresStop ==
  /\ feeder = "wait"
  /\ \A w \in Workers : state[w] = "exited"
  /\ feeder' = "returned"
  /\ result' = IF failure # "none" THEN failure ELSE "ok"
  /\ UNCHANGED <<intact, remaining, workers, failure, canceled, stopped, verified>>

\* workers.Wait, then the recorded failure or ctx.Err.
Return ==
  /\ feeder = "wait"
  /\ \A w \in Workers : state[w] = "exited"
  /\ feeder' = "returned"
  /\ result' = CASE failure # "none" -> failure
                 [] failure = "none" /\ stopped -> "canceled"
                 [] OTHER -> "ok"
  /\ UNCHANGED <<intact, remaining, workers, failure, canceled, stopped, verified>>

-----------------------------------------------------------------------------
(* A worker. *)

\* The channel is closed and the range loop ends.
TasksClosed(w) ==
  /\ state[w] = "receive"
  /\ feeder # "feed"
  /\ state' = [state EXCEPT ![w] = "exited"]
  /\ UNCHANGED <<intact, remaining, feeder, task, err, failure, canceled, stopped, result, verified>>

\* The API client refuses a context that is done before it starts its request.
Request(w) ==
  /\ state[w] = "request"
  /\ IF WorkDone
     THEN /\ state' = [state EXCEPT ![w] = "report"]
          /\ err' = [err EXCEPT ![w] = "canceled"]
     ELSE /\ state' = [state EXCEPT ![w] = "fetch"]
          /\ UNCHANGED err
  /\ UNCHANGED <<intact, remaining, feeder, task, failure, canceled, stopped, result, verified>>

\* A request in flight may still be answered after the work was canceled.
Verify(w) ==
  /\ state[w] = "fetch"
  /\ task[w] \in intact
  /\ state' = [state EXCEPT ![w] = "receive"]
  /\ task' = [task EXCEPT ![w] = NoBlob]
  /\ verified' = verified \cup {task[w]}
  /\ UNCHANGED <<intact, remaining, feeder, err, failure, canceled, stopped, result>>

\* The errors readBlob and the comparison of digests can give: stageFailure
\* reports the end of workCtx for any API failure that follows it.
FetchErrors(b) ==
  (IF b \in intact THEN {} ELSE {"mismatch"})
    \cup {IF WorkDone THEN "canceled" ELSE "unreachable"}

Fail(w) ==
  /\ state[w] = "fetch"
  /\ \E e \in FetchErrors(task[w]) : err' = [err EXCEPT ![w] = e]
  /\ state' = [state EXCEPT ![w] = "report"]
  /\ UNCHANGED <<intact, remaining, feeder, task, failure, canceled, stopped, result, verified>>

\* Mutant: the others are canceled before the failure is recorded.
Report_CancelsFirst(w) ==
  /\ state[w] = "report"
  /\ canceled' = TRUE
  /\ IF canceled
     THEN /\ failure' = IF failure = "none" THEN err[w] ELSE failure
          /\ state' = [state EXCEPT ![w] = "exited"]
     ELSE UNCHANGED <<failure, state>>
  /\ UNCHANGED <<intact, remaining, feeder, task, err, stopped, result, verified>>

\* The first failure is recorded, a later one finds the channel full.
Report(w) ==
  /\ state[w] = "report"
  /\ failure' = IF failure = "none" THEN err[w] ELSE failure
  /\ state' = [state EXCEPT ![w] = "cancel"]
  /\ UNCHANGED <<intact, remaining, feeder, task, err, canceled, stopped, result, verified>>

\* Mutant: a worker that failed leaves without canceling the others.
CancelOthers_Forgotten(w) ==
  /\ state[w] = "cancel"
  /\ state' = [state EXCEPT ![w] = "exited"]
  /\ UNCHANGED <<intact, remaining, feeder, task, err, failure, canceled, stopped, result, verified>>

CancelOthers(w) ==
  /\ state[w] = "cancel"
  /\ canceled' = TRUE
  /\ state' = [state EXCEPT ![w] = "exited"]
  /\ UNCHANGED <<intact, remaining, feeder, task, err, failure, stopped, result, verified>>

-----------------------------------------------------------------------------

\* The caller's context ends: its 30 minutes are over, or it was canceled.
Stop ==
  /\ feeder # "returned"
  /\ stopped' = TRUE
  /\ UNCHANGED <<intact, remaining, feeder, workers, failure, canceled, result, verified>>

Returned == feeder = "returned" /\ UNCHANGED vars

Worker(w) ==
  \/ TasksClosed(w) \/ Request(w) \/ Verify(w) \/ Fail(w)
  \/ Report(w) \/ CancelOthers(w)

Feeder == CloseTasks \/ Return \/ \E w \in Workers, b \in Blobs : Feed(w, b)

Next == Feeder \/ (\E w \in Workers : Worker(w)) \/ Stop \/ Returned

Spec == Init /\ [][Next]_vars

\* The goroutines are scheduled, and a request ends within its 30 s.
Fairness == WF_vars(Feeder) /\ \A w \in Workers : WF_vars(Worker(w))

FairSpec == Spec /\ Fairness

-----------------------------------------------------------------------------
(* Properties. *)

\* No error is returned only when every blob was downloaded and agreed with the
\* digest the scorecard pins, whichever worker failed or was canceled.
OkMeansVerified == result = "ok" => verified = Blobs

\* The error verifyEvidence returns is a cause, not a consequence: a worker's
\* "canceled" is returned only if the caller's own context has ended.
CauseReported == result = "canceled" => stopped

\* The feeder is never left alone with blobs on the unbuffered channel: when
\* every worker has gone the work is done, so its select has a case to take.
FeederNotStranded ==
  feeder = "feed" /\ (\A w \in Workers : state[w] = "exited") => WorkDone

\* verifyEvidence returns, whatever fails and in whichever order: no worker
\* waits for the feeder, and the feeder for no worker.
Terminates == <>(feeder = "returned")

\* The strengthening that makes OkMeansVerified and CauseReported inductive.
\* No blob is lost: it waits to be handed out, was verified, or is held by a
\* worker, and a worker that exits with a blob has recorded a failure.
Accounted ==
  /\ \A b \in Blobs :
       b \in remaining \/ b \in verified \/ \E w \in Workers : task[w] = b
  /\ \A w \in Workers : state[w] = "exited" /\ task[w] # NoBlob => failure # "none"

\* Blobs stay behind only when the work was canceled, and a worker cancels it
\* only after a failure was recorded; nor does one leave before that.
FailureRecorded ==
  /\ \A w \in Workers : state[w] = "exited" /\ feeder = "feed" => WorkDone
  /\ feeder # "feed" /\ remaining # {} => WorkDone
  /\ canceled => failure # "none"
  /\ \A w \in Workers : state[w] = "cancel" => failure # "none"

CauseInv ==
  /\ failure = "canceled" => stopped
  /\ \A w \in Workers :
       state[w] = "report" => err[w] # "none" /\ (err[w] = "canceled" => WorkDone)

WorkerInv ==
  \A w \in Workers :
    /\ state[w] = "receive" => task[w] = NoBlob
    /\ state[w] \in {"request", "fetch"} => task[w] \in Blobs

PoolInv ==
  /\ TypeOK
  /\ Accounted
  /\ FailureRecorded
  /\ CauseInv
  /\ WorkerInv
  /\ verified \subseteq intact
  /\ OkMeansVerified
  /\ CauseReported
=============================================================================
