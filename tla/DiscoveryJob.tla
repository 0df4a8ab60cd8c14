---------------------------- MODULE DiscoveryJob ----------------------------
(***************************************************************************)
(* One discovery job: its row in discovery_jobs, the API requests that     *)
(* start, cancel and retry it, and the runs of the orchestrator that scan  *)
(* its targets, each in a database session of its own.                     *)
(*                                                                         *)
(* Every session works on a private copy of the row (the DiscoveryJob      *)
(* dataclass).  SqlAlchemyDiscoveryJobRepository.get refreshes the copy,   *)
(* .update assigns every field of the copy to the ORM instance and flushes *)
(* the columns that changed.  All interleavings of these reads and writes  *)
(* are behaviours of this module.                                          *)
(***************************************************************************)
EXTENDS Integers, FiniteSets

CONSTANTS
  Start,          \* the POST /discovery/jobs request and the run it dispatches
  Cancellers,     \* POST .../cancel requests, one call each
  Retriers,       \* POST .../retry requests, one call and one inline run each
  NoRun,          \* stats without a snapshot_id
  NumTargets,     \* addresses the seeds of the job expand to
  ProgressEvery,  \* unreachable targets are reported every so many (25)
  EarlyPickup,    \* may a worker take the message before start_job returns?
  MaxCrashes      \* bound: processes that die in the middle of their work

Requests == {Start} \cup Cancellers \cup Retriers

Dispatches == {Start} \cup Retriers

ASSUME ParameterAssumption ==
  /\ Start \notin Cancellers \cup Retriers
  /\ Cancellers \cap Retriers = {}
  /\ NoRun \notin Requests
  /\ NumTargets \in Nat
  /\ ProgressEvery \in Nat \ {0}
  /\ EarlyPickup \in BOOLEAN
  /\ MaxCrashes \in Nat

Status == {"pending", "running", "completed", "failed", "cancelled"}

Terminal == {"completed", "failed", "cancelled"}

\* The config JSON column.  dispatch = "celery" stands for a stored
\* celery_task_id; a missing "cancelled" key reads as FALSE.
Config == [dispatch : {"none", "celery", "inline"}, cancelled : BOOLEAN]

\* The stats JSON column: scanned, inventoried, errors and snapshot_id (named
\* after the run that made the snapshot).  A missing key reads as zero.
Stats == [scanned : Nat, done : Nat, errors : Nat, snap : Dispatches \cup {NoRun}]

\* A row of discovery_jobs, and a session's copy of it.
JobRow == [status : Status, finished : BOOLEAN, config : Config, stats : Stats]

NoStats == [scanned |-> 0, done |-> 0, errors |-> 0, snap |-> NoRun]

\* What start_job stores with its first commit.
NewJob == [status |-> "pending", finished |-> FALSE,
           config |-> [dispatch |-> "none", cancelled |-> FALSE],
           stats |-> NoStats]

VARIABLES
  row,        \* the committed row of the job
  inventory,  \* targets whose inventory is committed
  snapshots,  \* runs whose snapshot is committed
  pc,         \* where each run is
  idx,        \* the target each run is at
  job,        \* each run's copy of the job
  base,       \* the row as each run's session last saw it
  rpc,        \* where each request is
  rjob,       \* each request's copy of the job
  rbase,      \* the row as each request's session last saw it
  revoked,    \* a revoke of the Celery task has been broadcast
  crashes     \* processes that died so far

rowVars == <<row, inventory, snapshots>>
runVars == <<pc, idx, job, base>>
reqVars == <<rpc, rjob, rbase>>
vars == <<row, inventory, snapshots, pc, idx, job, base, rpc, rjob, rbase, revoked, crashes>>

Waiting == {"queued", "scheduled"}

Busy == {"starting", "expanded", "checking", "collecting", "progress", "saving",
         "recovering", "stopping", "raised", "cancelling", "completing", "failing"}

Ended == {"completed", "failed", "cancelled", "dead"}

RunPc == {"none"} \cup Waiting \cup Busy \cup Ended

InFlight == {"enqueue", "dispatching", "cancelling", "retrying"}

ReqPc == {"idle", "done"} \cup InFlight

TypeOK ==
  /\ row \in JobRow
  /\ inventory \in SUBSET (1..NumTargets)
  /\ snapshots \in SUBSET Dispatches
  /\ pc \in [Dispatches -> RunPc]
  /\ idx \in [Dispatches -> Nat]
  /\ job \in [Dispatches -> JobRow]
  /\ base \in [Dispatches -> JobRow]
  /\ rpc \in [Requests -> ReqPc]
  /\ rjob \in [Requests -> JobRow]
  /\ rbase \in [Requests -> JobRow]
  /\ revoked \in BOOLEAN
  /\ crashes \in Nat

Init ==
  /\ row = NewJob
  /\ inventory = {}
  /\ snapshots = {}
  /\ pc = [d \in Dispatches |-> "none"]
  /\ idx = [d \in Dispatches |-> 1]
  /\ job = [d \in Dispatches |-> NewJob]
  /\ base = [d \in Dispatches |-> NewJob]
  /\ rpc = [q \in Requests |-> IF q = Start THEN "enqueue" ELSE "idle"]
  /\ rjob = [q \in Requests |-> NewJob]
  /\ rbase = [q \in Requests |-> NewJob]
  /\ revoked = FALSE
  /\ crashes = 0

-----------------------------------------------------------------------------
(* The repository.                                                         *)

\* Mutant: nobody looks at the cancel flag.
IsCancelledNever(r) == FALSE

IsCancelled(r) == r.status = "cancelled" \/ r.config.cancelled

\* The columns of a copy that differ from the ORM instance are written.
Column(current, loaded, new) == IF new = loaded THEN current ELSE new

Merge(current, loaded, new) ==
  [status   |-> Column(current.status, loaded.status, new.status),
   finished |-> Column(current.finished, loaded.finished, new.finished),
   config   |-> Column(current.config, loaded.config, new.config),
   stats    |-> Column(current.stats, loaded.stats, new.stats)]

\* update and the commit after it.  update compares the copy with what its
\* session.get returns: the row, read again because nothing refers to the
\* instance of an earlier read and the identity map is weak, or, when the row
\* changes between that read and the flush, the row as it was before.
Update(copy, seen) == \E loaded \in {row, seen} : row' = Merge(row, loaded, copy)

-----------------------------------------------------------------------------
(* The requests.                                                           *)

\* The request is over and its session closed.
CloseRequest(q) ==
  /\ rpc' = [rpc EXCEPT ![q] = "done"]
  /\ rjob' = [rjob EXCEPT ![q] = NewJob]
  /\ rbase' = [rbase EXCEPT ![q] = NewJob]

\* start_job: .delay() published the message.
Enqueue ==
  /\ rpc[Start] = "enqueue"
  /\ rpc' = [rpc EXCEPT ![Start] = "dispatching"]
  /\ rjob' = [rjob EXCEPT ![Start].config.dispatch = "celery"]
  /\ pc' = [pc EXCEPT ![Start] = "queued"]
  /\ UNCHANGED <<rowVars, idx, job, base, rbase, revoked, crashes>>

\* Mutant: the background task is forgotten.
EnqueueFailsForgetsRun ==
  /\ rpc[Start] = "enqueue"
  /\ rpc' = [rpc EXCEPT ![Start] = "dispatching"]
  /\ UNCHANGED <<rowVars, runVars, rjob, rbase, revoked, crashes>>

\* start_job: the broker refused; a background task will follow the response.
EnqueueFails ==
  /\ rpc[Start] = "enqueue"
  /\ rpc' = [rpc EXCEPT ![Start] = "dispatching"]
  /\ rjob' = [rjob EXCEPT ![Start].config.dispatch = "inline"]
  /\ UNCHANGED <<rowVars, runVars, rbase, revoked, crashes>>

\* start_job: the second commit, then the response and its background task.
SaveDispatch ==
  /\ rpc[Start] = "dispatching"
  /\ Update(rjob[Start], rbase[Start])
  /\ CloseRequest(Start)
  /\ pc' = IF rjob[Start].config.dispatch = "inline"
             THEN [pc EXCEPT ![Start] = "scheduled"] ELSE pc
  /\ UNCHANGED <<inventory, snapshots, idx, job, base, revoked, crashes>>

\* cancel_job: read the job, refuse a finished one, revoke its Celery task.
ReadCancel(q) ==
  /\ rpc[q] = "idle"
  /\ row.status \in {"pending", "running"}
  /\ rpc' = [rpc EXCEPT ![q] = "cancelling"]
  /\ rjob' = [rjob EXCEPT ![q] = [row EXCEPT !.status = "cancelled", !.finished = TRUE,
                                             !.config.cancelled = TRUE]]
  /\ rbase' = [rbase EXCEPT ![q] = row]
  /\ revoked' = (revoked \/ row.config.dispatch = "celery")
  /\ UNCHANGED <<rowVars, runVars, crashes>>

SaveCancel(q) ==
  /\ rpc[q] = "cancelling"
  /\ Update(rjob[q], rbase[q])
  /\ CloseRequest(q)
  /\ UNCHANGED <<inventory, snapshots, runVars, revoked, crashes>>

\* retry_job: read the job, refuse a running one.
ReadRetry(q) ==
  /\ rpc[q] = "idle"
  /\ row.status # "running"
  /\ rpc' = [rpc EXCEPT ![q] = "retrying"]
  /\ rjob' = [rjob EXCEPT ![q] = [status |-> "pending", finished |-> FALSE,
                                  config |-> [dispatch |-> "inline", cancelled |-> FALSE],
                                  stats |-> NoStats]]
  /\ rbase' = [rbase EXCEPT ![q] = row]
  /\ UNCHANGED <<rowVars, runVars, revoked, crashes>>

SaveRetry(q) ==
  /\ rpc[q] = "retrying"
  /\ Update(rjob[q], rbase[q])
  /\ CloseRequest(q)
  /\ pc' = [pc EXCEPT ![q] = "scheduled"]
  /\ UNCHANGED <<inventory, snapshots, idx, job, base, revoked, crashes>>

-----------------------------------------------------------------------------
(* A run of the orchestrator.                                              *)

\* The run is over and its session closed.
CloseRun(d, how) ==
  /\ pc' = [pc EXCEPT ![d] = how]
  /\ idx' = [idx EXCEPT ![d] = 1]
  /\ job' = [job EXCEPT ![d] = NewJob]
  /\ base' = [base EXCEPT ![d] = NewJob]

\* The entry of run(): a cancelled job is only closed, any other is RUNNING.
Begin(d) ==
  /\ pc[d] \in Waiting
  /\ EarlyPickup \/ rpc[Start] = "done"
  /\ base' = [base EXCEPT ![d] = row]
  /\ IF IsCancelled(row)
       THEN /\ job' = [job EXCEPT ![d] = [row EXCEPT !.finished = TRUE]]
            /\ pc' = [pc EXCEPT ![d] = "cancelling"]
       ELSE /\ job' = [job EXCEPT ![d] = [row EXCEPT !.status = "running",
                                                     !.stats = NoStats]]
            /\ pc' = [pc EXCEPT ![d] = "starting"]
  /\ UNCHANGED <<rowVars, idx, reqVars, revoked, crashes>>

\* "started" is committed, then the seeds are expanded.
SaveStarted(d) ==
  /\ pc[d] = "starting"
  /\ Update(job[d], base[d])
  /\ base' = [base EXCEPT ![d] = row']
  /\ pc' = [pc EXCEPT ![d] = "expanded"]
  /\ UNCHANGED <<inventory, snapshots, idx, job, reqVars, revoked, crashes>>

\* The number of targets is committed.
SaveTargets(d) ==
  /\ pc[d] = "expanded"
  /\ Update(job[d], base[d])
  /\ base' = [base EXCEPT ![d] = row']
  /\ pc' = [pc EXCEPT ![d] = "checking"]
  /\ UNCHANGED <<inventory, snapshots, idx, job, reqVars, revoked, crashes>>

\* What the cancelled branches of run() store.
CancelledCopy(r) == [r EXCEPT !.status = "cancelled", !.finished = TRUE]

\* _is_cancelled found the job cancelled, before a target or after the last.
CheckCancelled(d) ==
  /\ pc[d] = "checking"
  /\ IsCancelled(row)
  /\ base' = [base EXCEPT ![d] = row]
  /\ job' = [job EXCEPT ![d] = CancelledCopy(@)]
  /\ pc' = [pc EXCEPT ![d] = "stopping"]
  /\ UNCHANGED <<rowVars, idx, reqVars, revoked, crashes>>

\* Mutant: one target too many.
CheckTargetOneMore(d) ==
  /\ pc[d] = "checking"
  /\ ~IsCancelled(row)
  /\ idx[d] <= NumTargets + 1
  /\ base' = [base EXCEPT ![d] = row]
  /\ job' = [job EXCEPT ![d].stats.scanned = idx[d]]
  /\ pc' = [pc EXCEPT ![d] = "collecting"]
  /\ UNCHANGED <<rowVars, idx, reqVars, revoked, crashes>>

CheckTarget(d) ==
  /\ pc[d] = "checking"
  /\ ~IsCancelled(row)
  /\ idx[d] <= NumTargets
  /\ base' = [base EXCEPT ![d] = row]
  /\ job' = [job EXCEPT ![d].stats.scanned = idx[d]]
  /\ pc' = [pc EXCEPT ![d] = "collecting"]
  /\ UNCHANGED <<rowVars, idx, reqVars, revoked, crashes>>

\* Mutant: the snapshot is committed before the job is.
CheckDoneCommitsSnapshot(d) ==
  /\ pc[d] = "checking"
  /\ ~IsCancelled(row)
  /\ idx[d] > NumTargets
  /\ base' = [base EXCEPT ![d] = row]
  /\ job' = [job EXCEPT ![d] = [@ EXCEPT !.status = "completed", !.finished = TRUE,
                                         !.stats.snap = d]]
  /\ pc' = [pc EXCEPT ![d] = "completing"]
  /\ snapshots' = snapshots \cup {d}
  /\ UNCHANGED <<row, inventory, idx, reqVars, revoked, crashes>>

\* The last check passed: the snapshot is built and flushed.
CheckDone(d) ==
  /\ pc[d] = "checking"
  /\ ~IsCancelled(row)
  /\ idx[d] > NumTargets
  /\ base' = [base EXCEPT ![d] = row]
  /\ job' = [job EXCEPT ![d] = [@ EXCEPT !.status = "completed", !.finished = TRUE,
                                         !.stats.snap = d]]
  /\ pc' = [pc EXCEPT ![d] = "completing"]
  /\ UNCHANGED <<rowVars, idx, reqVars, revoked, crashes>>

\* Mutant: an unreachable target is probed for ever.
UnreachableAgain(d) ==
  /\ pc[d] = "collecting"
  /\ pc' = [pc EXCEPT ![d] = IF idx[d] % ProgressEvery = 0 THEN "progress" ELSE "checking"]
  /\ UNCHANGED <<rowVars, idx, job, base, reqVars, revoked, crashes>>

\* icmp_probe got no answer: every ProgressEvery-th target is reported.
Unreachable(d) ==
  /\ pc[d] = "collecting"
  /\ IF idx[d] % ProgressEvery = 0
       THEN /\ pc' = [pc EXCEPT ![d] = "progress"]
            /\ UNCHANGED idx
       ELSE /\ pc' = [pc EXCEPT ![d] = "checking"]
            /\ idx' = [idx EXCEPT ![d] = @ + 1]
  /\ UNCHANGED <<rowVars, job, base, reqVars, revoked, crashes>>

\* The target's device, interfaces, adjacency and links are flushed.
Collect(d) ==
  /\ pc[d] = "collecting"
  /\ job' = [job EXCEPT ![d].stats.done = @ + 1]
  /\ pc' = [pc EXCEPT ![d] = "saving"]
  /\ UNCHANGED <<rowVars, idx, base, reqVars, revoked, crashes>>

\* Mutant: the copy survives the rollback.
TargetFailsKeepsCopy(d) ==
  /\ pc[d] \in {"collecting", "progress", "saving"}
  /\ base' = [base EXCEPT ![d] = row]
  /\ job' = [job EXCEPT ![d].stats.errors = @ + 1]
  /\ pc' = [pc EXCEPT ![d] = "recovering"]
  /\ UNCHANGED <<rowVars, idx, reqVars, revoked, crashes>>

\* The target raised: roll back, read the job again, count the error.
TargetFails(d) ==
  /\ pc[d] \in {"collecting", "progress", "saving"}
  /\ base' = [base EXCEPT ![d] = row]
  /\ job' = [job EXCEPT ![d] = [row EXCEPT !.stats.errors = @ + 1]]
  /\ pc' = [pc EXCEPT ![d] = "recovering"]
  /\ UNCHANGED <<rowVars, idx, reqVars, revoked, crashes>>

\* The commit at the end of a target's turn: its inventory, if it was
\* collected, and the counters together.
SaveTarget(d) ==
  /\ pc[d] \in {"progress", "saving", "recovering"}
  /\ Update(job[d], base[d])
  /\ base' = [base EXCEPT ![d] = row']
  /\ inventory' = IF pc[d] = "saving" THEN inventory \cup {idx[d]} ELSE inventory
  /\ pc' = [pc EXCEPT ![d] = "checking"]
  /\ idx' = [idx EXCEPT ![d] = @ + 1]
  /\ UNCHANGED <<snapshots, job, reqVars, revoked, crashes>>

\* Counting the error failed as well: that is only logged.
ErrorNotSaved(d) ==
  /\ pc[d] = "recovering"
  /\ pc' = [pc EXCEPT ![d] = "checking"]
  /\ idx' = [idx EXCEPT ![d] = @ + 1]
  /\ UNCHANGED <<rowVars, job, base, reqVars, revoked, crashes>>

\* Reading the seeds, a check, building the snapshot or a commit raises inside
\* the outer try of run(); the transaction is lost, the copy stays as it is.
Raise(d) ==
  /\ pc[d] \in {"expanded", "checking", "stopping", "completing"}
  /\ pc' = [pc EXCEPT ![d] = "raised"]
  /\ UNCHANGED <<rowVars, idx, job, base, reqVars, revoked, crashes>>

\* Mutant: the handler only records that the job has ended.
HandleExceptionKeepsStatus(d) ==
  /\ pc[d] = "raised"
  /\ base' = [base EXCEPT ![d] = row]
  /\ job' = [job EXCEPT ![d].finished = TRUE]
  /\ pc' = [pc EXCEPT ![d] = IF IsCancelled(row) THEN "cancelling" ELSE "failing"]
  /\ UNCHANGED <<rowVars, idx, reqVars, revoked, crashes>>

\* The outer handler of run(): cancelled or FAILED.
HandleException(d) ==
  /\ pc[d] = "raised"
  /\ base' = [base EXCEPT ![d] = row]
  /\ IF IsCancelled(row)
       THEN /\ job' = [job EXCEPT ![d] = CancelledCopy(@)]
            /\ pc' = [pc EXCEPT ![d] = "cancelling"]
       ELSE /\ job' = [job EXCEPT ![d] = [@ EXCEPT !.status = "failed", !.finished = TRUE]]
            /\ pc' = [pc EXCEPT ![d] = "failing"]
  /\ UNCHANGED <<rowVars, idx, reqVars, revoked, crashes>>

\* A database error outside that try: in the first update, or in the handler,
\* which does not roll back, so that after a failed flush its first query fails
\* too.  The run ends and the row stays as it is.
GiveUp(d) ==
  /\ pc[d] \in {"starting", "raised", "cancelling", "failing"}
  /\ CloseRun(d, "dead")
  /\ UNCHANGED <<rowVars, reqVars, revoked, crashes>>

\* The last commit of a run.  COMPLETED and the snapshot are one transaction.
Finish(d) ==
  /\ pc[d] \in {"stopping", "cancelling", "completing", "failing"}
  /\ Update(job[d], base[d])
  /\ snapshots' = IF pc[d] = "completing" THEN snapshots \cup {d} ELSE snapshots
  /\ CloseRun(d, CASE pc[d] = "completing" -> "completed"
                   [] pc[d] = "failing" -> "failed"
                   [] OTHER -> "cancelled")
  /\ UNCHANGED <<inventory, reqVars, revoked, crashes>>

RunStep(d) ==
  \/ Begin(d) \/ SaveStarted(d) \/ SaveTargets(d)
  \/ CheckCancelled(d) \/ CheckTarget(d) \/ CheckDone(d)
  \/ Unreachable(d) \/ Collect(d) \/ TargetFails(d) \/ SaveTarget(d)
  \/ ErrorNotSaved(d) \/ Raise(d) \/ HandleException(d) \/ GiveUp(d) \/ Finish(d)

-----------------------------------------------------------------------------
(* The environment.                                                        *)

\* The revoke reaches the worker: a waiting task is discarded, a running one
\* gets SIGTERM.  What it had not committed is lost.
Terminate ==
  /\ revoked
  /\ pc[Start] \in {"queued"} \cup Busy
  /\ CloseRun(Start, "dead")
  /\ UNCHANGED <<rowVars, reqVars, revoked, crashes>>

\* A worker, or the API process of an inline run, dies; Celery acknowledged
\* the message when the task started, so it is not delivered again.  A run
\* whose session cannot reach the database any more ends the same way.
CrashRun(d) ==
  /\ crashes < MaxCrashes
  /\ pc[d] \in {"scheduled"} \cup Busy
  /\ CloseRun(d, "dead")
  /\ crashes' = crashes + 1
  /\ UNCHANGED <<rowVars, reqVars, revoked>>

\* The API process dies in the middle of a request.
CrashRequest(q) ==
  /\ crashes < MaxCrashes
  /\ rpc[q] \in InFlight
  /\ CloseRequest(q)
  /\ crashes' = crashes + 1
  /\ UNCHANGED <<rowVars, runVars, revoked>>

RequestStep(q) ==
  \/ q = Start /\ (Enqueue \/ EnqueueFails \/ SaveDispatch)
  \/ q \in Cancellers /\ SaveCancel(q)
  \/ q \in Retriers /\ SaveRetry(q)

Next ==
  \/ \E q \in Requests : RequestStep(q)
  \/ \E q \in Cancellers : ReadCancel(q)
  \/ \E q \in Retriers : ReadRetry(q)
  \/ \E d \in Dispatches : RunStep(d)
  \/ Terminate
  \/ \E d \in Dispatches : CrashRun(d)
  \/ \E q \in Requests : CrashRequest(q)

Spec == Init /\ [][Next]_vars

\* A request that was accepted is carried through and a run that was
\* dispatched goes on; nobody has to send a request.
Fairness ==
  /\ \A q \in Requests : WF_vars(RequestStep(q))
  /\ \A d \in Dispatches : WF_vars(RunStep(d))

FairSpec == Spec /\ Fairness

-----------------------------------------------------------------------------
(* Properties.                                                             *)

\* A snapshot is in the database exactly for the runs that committed
\* COMPLETED: no crash, SIGTERM, cancel or failed target leaves a snapshot
\* behind, or a completed run without one (_create_snapshot and the final
\* update share a transaction).
SnapshotIffCompleted == snapshots = {d \in Dispatches : pc[d] = "completed"}

\* A job that reads COMPLETED has a snapshot, whatever stale copies the other
\* sessions wrote over the row.
CompletedHasSnapshot == row.status = "completed" => snapshots # {}

\* The attempts at a job follow one another: it is retried when the run before
\* has ended and the requests before are through.
Attempted(d) == pc[d] \in Waiting \cup Busy \/ rpc[d] \in {"enqueue", "dispatching", "retrying"}
OneAtATime ==
  /\ \A d, e \in Dispatches : Attempted(d) /\ Attempted(e) => d = e
  /\ \A q \in Retriers, c \in Cancellers : rpc[q] = "retrying" => rpc[c] # "cancelling"

\* However requests, failed targets, early pickup and SIGTERM interleave, as
\* long as attempts follow one another the counters of a job never claim more
\* than what is committed: a target is counted in the transaction that stores
\* its inventory and a rolled back target takes its count with it, and nothing
\* of an earlier attempt comes back.  The snapshot a COMPLETED job points to
\* exists.
ReportIsBacked ==
  /\ row.stats.done <= Cardinality(inventory)
  /\ row.stats.done + row.stats.errors <= NumTargets
  /\ row.status = "completed" => row.stats.snap \in snapshots

\* Once COMPLETED, the counters of such a job are exact and its snapshot_id is
\* the snapshot of the run that completed it: no stale copy of the row that a
\* cancel or a rollback wrote back survives in them.
ReportIsExact ==
  row.status = "completed" =>
    /\ row.stats.snap \in snapshots
    /\ row.stats.done = Cardinality(inventory)

\* Nobody works on the job and nobody died or was killed on the way.
CleanlyQuiescent ==
  /\ \A d \in Dispatches : pc[d] \in {"none", "completed", "failed", "cancelled"}
  /\ \A q \in Requests : rpc[q] \in {"idle", "done"}
  /\ crashes = 0

\* A job nobody works on any more reads as finished: no order of a start, its
\* run and its cancels leaves a row that looks pending or running for ever.
QuiescentIsTerminal == CleanlyQuiescent => row.status \in Terminal

\* A run that started ends, whatever fails on the way: no order of timeouts,
\* rollbacks and cancels keeps it scanning for ever.
RunsEnd == \A d \in Dispatches : pc[d] \in Busy ~> pc[d] \in Ended

\* The job reaches a terminal status and stays there, unless something was
\* killed or died.
Settles ==
  <>[](row.status \in Terminal \/ crashes > 0 \/ \E d \in Dispatches : pc[d] = "dead")

\* The outcome of a job is final until a retry is accepted: in particular a
\* stopped job stays stopped.
OutcomeSticks ==
  [][row.status \in Terminal /\ row'.status # row.status
       => \E q \in Retriers : SaveRetry(q)]_vars

\* A job that reads RUNNING has a run: what retry_job answers then is true.
RunningHasRun == row.status = "running" => \E d \in Dispatches : pc[d] \in Busy
=============================================================================
