------------------------- MODULE DiscoveryJobProofs -------------------------
(* What DiscoveryJob guarantees for any number of requests, targets and    *)
(* crashes.                                                                *)
EXTENDS DiscoveryJob, TLAPS, FiniteSetTheorems

USE DEF Dispatches, Requests

\* Which fields a copy of the row has.
LEMMA NewJobIsRow == NewJob \in JobRow
  BY DEF NewJob, NoStats, JobRow, Config, Stats, Status

\* Whichever columns update writes, the row stays a row.
LEMMA UpdateKeepsRow ==
  ASSUME row \in JobRow,
         NEW copy \in JobRow, NEW seen \in JobRow, Update(copy, seen)
  PROVE  /\ row' \in JobRow
         /\ row'.status \in {row.status, copy.status}
  <1>1. PICK loaded \in {row, seen} : row' = Merge(row, loaded, copy)
    BY DEF Update
  <1> DEFINE r == [status |-> row'.status, finished |-> row'.finished,
                   config |-> row'.config, stats |-> row'.stats]
  <1>2. /\ row'.status \in {row.status, copy.status}
        /\ row'.finished \in {row.finished, copy.finished}
        /\ row'.config \in {row.config, copy.config}
        /\ row'.stats \in {row.stats, copy.stats}
        /\ row' = r
    BY <1>1 DEF Merge, Column
  <1>3. /\ row'.status \in Status
        /\ row'.finished \in BOOLEAN
        /\ row'.config \in Config
        /\ row'.stats \in Stats
    <2>1. row.status \in Status /\ copy.status \in Status
      BY DEF JobRow
    <2>2. row.finished \in BOOLEAN /\ copy.finished \in BOOLEAN
      BY DEF JobRow
    <2>3. row.config \in Config /\ copy.config \in Config
      BY DEF JobRow
    <2>4. row.stats \in Stats /\ copy.stats \in Stats
      BY DEF JobRow
    <2>5. QED
      BY <1>2, <2>1, <2>2, <2>3, <2>4
  <1>4. r \in JobRow
    BY <1>3 DEF JobRow
  <1>5. QED
    BY <1>2, <1>4

\* The copies the requests and the runs make are rows.
LEMMA CopiesAreRows ==
  ASSUME NEW r \in JobRow
  PROVE  /\ \A s \in Status, f \in BOOLEAN :
              [r EXCEPT !.status = s, !.finished = f] \in JobRow
         /\ [r EXCEPT !.finished = TRUE] \in JobRow
         /\ \A c \in {"none", "celery", "inline"} :
              [r EXCEPT !.config.dispatch = c] \in JobRow
         /\ [r EXCEPT !.status = "cancelled", !.finished = TRUE,
                      !.config.cancelled = TRUE] \in JobRow
         /\ [r EXCEPT !.status = "running", !.stats = NoStats] \in JobRow
         /\ \A i \in Nat : [r EXCEPT !.stats.scanned = i] \in JobRow
         /\ [r EXCEPT !.stats.done = @ + 1] \in JobRow
         /\ [r EXCEPT !.stats.errors = @ + 1] \in JobRow
         /\ \A d \in Dispatches :
              [r EXCEPT !.status = "completed", !.finished = TRUE, !.stats.snap = d] \in JobRow
<1>1. /\ r = [status |-> r.status, finished |-> r.finished,
              config |-> r.config, stats |-> r.stats]
      /\ r.status \in Status /\ r.finished \in BOOLEAN
  BY DEF JobRow
<1>2. /\ r.config = [dispatch |-> r.config.dispatch, cancelled |-> r.config.cancelled]
      /\ r.config.dispatch \in {"none", "celery", "inline"}
      /\ r.config.cancelled \in BOOLEAN
      /\ r.config \in Config
  BY DEF JobRow, Config
<1>3. /\ r.stats = [scanned |-> r.stats.scanned, done |-> r.stats.done,
                    errors |-> r.stats.errors, snap |-> r.stats.snap]
      /\ r.stats.scanned \in Nat /\ r.stats.done \in Nat /\ r.stats.errors \in Nat
      /\ r.stats.snap \in Dispatches \cup {NoRun}
      /\ r.stats \in Stats
  BY DEF JobRow, Stats
<1>5. \A s \in Status, f \in BOOLEAN :
        [r EXCEPT !.status = s, !.finished = f] \in JobRow
  BY <1>1, <1>2, <1>3 DEF JobRow
<1>6. [r EXCEPT !.finished = TRUE] \in JobRow
  BY <1>1, <1>2, <1>3 DEF JobRow
<1>7. \A c \in {"none", "celery", "inline"} : [r EXCEPT !.config.dispatch = c] \in JobRow
  BY <1>1, <1>2, <1>3 DEF JobRow, Config
<1>8. [r EXCEPT !.status = "cancelled", !.finished = TRUE, !.config.cancelled = TRUE] \in JobRow
  BY <1>1, <1>2, <1>3 DEF JobRow, Config, Status
<1>9. [r EXCEPT !.status = "running", !.stats = NoStats] \in JobRow
  BY <1>1, <1>2 DEF JobRow, Stats, NoStats, Status
<1>10. \A i \in Nat : [r EXCEPT !.stats.scanned = i] \in JobRow
  BY <1>1, <1>2, <1>3 DEF JobRow, Stats
<1>11. [r EXCEPT !.stats.done = @ + 1] \in JobRow
  BY <1>1, <1>2, <1>3 DEF JobRow, Stats
<1>12. [r EXCEPT !.stats.errors = @ + 1] \in JobRow
  BY <1>1, <1>2, <1>3 DEF JobRow, Stats
<1>13. \A d \in Dispatches :
         [r EXCEPT !.status = "completed", !.finished = TRUE, !.stats.snap = d] \in JobRow
  BY <1>1, <1>2, <1>3 DEF JobRow, Stats, Status
<1>14. QED
  BY <1>5, <1>6, <1>7, <1>8, <1>9, <1>10, <1>11, <1>12, <1>13

\* A run is at one of the targets during a target's turn, so what it commits is
\* the inventory of a target.
AtTarget == {"collecting", "progress", "saving", "recovering"}

IndexInRange ==
  \A d \in Dispatches : idx[d] >= 1 /\ (pc[d] \in AtTarget => idx[d] <= NumTargets)

LEMMA IndexInvariant ==
  ASSUME TypeOK, IndexInRange, [Next]_vars
  PROVE  IndexInRange'
<1> USE DEF TypeOK, IndexInRange, AtTarget
<1>1. ASSUME NEW d \in Dispatches, RunStep(d)
      PROVE  IndexInRange'
  <2>1. CASE Begin(d) \/ SaveStarted(d) \/ SaveTargets(d)
    BY <2>1 DEF Begin, SaveStarted, SaveTargets
  <2>2. CASE CheckCancelled(d) \/ CheckTarget(d) \/ CheckDone(d)
    BY <2>2 DEF CheckCancelled, CheckTarget, CheckDone
  <2>3. CASE Unreachable(d) \/ Collect(d) \/ TargetFails(d)
    BY <2>3 DEF Unreachable, Collect, TargetFails
  <2>4. CASE SaveTarget(d) \/ ErrorNotSaved(d) \/ Raise(d) \/ HandleException(d)
    BY <2>4 DEF SaveTarget, ErrorNotSaved, Raise, HandleException
  <2>5. CASE GiveUp(d) \/ Finish(d)
    BY <2>5 DEF GiveUp, Finish, CloseRun
  <2>6. QED
    BY <1>1, <2>1, <2>2, <2>3, <2>4, <2>5 DEF RunStep
<1>2. ASSUME NEW q \in Requests, RequestStep(q) \/ ReadCancel(q) \/ ReadRetry(q)
      PROVE  IndexInRange'
  BY <1>2 DEF RequestStep, Enqueue, EnqueueFails, SaveDispatch, ReadCancel, SaveCancel,
              ReadRetry, SaveRetry, runVars, CloseRequest
<1>3. ASSUME NEW d \in Dispatches, Terminate \/ CrashRun(d)
      PROVE  IndexInRange'
  BY <1>3 DEF Terminate, CrashRun, CloseRun
<1>4. ASSUME NEW q \in Requests, CrashRequest(q)
      PROVE  IndexInRange'
  BY <1>4 DEF CrashRequest, runVars
<1>5. CASE UNCHANGED vars
  BY <1>5 DEF vars
<1>6. QED
  BY <1>1, <1>2, <1>3, <1>4, <1>5 DEF Next

\* The row, every session's copy of it and every control point keep their types
\* for any number of requests, targets and crashes: whatever columns of
\* whatever stale copies the sessions mix, what is stored is a job.
THEOREM TypeCorrect == Spec => []TypeOK
<1>1. Init => TypeOK /\ IndexInRange
  <2> SUFFICES ASSUME Init
               PROVE  TypeOK /\ IndexInRange
    OBVIOUS
  <2>1. IndexInRange
    BY DEF Init, IndexInRange, AtTarget
  <2>2. rpc \in [Requests -> ReqPc]
    BY DEF Init, ReqPc, InFlight
  <2>3. pc \in [Dispatches -> RunPc]
    BY DEF Init, RunPc
  <2>4. /\ job \in [Dispatches -> JobRow] /\ base \in [Dispatches -> JobRow]
        /\ rjob \in [Requests -> JobRow] /\ rbase \in [Requests -> JobRow]
        /\ row \in JobRow
    BY NewJobIsRow DEF Init
  <2>5. QED
    BY <2>1, <2>2, <2>3, <2>4 DEF Init, TypeOK
<1>2. TypeOK /\ IndexInRange /\ [Next]_vars => TypeOK' /\ IndexInRange'
  <2> SUFFICES ASSUME TypeOK, IndexInRange, [Next]_vars
               PROVE  TypeOK'
    BY IndexInvariant
  <2>1. CASE Enqueue
    <3>1. rjob' \in [Requests -> JobRow]
      BY <2>1, CopiesAreRows DEF TypeOK, Enqueue
    <3>2. QED
      BY <2>1, <3>1 DEF TypeOK, Enqueue, rowVars, RunPc, Waiting, ReqPc, InFlight
  <2>2. CASE EnqueueFails
    <3>1. rjob' \in [Requests -> JobRow]
      BY <2>2, CopiesAreRows DEF TypeOK, EnqueueFails
    <3>2. QED
      BY <2>2, <3>1 DEF TypeOK, EnqueueFails, rowVars, runVars, ReqPc, InFlight
  <2>3. CASE SaveDispatch
    <3>1. row' \in JobRow
      BY <2>3, UpdateKeepsRow DEF TypeOK, SaveDispatch
    <3>2. QED
      BY <2>3, <3>1, NewJobIsRow
      DEF TypeOK, SaveDispatch, CloseRequest, RunPc, Waiting, ReqPc
  <2>4. ASSUME NEW q \in Cancellers, ReadCancel(q)
        PROVE  TypeOK'
    <3>1. rjob' \in [Requests -> JobRow]
      BY <2>4, CopiesAreRows DEF TypeOK, ReadCancel
    <3>2. QED
      BY <2>4, <3>1 DEF TypeOK, ReadCancel, rowVars, runVars, ReqPc, InFlight
  <2>5. ASSUME NEW q \in Cancellers, SaveCancel(q)
        PROVE  TypeOK'
    <3>1. row' \in JobRow
      BY <2>5, UpdateKeepsRow DEF TypeOK, SaveCancel
    <3>2. QED
      BY <2>5, <3>1, NewJobIsRow DEF TypeOK, SaveCancel, CloseRequest, runVars, ReqPc
  <2>6. ASSUME NEW q \in Retriers, ReadRetry(q)
        PROVE  TypeOK'
    <3>1. rjob' \in [Requests -> JobRow]
      BY <2>6 DEF TypeOK, ReadRetry, JobRow, Status, Config, Stats, NoStats
    <3>2. QED
      BY <2>6, <3>1 DEF TypeOK, ReadRetry, rowVars, runVars, ReqPc, InFlight
  <2>7. ASSUME NEW q \in Retriers, SaveRetry(q)
        PROVE  TypeOK'
    <3>1. row' \in JobRow
      BY <2>7, UpdateKeepsRow DEF TypeOK, SaveRetry
    <3>2. QED
      BY <2>7, <3>1, NewJobIsRow
      DEF TypeOK, SaveRetry, CloseRequest, RunPc, Waiting, ReqPc
  <2>8. ASSUME NEW d \in Dispatches, RunStep(d)
        PROVE  TypeOK'
    <3>1. CASE Begin(d)
      <4>1. job' \in [Dispatches -> JobRow]
        <5>1. CASE IsCancelled(row)
          <6>1. job' = [job EXCEPT ![d] = [row EXCEPT !.finished = TRUE]]
            BY <3>1, <5>1 DEF Begin
          <6>2. QED
            BY <6>1, CopiesAreRows DEF TypeOK
        <5>2. CASE ~IsCancelled(row)
          <6>1. job' = [job EXCEPT ![d] = [row EXCEPT !.status = "running",
                                                     !.stats = NoStats]]
            BY <3>1, <5>2 DEF Begin
          <6>2. QED
            BY <6>1, CopiesAreRows DEF TypeOK
        <5>3. QED
          BY <5>1, <5>2
      <4>2. pc' \in [Dispatches -> RunPc]
        BY <3>1 DEF TypeOK, Begin, RunPc, Busy
      <4>3. QED
        BY <3>1, <4>1, <4>2 DEF TypeOK, Begin, rowVars, reqVars
    <3>2. CASE SaveStarted(d) \/ SaveTargets(d)
      <4>1. row' \in JobRow
        BY <3>2, UpdateKeepsRow DEF TypeOK, SaveStarted, SaveTargets
      <4>2. QED
        <5>1. /\ pc' = [pc EXCEPT ![d] = "expanded"] \/ pc' = [pc EXCEPT ![d] = "checking"]
              /\ base' = [base EXCEPT ![d] = row']
              /\ UNCHANGED <<inventory, snapshots, idx, job, reqVars, revoked, crashes>>
          BY <3>2 DEF SaveStarted, SaveTargets
        <5>2. pc' \in [Dispatches -> RunPc]
          BY <5>1 DEF TypeOK, RunPc, Busy
        <5>3. base' \in [Dispatches -> JobRow]
          BY <4>1, <5>1 DEF TypeOK
        <5>4. QED
          BY <4>1, <5>1, <5>2, <5>3 DEF TypeOK, reqVars
    <3>3. CASE CheckCancelled(d)
      <4>1. job' \in [Dispatches -> JobRow]
        BY <3>3, CopiesAreRows DEF TypeOK, CheckCancelled, CancelledCopy, Status
      <4>2. QED
        BY <3>3, <4>1 DEF TypeOK, CheckCancelled, rowVars, reqVars, RunPc, Busy
    <3>4. CASE CheckTarget(d)
      <4>1. job' \in [Dispatches -> JobRow]
        BY <3>4, CopiesAreRows DEF TypeOK, CheckTarget
      <4>2. QED
        BY <3>4, <4>1 DEF TypeOK, CheckTarget, rowVars, reqVars, RunPc, Busy
    <3>5. CASE CheckDone(d)
      <4>1. job' \in [Dispatches -> JobRow]
        BY <3>5, CopiesAreRows DEF TypeOK, CheckDone
      <4>2. QED
        BY <3>5, <4>1 DEF TypeOK, CheckDone, rowVars, reqVars, RunPc, Busy
    <3>6. CASE Unreachable(d)
      BY <3>6 DEF TypeOK, Unreachable, rowVars, reqVars, RunPc, Busy
    <3>7. CASE Collect(d)
      <4>1. job' \in [Dispatches -> JobRow]
        BY <3>7, CopiesAreRows DEF TypeOK, Collect
      <4>2. QED
        BY <3>7, <4>1 DEF TypeOK, Collect, rowVars, reqVars, RunPc, Busy
    <3>8. CASE TargetFails(d)
      <4>1. job' \in [Dispatches -> JobRow]
        BY <3>8, CopiesAreRows DEF TypeOK, TargetFails
      <4>2. QED
        BY <3>8, <4>1 DEF TypeOK, TargetFails, rowVars, reqVars, RunPc, Busy
    <3>9. CASE SaveTarget(d)
      <4>1. row' \in JobRow
        BY <3>9, UpdateKeepsRow DEF TypeOK, SaveTarget
      <4>2. inventory' \in SUBSET (1..NumTargets)
        <5>1. pc[d] = "saving" => idx[d] \in 1..NumTargets
          BY ParameterAssumption DEF TypeOK, IndexInRange, AtTarget
        <5>2. inventory \subseteq 1..NumTargets
          BY DEF TypeOK
        <5>3. inventory' = inventory \/ (pc[d] = "saving" /\ inventory' = inventory \cup {idx[d]})
          BY <3>9 DEF SaveTarget
        <5>4. QED
          BY <5>1, <5>2, <5>3
      <4>3. QED
        BY <3>9, <4>1, <4>2 DEF TypeOK, SaveTarget, reqVars, RunPc, Busy
    <3>10. CASE ErrorNotSaved(d) \/ Raise(d)
      <4>1. pc' \in [Dispatches -> RunPc] /\ idx' \in [Dispatches -> Nat]
        BY <3>10 DEF TypeOK, ErrorNotSaved, Raise, RunPc, Busy
      <4>2. QED
        BY <3>10, <4>1 DEF TypeOK, ErrorNotSaved, Raise, rowVars, reqVars
    <3>11. CASE HandleException(d)
      <4>1. job' \in [Dispatches -> JobRow]
        <5>1. /\ CancelledCopy(job[d]) \in JobRow
              /\ [job[d] EXCEPT !.status = "failed", !.finished = TRUE] \in JobRow
          BY CopiesAreRows DEF TypeOK, CancelledCopy, Status
        <5>2. \/ job' = [job EXCEPT ![d] = CancelledCopy(job[d])]
              \/ job' = [job EXCEPT ![d] = [job[d] EXCEPT !.status = "failed",
                                                         !.finished = TRUE]]
          BY <3>11 DEF HandleException
        <5>3. QED
          BY <5>1, <5>2 DEF TypeOK
      <4>2. pc' \in [Dispatches -> RunPc]
        BY <3>11 DEF TypeOK, HandleException, RunPc, Busy
      <4>3. QED
        BY <3>11, <4>1, <4>2 DEF TypeOK, HandleException, rowVars, reqVars
    <3>12. CASE GiveUp(d)
      BY <3>12, NewJobIsRow
      DEF TypeOK, GiveUp, CloseRun, rowVars, reqVars, RunPc, Ended
    <3>13. CASE Finish(d)
      <4>1. row' \in JobRow
        BY <3>13, UpdateKeepsRow DEF TypeOK, Finish
      <4>2. pc' \in [Dispatches -> RunPc]
        BY <3>13 DEF TypeOK, Finish, CloseRun, RunPc, Ended
      <4>3. QED
        BY <3>13, <4>1, <4>2, NewJobIsRow DEF TypeOK, Finish, CloseRun, reqVars
    <3>14. QED
      BY <2>8, <3>1, <3>2, <3>3, <3>4, <3>5, <3>6, <3>7, <3>8, <3>9, <3>10, <3>11,
         <3>12, <3>13
      DEF RunStep
  <2>9. ASSUME NEW d \in Dispatches, Terminate \/ CrashRun(d)
        PROVE  TypeOK'
    <3>1. PICK c \in Dispatches : CloseRun(c, "dead")
      BY <2>9 DEF Terminate, CrashRun
    <3>2. /\ pc' \in [Dispatches -> RunPc] /\ idx' \in [Dispatches -> Nat]
          /\ job' \in [Dispatches -> JobRow] /\ base' \in [Dispatches -> JobRow]
      BY <3>1, NewJobIsRow DEF TypeOK, CloseRun, RunPc, Ended
    <3>3. /\ UNCHANGED <<rowVars, reqVars, revoked>>
          /\ crashes' \in Nat
      BY <2>9 DEF TypeOK, Terminate, CrashRun
    <3>4. QED
      BY <3>2, <3>3 DEF TypeOK, rowVars, reqVars
  <2>10. ASSUME NEW q \in Requests, CrashRequest(q)
         PROVE  TypeOK'
    BY <2>10, NewJobIsRow
    DEF TypeOK, CrashRequest, CloseRequest, rowVars, runVars, ReqPc
  <2>11. CASE UNCHANGED vars
    BY <2>11 DEF TypeOK, vars
  <2>12. QED
    BY <2>1, <2>2, <2>3, <2>4, <2>5, <2>6, <2>7, <2>8, <2>9, <2>10, <2>11
    DEF Next, RequestStep
<1>3. QED
  BY <1>1, <1>2, PTL DEF Spec
-----------------------------------------------------------------------------
(* Snapshots.                                                              *)

\* The request that will dispatch run d is not through yet.
ToBeDispatched(d) ==
  \/ rpc[d] \in {"idle", "enqueue", "retrying"}
  \/ rpc[d] = "dispatching" /\ rjob[d].config.dispatch = "inline"

\* A run exists only once its request dispatched it: no request starts a run
\* twice, in particular none that completed.
DispatchedOnce == \A d \in Dispatches : ToBeDispatched(d) => pc[d] = "none"

LEMMA DispatchedOnceInvariant ==
  ASSUME TypeOK, DispatchedOnce, [Next]_vars
  PROVE  DispatchedOnce'
<1> USE DEF TypeOK, DispatchedOnce, ToBeDispatched
<1>1. CASE Enqueue
  BY <1>1 DEF Enqueue
<1>2. CASE EnqueueFails
  BY <1>2 DEF EnqueueFails, runVars
<1>3. CASE SaveDispatch
  BY <1>3 DEF SaveDispatch, CloseRequest
<1>4. ASSUME NEW q \in Cancellers, ReadCancel(q) \/ SaveCancel(q)
      PROVE  DispatchedOnce'
  BY <1>4 DEF ReadCancel, SaveCancel, CloseRequest, runVars
<1>5. ASSUME NEW q \in Retriers, ReadRetry(q) \/ SaveRetry(q)
      PROVE  DispatchedOnce'
  BY <1>5 DEF ReadRetry, SaveRetry, CloseRequest, runVars
<1>6. ASSUME NEW d \in Dispatches, RunStep(d)
      PROVE  DispatchedOnce'
  <2>1. /\ pc[d] # "none"
        /\ \A c \in Dispatches : c # d => pc'[c] = pc[c]
        /\ UNCHANGED <<rpc, rjob>>
    BY <1>6 DEF RunStep, Begin, SaveStarted, SaveTargets, CheckCancelled, CheckTarget,
                CheckDone, Unreachable, Collect, TargetFails, SaveTarget, ErrorNotSaved,
                Raise, HandleException, GiveUp, Finish, CloseRun, reqVars, Waiting
  <2>2. QED
    BY <2>1
<1>7. ASSUME NEW d \in Dispatches, Terminate \/ CrashRun(d)
      PROVE  DispatchedOnce'
  <2>1. PICK e \in Dispatches : pc[e] # "none" /\ CloseRun(e, "dead")
    BY <1>7 DEF Terminate, CrashRun, Busy
  <2>2. UNCHANGED <<rpc, rjob>>
    BY <1>7 DEF Terminate, CrashRun, reqVars
  <2>3. QED
    BY <2>1, <2>2 DEF CloseRun
<1>8. ASSUME NEW q \in Requests, CrashRequest(q)
      PROVE  DispatchedOnce'
  BY <1>8 DEF CrashRequest, CloseRequest, runVars
<1>9. CASE UNCHANGED vars
  BY <1>9 DEF vars
<1>10. QED
  BY <1>1, <1>2, <1>3, <1>4, <1>5, <1>6, <1>7, <1>8, <1>9 DEF Next, RequestStep

LEMMA SnapshotInvariant ==
  ASSUME TypeOK, DispatchedOnce, SnapshotIffCompleted, [Next]_vars
  PROVE  SnapshotIffCompleted' /\ snapshots \subseteq snapshots'
<1> USE DEF TypeOK, SnapshotIffCompleted
<1>1. CASE Enqueue \/ EnqueueFails \/ SaveDispatch
  <2>1. pc' = pc \/ (pc[Start] = "none" /\ \E w \in Waiting : pc' = [pc EXCEPT ![Start] = w])
    BY <1>1 DEF Enqueue, EnqueueFails, SaveDispatch, runVars, Waiting, DispatchedOnce,
                ToBeDispatched
  <2>2. UNCHANGED snapshots
    BY <1>1 DEF Enqueue, EnqueueFails, SaveDispatch, rowVars
  <2>3. QED
    BY <2>1, <2>2 DEF Waiting
<1>2. ASSUME NEW q \in Requests, ReadCancel(q) \/ SaveCancel(q) \/ ReadRetry(q) \/ CrashRequest(q)
      PROVE  SnapshotIffCompleted' /\ snapshots \subseteq snapshots'
  BY <1>2 DEF ReadCancel, SaveCancel, ReadRetry, CrashRequest, rowVars, runVars
<1>3. ASSUME NEW q \in Retriers, SaveRetry(q)
      PROVE  SnapshotIffCompleted' /\ snapshots \subseteq snapshots'
  BY <1>3 DEF SaveRetry, DispatchedOnce, ToBeDispatched
<1>4. ASSUME NEW d \in Dispatches, RunStep(d)
      PROVE  SnapshotIffCompleted' /\ snapshots \subseteq snapshots'
  <2>1. CASE Finish(d)
    <3>1. CASE pc[d] = "completing"
      <4>1. pc' = [pc EXCEPT ![d] = "completed"] /\ snapshots' = snapshots \cup {d}
        BY <2>1, <3>1 DEF Finish, CloseRun
      <4>2. QED
        BY <4>1
    <3>2. CASE pc[d] # "completing"
      <4>1. /\ snapshots' = snapshots /\ pc[d] # "completed"
            /\ \E how \in {"failed", "cancelled"} : pc' = [pc EXCEPT ![d] = how]
        BY <2>1, <3>2 DEF Finish, CloseRun
      <4>2. QED
        BY <4>1
    <3>3. QED
      BY <3>1, <3>2
  <2>2. CASE ~Finish(d)
    <3>1. /\ UNCHANGED snapshots
          /\ pc[d] # "completed"
          /\ \E to \in RunPc : pc' = [pc EXCEPT ![d] = to] /\ to # "completed"
      BY <1>4, <2>2
      DEF RunStep, Begin, SaveStarted, SaveTargets, CheckCancelled, CheckTarget,
          CheckDone, Unreachable, Collect, TargetFails, SaveTarget, ErrorNotSaved,
          Raise, HandleException, GiveUp, CloseRun, rowVars, Waiting, RunPc, Busy, Ended
    <3>2. QED
      BY <3>1
  <2>3. QED
    BY <2>1, <2>2
<1>5. ASSUME NEW d \in Dispatches, Terminate \/ CrashRun(d)
      PROVE  SnapshotIffCompleted' /\ snapshots \subseteq snapshots'
  <2>1. PICK e \in Dispatches : pc[e] # "completed" /\ CloseRun(e, "dead")
    BY <1>5 DEF Terminate, CrashRun, Busy
  <2>2. UNCHANGED snapshots
    BY <1>5 DEF Terminate, CrashRun, rowVars
  <2>3. QED
    BY <2>1, <2>2 DEF CloseRun
<1>6. CASE UNCHANGED vars
  BY <1>6 DEF vars
<1>7. QED
  BY <1>1, <1>2, <1>3, <1>4, <1>5, <1>6 DEF Next, RequestStep
\* A copy that says COMPLETED belongs to the run that is about to commit its
\* snapshot, or was read from a row whose snapshot is committed.
CopiesAreBacked ==
  /\ \A d \in Dispatches :
       job[d].status = "completed" => snapshots # {} \/ pc[d] \in {"completing", "raised"}
  /\ \A q \in Requests : rjob[q].status # "completed"

\* The status of the copies made from a row or from another copy.
LEMMA CopyStatus ==
  ASSUME NEW r \in JobRow
  PROVE  /\ [r EXCEPT !.finished = TRUE].status = r.status
         /\ [r EXCEPT !.stats.errors = @ + 1].status = r.status
         /\ [r EXCEPT !.status = "running", !.stats = NoStats].status = "running"
         /\ [r EXCEPT !.status = "cancelled", !.finished = TRUE,
                      !.config.cancelled = TRUE].status = "cancelled"
         /\ CancelledCopy(r).status = "cancelled"
         /\ [r EXCEPT !.status = "failed", !.finished = TRUE].status = "failed"
  BY DEF JobRow, CancelledCopy

LEMMA CompletedInvariant ==
  ASSUME TypeOK, DispatchedOnce, CompletedHasSnapshot, CopiesAreBacked,
         snapshots \subseteq snapshots', [Next]_vars
  PROVE  CompletedHasSnapshot' /\ CopiesAreBacked'
<1> USE DEF CompletedHasSnapshot, CopiesAreBacked
<1>1. /\ \A q \in Requests : rjob[q] \in JobRow /\ rbase[q] \in JobRow
      /\ \A d \in Dispatches : job[d] \in JobRow /\ base[d] \in JobRow
  BY DEF TypeOK
<1>2. NewJob.status # "completed"
  BY DEF NewJob
<1>3. CASE Enqueue \/ EnqueueFails \/ SaveDispatch
  <2>1. \A q \in Requests : rjob'[q].status # "completed"
    BY <1>1, <1>2, <1>3
    DEF Enqueue, EnqueueFails, SaveDispatch, CloseRequest, TypeOK, JobRow
  <2>2. UNCHANGED <<job, snapshots>>
    BY <1>3 DEF Enqueue, EnqueueFails, SaveDispatch, rowVars, runVars
  <2>3. \A d \in Dispatches : pc'[d] = pc[d] \/ pc[d] = "none"
    BY <1>3 DEF Enqueue, EnqueueFails, SaveDispatch, runVars, TypeOK, DispatchedOnce,
                ToBeDispatched
  <2>4. row'.status \in {row.status, rjob[Start].status}
    BY <1>1, <1>3, UpdateKeepsRow DEF Enqueue, EnqueueFails, SaveDispatch, rowVars, TypeOK
  <2>5. QED
    BY <2>1, <2>2, <2>3, <2>4
<1>4. ASSUME NEW q \in Cancellers, ReadCancel(q) \/ SaveCancel(q)
      PROVE  CompletedHasSnapshot' /\ CopiesAreBacked'
  <2>1. \A p \in Requests : rjob'[p].status # "completed"
    <3>1. CASE ReadCancel(q)
      <4>1. rjob'[q].status = "cancelled"
        BY <3>1, CopyStatus DEF ReadCancel, TypeOK
      <4>2. QED
        BY <3>1, <4>1 DEF ReadCancel, TypeOK
    <3>2. CASE SaveCancel(q)
      BY <1>2, <3>2 DEF SaveCancel, CloseRequest, TypeOK
    <3>3. QED
      BY <1>4, <3>1, <3>2
  <2>2. UNCHANGED <<pc, job, snapshots>>
    BY <1>4 DEF ReadCancel, SaveCancel, rowVars, runVars
  <2>3. row'.status \in {row.status, rjob[q].status}
    BY <1>1, <1>4, UpdateKeepsRow DEF ReadCancel, SaveCancel, rowVars, TypeOK
  <2>4. QED
    BY <2>1, <2>2, <2>3
<1>5. ASSUME NEW q \in Retriers, ReadRetry(q) \/ SaveRetry(q)
      PROVE  CompletedHasSnapshot' /\ CopiesAreBacked'
  <2>1. \A p \in Requests : rjob'[p].status # "completed"
    BY <1>2, <1>5 DEF ReadRetry, SaveRetry, CloseRequest, TypeOK
  <2>2. UNCHANGED <<job, snapshots>>
    BY <1>5 DEF ReadRetry, SaveRetry, rowVars, runVars
  <2>3. \A d \in Dispatches : pc'[d] = pc[d] \/ pc[d] = "none"
    BY <1>5 DEF ReadRetry, SaveRetry, runVars, TypeOK, DispatchedOnce, ToBeDispatched
  <2>4. row'.status \in {row.status, rjob[q].status}
    BY <1>1, <1>5, UpdateKeepsRow DEF ReadRetry, SaveRetry, rowVars, TypeOK
  <2>5. QED
    BY <2>1, <2>2, <2>3, <2>4
<1>6. ASSUME NEW d \in Dispatches, RunStep(d)
      PROVE  CompletedHasSnapshot' /\ CopiesAreBacked'
  <2>1. UNCHANGED rjob /\ \A c \in Dispatches : c # d => job'[c] = job[c] /\ pc'[c] = pc[c]
    <3>1. ASSUME Begin(d) \/ SaveStarted(d) \/ SaveTargets(d) \/ CheckCancelled(d) \/ CheckTarget(d)
          PROVE  UNCHANGED rjob /\ \A c \in Dispatches : c # d => job'[c] = job[c] /\ pc'[c] = pc[c]
      BY <3>1 DEF Begin, SaveStarted, SaveTargets, CheckCancelled, CheckTarget, reqVars, TypeOK
    <3>2. ASSUME CheckDone(d) \/ Unreachable(d) \/ Collect(d) \/ TargetFails(d) \/ SaveTarget(d)
          PROVE  UNCHANGED rjob /\ \A c \in Dispatches : c # d => job'[c] = job[c] /\ pc'[c] = pc[c]
      BY <3>2 DEF CheckDone, Unreachable, Collect, TargetFails, SaveTarget, reqVars, TypeOK
    <3>3. ASSUME ErrorNotSaved(d) \/ Raise(d) \/ HandleException(d) \/ GiveUp(d) \/ Finish(d)
          PROVE  UNCHANGED rjob /\ \A c \in Dispatches : c # d => job'[c] = job[c] /\ pc'[c] = pc[c]
      BY <3>3 DEF ErrorNotSaved, Raise, HandleException, GiveUp, Finish, CloseRun, reqVars, TypeOK
    <3>4. QED
      BY <1>6, <3>1, <3>2, <3>3 DEF RunStep
  <2>2. CASE SaveStarted(d) \/ SaveTargets(d) \/ SaveTarget(d)
    <3>1. row'.status \in {row.status, job[d].status}
      BY <1>1, <2>2, UpdateKeepsRow DEF SaveStarted, SaveTargets, SaveTarget, TypeOK
    <3>2. UNCHANGED <<job, snapshots>> /\ pc[d] \notin {"completing", "raised"}
      BY <2>2 DEF SaveStarted, SaveTargets, SaveTarget
    <3>3. QED
      BY <2>1, <3>1, <3>2
  <2>3. CASE Finish(d)
    <3>1. row'.status \in {row.status, job[d].status}
      BY <1>1, <2>3, UpdateKeepsRow DEF Finish, TypeOK
    <3>2. job'[d] = NewJob
      BY <2>3 DEF Finish, CloseRun, TypeOK
    <3>3. pc[d] = "completing" => snapshots' # {}
      BY <2>3 DEF Finish
    <3>4. pc[d] # "raised"
      BY <2>3 DEF Finish
    <3>5. QED
      BY <1>2, <2>1, <3>1, <3>2, <3>3, <3>4
  <2>4. CASE Begin(d) \/ TargetFails(d)
    <3>1. job'[d].status = "completed" => row.status = "completed"
      <4>1. CASE Begin(d) /\ IsCancelled(row)
        <5>1. job'[d] = [row EXCEPT !.finished = TRUE]
          BY <4>1 DEF Begin, TypeOK
        <5>2. QED
          BY <5>1, CopyStatus DEF TypeOK
      <4>2. CASE Begin(d) /\ ~IsCancelled(row)
        <5>1. job'[d] = [row EXCEPT !.status = "running", !.stats = NoStats]
          BY <4>2 DEF Begin, TypeOK
        <5>2. QED
          BY <5>1, CopyStatus DEF TypeOK
      <4>3. CASE TargetFails(d)
        <5>1. job'[d] = [row EXCEPT !.stats.errors = @ + 1]
          BY <4>3 DEF TargetFails, TypeOK
        <5>2. QED
          BY <5>1, CopyStatus DEF TypeOK
      <4>4. QED
        BY <2>4, <4>1, <4>2, <4>3
    <3>2. UNCHANGED <<row, snapshots>>
      BY <2>4 DEF Begin, TargetFails, rowVars
    <3>3. QED
      BY <2>1, <3>1, <3>2
  <2>5. CASE CheckCancelled(d) \/ HandleException(d)
    <3>1. job'[d].status \in {"cancelled", "failed"}
      <4>1. \/ job'[d] = CancelledCopy(job[d])
            \/ job'[d] = [job[d] EXCEPT !.status = "failed", !.finished = TRUE]
        BY <2>5 DEF CheckCancelled, HandleException, TypeOK
      <4>2. job[d] \in JobRow
        BY <1>1
      <4>3. /\ CancelledCopy(job[d]).status = "cancelled"
            /\ [job[d] EXCEPT !.status = "failed", !.finished = TRUE].status = "failed"
        BY <4>2, CopyStatus
      <4>4. QED
        BY <4>1, <4>3
    <3>2. UNCHANGED <<row, snapshots>>
      BY <2>5 DEF CheckCancelled, HandleException, rowVars
    <3>3. QED
      BY <2>1, <3>1, <3>2
  <2>6. CASE CheckTarget(d) \/ Collect(d) \/ Unreachable(d) \/ ErrorNotSaved(d)
    <3>1. job'[d].status = job[d].status /\ pc[d] \notin {"completing", "raised"}
      BY <1>1, <2>6 DEF CheckTarget, Collect, Unreachable, ErrorNotSaved, TypeOK, JobRow
    <3>2. UNCHANGED <<row, snapshots>>
      BY <2>6 DEF CheckTarget, Collect, Unreachable, ErrorNotSaved, rowVars
    <3>3. QED
      BY <2>1, <3>1, <3>2
  <2>7. CASE CheckDone(d) \/ Raise(d)
    BY <2>1, <2>7 DEF CheckDone, Raise, rowVars, TypeOK
  <2>8. CASE GiveUp(d)
    BY <1>2, <2>1, <2>8 DEF GiveUp, CloseRun, rowVars, TypeOK
  <2>9. QED
    BY <1>6, <2>2, <2>3, <2>4, <2>5, <2>6, <2>7, <2>8 DEF RunStep
<1>7. ASSUME NEW d \in Dispatches, Terminate \/ CrashRun(d)
      PROVE  CompletedHasSnapshot' /\ CopiesAreBacked'
  <2>1. PICK e \in Dispatches : CloseRun(e, "dead")
    BY <1>7 DEF Terminate, CrashRun
  <2>2. UNCHANGED <<row, snapshots, rjob>>
    BY <1>7 DEF Terminate, CrashRun, rowVars, reqVars
  <2>3. QED
    BY <1>2, <2>1, <2>2 DEF CloseRun, TypeOK
<1>8. ASSUME NEW q \in Requests, CrashRequest(q)
      PROVE  CompletedHasSnapshot' /\ CopiesAreBacked'
  BY <1>2, <1>8 DEF CrashRequest, CloseRequest, rowVars, runVars, TypeOK
<1>9. CASE UNCHANGED vars
  BY <1>9 DEF vars
<1>10. QED
  BY <1>3, <1>4, <1>5, <1>6, <1>7, <1>8, <1>9 DEF Next, RequestStep

SnapshotInv ==
  DispatchedOnce /\ SnapshotIffCompleted /\ CompletedHasSnapshot /\ CopiesAreBacked

LEMMA SnapshotInvHolds == Spec => []SnapshotInv
<1>1. Init => SnapshotInv
  BY DEF Init, SnapshotInv, DispatchedOnce, ToBeDispatched, SnapshotIffCompleted,
         CompletedHasSnapshot, CopiesAreBacked, NewJob
<1>2. TypeOK /\ SnapshotInv /\ [Next]_vars => SnapshotInv'
  BY DispatchedOnceInvariant, SnapshotInvariant, CompletedInvariant DEF SnapshotInv
<1>3. QED
  BY <1>1, <1>2, TypeCorrect, PTL DEF Spec

\* However many runs of a job fail, are killed, crash or overlap, the snapshots
\* in the database are those of the runs that completed.
THEOREM SnapshotsAreComplete == Spec => []SnapshotIffCompleted
<1>1. SnapshotInv => SnapshotIffCompleted
  BY DEF SnapshotInv
<1>2. QED
  BY <1>1, SnapshotInvHolds, PTL

\* Whatever stale copies cancels, retries and concurrent runs write over each
\* other, a job that reads COMPLETED has a snapshot.
THEOREM CompletedJobsHaveSnapshots == Spec => []CompletedHasSnapshot
<1>1. SnapshotInv => CompletedHasSnapshot
  BY DEF SnapshotInv
<1>2. QED
  BY <1>1, SnapshotInvHolds, PTL
-----------------------------------------------------------------------------
(* What a job reports, when it is dispatched once (Retriers = {}).         *)

Counted(st) == st.done + st.errors

\* How many targets the run has behind it: none before the first, and any
\* number once it has ended.
Limit == IF pc[Start] \in Ended THEN NumTargets ELSE idx[Start] - 1

\* Counters that a copy may hold: no more than what is committed, and no
\* snapshot before the run has ended.
StatsOK(st) ==
  /\ st.done <= Cardinality(inventory)
  /\ Counted(st) <= Limit
  /\ pc[Start] \notin Ended => st.snap = NoRun

\* The copy of the run is at most one target ahead.
RunBacked ==
  /\ idx[Start] \in 1..(NumTargets + 1)
  /\ pc[Start] \notin Ended => inventory \subseteq 1..(idx[Start] - 1)
  /\ pc[Start] \in AtTarget => idx[Start] <= NumTargets
  /\ job[Start].stats.done <= Cardinality(inventory) + (IF pc[Start] = "saving" THEN 1 ELSE 0)
  /\ Counted(job[Start].stats)
       <= idx[Start] - 1 + (IF pc[Start] \in {"saving", "recovering"} THEN 1 ELSE 0)
  /\ pc[Start] \notin {"completing", "raised", "cancelling", "failing"} =>
       job[Start].stats.snap = NoRun
  /\ pc[Start] = "completing" => job[Start].stats.snap = Start /\ base[Start].stats.snap = NoRun

RequestsBacked ==
  /\ \A q \in Requests : StatsOK(rjob[q].stats)
  /\ rpc[Start] \in {"enqueue", "dispatching"} =>
       rjob[Start].status = "pending" /\ rjob[Start].stats = NoStats /\ rbase[Start] = NewJob
  /\ \A q \in Cancellers : rpc[q] = "cancelling" =>
       rjob[q].status = "cancelled" /\ rbase[q].status \in {"pending", "running"}

BackedInv ==
  /\ StatsOK(row.stats)
  /\ row.status = "completed" => row.stats.snap = Start
  /\ RunBacked
  /\ RequestsBacked

\* update either stores the copy as it is, or column by column over what was
\* committed meanwhile.
LEMMA UpdateColumns ==
  ASSUME row \in JobRow, NEW copy \in JobRow, NEW seen \in JobRow, Update(copy, seen)
  PROVE  /\ row'.stats \in {row.stats, copy.stats}
         /\ \/ row' = copy
            \/ /\ row'.status = IF copy.status = seen.status THEN row.status ELSE copy.status
               /\ row'.config = IF copy.config = seen.config THEN row.config ELSE copy.config
               /\ row'.stats = IF copy.stats = seen.stats THEN row.stats ELSE copy.stats
<1>1. PICK loaded \in {row, seen} : row' = Merge(row, loaded, copy)
  BY DEF Update
<1>2. copy = [status |-> copy.status, finished |-> copy.finished,
              config |-> copy.config, stats |-> copy.stats]
  BY DEF JobRow
<1>3. CASE loaded = row
  <2>1. row' = [status |-> copy.status, finished |-> copy.finished,
                config |-> copy.config, stats |-> copy.stats]
    BY <1>1, <1>3 DEF Merge, Column
  <2>2. QED
    BY <1>2, <2>1
<1>4. CASE loaded = seen
  BY <1>1, <1>4 DEF Merge, Column
<1>5. QED
  BY <1>3, <1>4

LEMMA InventoryCounts ==
  ASSUME TypeOK
  PROVE  /\ IsFiniteSet(inventory) /\ Cardinality(inventory) \in Nat
         /\ \A i \in 1..NumTargets : i \notin inventory =>
              Cardinality(inventory \cup {i}) = Cardinality(inventory) + 1
<1>1. IsFiniteSet(1..NumTargets)
  BY ParameterAssumption, FS_Interval
<1>2. IsFiniteSet(inventory) /\ Cardinality(inventory) \in Nat
  BY <1>1, FS_Subset, FS_CardinalityType DEF TypeOK
<1>3. \A i : i \notin inventory => Cardinality(inventory \cup {i}) = Cardinality(inventory) + 1
  BY <1>2, FS_AddElement
<1>4. QED
  BY <1>2, <1>3

\* What holds of a copy goes on to hold while the run advances.
LEMMA StatsStay ==
  ASSUME TypeOK, TypeOK', Cardinality(inventory) <= Cardinality(inventory'), Limit <= Limit',
         pc'[Start] \notin Ended => pc[Start] \notin Ended,
         NEW st \in Stats, StatsOK(st)
  PROVE  StatsOK(st)'
<1>1. /\ Cardinality(inventory) \in Nat /\ Cardinality(inventory') \in Nat
      /\ Limit \in Int /\ Limit' \in Int /\ st.done \in Nat /\ Counted(st) \in Nat
  <2>1. Cardinality(inventory) \in Nat
    BY InventoryCounts
  <2>2. IsFiniteSet(1..NumTargets)
    BY ParameterAssumption, FS_Interval
  <2>3. inventory' \subseteq 1..NumTargets
    BY DEF TypeOK
  <2>4. Cardinality(inventory') \in Nat
    BY <2>2, <2>3, FS_Subset, FS_CardinalityType
  <2>5. QED
    BY <2>1, <2>4, ParameterAssumption DEF Limit, TypeOK, Stats, Counted
<1>2. QED
  BY <1>1 DEF StatsOK

LEMMA NoStatsOK ==
  ASSUME TypeOK, RunBacked PROVE StatsOK(NoStats) /\ NoStats \in Stats /\ NewJob.stats = NoStats
<1>1. Cardinality(inventory) \in Nat
  BY InventoryCounts
<1>2. idx[Start] - 1 >= 0 /\ idx[Start] \in Int /\ NumTargets \in Nat
  BY ParameterAssumption DEF RunBacked
<1>3. QED
  BY <1>1, <1>2 DEF StatsOK, NoStats, Counted, Limit, Stats, NewJob

\* The steps of the requests.
LEMMA RequestFrame ==
  ASSUME TypeOK, BackedInv, UNCHANGED <<inventory, idx, job, base>>,
         pc'[Start] = pc[Start] \/ (pc[Start] = "none" /\ pc'[Start] \in Waiting)
  PROVE  RunBacked' /\ \A st : StatsOK(st)' <=> StatsOK(st)
<1>1. pc'[Start] \in Ended <=> pc[Start] \in Ended
  BY DEF Waiting, Ended
<1>2. Limit' = Limit
  BY <1>1 DEF Limit
<1>3. RunBacked'
  BY <1>1 DEF BackedInv, RunBacked, Waiting, AtTarget
<1>4. QED
  BY <1>1, <1>2, <1>3 DEF StatsOK

LEMMA RequestStepBacked ==
  ASSUME Retriers = {}, TypeOK, TypeOK', SnapshotInv, BackedInv, NEW q \in Requests,
         RequestStep(q) \/ CrashRequest(q) \/ (q \in Cancellers /\ ReadCancel(q))
  PROVE  BackedInv'
<1>1. /\ UNCHANGED <<inventory, idx, job, base>>
      /\ pc'[Start] = pc[Start] \/ (pc[Start] = "none" /\ pc'[Start] \in Waiting)
  BY DEF RequestStep, Enqueue, EnqueueFails, SaveDispatch, SaveCancel, ReadCancel, CrashRequest,
         rowVars, runVars, TypeOK, Waiting, SnapshotInv, DispatchedOnce, ToBeDispatched
<1>2. RunBacked' /\ \A st : StatsOK(st)' <=> StatsOK(st)
  BY <1>1, RequestFrame
<1>3. StatsOK(NoStats) /\ NewJob.stats = NoStats
  BY NoStatsOK DEF BackedInv
<1>4. /\ \A p \in Requests : rjob[p] \in JobRow /\ rbase[p] \in JobRow
      /\ row \in JobRow
  BY DEF TypeOK
<1>5. CASE q = Start /\ (Enqueue \/ EnqueueFails)
  <2>1. UNCHANGED <<row, rbase>>
    BY <1>5 DEF Enqueue, EnqueueFails, rowVars
  <2>2. \A p \in Requests : rjob'[p].stats = rjob[p].stats /\ rjob'[p].status = rjob[p].status
    BY <1>4, <1>5 DEF Enqueue, EnqueueFails, TypeOK, JobRow
  <2>3. rpc[Start] = "enqueue" /\ \A p \in Cancellers : rpc'[p] = rpc[p]
    BY <1>5, ParameterAssumption DEF Enqueue, EnqueueFails, TypeOK
  <2>4. RequestsBacked'
    BY <1>2, <2>1, <2>2, <2>3 DEF BackedInv, RequestsBacked
  <2>5. QED
    BY <1>2, <2>1, <2>4 DEF BackedInv
<1>6. ASSUME CloseRequest(q)
      PROVE  RequestsBacked'
  <2>1. rpc' = [rpc EXCEPT ![q] = "done"] /\ rjob' = [rjob EXCEPT ![q] = NewJob]
        /\ rbase' = [rbase EXCEPT ![q] = NewJob]
    BY <1>6 DEF CloseRequest
  <2>2. \A p \in Requests : StatsOK(rjob'[p].stats)
    BY <1>3, <2>1 DEF TypeOK, BackedInv, RequestsBacked
  <2>3. QED
    BY <1>2, <2>1, <2>2 DEF TypeOK, BackedInv, RequestsBacked
<1>7. CASE CrashRequest(q)
  BY <1>2, <1>6, <1>7 DEF CrashRequest, rowVars, BackedInv
<1>8. CASE q = Start /\ SaveDispatch
  <2>1. /\ rjob[q].status = "pending" /\ rjob[q].stats = NoStats /\ rbase[q] = NewJob
        /\ Update(rjob[q], rbase[q]) /\ CloseRequest(q)
    BY <1>8 DEF SaveDispatch, BackedInv, RequestsBacked
  <2>2. NewJob.status = "pending" BY DEF NewJob
  <2>3. /\ row'.stats \in {row.stats, NoStats}
        /\ row'.status = "pending" \/ (row'.status = row.status /\ row'.stats = row.stats)
    BY <1>3, <1>4, <2>1, <2>2, UpdateColumns
  <2>4. QED
    BY <1>2, <1>3, <1>6, <2>1, <2>3 DEF BackedInv
<1>9. CASE q \in Cancellers /\ SaveCancel(q)
  <2>1. /\ rjob[q].status = "cancelled" /\ rbase[q].status \in {"pending", "running"}
        /\ StatsOK(rjob[q].stats) /\ Update(rjob[q], rbase[q]) /\ CloseRequest(q)
    BY <1>9 DEF SaveCancel, BackedInv, RequestsBacked
  <2>2. row'.stats \in {row.stats, rjob[q].stats} /\ row'.status = "cancelled"
    BY <1>4, <2>1, UpdateColumns
  <2>3. QED
    BY <1>2, <1>6, <2>1, <2>2 DEF BackedInv
<1>10. CASE q \in Cancellers /\ ReadCancel(q)
  <2>1. /\ row' = row /\ rbase' = [rbase EXCEPT ![q] = row] /\ rpc' = [rpc EXCEPT ![q] = "cancelling"]
        /\ rjob' = [rjob EXCEPT ![q] = [row EXCEPT !.status = "cancelled", !.finished = TRUE,
                                                  !.config.cancelled = TRUE]]
        /\ row.status \in {"pending", "running"}
    BY <1>10 DEF ReadCancel, rowVars
  <2>2. /\ rjob'[q].stats = row.stats /\ rjob'[q].status = "cancelled" /\ rbase'[q] = row
        /\ \A p \in Requests \ {q} : rjob'[p] = rjob[p] /\ rbase'[p] = rbase[p] /\ rpc'[p] = rpc[p]
    BY <1>4, <2>1 DEF TypeOK, JobRow
  <2>3. q # Start
    BY <1>10, ParameterAssumption
  <2>4. \A p \in Requests : StatsOK(rjob'[p].stats)
    BY <2>2 DEF BackedInv, RequestsBacked
  <2>5. RequestsBacked'
    BY <1>2, <2>1, <2>2, <2>3, <2>4 DEF BackedInv, RequestsBacked
  <2>6. QED
    BY <1>2, <2>1, <2>5 DEF BackedInv
<1>11. QED
  BY <1>5, <1>7, <1>8, <1>9, <1>10 DEF RequestStep

\* The steps of the run.
LEMMA RunFrame ==
  ASSUME TypeOK, TypeOK', BackedInv, UNCHANGED reqVars,
         Cardinality(inventory) <= Cardinality(inventory'), Limit <= Limit',
         pc'[Start] \notin Ended => pc[Start] \notin Ended, RunBacked',
         StatsOK(row.stats)', row'.status = "completed" => row'.stats.snap = Start
  PROVE  BackedInv'
<1>1. \A q \in Requests : rjob[q].stats \in Stats
  BY DEF TypeOK, JobRow
<1>2. \A q \in Requests : StatsOK(rjob[q].stats)'
  BY <1>1, StatsStay DEF BackedInv, RequestsBacked, reqVars
<1>3. RequestsBacked'
  BY <1>2 DEF BackedInv, RequestsBacked, reqVars
<1>4. QED
  BY <1>3 DEF BackedInv

\* A step that writes nothing.
LEMMA RunReads ==
  ASSUME TypeOK, TypeOK', BackedInv, UNCHANGED <<reqVars, rowVars>>, Limit <= Limit',
         pc'[Start] \notin Ended => pc[Start] \notin Ended, RunBacked'
  PROVE  BackedInv'
<1>1. row.stats \in Stats /\ UNCHANGED <<row, inventory>>
  BY DEF TypeOK, JobRow, rowVars
<1>2. Cardinality(inventory) <= Cardinality(inventory')
  BY <1>1, InventoryCounts
<1>3. StatsOK(row.stats)'
  BY <1>1, <1>2, StatsStay DEF BackedInv
<1>4. QED
  BY <1>1, <1>2, <1>3, RunFrame DEF BackedInv

\* While the run goes on and before it has COMPLETED in hand, no copy says so.
LEMMA NotCompleted ==
  ASSUME Retriers = {}, TypeOK, SnapshotInv, pc[Start] \notin {"completed", "completing", "raised"}
  PROVE  job[Start].status # "completed" /\ row.status # "completed"
<1>1. snapshots = {}
  BY DEF SnapshotInv, SnapshotIffCompleted
<1>2. QED
  BY <1>1 DEF SnapshotInv, CopiesAreBacked, CompletedHasSnapshot

LEMMA EndBacked ==
  ASSUME TypeOK, TypeOK', BackedInv, UNCHANGED <<reqVars, inventory>>,
         NEW how \in Ended, CloseRun(Start, how),
         row'.stats \in {row.stats, job[Start].stats}, pc[Start] # "saving",
         row'.status = "completed" => row'.stats.snap = Start
  PROVE  BackedInv'
<1>1. /\ pc'[Start] = how /\ idx'[Start] = 1 /\ job'[Start] = NewJob
  BY DEF CloseRun, TypeOK
<1>2. Limit' = NumTargets /\ Limit <= NumTargets
  BY <1>1, ParameterAssumption DEF Limit, BackedInv, RunBacked, TypeOK
<1>3. Cardinality(inventory) \in Nat /\ Cardinality(inventory') = Cardinality(inventory)
  BY InventoryCounts
<1>4. StatsOK(row.stats)'
  <2>1. CASE row'.stats = row.stats
    <3>1. row.stats \in Stats
      BY DEF TypeOK, JobRow
    <3>2. StatsOK(row.stats)
      BY DEF BackedInv
    <3>3. /\ row.stats.done <= Cardinality(inventory)
          /\ Counted(row.stats) \in Nat /\ Limit \in Int /\ Counted(row.stats) <= Limit
      BY <3>1, <3>2, ParameterAssumption DEF StatsOK, Counted, Stats, Limit, TypeOK
    <3>4. QED
      BY <1>1, <1>2, <1>3, <2>1, <3>3, ParameterAssumption DEF StatsOK, Counted
  <2>2. CASE row'.stats = job[Start].stats
    <3>1. /\ job[Start].stats \in Stats /\ idx[Start] \in Nat
      BY DEF TypeOK, JobRow
    <3>2. /\ job[Start].stats.done <= Cardinality(inventory)
          /\ Counted(job[Start].stats) <= NumTargets
      <4>1. /\ job[Start].stats.done <= Cardinality(inventory) + 0
            /\ Counted(job[Start].stats)
                 <= idx[Start] - 1 + (IF pc[Start] \in {"saving", "recovering"} THEN 1 ELSE 0)
            /\ idx[Start] <= NumTargets + 1
            /\ pc[Start] = "recovering" => idx[Start] <= NumTargets
        BY DEF BackedInv, RunBacked, AtTarget
      <4>2. job[Start].stats.done \in Nat /\ Counted(job[Start].stats) \in Nat
        BY <3>1 DEF Stats, Counted
      <4>3. QED
        BY <1>3, <3>1, <4>1, <4>2, ParameterAssumption
    <3>3. QED
      BY <1>1, <1>2, <1>3, <2>2, <3>2 DEF StatsOK, Counted
  <2>3. QED
    BY <2>1, <2>2
<1>5. RunBacked'
  <2>1. NewJob.stats.done = 0 /\ Counted(NewJob.stats) = 0 /\ NewJob.stats.snap = NoRun
    BY DEF NewJob, NoStats, Counted
  <2>2. QED
    BY <1>1, <1>3, <2>1, ParameterAssumption DEF RunBacked, AtTarget, Ended
<1>6. QED
  BY <1>1, <1>2, <1>3, <1>4, <1>5, RunFrame

LEMMA RunStepBacked ==
  ASSUME Retriers = {}, TypeOK, TypeOK', SnapshotInv, BackedInv, RunStep(Start)
  PROVE  BackedInv'
<1> DEFINE p == pc[Start]
           i == idx[Start]
           j == job[Start].stats
<1>1. /\ row \in JobRow /\ job[Start] \in JobRow /\ base[Start] \in JobRow
      /\ j \in Stats /\ row.stats \in Stats /\ i \in Nat
      /\ j.done \in Nat /\ j.errors \in Nat /\ row.stats.done \in Nat /\ row.stats.errors \in Nat
  BY DEF TypeOK, JobRow, Stats
<1>2. Cardinality(inventory) \in Nat
  BY InventoryCounts
<1>3. RunBacked /\ StatsOK(row.stats) /\ NumTargets \in Nat /\ NoRun # Start
  BY ParameterAssumption DEF BackedInv
<1>4. CASE Begin(Start)
  <2>1. /\ p \in Waiting /\ UNCHANGED <<rowVars, reqVars, idx>>
        /\ pc'[Start] \in {"cancelling", "starting"}
        /\ job'[Start].stats = row.stats \/ job'[Start].stats = NoStats
        /\ pc'[Start] = "starting" => job'[Start].stats = NoStats
    <3>1. p \in Waiting /\ UNCHANGED <<rowVars, reqVars, idx>>
      BY <1>4 DEF Begin
    <3>2. CASE IsCancelled(row)
      <4>1. job'[Start] = [row EXCEPT !.finished = TRUE] /\ pc'[Start] = "cancelling"
        BY <1>4, <3>2 DEF Begin, TypeOK
      <4>2. job'[Start].stats = row.stats
        BY <1>1, <4>1 DEF JobRow
      <4>3. QED
        BY <3>1, <4>1, <4>2
    <3>3. CASE ~IsCancelled(row)
      <4>1. /\ job'[Start] = [row EXCEPT !.status = "running", !.stats = NoStats]
            /\ pc'[Start] = "starting"
        BY <1>4, <3>3 DEF Begin, TypeOK
      <4>2. job'[Start].stats = NoStats
        BY <1>1, <4>1 DEF JobRow
      <4>3. QED
        BY <3>1, <4>1, <4>2
    <3>4. QED
      BY <3>2, <3>3
  <2>2. Limit' = Limit /\ Limit = i - 1
    BY <2>1 DEF Limit, Waiting, Ended
  <2>3. RunBacked'
    <3>1. /\ NoStats.done = 0 /\ Counted(NoStats) = 0 /\ NoStats.snap = NoRun
          /\ row.stats.done <= Cardinality(inventory) /\ Counted(row.stats) <= i - 1
      BY <1>3, <2>2 DEF NoStats, Counted, StatsOK
    <3>2. QED
      BY <1>1, <1>2, <1>3, <2>1, <3>1 DEF RunBacked, Waiting, AtTarget, rowVars, Ended
  <2>4. QED
    BY <1>1, <2>1, <2>2, <2>3, RunReads DEF Waiting, Ended
<1>5. CASE SaveStarted(Start) \/ SaveTargets(Start)
  <2>1. /\ p \in {"starting", "expanded"} /\ UNCHANGED <<inventory, idx, job, reqVars>>
        /\ pc'[Start] \in {"expanded", "checking"} /\ Update(job[Start], base[Start])
    BY <1>5 DEF SaveStarted, SaveTargets, TypeOK
  <2>2. Limit' = Limit /\ Limit = i - 1
    BY <2>1 DEF Limit, Ended
  <2>3. RunBacked'
    BY <1>3, <2>1 DEF RunBacked, AtTarget, Ended
  <2>4. row'.stats \in {row.stats, j} /\ row'.status \in {row.status, job[Start].status}
    BY <1>1, <2>1, UpdateColumns, UpdateKeepsRow
  <2>5. row'.status # "completed"
    BY <2>1, <2>4, NotCompleted
  <2>6. StatsOK(j)
    BY <1>1, <1>2, <1>3, <2>1, <2>2 DEF RunBacked, StatsOK, Ended
  <2>7. StatsOK(row.stats)'
    BY <1>3, <2>1, <2>2, <2>4, <2>6 DEF StatsOK, Ended
  <2>8. QED
    BY <1>1, <1>2, <2>1, <2>2, <2>3, <2>5, <2>7, RunFrame DEF Ended
<1>6. CASE SaveTarget(Start)
  <2>1. /\ p \in {"progress", "saving", "recovering"} /\ UNCHANGED <<job, reqVars>>
        /\ inventory' = IF p = "saving" THEN inventory \cup {i} ELSE inventory
        /\ pc'[Start] = "checking" /\ idx'[Start] = i + 1 /\ Update(job[Start], base[Start])
    BY <1>6 DEF SaveTarget, TypeOK
  <2>2. i \in 1..NumTargets /\ i \notin inventory /\ inventory \subseteq 1..(i - 1)
    BY <1>1, <1>3, <2>1 DEF RunBacked, AtTarget, Ended
  <2>3. Cardinality(inventory') = Cardinality(inventory) + (IF p = "saving" THEN 1 ELSE 0)
    BY <1>2, <2>1, <2>2, InventoryCounts
  <2>4. Limit' = i /\ Limit = i - 1
    BY <1>1, <2>1 DEF Limit, Ended
  <2>5. /\ j.done <= Cardinality(inventory') /\ Counted(j) <= i /\ j.snap = NoRun
    BY <1>1, <1>2, <1>3, <2>1, <2>3 DEF RunBacked, Counted
  <2>6. inventory' \subseteq 1..((i + 1) - 1)
    <3>1. i \in Nat /\ inventory' \subseteq inventory \cup {i} /\ i >= 1
      BY <1>1, <2>1, <2>2
    <3>2. \A k \in 1..(i - 1) : k \in 1..((i + 1) - 1)
      BY <3>1
    <3>3. i \in 1..((i + 1) - 1)
      BY <3>1
    <3>4. QED
      BY <2>2, <3>1, <3>2, <3>3
  <2>7. RunBacked'
    BY <1>1, <1>2, <1>3, <2>1, <2>2, <2>3, <2>5, <2>6 DEF RunBacked, AtTarget, Ended
  <2>8. row'.stats \in {row.stats, j} /\ row'.status \in {row.status, job[Start].status}
    BY <1>1, <2>1, UpdateColumns, UpdateKeepsRow
  <2>9. row'.status # "completed"
    BY <2>1, <2>8, NotCompleted
  <2>10. StatsOK(row.stats)'
    <3>1. CASE row'.stats = j
      BY <2>1, <2>4, <2>5, <3>1 DEF StatsOK, Ended, Counted
    <3>2. CASE row'.stats = row.stats
      BY <1>1, <1>2, <1>3, <2>1, <2>3, <2>4, <3>2 DEF StatsOK, Ended, Counted
    <3>3. QED
      BY <2>8, <3>1, <3>2
  <2>11. QED
    BY <1>1, <1>2, <2>1, <2>3, <2>4, <2>7, <2>9, <2>10, RunFrame DEF Ended
<1>7. CASE Finish(Start)
  <2>1. PICK how \in Ended :
          /\ p \in {"stopping", "cancelling", "completing", "failing"}
          /\ Update(job[Start], base[Start]) /\ CloseRun(Start, how)
          /\ UNCHANGED <<inventory, reqVars>>
    BY <1>7 DEF Finish, Ended
  <2>2. row'.stats \in {row.stats, j} /\ row'.status \in {row.status, job[Start].status}
    BY <1>1, <2>1, UpdateColumns, UpdateKeepsRow
  <2>3. row'.status = "completed" => row'.stats.snap = Start
    <3>1. CASE p = "completing"
      <4>1. j.snap = Start /\ base[Start].stats.snap = NoRun
        BY <1>3, <3>1 DEF RunBacked
      <4>2. row' = job[Start] \/ row'.stats = j
        BY <1>1, <1>3, <2>1, <4>1, UpdateColumns
      <4>3. QED
        BY <4>1, <4>2
    <3>2. CASE p # "completing"
      BY <2>1, <2>2, <3>2, NotCompleted
    <3>3. QED
      BY <3>1, <3>2
  <2>4. QED
    BY <2>1, <2>2, <2>3, EndBacked
<1>8. CASE GiveUp(Start)
  <2>1. /\ p # "saving" /\ CloseRun(Start, "dead") /\ "dead" \in Ended
        /\ UNCHANGED <<row, inventory, reqVars>>
    BY <1>8 DEF GiveUp, rowVars, Ended
  <2>2. QED
    BY <2>1, EndBacked DEF BackedInv
<1>9. CASE TargetFails(Start)
  <2>1. /\ p \in {"collecting", "progress", "saving"} /\ UNCHANGED <<rowVars, idx, reqVars>>
        /\ pc'[Start] = "recovering"
        /\ job'[Start].stats = [row.stats EXCEPT !.errors = @ + 1]
    BY <1>1, <1>9 DEF TargetFails, TypeOK, JobRow
  <2>2. /\ job'[Start].stats.done = row.stats.done /\ job'[Start].stats.snap = row.stats.snap
        /\ Counted(job'[Start].stats) = Counted(row.stats) + 1
    BY <1>1, <2>1 DEF Stats, Counted
  <2>3. Limit' = Limit /\ Limit = i - 1
    BY <2>1 DEF Limit, Ended
  <2>4. RunBacked'
    BY <1>1, <1>2, <1>3, <2>1, <2>2, <2>3 DEF RunBacked, StatsOK, AtTarget, Ended, rowVars, Counted
  <2>5. QED
    BY <1>1, <2>1, <2>3, <2>4, RunReads DEF Ended
<1>10. CASE CheckCancelled(Start) \/ CheckTarget(Start) \/ CheckDone(Start) \/ Collect(Start)
            \/ Raise(Start) \/ HandleException(Start)
  <2>1. /\ UNCHANGED <<rowVars, idx, reqVars>> /\ p \notin Ended /\ pc'[Start] \notin Ended
    BY <1>10 DEF CheckCancelled, CheckTarget, CheckDone, Collect, Raise, HandleException, Ended, TypeOK
  <2>2. Limit' = Limit
    BY <2>1 DEF Limit
  <2>3. RunBacked'
    <3>1. CASE CheckCancelled(Start) \/ HandleException(Start)
      <4>1. /\ job'[Start].stats = j
            /\ \/ p = "checking" /\ pc'[Start] = "stopping"
               \/ p = "raised" /\ pc'[Start] \in {"cancelling", "failing"}
        <5>1. \/ job'[Start] = CancelledCopy(job[Start])
              \/ job'[Start] = [job[Start] EXCEPT !.status = "failed", !.finished = TRUE]
          BY <3>1 DEF CheckCancelled, HandleException, TypeOK
        <5>2. /\ CancelledCopy(job[Start]).stats = j
              /\ [job[Start] EXCEPT !.status = "failed", !.finished = TRUE].stats = j
          BY <1>1 DEF CancelledCopy, JobRow
        <5>3. \/ p = "checking" /\ pc'[Start] = "stopping"
              \/ p = "raised" /\ pc'[Start] \in {"cancelling", "failing"}
          BY <3>1 DEF CheckCancelled, HandleException, TypeOK
        <5>4. QED
          BY <5>1, <5>2, <5>3
      <4>2. QED
        BY <1>3, <2>1, <4>1 DEF RunBacked, AtTarget, rowVars, Ended
    <3>2. CASE CheckTarget(Start)
      <4>1. /\ p = "checking" /\ pc'[Start] = "collecting" /\ i <= NumTargets
            /\ job'[Start].stats = [j EXCEPT !.scanned = i]
        BY <1>1, <3>2 DEF CheckTarget, TypeOK, JobRow
      <4>2. /\ job'[Start].stats.done = j.done /\ job'[Start].stats.errors = j.errors
            /\ job'[Start].stats.snap = j.snap
        BY <1>1, <4>1 DEF Stats
      <4>3. QED
        BY <1>3, <2>1, <4>1, <4>2 DEF RunBacked, AtTarget, rowVars, Ended, Counted
    <3>3. CASE CheckDone(Start)
      <4>1. /\ p = "checking" /\ pc'[Start] = "completing" /\ base'[Start] = row
            /\ job'[Start].stats = [j EXCEPT !.snap = Start]
        BY <1>1, <3>3 DEF CheckDone, TypeOK, JobRow
      <4>2. /\ job'[Start].stats.done = j.done /\ job'[Start].stats.errors = j.errors
            /\ job'[Start].stats.snap = Start /\ row.stats.snap = NoRun
        BY <1>1, <1>3, <4>1 DEF Stats, StatsOK, Ended
      <4>3. QED
        BY <1>3, <2>1, <4>1, <4>2 DEF RunBacked, AtTarget, rowVars, Ended, Counted
    <3>4. CASE Collect(Start)
      <4>1. /\ p = "collecting" /\ pc'[Start] = "saving"
            /\ job'[Start].stats = [j EXCEPT !.done = @ + 1]
        BY <1>1, <3>4 DEF Collect, TypeOK, JobRow
      <4>2. /\ job'[Start].stats.done = j.done + 1 /\ job'[Start].stats.errors = j.errors
            /\ job'[Start].stats.snap = j.snap
        BY <1>1, <4>1 DEF Stats
      <4>3. /\ j.done + 1 <= Cardinality(inventory) + 1
            /\ (j.done + 1) + j.errors <= i - 1 + 1
        BY <1>1, <1>2, <1>3, <4>1 DEF RunBacked, Counted
      <4>4. QED
        BY <1>3, <2>1, <4>1, <4>2, <4>3 DEF RunBacked, AtTarget, rowVars, Ended, Counted
    <3>5. CASE Raise(Start)
      <4>1. /\ p \in {"expanded", "checking", "stopping", "completing"} /\ pc'[Start] = "raised"
            /\ UNCHANGED <<job, base>>
        BY <3>5 DEF Raise, TypeOK
      <4>2. QED
        BY <1>3, <2>1, <4>1 DEF RunBacked, AtTarget, rowVars, Ended
    <3>6. QED
      BY <1>10, <3>1, <3>2, <3>3, <3>4, <3>5
  <2>4. QED
    BY <1>1, <2>1, <2>2, <2>3, RunReads DEF Limit, Ended
<1>11. CASE Unreachable(Start) \/ ErrorNotSaved(Start)
  <2>1. /\ UNCHANGED <<rowVars, job, base, reqVars>>
        /\ p \in {"collecting", "recovering"}
        /\ \/ pc'[Start] = "progress" /\ p = "collecting" /\ idx'[Start] = i
           \/ pc'[Start] = "checking" /\ idx'[Start] = i + 1
    BY <1>11 DEF Unreachable, ErrorNotSaved, TypeOK
  <2>2. Limit = i - 1 /\ Limit' = idx'[Start] - 1
    BY <2>1 DEF Limit, Ended
  <2>3. i <= NumTargets /\ inventory \subseteq 1..(i - 1)
    BY <1>3, <2>1 DEF RunBacked, AtTarget, Ended
  <2>4. inventory \subseteq 1..(idx'[Start] - 1)
    BY <1>1, <2>1, <2>3
  <2>5. Counted(j) <= i - 1 + (IF p = "recovering" THEN 1 ELSE 0) /\ Counted(j) \in Nat
    BY <1>1, <1>3, <2>1 DEF RunBacked, Counted
  <2>6. RunBacked'
    BY <1>1, <1>2, <1>3, <2>1, <2>3, <2>4, <2>5 DEF RunBacked, AtTarget, rowVars, Ended
  <2>7. QED
    BY <1>1, <2>1, <2>2, <2>6, RunReads DEF Ended
<1>12. QED
  BY <1>4, <1>5, <1>6, <1>7, <1>8, <1>9, <1>10, <1>11 DEF RunStep

LEMMA BackedInvHolds == Retriers = {} => (Spec => []BackedInv)
<1> SUFFICES ASSUME Retriers = {} PROVE Spec => []BackedInv
  OBVIOUS
<1>1. Init /\ TypeOK => BackedInv
  <2> SUFFICES ASSUME Init, TypeOK PROVE BackedInv
    OBVIOUS
  <2>1. /\ row = NewJob /\ inventory = {} /\ pc[Start] = "none" /\ idx[Start] = 1
        /\ job[Start] = NewJob /\ base[Start] = NewJob
        /\ \A q \in Requests : rjob[q] = NewJob /\ rbase[q] = NewJob
        /\ \A q \in Cancellers : rpc[q] = "idle"
    BY ParameterAssumption DEF Init
  <2>2. Cardinality(inventory) \in Nat
    BY InventoryCounts
  <2>3. /\ NewJob.stats = NoStats /\ NewJob.status = "pending"
        /\ NoStats.done = 0 /\ NoStats.errors = 0 /\ NoStats.snap = NoRun
    BY DEF NewJob, NoStats
  <2>4. RunBacked
    BY <2>1, <2>2, <2>3, ParameterAssumption DEF RunBacked, AtTarget, Counted
  <2>5. StatsOK(NoStats)
    BY <2>4, NoStatsOK
  <2>6. QED
    BY <2>1, <2>3, <2>4, <2>5 DEF BackedInv, RequestsBacked
<1>2. TypeOK /\ TypeOK' /\ SnapshotInv /\ BackedInv /\ [Next]_vars => BackedInv'
  <2> SUFFICES ASSUME TypeOK, TypeOK', SnapshotInv, BackedInv, [Next]_vars PROVE BackedInv'
    OBVIOUS
  <2>1. ASSUME Terminate \/ CrashRun(Start) PROVE BackedInv'
    <3>1. /\ CloseRun(Start, "dead") /\ "dead" \in Ended /\ UNCHANGED <<rowVars, reqVars>>
      BY <2>1 DEF Terminate, CrashRun, Ended
    <3>2. CASE pc[Start] # "saving"
      BY <3>1, <3>2, EndBacked DEF BackedInv, rowVars
    <3>3. CASE pc[Start] = "saving"
      <4>1. pc'[Start] = "dead" /\ idx'[Start] = 1 /\ job'[Start] = NewJob
        BY <3>1 DEF CloseRun, TypeOK
      <4>2. Limit' = NumTargets /\ Limit <= NumTargets
        BY <4>1, ParameterAssumption DEF Limit, BackedInv, RunBacked, TypeOK, Ended
      <4>3. RunBacked'
        <5>1. /\ NewJob.stats.done = 0 /\ Counted(NewJob.stats) = 0 /\ NewJob.stats.snap = NoRun
              /\ Cardinality(inventory) \in Nat /\ inventory' = inventory
          BY <3>1, InventoryCounts DEF NewJob, NoStats, Counted, rowVars
        <5>2. QED
          BY <4>1, <5>1, ParameterAssumption DEF RunBacked, AtTarget, Ended
      <4>4. QED
        BY <3>1, <3>3, <4>1, <4>2, <4>3, RunReads DEF Ended
    <3>4. QED
      BY <3>2, <3>3
  <2>2. CASE UNCHANGED vars
    <3>1. RunBacked' /\ Limit' = Limit /\ \A st : StatsOK(st)' <=> StatsOK(st)
      BY <2>2, RequestFrame DEF vars, Limit
    <3>2. QED
      BY <2>2, <3>1 DEF vars, BackedInv, RequestsBacked
  <2>3. QED
    BY <2>1, <2>2, RequestStepBacked, RunStepBacked DEF Next
<1>3. QED
  BY <1>1, <1>2, TypeCorrect, SnapshotInvHolds, PTL DEF Spec

\* However requests, failed targets, early pickup, SIGTERM and crashes
\* interleave, the counters of a job that is dispatched once never claim more
\* than what is committed (ReportIsBacked).
THEOREM ReportsAreBacked == Retriers = {} => (Spec => []ReportIsBacked)
<1> SUFFICES ASSUME Retriers = {} PROVE Spec => []ReportIsBacked
  OBVIOUS
<1>1. TypeOK /\ SnapshotInv /\ BackedInv => ReportIsBacked
  <2> SUFFICES ASSUME TypeOK, SnapshotInv, BackedInv PROVE ReportIsBacked
    OBVIOUS
  <2>1. row.stats.done <= Cardinality(inventory) /\ Counted(row.stats) <= Limit
    BY DEF BackedInv, StatsOK
  <2>2. Limit \in Int /\ Limit <= NumTargets /\ NumTargets \in Nat /\ Counted(row.stats) \in Nat
    BY ParameterAssumption DEF Limit, BackedInv, RunBacked, Counted, TypeOK, JobRow, Stats
  <2>3. row.status = "completed" => row.stats.snap \in snapshots
    BY DEF BackedInv, SnapshotInv, CompletedHasSnapshot, SnapshotIffCompleted
  <2>4. QED
    BY <2>1, <2>2, <2>3 DEF ReportIsBacked, Counted
<1>2. QED
  BY <1>1, TypeCorrect, SnapshotInvHolds, BackedInvHolds, PTL
-----------------------------------------------------------------------------
(* The outcome of a job that is dispatched once and whose run begins after *)
(* start_job has returned (EarlyPickup = FALSE).  A cancel is then the     *)
(* only other writer of the row, and it leaves the row cancelled.          *)

Before == {"none"} \cup Waiting

Scanning == {"checking", "completing"} \cup AtTarget

\* start_job: until it is done, its run has not begun.
DispatchOrder ==
  /\ rpc[Start] \in {"enqueue", "dispatching", "done"}
  /\ rpc[Start] \in {"enqueue", "dispatching"} =>
       ~rjob[Start].config.cancelled /\ pc[Start] \in Before \cup {"dead"}
  /\ rpc[Start] = "dispatching" /\ pc[Start] = "none" =>
       rjob[Start].config.dispatch = "inline"
  /\ rpc[Start] = "done" /\ pc[Start] = "none" => crashes > 0

\* Before the run begins.
BeforeOrder ==
  /\ pc[Start] \in Before => /\ row.status \in {"pending", "cancelled"}
                             /\ IsCancelled(row) => row.status = "cancelled"
  /\ pc[Start] \in Before \cup {"starting", "expanded"} => inventory = {}

\* While it goes on, the row is as the run last saw it, or cancelled since.
RunOrder ==
  pc[Start] \in Busy =>
    /\ row = base[Start] \/ row.status = "cancelled"
    /\ base[Start].status \in {"pending", "running", "cancelled"}
    /\ pc[Start] \in {"starting", "expanded"} =>
         ~IsCancelled(job[Start]) /\ job[Start].status = "running"
    /\ pc[Start] \in {"stopping", "cancelling"} => job[Start].status = "cancelled"
    /\ pc[Start] = "failing" => job[Start].status = "failed"

\* While it scans, its counters are exact unless the job is cancelled.
ScanOrder ==
  pc[Start] \in Scanning =>
    /\ row.status \in {"running", "cancelled"}
    /\ IsCancelled(row) \/ row.stats.done = Cardinality(inventory)
    /\ IsCancelled(job[Start]) \/ job[Start].stats.done
         = Cardinality(inventory) + (IF pc[Start] = "saving" THEN 1 ELSE 0)
    /\ IsCancelled(job[Start]) => pc[Start] \in {"checking", "recovering"} /\ IsCancelled(row)
    /\ job[Start].status \in IF pc[Start] = "completing" THEN {"completed"}
                                                       ELSE {"running", "cancelled"}
    /\ pc[Start] \in {"collecting", "progress", "saving", "completing"} =>
         base[Start].status = "running"
    /\ pc[Start] = "recovering" => /\ job[Start].status = base[Start].status
                                   /\ job[Start].config = base[Start].config

EndOrder ==
  /\ row.status = "completed" =>
       pc[Start] = "completed" /\ row.stats.done = Cardinality(inventory)
  /\ pc[Start] \in {"completed", "failed", "cancelled"} => row.status \in Terminal

OrderlyInv == DispatchOrder /\ BeforeOrder /\ RunOrder /\ ScanOrder /\ EndOrder

\* What a request does to the row while the run is elsewhere.
LEMMA OrderFrame ==
  ASSUME OrderlyInv, UNCHANGED <<inventory, job, base>>,
         pc'[Start] = pc[Start] \/ (pc[Start] = "none" /\ pc'[Start] \in Waiting),
         row' = row \/ row'.status = "cancelled"
  PROVE  BeforeOrder' /\ RunOrder' /\ ScanOrder' /\ EndOrder'
<1>1. \/ pc'[Start] = pc[Start]
      \/ pc[Start] \in Before /\ pc'[Start] \in Before
  BY DEF Before, Waiting
<1>2. /\ Before \cap (Busy \cup Scanning \cup Ended) = {} /\ Scanning \subseteq Busy
      /\ Busy \cap Ended = {} /\ {"starting", "expanded"} \subseteq Busy
      /\ {"completed", "failed", "cancelled"} \subseteq Ended
  BY DEF Before, Waiting, Busy, Scanning, AtTarget, Ended
<1>3. row'.status = "cancelled" => IsCancelled(row')
  BY DEF IsCancelled
<1>4. BeforeOrder'
  BY <1>1, <1>2, <1>3 DEF OrderlyInv, BeforeOrder
<1>5. RunOrder'
  BY <1>1, <1>2 DEF OrderlyInv, RunOrder
<1>6. ScanOrder'
  <2>1. CASE pc'[Start] = pc[Start]
    BY <1>3, <2>1 DEF OrderlyInv, ScanOrder
  <2>2. CASE pc[Start] \in Before /\ pc'[Start] \in Before
    BY <1>2, <2>2 DEF ScanOrder
  <2>3. QED
    BY <1>1, <2>1, <2>2
<1>7. EndOrder'
  BY <1>1, <1>2 DEF OrderlyInv, EndOrder, Terminal
<1>8. QED
  BY <1>4, <1>5, <1>6, <1>7

LEMMA RequestStepOrderly ==
  ASSUME Retriers = {}, TypeOK, SnapshotInv, BackedInv, OrderlyInv, NEW q \in Requests,
         RequestStep(q) \/ CrashRequest(q) \/ (q \in Cancellers /\ ReadCancel(q))
  PROVE  OrderlyInv'
<1>1. /\ UNCHANGED <<inventory, job, base>>
      /\ pc'[Start] = pc[Start] \/ (pc[Start] = "none" /\ pc'[Start] \in Waiting)
  BY DEF RequestStep, Enqueue, EnqueueFails, SaveDispatch, SaveCancel, ReadCancel, CrashRequest,
         rowVars, runVars, TypeOK, Waiting, SnapshotInv, DispatchedOnce, ToBeDispatched
<1>2. /\ \A p \in Requests : rjob[p] \in JobRow /\ rbase[p] \in JobRow
      /\ row \in JobRow
  BY DEF TypeOK
<1>3. CASE q = Start /\ (Enqueue \/ EnqueueFails)
  <2>1. /\ row' = row /\ rpc[Start] = "enqueue" /\ rpc'[Start] = "dispatching"
        /\ rjob'[Start].config.cancelled = rjob[Start].config.cancelled
        /\ \/ pc'[Start] = "queued"
           \/ pc'[Start] = pc[Start] /\ rjob'[Start].config.dispatch = "inline"
    BY <1>2, <1>3 DEF Enqueue, EnqueueFails, rowVars, runVars, TypeOK, JobRow, Config
  <2>2. DispatchOrder'
    BY <2>1 DEF OrderlyInv, DispatchOrder, Before, Waiting
  <2>3. QED
    BY <1>1, <2>1, <2>2, OrderFrame DEF OrderlyInv
<1>4. CASE q = Start /\ SaveDispatch
  <2>1. /\ rpc[Start] = "dispatching" /\ rpc'[Start] = "done" /\ Update(rjob[Start], rbase[Start])
        /\ rjob[Start].status = "pending" /\ rbase[Start] = NewJob /\ ~rjob[Start].config.cancelled
        /\ pc[Start] \in Before \cup {"dead"}
        /\ rjob[Start].config.dispatch = "inline" => pc'[Start] = "scheduled"
        /\ rjob[Start].config.dispatch # "inline" => pc'[Start] = pc[Start]
    BY <1>4 DEF SaveDispatch, CloseRequest, TypeOK, BackedInv, RequestsBacked,
                OrderlyInv, DispatchOrder
  <2>2. NewJob.status = "pending"
    BY DEF NewJob
  <2>3. \/ row' = rjob[Start]
        \/ row'.status = row.status /\ row'.config \in {row.config, rjob[Start].config}
    BY <1>2, <2>1, <2>2, UpdateColumns
  <2>4. DispatchOrder'
    BY <2>1 DEF OrderlyInv, DispatchOrder
  <2>5. pc'[Start] \in Before \cup {"dead"} /\ (pc'[Start] \in Before => pc[Start] \in Before)
    BY <1>1, <2>1 DEF Before, Waiting
  <2>6. /\ (Before \cup {"dead"}) \cap (Busy \cup Scanning \cup {"completed", "failed", "cancelled",
                                        "starting", "expanded"}) = {}
        /\ "dead" \notin Before
    BY DEF Before, Waiting, Busy, Scanning, AtTarget
  <2>7. BeforeOrder'
    <3>1. pc'[Start] \in Before => /\ row'.status \in {"pending", "cancelled"}
                                   /\ row'.config.cancelled => row'.status = "cancelled"
      BY <2>1, <2>3, <2>5 DEF OrderlyInv, BeforeOrder, IsCancelled
    <3>2. QED
      BY <1>1, <2>5, <2>6, <3>1 DEF OrderlyInv, BeforeOrder, IsCancelled
  <2>8. row'.status # "completed"
    BY <2>1, <2>3, <2>6 DEF OrderlyInv, EndOrder
  <2>9. RunOrder' /\ ScanOrder' /\ EndOrder'
    BY <2>5, <2>6, <2>8 DEF RunOrder, ScanOrder, EndOrder
  <2>10. QED
    BY <2>4, <2>7, <2>9 DEF OrderlyInv
<1>5. CASE q \in Cancellers /\ SaveCancel(q)
  <2>1. /\ rjob[q].status = "cancelled" /\ rbase[q].status \in {"pending", "running"}
        /\ Update(rjob[q], rbase[q]) /\ CloseRequest(q) /\ UNCHANGED <<runVars, crashes>>
    BY <1>5 DEF SaveCancel, BackedInv, RequestsBacked
  <2>2. row'.status = "cancelled"
    BY <1>2, <2>1, UpdateColumns
  <2>3. q # Start
    BY <1>5, ParameterAssumption
  <2>4. DispatchOrder'
    BY <2>1, <2>3 DEF CloseRequest, runVars, OrderlyInv, DispatchOrder, TypeOK
  <2>5. QED
    BY <1>1, <2>2, <2>4, OrderFrame DEF OrderlyInv
<1>6. CASE q \in Cancellers /\ ReadCancel(q)
  <2>1. /\ q # Start /\ UNCHANGED <<row, pc, crashes>>
        /\ rpc'[Start] = rpc[Start] /\ rjob'[Start] = rjob[Start]
    BY <1>6, ParameterAssumption DEF ReadCancel, rowVars, runVars, TypeOK
  <2>2. DispatchOrder'
    BY <2>1 DEF OrderlyInv, DispatchOrder
  <2>3. QED
    BY <1>1, <2>1, <2>2, OrderFrame DEF OrderlyInv
<1>7. CASE CrashRequest(q)
  <2>1. /\ UNCHANGED <<row, pc>> /\ crashes' > 0
        /\ rpc'[Start] \in {rpc[Start], "done"}
        /\ rpc'[Start] # "done" => rjob'[Start] = rjob[Start]
    BY <1>7 DEF CrashRequest, CloseRequest, rowVars, runVars, TypeOK
  <2>2. DispatchOrder'
    BY <2>1 DEF OrderlyInv, DispatchOrder
  <2>3. QED
    BY <1>1, <2>1, <2>2, OrderFrame DEF OrderlyInv
<1>8. QED
  BY <1>3, <1>4, <1>5, <1>6, <1>7 DEF RequestStep

\* What the run stores: its copy, or, over a cancel it has not seen, the
\* columns it changed.
LEMMA RunSaves ==
  ASSUME TypeOK, OrderlyInv, pc[Start] \in Busy, Update(job[Start], base[Start])
  PROVE  \/ /\ row'.status = job[Start].status
            /\ row'.config = job[Start].config
            /\ row'.stats = job[Start].stats
         \/ /\ row.status = "cancelled"
            /\ row'.status = IF job[Start].status = base[Start].status
                               THEN "cancelled" ELSE job[Start].status
            /\ row'.config = IF job[Start].config = base[Start].config
                               THEN row.config ELSE job[Start].config
            /\ row'.stats = IF job[Start].stats = base[Start].stats
                              THEN row.stats ELSE job[Start].stats
<1>1. row \in JobRow /\ job[Start] \in JobRow /\ base[Start] \in JobRow
  BY DEF TypeOK
<1>2. \/ row' = job[Start]
      \/ /\ row'.status = IF job[Start].status = base[Start].status
                            THEN row.status ELSE job[Start].status
         /\ row'.config = IF job[Start].config = base[Start].config
                            THEN row.config ELSE job[Start].config
         /\ row'.stats = IF job[Start].stats = base[Start].stats
                           THEN row.stats ELSE job[Start].stats
  BY <1>1, UpdateColumns
<1>3. row = base[Start] \/ row.status = "cancelled"
  BY DEF OrderlyInv, RunOrder
<1>4. QED
  BY <1>2, <1>3

\* Where the conjuncts say nothing.
LEMMA PlaceFacts ==
  /\ Before \cap (Busy \cup Scanning \cup Ended) = {} /\ Scanning \subseteq Busy
  /\ Busy \cap Ended = {} /\ {"starting", "expanded"} \subseteq Busy \ Scanning
  /\ {"completed", "failed", "cancelled"} \subseteq Ended
  /\ {"stopping", "raised", "cancelling", "failing"} \subseteq Busy \ Scanning
  /\ {"dead"} \cup {"completed", "failed", "cancelled"} = Ended
  BY DEF Before, Waiting, Busy, Scanning, AtTarget, Ended

\* While the run goes on, nobody has stored COMPLETED and the request is done.
LEMMA RunOrderly ==
  ASSUME OrderlyInv, pc[Start] \in Busy
  PROVE  /\ row.status \in {"pending", "running", "cancelled"}
         /\ rpc[Start] = "done"
<1>1. row.status \in {"pending", "running", "cancelled"}
  BY DEF OrderlyInv, RunOrder
<1>2. pc[Start] \notin Before \cup {"dead"}
  BY PlaceFacts
<1>3. QED
  BY <1>1, <1>2 DEF OrderlyInv, DispatchOrder

\* A run that ends closes the matter.
LEMMA EndOrderly ==
  ASSUME OrderlyInv, pc[Start] \in Busy, UNCHANGED <<rpc, rjob>>,
         NEW how \in Ended, pc'[Start] = how,
         row'.status = "completed" => how = "completed" /\ row'.stats.done = Cardinality(inventory'),
         how # "dead" => row'.status \in Terminal
  PROVE  OrderlyInv'
<1>1. rpc'[Start] = "done" /\ how \notin Before
  BY RunOrderly, PlaceFacts
<1>2. DispatchOrder'
  BY <1>1 DEF DispatchOrder, Before
<1>3. BeforeOrder' /\ RunOrder' /\ ScanOrder'
  BY <1>1, PlaceFacts DEF BeforeOrder, RunOrder, ScanOrder
<1>4. EndOrder'
  BY DEF EndOrder
<1>5. QED
  BY <1>2, <1>3, <1>4 DEF OrderlyInv

\* A step inside the run.
LEMMA BusyOrderly ==
  ASSUME OrderlyInv, pc[Start] \in Busy, UNCHANGED <<rpc, rjob>>, pc'[Start] \in Busy,
         pc'[Start] \in {"starting", "expanded"} => inventory' = {},
         row'.status # "completed", RunOrder', ScanOrder'
  PROVE  OrderlyInv'
<1>1. rpc'[Start] = "done" /\ pc'[Start] \notin Before
  BY RunOrderly, PlaceFacts
<1>2. DispatchOrder'
  BY <1>1 DEF DispatchOrder, Before
<1>3. BeforeOrder'
  BY <1>1, PlaceFacts DEF BeforeOrder
<1>4. EndOrder'
  BY PlaceFacts DEF EndOrder
<1>5. QED
  BY <1>2, <1>3, <1>4 DEF OrderlyInv

\* The run begins, and stores that it started.
LEMMA BeginOrderly ==
  ASSUME EarlyPickup = FALSE, TypeOK, OrderlyInv, Begin(Start)
  PROVE  OrderlyInv'
<1>1. /\ pc[Start] \in Waiting /\ rpc[Start] = "done" /\ base'[Start] = row
      /\ UNCHANGED <<row, inventory, rpc, rjob>> /\ row \in JobRow
  BY DEF Begin, rowVars, reqVars, TypeOK
<1>2. pc[Start] \in Before /\ pc[Start] # "none"
  BY <1>1 DEF Before, Waiting
<1>3. /\ row.status \in {"pending", "cancelled"}
      /\ IsCancelled(row) => row.status = "cancelled"
      /\ inventory = {}
  BY <1>2 DEF OrderlyInv, BeforeOrder
<1>4. \/ /\ pc'[Start] = "cancelling" /\ job'[Start].status = "cancelled"
      \/ /\ pc'[Start] = "starting" /\ job'[Start].status = "running"
         /\ ~job'[Start].config.cancelled
  <2>1. CASE IsCancelled(row)
    <3>1. job'[Start] = [row EXCEPT !.finished = TRUE] /\ pc'[Start] = "cancelling"
      BY <2>1 DEF Begin, TypeOK
    <3>2. job'[Start].status = row.status
      BY <1>1, <3>1, CopyStatus
    <3>3. QED
      BY <1>3, <2>1, <3>1, <3>2
  <2>2. CASE ~IsCancelled(row)
    <3>1. /\ job'[Start] = [row EXCEPT !.status = "running", !.stats = NoStats]
          /\ pc'[Start] = "starting"
      BY <2>2 DEF Begin, TypeOK
    <3>2. job'[Start].status = "running" /\ job'[Start].config = row.config
      BY <1>1, <3>1 DEF JobRow
    <3>3. QED
      BY <2>2, <3>1, <3>2 DEF IsCancelled
  <2>3. QED
    BY <2>1, <2>2
<1>5. pc'[Start] \in Busy \ (Scanning \cup Before \cup Ended)
  BY <1>4, PlaceFacts
<1>6. DispatchOrder'
  BY <1>1, <1>4 DEF DispatchOrder
<1>7. BeforeOrder' /\ ScanOrder'
  BY <1>1, <1>3, <1>5 DEF BeforeOrder, ScanOrder
<1>8. EndOrder'
  BY <1>1, <1>3, <1>4 DEF EndOrder
<1>9. RunOrder'
  <2>1. row'.status \in {"pending", "cancelled"} /\ row' = base'[Start]
    BY <1>1, <1>3
  <2>2. pc'[Start] = "starting" => ~IsCancelled(job[Start])' /\ job'[Start].status = "running"
    BY <1>4 DEF IsCancelled
  <2>3. QED
    BY <1>4, <2>1, <2>2 DEF RunOrder
<1>10. QED
  BY <1>6, <1>7, <1>8, <1>9 DEF OrderlyInv

LEMMA StartOrderly ==
  ASSUME TypeOK, TypeOK', BackedInv', OrderlyInv, SaveStarted(Start) \/ SaveTargets(Start)
  PROVE  OrderlyInv'
<1>1. /\ pc[Start] \in {"starting", "expanded"} /\ UNCHANGED <<inventory, job, rpc, rjob>>
      /\ pc'[Start] \in {"expanded", "checking"} /\ Update(job[Start], base[Start])
      /\ base'[Start] = row'
  BY DEF SaveStarted, SaveTargets, TypeOK, reqVars
<1>2. pc[Start] \in Busy /\ inventory = {} /\ pc'[Start] \in Busy
  BY <1>1 DEF Busy, OrderlyInv, BeforeOrder
<1>3. ~IsCancelled(job[Start]) /\ job[Start].status = "running"
  BY <1>1, <1>2 DEF OrderlyInv, RunOrder
<1>4. row'.status \in {"running", "cancelled"}
  BY <1>2, <1>1, <1>3, RunSaves
<1>5. Cardinality(inventory') = 0
  BY <1>1, <1>2, FS_EmptySet
<1>6. row'.stats.done = 0 /\ job'[Start].stats.done = 0
  <2>1. row'.stats.done <= 0 /\ job'[Start].stats.done <= 0 + 0
    BY <1>1, <1>5 DEF BackedInv, StatsOK, RunBacked
  <2>2. row'.stats.done \in Nat /\ job'[Start].stats.done \in Nat
    BY DEF TypeOK, JobRow, Stats
  <2>3. QED
    BY <2>1, <2>2
<1>7. RunOrder'
  BY <1>1, <1>3, <1>4 DEF RunOrder, IsCancelled
<1>8. ScanOrder'
  BY <1>1, <1>3, <1>4, <1>5, <1>6 DEF ScanOrder, IsCancelled, Scanning, AtTarget
<1>9. QED
  BY <1>1, <1>2, <1>4, <1>7, <1>8, BusyOrderly

\* The commit of a target's turn: the counters it stores are those of the
\* inventory it stores, and a cancel it has not seen survives it.
LEMMA TurnOrderly ==
  ASSUME TypeOK, BackedInv, OrderlyInv, SaveTarget(Start)
  PROVE  OrderlyInv'
<1> DEFINE p == pc[Start]
           j == job[Start]
<1>1. /\ p \in {"progress", "saving", "recovering"} /\ UNCHANGED <<job, rpc, rjob>>
      /\ inventory' = IF p = "saving" THEN inventory \cup {idx[Start]} ELSE inventory
      /\ pc'[Start] = "checking" /\ Update(j, base[Start]) /\ base'[Start] = row'
  BY DEF SaveTarget, TypeOK, reqVars
<1>2. p \in Busy /\ p \in Scanning
  BY <1>1 DEF Busy, Scanning, AtTarget
<1>3. Cardinality(inventory') = Cardinality(inventory) + (IF p = "saving" THEN 1 ELSE 0)
  <2>1. idx[Start] \in 1..NumTargets /\ idx[Start] \notin inventory
    BY <1>1 DEF BackedInv, RunBacked, AtTarget, Ended, TypeOK
  <2>2. Cardinality(inventory) \in Nat
    BY InventoryCounts
  <2>3. QED
    BY <1>1, <2>1, <2>2, InventoryCounts
<1>4. /\ row.status \in {"running", "cancelled"}
      /\ IsCancelled(j) \/ j.stats.done = Cardinality(inventory')
      /\ IsCancelled(j) => p = "recovering" /\ IsCancelled(row)
      /\ j.status \in {"running", "cancelled"}
      /\ p # "recovering" => base[Start].status = "running"
      /\ p = "recovering" => j.status = base[Start].status /\ j.config = base[Start].config
  BY <1>1, <1>2, <1>3 DEF OrderlyInv, ScanOrder
<1>5. \/ row'.status = j.status /\ row'.config = j.config /\ row'.stats = j.stats
      \/ row.status = "cancelled" /\ row'.status = "cancelled"
  <2>1. \/ row'.status = j.status /\ row'.config = j.config /\ row'.stats = j.stats
        \/ /\ row.status = "cancelled"
           /\ j.status = base[Start].status => row'.status = "cancelled"
    BY <1>1, <1>2, RunSaves
  <2>2. CASE j.status = base[Start].status
    BY <2>1, <2>2
  <2>3. CASE j.status # base[Start].status
    <3>1. j.status = "cancelled" /\ p # "recovering"
      BY <1>4, <2>3
    <3>2. QED
      BY <1>4, <3>1 DEF IsCancelled
  <2>4. QED
    BY <2>2, <2>3
<1>6. row'.status \in {"running", "cancelled"}
  BY <1>4, <1>5
<1>7. /\ IsCancelled(row)' \/ row'.stats.done = Cardinality(inventory')
      /\ IsCancelled(j) => IsCancelled(row)'
  BY <1>4, <1>5 DEF IsCancelled
<1>8. RunOrder'
  BY <1>1, <1>6 DEF RunOrder
<1>9. ScanOrder'
  <2>1. job'[Start] = j /\ (IsCancelled(job[Start])' <=> IsCancelled(j))
    BY <1>1 DEF IsCancelled
  <2>2. Cardinality(inventory') \in Nat
    BY <1>3, InventoryCounts
  <2>3. IsCancelled(j) \/ job'[Start].stats.done = Cardinality(inventory') + 0
    BY <1>4, <2>1, <2>2
  <2>4. QED
    BY <1>1, <1>4, <1>6, <1>7, <2>1, <2>3 DEF ScanOrder
<1>10. QED
  BY <1>1, <1>2, <1>6, <1>8, <1>9, BusyOrderly DEF Busy

\* The checks between the targets, a target's failure and the handlers.
LEMMA ChecksOrderly ==
  ASSUME TypeOK, BackedInv, OrderlyInv,
         CheckCancelled(Start) \/ CheckTarget(Start) \/ CheckDone(Start)
           \/ TargetFails(Start) \/ HandleException(Start)
  PROVE  OrderlyInv'
<1> DEFINE p == pc[Start]
           j == job[Start]
<1>1. /\ p \in Busy /\ UNCHANGED <<row, inventory, rpc, rjob>> /\ base'[Start] = row
      /\ pc'[Start] \in Busy \ {"starting", "expanded"}
      /\ row \in JobRow /\ j \in JobRow
  BY DEF CheckCancelled, CheckTarget, CheckDone, TargetFails, HandleException, TypeOK, Busy,
         rowVars, reqVars
<1>2. row.status \in {"pending", "running", "cancelled"}
  BY <1>1, RunOrderly
<1>3. /\ j.stats.done \in Nat /\ row.stats.done \in Nat
      /\ \A i : [j EXCEPT !.stats.scanned = i].stats.done = j.stats.done
      /\ \A i : [j EXCEPT !.stats.scanned = i].status = j.status
      /\ \A i : [j EXCEPT !.stats.scanned = i].config = j.config
  BY <1>1 DEF JobRow, Stats
<1>4. p \in Scanning =>
        /\ row.status \in {"running", "cancelled"}
        /\ IsCancelled(row) \/ row.stats.done = Cardinality(inventory)
        /\ IsCancelled(j) \/ j.stats.done = Cardinality(inventory) + (IF p = "saving" THEN 1 ELSE 0)
        /\ IsCancelled(j) => IsCancelled(row)
        /\ p # "completing" => j.status \in {"running", "cancelled"}
  BY DEF OrderlyInv, ScanOrder
<1>5. CASE CheckCancelled(Start) \/ HandleException(Start)
  <2>1. /\ pc'[Start] \in {"stopping", "cancelling"} => job'[Start].status = "cancelled"
        /\ pc'[Start] = "failing" => job'[Start].status = "failed"
        /\ pc'[Start] \in {"stopping", "cancelling", "failing"}
    <3>1. \/ job'[Start] = CancelledCopy(j) /\ pc'[Start] \in {"stopping", "cancelling"}
          \/ /\ job'[Start] = [j EXCEPT !.status = "failed", !.finished = TRUE]
             /\ pc'[Start] = "failing"
      BY <1>5 DEF CheckCancelled, HandleException, TypeOK
    <3>2. /\ CancelledCopy(j).status = "cancelled"
          /\ [j EXCEPT !.status = "failed", !.finished = TRUE].status = "failed"
      BY <1>1, CopyStatus
    <3>3. QED
      BY <3>1, <3>2
  <2>2. RunOrder'
    BY <1>1, <1>2, <2>1 DEF RunOrder
  <2>3. ScanOrder'
    BY <2>1, PlaceFacts DEF ScanOrder
  <2>4. QED
    BY <1>1, <1>2, <2>2, <2>3, BusyOrderly
<1>6. CASE CheckTarget(Start)
  <2>1. /\ p = "checking" /\ ~IsCancelled(row) /\ pc'[Start] = "collecting"
        /\ job'[Start] = [j EXCEPT !.stats.scanned = idx[Start]]
    BY <1>6 DEF CheckTarget, TypeOK
  <2>2. p \in Scanning
    BY <2>1 DEF Scanning
  <2>3. /\ job'[Start].stats.done = j.stats.done /\ job'[Start].status = j.status
        /\ job'[Start].config = j.config
    BY <1>3, <2>1
  <2>4. ~IsCancelled(job[Start])' /\ row.status = "running"
    BY <1>4, <2>1, <2>2, <2>3 DEF IsCancelled
  <2>5. ScanOrder'
    BY <1>1, <1>4, <2>1, <2>2, <2>3, <2>4 DEF ScanOrder
  <2>6. RunOrder'
    BY <1>1, <1>2, <2>1 DEF RunOrder
  <2>7. QED
    BY <1>1, <1>2, <2>5, <2>6, BusyOrderly
<1>7. CASE CheckDone(Start)
  <2>1. /\ p = "checking" /\ ~IsCancelled(row) /\ pc'[Start] = "completing"
        /\ job'[Start] = [j EXCEPT !.status = "completed", !.finished = TRUE, !.stats.snap = Start]
    BY <1>7 DEF CheckDone, TypeOK
  <2>2. p \in Scanning
    BY <2>1 DEF Scanning
  <2>3. /\ job'[Start].stats.done = j.stats.done /\ job'[Start].status = "completed"
        /\ job'[Start].config = j.config
    BY <1>1, <2>1 DEF JobRow, Stats
  <2>4. ~IsCancelled(job[Start])' /\ row.status = "running"
    BY <1>4, <2>1, <2>2, <2>3 DEF IsCancelled
  <2>5. ScanOrder'
    BY <1>1, <1>4, <2>1, <2>2, <2>3, <2>4 DEF ScanOrder
  <2>6. RunOrder'
    BY <1>1, <1>2, <2>1 DEF RunOrder
  <2>7. QED
    BY <1>1, <1>2, <2>5, <2>6, BusyOrderly
<1>8. CASE TargetFails(Start)
  <2>1. /\ p \in {"collecting", "progress", "saving"} /\ pc'[Start] = "recovering"
        /\ job'[Start] = [row EXCEPT !.stats.errors = @ + 1]
    BY <1>8 DEF TargetFails, TypeOK
  <2>2. p \in Scanning
    BY <2>1 DEF Scanning, AtTarget
  <2>3. /\ job'[Start].stats.done = row.stats.done /\ job'[Start].status = row.status
        /\ job'[Start].config = row.config
    BY <1>1, <2>1 DEF JobRow, Stats
  <2>4. IsCancelled(job[Start])' <=> IsCancelled(row)
    BY <2>3 DEF IsCancelled
  <2>5. ScanOrder'
    <3>1. IsCancelled(row)' <=> IsCancelled(row)
      BY <1>1
    <3>2. Cardinality(inventory) \in Nat
      BY InventoryCounts
    <3>3. QED
      BY <1>1, <1>4, <2>1, <2>2, <2>3, <2>4, <3>1, <3>2 DEF ScanOrder
  <2>6. RunOrder'
    BY <1>1, <1>2, <2>1 DEF RunOrder
  <2>7. QED
    BY <1>1, <1>2, <2>5, <2>6, BusyOrderly
<1>9. QED
  BY <1>5, <1>6, <1>7, <1>8

\* The steps in between.
LEMMA TurnsOrderly ==
  ASSUME TypeOK, BackedInv, OrderlyInv,
         Unreachable(Start) \/ Collect(Start) \/ ErrorNotSaved(Start) \/ Raise(Start)
  PROVE  OrderlyInv'
<1> DEFINE p == pc[Start]
           j == job[Start]
<1>1. /\ p \in Busy /\ UNCHANGED <<row, inventory, base, rpc, rjob>>
      /\ pc'[Start] \in {"progress", "checking", "saving", "raised"}
      /\ row \in JobRow /\ j \in JobRow
  BY DEF Unreachable, Collect, ErrorNotSaved, Raise, TypeOK, Busy, rowVars, reqVars
<1>2. row.status \in {"pending", "running", "cancelled"} /\ pc'[Start] \in Busy
  BY <1>1, RunOrderly DEF Busy
<1>3. RunOrder'
  BY <1>1 DEF OrderlyInv, RunOrder
<1>4. p \in Scanning =>
        /\ row.status \in {"running", "cancelled"}
        /\ IsCancelled(row) \/ row.stats.done = Cardinality(inventory)
        /\ IsCancelled(j) \/ j.stats.done = Cardinality(inventory) + (IF p = "saving" THEN 1 ELSE 0)
        /\ IsCancelled(j) => p \in {"checking", "recovering"} /\ IsCancelled(row)
        /\ p # "completing" => j.status \in {"running", "cancelled"}
        /\ p \in {"collecting", "progress", "saving", "completing"} => base[Start].status = "running"
  BY DEF OrderlyInv, ScanOrder
<1>5. IsCancelled(row)' <=> IsCancelled(row)
  BY <1>1
<1>6. Cardinality(inventory) \in Nat /\ j.stats.done \in Nat
  BY <1>1, InventoryCounts DEF JobRow, Stats
<1>7. ScanOrder'
  <2>1. CASE Unreachable(Start) \/ ErrorNotSaved(Start)
    <3>1. /\ job'[Start] = j /\ p \in {"collecting", "recovering"}
          /\ \/ p = "collecting" /\ pc'[Start] \in {"progress", "checking"}
             \/ p = "recovering" /\ pc'[Start] = "checking"
      BY <2>1 DEF Unreachable, ErrorNotSaved, TypeOK
    <3>2. p \in Scanning
      BY <3>1 DEF Scanning, AtTarget
    <3>3. IsCancelled(job[Start])' <=> IsCancelled(j)
      BY <3>1 DEF IsCancelled
    <3>4. QED
      BY <1>1, <1>4, <1>5, <1>6, <3>1, <3>2, <3>3 DEF ScanOrder
  <2>2. CASE Collect(Start)
    <3>1. /\ job'[Start] = [j EXCEPT !.stats.done = @ + 1] /\ p = "collecting"
          /\ pc'[Start] = "saving"
      BY <2>2 DEF Collect, TypeOK
    <3>2. p \in Scanning
      BY <3>1 DEF Scanning, AtTarget
    <3>3. /\ job'[Start].stats.done = j.stats.done + 1 /\ job'[Start].status = j.status
          /\ job'[Start].config = j.config
      BY <1>1, <3>1 DEF JobRow, Stats
    <3>4. IsCancelled(job[Start])' <=> IsCancelled(j)
      BY <3>3 DEF IsCancelled
    <3>5. QED
      BY <1>1, <1>4, <1>5, <1>6, <3>1, <3>2, <3>3, <3>4 DEF ScanOrder
  <2>3. CASE Raise(Start)
    <3>1. pc'[Start] = "raised"
      BY <2>3 DEF Raise, TypeOK
    <3>2. QED
      BY <3>1, PlaceFacts DEF ScanOrder
  <2>4. QED
    BY <2>1, <2>2, <2>3
<1>8. QED
  BY <1>1, <1>2, <1>3, <1>7, BusyOrderly

\* The last commit: COMPLETED overwrites a cancel it has not seen, and its
\* counters with it.
LEMMA FinishOrderly ==
  ASSUME TypeOK, BackedInv, OrderlyInv, Finish(Start)
  PROVE  OrderlyInv'
<1> DEFINE p == pc[Start]
           j == job[Start]
<1>1. /\ p \in {"stopping", "cancelling", "completing", "failing"} /\ p \in Busy
      /\ UNCHANGED <<inventory, rpc, rjob>> /\ Update(j, base[Start])
  BY DEF Finish, Busy, reqVars
<1>2. PICK how \in {"completed", "failed", "cancelled"} :
        pc'[Start] = how /\ (p = "completing" => how = "completed")
  BY DEF Finish, CloseRun, TypeOK
<1>3. CASE p = "completing"
  <2>1. /\ j.status = "completed" /\ base[Start].status = "running"
        /\ j.stats.done = Cardinality(inventory)
    <3>1. p \in Scanning
      BY <1>3 DEF Scanning
    <3>2. /\ ~IsCancelled(j) /\ j.status = "completed" /\ base[Start].status = "running"
          /\ IsCancelled(j) \/ j.stats.done = Cardinality(inventory) + 0
      BY <1>3, <3>1 DEF OrderlyInv, ScanOrder
    <3>3. QED
      BY <3>2, InventoryCounts
  <2>2. j.stats # base[Start].stats
    BY <1>3, ParameterAssumption DEF BackedInv, RunBacked
  <2>3. row'.status = "completed" /\ row'.stats = j.stats
    BY <1>1, <2>1, <2>2, RunSaves
  <2>4. QED
    BY <1>1, <1>2, <1>3, <2>1, <2>3, EndOrderly, PlaceFacts DEF Terminal
<1>4. CASE p # "completing"
  <2>1. j.status \in {"cancelled", "failed"}
    BY <1>1, <1>4 DEF OrderlyInv, RunOrder
  <2>2. row'.status \in {"cancelled", "failed"}
    BY <1>1, <2>1, RunSaves
  <2>3. QED
    BY <1>1, <1>2, <2>2, EndOrderly, PlaceFacts DEF Terminal
<1>5. QED
  BY <1>3, <1>4

LEMMA OrderlyInvHolds == Retriers = {} /\ EarlyPickup = FALSE => (Spec => []OrderlyInv)
<1> SUFFICES ASSUME Retriers = {}, EarlyPickup = FALSE PROVE Spec => []OrderlyInv
  OBVIOUS
<1>1. Init => OrderlyInv
  <2> SUFFICES ASSUME Init PROVE OrderlyInv
    OBVIOUS
  <2>1. /\ row = NewJob /\ inventory = {} /\ pc[Start] = "none"
        /\ rpc[Start] = "enqueue" /\ rjob[Start] = NewJob
    BY DEF Init
  <2>2. NewJob.status = "pending" /\ ~NewJob.config.cancelled
    BY DEF NewJob
  <2>3. pc[Start] \notin Busy \cup Scanning \cup {"completed", "failed", "cancelled"}
    BY <2>1 DEF Busy, Scanning, AtTarget
  <2>4. QED
    BY <2>1, <2>2, <2>3 DEF OrderlyInv, DispatchOrder, Before, BeforeOrder, RunOrder, ScanOrder,
                            EndOrder, IsCancelled
<1>2. TypeOK /\ TypeOK' /\ SnapshotInv /\ BackedInv /\ BackedInv' /\ OrderlyInv /\ [Next]_vars
        => OrderlyInv'
  <2> SUFFICES ASSUME TypeOK, TypeOK', SnapshotInv, BackedInv, BackedInv', OrderlyInv, [Next]_vars
               PROVE  OrderlyInv'
    OBVIOUS
  <2>1. ASSUME pc[Start] \in Busy, CloseRun(Start, "dead"), UNCHANGED <<rowVars, reqVars>>
        PROVE  OrderlyInv'
    <3>1. /\ pc'[Start] = "dead" /\ "dead" \in Ended /\ UNCHANGED <<row, inventory, rpc, rjob>>
          /\ row.status # "completed"
      BY <2>1, RunOrderly DEF CloseRun, TypeOK, rowVars, reqVars, Ended
    <3>2. QED
      BY <2>1, <3>1, EndOrderly
  <2>2. ASSUME pc[Start] \in Before \ {"none"}, CloseRun(Start, "dead"), UNCHANGED <<rowVars, reqVars>>
        PROVE  OrderlyInv'
    <3>1. /\ pc'[Start] = "dead" /\ UNCHANGED <<row, inventory, rpc, rjob>>
          /\ row.status # "completed"
      BY <2>2 DEF CloseRun, TypeOK, rowVars, reqVars, OrderlyInv, BeforeOrder
    <3>2. DispatchOrder'
      BY <2>2, <3>1 DEF OrderlyInv, DispatchOrder
    <3>3. BeforeOrder' /\ RunOrder' /\ ScanOrder' /\ EndOrder'
      BY <3>1 DEF BeforeOrder, RunOrder, ScanOrder, EndOrder, Before, Waiting, Busy, Scanning, AtTarget
    <3>4. QED
      BY <3>2, <3>3 DEF OrderlyInv
  <2>3. CASE Terminate \/ CrashRun(Start)
    <3>1. /\ CloseRun(Start, "dead") /\ UNCHANGED <<rowVars, reqVars>>
          /\ pc[Start] \in Busy \cup (Before \ {"none"})
      BY <2>3 DEF Terminate, CrashRun, Before, Waiting
    <3>2. QED
      BY <2>1, <2>2, <3>1
  <2>4. CASE RunStep(Start)
    <3>1. GiveUp(Start) => OrderlyInv'
      BY <2>1 DEF GiveUp, Busy
    <3>2. QED
      BY <2>4, <3>1, BeginOrderly, StartOrderly, TurnOrderly, ChecksOrderly, TurnsOrderly,
         FinishOrderly DEF RunStep
  <2>5. CASE UNCHANGED vars
    <3>1. UNCHANGED <<row, inventory, pc, job, base, rpc, rjob, crashes>>
      BY <2>5 DEF vars
    <3>2. QED
      BY <3>1 DEF OrderlyInv, DispatchOrder, BeforeOrder, RunOrder, ScanOrder, EndOrder
  <2>6. QED
    BY <2>3, <2>4, <2>5, RequestStepOrderly DEF Next
<1>3. QED
  BY <1>1, <1>2, TypeCorrect, SnapshotInvHolds, BackedInvHolds, PTL DEF Spec

\* Whatever cancels, failed targets and stale copies of the row come in
\* between, a job that is dispatched once, and not picked up before start_job
\* has returned, reports exactly what is committed when it reads COMPLETED
\* (ReportIsExact).
THEOREM ReportsAreExact ==
  Retriers = {} /\ EarlyPickup = FALSE => (Spec => []ReportIsExact)
<1> SUFFICES ASSUME Retriers = {}, EarlyPickup = FALSE PROVE Spec => []ReportIsExact
  OBVIOUS
<1>1. ReportIsBacked /\ OrderlyInv => ReportIsExact
  BY DEF ReportIsBacked, OrderlyInv, EndOrder, ReportIsExact
<1>2. QED
  BY <1>1, ReportsAreBacked, OrderlyInvHolds, PTL

\* When nobody works on such a job any more and nobody was killed, it reads as
\* finished, however the start, the run and the cancels interleaved
\* (QuiescentIsTerminal).
THEOREM QuietJobsAreTerminal ==
  Retriers = {} /\ EarlyPickup = FALSE => (Spec => []QuiescentIsTerminal)
<1> SUFFICES ASSUME Retriers = {}, EarlyPickup = FALSE PROVE Spec => []QuiescentIsTerminal
  OBVIOUS
<1>1. TypeOK /\ OrderlyInv => QuiescentIsTerminal
  <2> SUFFICES ASSUME TypeOK, OrderlyInv, CleanlyQuiescent PROVE row.status \in Terminal
    BY DEF QuiescentIsTerminal
  <2>1. rpc[Start] = "done" /\ crashes = 0
    BY DEF CleanlyQuiescent, OrderlyInv, DispatchOrder
  <2>2. pc[Start] \in {"completed", "failed", "cancelled"}
    BY <2>1 DEF CleanlyQuiescent, OrderlyInv, DispatchOrder
  <2>3. QED
    BY <2>2 DEF OrderlyInv, EndOrder
<1>2. QED
  BY <1>1, TypeCorrect, OrderlyInvHolds, PTL
-----------------------------------------------------------------------------
(* How far a run has to go: at most four steps for each target that is left, *)
(* and what begins and ends the run.                                         *)
StepsAt(p, i) ==
  LET from(n) == 4 * (NumTargets + 1 - n)
  IN  CASE p \in Waiting -> 4 * NumTargets + 7
        [] p = "starting" -> 4 * NumTargets + 6
        [] p = "expanded" -> 4 * NumTargets + 5
        [] p = "checking" -> from(i) + 4
        [] p = "collecting" -> from(i) + 3
        [] p \in {"progress", "saving"} -> from(i) + 2
        [] p = "recovering" -> from(i) + 1
        [] p \in {"stopping", "completing"} -> 3
        [] p = "raised" -> 2
        [] p \in {"cancelling", "failing"} -> 1
        [] OTHER -> 0
StepsLeft(d) == StepsAt(pc[d], idx[d])

LEMMA StepsTable ==
  ASSUME NEW i
  PROVE  /\ \A p \in Waiting : StepsAt(p, i) = 4 * NumTargets + 7
         /\ StepsAt("starting", i) = 4 * NumTargets + 6
         /\ StepsAt("expanded", i) = 4 * NumTargets + 5
         /\ StepsAt("checking", i) = 4 * (NumTargets + 1 - i) + 4
         /\ StepsAt("collecting", i) = 4 * (NumTargets + 1 - i) + 3
         /\ \A p \in {"progress", "saving"} : StepsAt(p, i) = 4 * (NumTargets + 1 - i) + 2
         /\ StepsAt("recovering", i) = 4 * (NumTargets + 1 - i) + 1
         /\ \A p \in {"stopping", "completing"} : StepsAt(p, i) = 3
         /\ StepsAt("raised", i) = 2
         /\ \A p \in {"cancelling", "failing"} : StepsAt(p, i) = 1
         /\ \A p \in {"none"} \cup Ended : StepsAt(p, i) = 0
<1>1. \A p \in Waiting : StepsAt(p, i) = 4 * NumTargets + 7 BY DEF StepsAt, Waiting
<1>2. /\ StepsAt("starting", i) = 4 * NumTargets + 6
      /\ StepsAt("expanded", i) = 4 * NumTargets + 5
  BY DEF StepsAt, Waiting
<1>3. /\ StepsAt("checking", i) = 4 * (NumTargets + 1 - i) + 4
      /\ StepsAt("collecting", i) = 4 * (NumTargets + 1 - i) + 3
  BY DEF StepsAt, Waiting
<1>4. /\ \A p \in {"progress", "saving"} : StepsAt(p, i) = 4 * (NumTargets + 1 - i) + 2
      /\ StepsAt("recovering", i) = 4 * (NumTargets + 1 - i) + 1
  BY DEF StepsAt, Waiting
<1>5. /\ \A p \in {"stopping", "completing"} : StepsAt(p, i) = 3
      /\ StepsAt("raised", i) = 2
      /\ \A p \in {"cancelling", "failing"} : StepsAt(p, i) = 1
  BY DEF StepsAt, Waiting
<1>6. \A p \in {"none"} \cup Ended : StepsAt(p, i) = 0 BY DEF StepsAt, Waiting, Ended
<1> QED BY <1>1, <1>2, <1>3, <1>4, <1>5, <1>6

LEMMA StepsAreInt == ASSUME NEW p, NEW i \in Int PROVE StepsAt(p, i) \in Int
BY ParameterAssumption DEF StepsAt

(* Each run is at one of the targets or behind the last. *)
InBounds(p, i) ==
  /\ i \in 1..(NumTargets + 1)
  /\ p \in AtTarget => i <= NumTargets
  /\ p \in {"none", "starting", "expanded"} \cup Waiting => i = 1

IndexInBounds == \A d \in Dispatches : InBounds(pc[d], idx[d])

LEMMA BoundsStay ==
  ASSUME TypeOK, IndexInBounds, NEW d \in Dispatches,
         pc'[d] = pc[d] \/ (pc[d] = "none" /\ pc'[d] \in Waiting), idx'[d] = idx[d]
  PROVE  InBounds(pc'[d], idx'[d])
<1>1. Waiting \cap AtTarget = {} BY DEF Waiting, AtTarget
<1> QED BY <1>1 DEF IndexInBounds, InBounds

(* What a step of a run does to its place. *)
LEMMA RunAdvances ==
  ASSUME TypeOK, IndexInBounds, NEW d \in Dispatches, RunStep(d)
  PROVE  /\ InBounds(pc'[d], idx'[d])
         /\ pc'[d] # "none"
         /\ StepsAt(pc'[d], idx'[d]) < StepsAt(pc[d], idx[d])
         /\ \A e \in Dispatches \ {d} : pc'[e] = pc[e] /\ idx'[e] = idx[e]
<1> DEFINE i == idx[d]
<1>1. i \in 1..(NumTargets + 1) /\ NumTargets \in Nat BY ParameterAssumption DEF IndexInBounds, InBounds
<1>2. CASE Begin(d) \/ SaveStarted(d) \/ SaveTargets(d)
  <2>1. /\ \/ pc[d] \in Waiting /\ pc'[d] = "cancelling"
           \/ pc[d] \in Waiting /\ pc'[d] = "starting"
           \/ pc[d] = "starting" /\ pc'[d] = "expanded"
           \/ pc[d] = "expanded" /\ pc'[d] = "checking"
        /\ idx' = idx
        /\ \A e \in Dispatches \ {d} : pc'[e] = pc[e]
    BY <1>2 DEF Begin, SaveStarted, SaveTargets, TypeOK
  <2>2. i = 1 BY <2>1 DEF IndexInBounds, InBounds
  <2>3. StepsAt(pc'[d], i) < StepsAt(pc[d], i) BY <1>1, <2>1, <2>2, StepsTable
  <2> QED BY <1>1, <2>1, <2>2, <2>3 DEF InBounds, AtTarget, Waiting
<1>3. CASE \/ CheckCancelled(d) \/ CheckTarget(d) \/ CheckDone(d) \/ Collect(d) \/ TargetFails(d)
           \/ Raise(d) \/ HandleException(d)
  <2>1. /\ \/ pc[d] = "checking" /\ pc'[d] = "stopping"
           \/ pc[d] = "checking" /\ pc'[d] = "collecting" /\ i <= NumTargets
           \/ pc[d] = "checking" /\ pc'[d] = "completing"
           \/ pc[d] = "collecting" /\ pc'[d] = "saving"
           \/ pc[d] \in {"collecting", "progress", "saving"} /\ pc'[d] = "recovering"
           \/ pc[d] \in {"expanded", "checking", "stopping", "completing"} /\ pc'[d] = "raised"
           \/ pc[d] = "raised" /\ pc'[d] \in {"cancelling", "failing"}
        /\ idx' = idx
        /\ \A e \in Dispatches \ {d} : pc'[e] = pc[e]
    BY <1>3 DEF CheckCancelled, CheckTarget, CheckDone, Collect, TargetFails, Raise, HandleException, TypeOK
  <2>2. pc[d] \in AtTarget => i <= NumTargets BY DEF IndexInBounds, InBounds
  <2>3. StepsAt(pc'[d], i) < StepsAt(pc[d], i) BY <1>1, <2>1, StepsTable
  <2> QED BY <1>1, <2>1, <2>2, <2>3 DEF InBounds, AtTarget, Waiting
<1>4. CASE Unreachable(d) \/ SaveTarget(d) \/ ErrorNotSaved(d)
  <2>1. /\ \/ pc[d] = "collecting" /\ pc'[d] = "progress" /\ idx'[d] = i
           \/ pc[d] \in AtTarget /\ pc'[d] = "checking" /\ idx'[d] = i + 1
        /\ \A e \in Dispatches \ {d} : pc'[e] = pc[e] /\ idx'[e] = idx[e]
    BY <1>4 DEF Unreachable, SaveTarget, ErrorNotSaved, AtTarget, TypeOK
  <2>2. i <= NumTargets BY <2>1 DEF IndexInBounds, InBounds, AtTarget
  <2>3. StepsAt(pc'[d], idx'[d]) < StepsAt(pc[d], i) BY <1>1, <2>1, StepsTable DEF AtTarget
  <2> QED BY <1>1, <2>1, <2>2, <2>3 DEF InBounds, AtTarget, Waiting
<1>5. CASE GiveUp(d) \/ Finish(d)
  <2>1. /\ pc[d] \in {"starting", "raised", "stopping", "completing", "cancelling", "failing"}
        /\ pc'[d] \in Ended /\ idx'[d] = 1
        /\ \A e \in Dispatches \ {d} : pc'[e] = pc[e] /\ idx'[e] = idx[e]
    BY <1>5 DEF GiveUp, Finish, CloseRun, Ended, TypeOK
  <2>2. StepsAt(pc'[d], idx'[d]) = 0 BY <2>1, StepsTable
  <2>3. StepsAt(pc[d], i) \in {1, 2, 3, 4 * NumTargets + 6} BY <2>1, StepsTable
  <2>4. StepsAt(pc'[d], idx'[d]) < StepsAt(pc[d], i) BY <1>1, <2>2, <2>3
  <2> QED BY <1>1, <2>1, <2>4 DEF InBounds, AtTarget, Waiting, Ended
<1> QED BY <1>2, <1>3, <1>4, <1>5 DEF RunStep

LEMMA StepsAreFew ==
  ASSUME TypeOK, IndexInBounds, NEW d \in Dispatches
  PROVE  StepsLeft(d) \in 0..(4 * NumTargets + 7)
<1>1. /\ pc[d] \in RunPc /\ idx[d] \in 1..(NumTargets + 1) /\ NumTargets \in Nat
      /\ pc[d] \in AtTarget => idx[d] <= NumTargets
  BY ParameterAssumption DEF TypeOK, IndexInBounds, InBounds
<1>2. CASE pc[d] \in AtTarget BY <1>1, <1>2, StepsTable DEF AtTarget, StepsLeft
<1>3. CASE pc[d] \in {"none"} \cup Waiting \cup Ended
  <2>1. StepsLeft(d) = 0 \/ StepsLeft(d) = 4 * NumTargets + 7 BY <1>3, StepsTable DEF StepsLeft
  <2> QED BY <1>1, <2>1
<1>4. CASE pc[d] \in Busy \ AtTarget BY <1>1, <1>4, StepsTable DEF Busy, AtTarget, StepsLeft
<1> QED BY <1>1, <1>2, <1>3, <1>4 DEF RunPc

(* No step takes a run further from its end. *)
NoFurther(d) ==
  /\ InBounds(pc'[d], idx'[d])
  /\ pc[d] # "none" => pc'[d] # "none" /\ StepsLeft(d)' <= StepsLeft(d)

LEMMA BoundsInvariant ==
  ASSUME TypeOK, DispatchedOnce, IndexInBounds, [Next]_vars, NEW d \in Dispatches
  PROVE  NoFurther(d)
<1>1. StepsLeft(d) \in Int BY StepsAreFew
<1>2. ASSUME pc'[d] = pc[d] \/ (pc[d] = "none" /\ pc'[d] \in Waiting), idx'[d] = idx[d]
      PROVE  NoFurther(d)
  BY <1>1, <1>2, BoundsStay DEF NoFurther, StepsLeft
<1>3. ASSUME pc'[d] = "dead", idx'[d] = 1 PROVE NoFurther(d)
  <2>1. StepsLeft(d)' = 0 BY <1>3, StepsTable DEF StepsLeft, Ended
  <2>2. 0 <= StepsLeft(d) BY StepsAreFew
  <2> QED BY <1>3, <2>1, <2>2, ParameterAssumption DEF NoFurther, InBounds, AtTarget, Waiting
<1>4. CASE RunStep(d)
  <2>1. StepsLeft(d)' < StepsLeft(d) BY <1>4, RunAdvances DEF StepsLeft
  <2>2. StepsLeft(d)' \in Int
    <3>1. idx'[d] \in Int BY <1>4, RunAdvances, ParameterAssumption DEF InBounds
    <3> QED BY <3>1, StepsAreInt DEF StepsLeft
  <2>3. StepsLeft(d)' <= StepsLeft(d) BY <1>1, <2>1, <2>2
  <2> QED BY <1>4, <2>3, RunAdvances DEF NoFurther
<1>5. ASSUME NEW e \in Dispatches \ {d}, RunStep(e) PROVE pc'[d] = pc[d] /\ idx'[d] = idx[d]
  BY <1>5, RunAdvances
<1>6. ASSUME NEW q \in Requests,
             \/ RequestStep(q) \/ CrashRequest(q)
             \/ (q \in Cancellers /\ ReadCancel(q)) \/ (q \in Retriers /\ ReadRetry(q))
      PROVE  (pc'[d] = pc[d] \/ (pc[d] = "none" /\ pc'[d] \in Waiting)) /\ idx'[d] = idx[d]
  <2>1. CASE q = Start /\ (Enqueue \/ EnqueueFails \/ SaveDispatch)
    BY <2>1 DEF Enqueue, EnqueueFails, SaveDispatch, runVars, TypeOK, Waiting, DispatchedOnce,
                ToBeDispatched
  <2>2. CASE q \in Retriers /\ SaveRetry(q)
    BY <2>2 DEF SaveRetry, TypeOK, Waiting, DispatchedOnce, ToBeDispatched
  <2>3. CASE SaveCancel(q) \/ CrashRequest(q) \/ ReadCancel(q) \/ ReadRetry(q)
    BY <2>3 DEF SaveCancel, CrashRequest, ReadCancel, ReadRetry, runVars
  <2> QED BY <1>6, <2>1, <2>2, <2>3 DEF RequestStep
<1>7. ASSUME NEW e \in Dispatches, CrashRun(e) \/ (e = Start /\ Terminate)
      PROVE  (pc'[d] = "dead" /\ idx'[d] = 1) \/ (pc'[d] = pc[d] /\ idx'[d] = idx[d])
  BY <1>7 DEF CrashRun, Terminate, CloseRun, TypeOK
<1>8. CASE UNCHANGED vars BY <1>2, <1>8 DEF vars
<1>9. ASSUME NEW e \in Dispatches, CrashRun(e) \/ (e = Start /\ Terminate)
      PROVE  NoFurther(d)
  BY <1>2, <1>3, <1>7, <1>9
<1> QED BY <1>2, <1>4, <1>5, <1>6, <1>8, <1>9 DEF Next

(* A run goes down a scale of 4 * NumTargets + 7 steps: each of its own     *)
(* takes it further, and no other step takes it back.                        *)
RunsAdvance ==
  /\ [](\A d \in Dispatches : StepsLeft(d) \in 0..(4 * NumTargets + 7))
  /\ [][\A d \in Dispatches :
          /\ RunStep(d) => StepsLeft(d)' < StepsLeft(d)
          /\ pc[d] # "none" => pc'[d] # "none" /\ StepsLeft(d)' <= StepsLeft(d)]_vars

\* A run takes at most 4 * NumTargets + 7 steps, whatever fails on the way and
\* whatever requests and other runs do to the row meanwhile: rollbacks, errors
\* that are not stored and cancels never send it back to a target.  What the
\* end of every run (RunsEnd) asks of the scheduler is only that it goes on.
THEOREM RunsAreShort == Spec => RunsAdvance
<1> DEFINE Few == \A d \in Dispatches : StepsLeft(d) \in 0..(4 * NumTargets + 7)
           Nearer == \A d \in Dispatches :
                       /\ RunStep(d) => StepsLeft(d)' < StepsLeft(d)
                       /\ pc[d] # "none" => pc'[d] # "none" /\ StepsLeft(d)' <= StepsLeft(d)
<1>1. Init => IndexInBounds
  BY ParameterAssumption DEF Init, IndexInBounds, InBounds, AtTarget
<1>2. TypeOK /\ SnapshotInv /\ IndexInBounds /\ [Next]_vars => IndexInBounds'
  BY BoundsInvariant DEF SnapshotInv, IndexInBounds, NoFurther
<1>3. TypeOK /\ IndexInBounds => Few
  BY StepsAreFew
<1>4. TypeOK /\ SnapshotInv /\ IndexInBounds /\ [Next]_vars => Nearer
  <2> SUFFICES ASSUME TypeOK, SnapshotInv, IndexInBounds, [Next]_vars, NEW d \in Dispatches
               PROVE  /\ RunStep(d) => StepsLeft(d)' < StepsLeft(d)
                      /\ pc[d] # "none" => pc'[d] # "none" /\ StepsLeft(d)' <= StepsLeft(d)
    OBVIOUS
  <2>1. RunStep(d) => StepsLeft(d)' < StepsLeft(d) BY RunAdvances DEF StepsLeft
  <2> QED BY <2>1, BoundsInvariant DEF SnapshotInv, NoFurther
<1> HIDE DEF Few, Nearer
<1>5. Spec => []Few /\ [][Nearer]_vars
  BY <1>1, <1>2, <1>3, <1>4, TypeCorrect, SnapshotInvHolds, PTL DEF Spec
<1> QED BY <1>5 DEF Few, Nearer, RunsAdvance
=============================================================================
