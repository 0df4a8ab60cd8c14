------------------------ MODULE DiscoveryRetryProofs ------------------------
(* What a job reports when it is retried, each time after the run before    *)
(* has ended (OneAtATime), for any number of retries, cancels, targets and   *)
(* crashes.                                                                  *)
EXTENDS DiscoveryJobProofs

USE DEF Dispatches, Requests

(* The attempt that is going on: a run, or a start that is yet to dispatch  *)
(* its own.                                                                 *)
Doing(d) == pc[d] \in Waiting \cup Busy
            \/ (d = Start /\ pc[d] = "none" /\ rpc[d] \in {"enqueue", "dispatching"})

(* The targets the run has behind it whose inventory is committed, by it or *)
(* by an earlier attempt.                                                   *)
Behind(d) == inventory \cap 1..(idx[d] - 1)

(* Counters that the row or a copy may hold: no more than what the attempt  *)
(* has behind it, and no snapshot before it has ended.                      *)
Fits(st) ==
  /\ st.done <= Cardinality(inventory)
  /\ Counted(st) <= NumTargets
  /\ \A d \in Dispatches : Doing(d) => /\ st.done <= Cardinality(Behind(d))
                                       /\ Counted(st) <= idx[d] - 1
                                       /\ st.snap = NoRun

(* The copy of a run is at most one target ahead. *)
RunFits(d) ==
  /\ idx[d] \in 1..(NumTargets + 1)
  /\ pc[d] \notin Busy => idx[d] = 1
  /\ pc[d] \in AtTarget => idx[d] <= NumTargets
  /\ job[d].stats.done <= Cardinality(Behind(d)) + (IF pc[d] = "saving" THEN 1 ELSE 0)
  /\ Counted(job[d].stats) <= idx[d] - 1 + (IF pc[d] \in {"saving", "recovering"} THEN 1 ELSE 0)
  /\ pc[d] \notin {"completing", "raised", "cancelling", "failing"} => job[d].stats.snap = NoRun
  /\ pc[d] = "completing" => job[d].stats.snap = d /\ base[d].stats.snap = NoRun
  /\ pc[d] \notin {"completing", "raised"} => job[d].status # "completed"

RowFits ==
  /\ Fits(row.stats)
  /\ row.status = "completed" => row.stats.snap \in snapshots /\ \A d \in Dispatches : ~Doing(d)

RequestsFit ==
  /\ \A q \in Requests : Fits(rjob[q].stats)
  /\ \A q \in Requests : rpc[q] \in {"idle", "done"} => rjob[q] = NewJob
  /\ rpc[Start] \in {"enqueue", "dispatching"} =>
       rjob[Start].status = "pending" /\ rjob[Start].stats = NoStats /\ rbase[Start] = NewJob
  /\ \A q \in Cancellers : rpc[q] = "cancelling" =>
       rjob[q].status = "cancelled" /\ rbase[q].status \in {"pending", "running"}
  /\ \A q \in Retriers : rpc[q] = "retrying" =>
       rjob[q].status = "pending" /\ rjob[q].stats = NoStats /\ rbase[q] = row

(* Which requests are on their way where. *)
RequestPlaces ==
  /\ rpc[Start] \in {"enqueue", "dispatching", "done"}
  /\ \A q \in Cancellers : rpc[q] \in {"idle", "cancelling", "done"}
  /\ \A q \in Retriers : rpc[q] \in {"idle", "retrying", "done"}

AttemptsInv ==
  RequestPlaces /\ RowFits /\ RequestsFit /\ \A d \in Dispatches : RunFits(d)

-----------------------------------------------------------------------------
LEMMA Counts ==
  ASSUME TypeOK, NEW d \in Dispatches
  PROVE  /\ IsFiniteSet(Behind(d)) /\ Cardinality(Behind(d)) \in Nat
         /\ Cardinality(inventory) \in Nat /\ Cardinality(Behind(d)) <= Cardinality(inventory)
<1>1. IsFiniteSet(inventory) /\ Cardinality(inventory) \in Nat BY InventoryCounts
<1>2. Behind(d) \subseteq inventory BY DEF Behind
<1> QED BY <1>1, <1>2, FS_Subset, FS_CardinalityType

LEMMA NothingFits ==
  ASSUME TypeOK, \A d \in Dispatches : RunFits(d)
  PROVE  Fits(NoStats) /\ NoStats \in Stats /\ NewJob.stats = NoStats
<1>1. NoStats.done = 0 /\ Counted(NoStats) = 0 /\ NoStats.snap = NoRun BY DEF NoStats, Counted
<1>2. \A d \in Dispatches : 0 <= Cardinality(Behind(d)) /\ 0 <= idx[d] - 1
  BY Counts DEF RunFits
<1>3. 0 <= Cardinality(inventory) /\ 0 <= NumTargets BY InventoryCounts, ParameterAssumption
<1>4. Fits(NoStats) BY <1>1, <1>2, <1>3 DEF Fits
<1> QED BY <1>4 DEF NoStats, NewJob, Stats

(* Counters go on to fit while the attempt advances or ends. *)
LEMMA FitsStay ==
  ASSUME TypeOK, TypeOK', inventory \subseteq inventory',
         \A d \in Dispatches : Doing(d)' => Doing(d) /\ idx[d] <= idx'[d],
         NEW st \in Stats, Fits(st)
  PROVE  Fits(st)'
<1>1. st.done \in Nat /\ Counted(st) \in Nat BY DEF Stats, Counted
<1>2. IsFiniteSet(inventory')
  <2>1. inventory' \subseteq 1..NumTargets BY DEF TypeOK
  <2>2. IsFiniteSet(1..NumTargets) BY ParameterAssumption, FS_Interval
  <2> QED BY <2>1, <2>2, FS_Subset
<1>3. /\ Cardinality(inventory) \in Nat /\ Cardinality(inventory') \in Nat
      /\ Cardinality(inventory) <= Cardinality(inventory')
  BY <1>2, InventoryCounts, FS_Subset, FS_CardinalityType
<1>4. ASSUME NEW d \in Dispatches, Doing(d)'
      PROVE  st.done <= Cardinality(Behind(d)') /\ Counted(st) <= idx'[d] - 1 /\ st.snap = NoRun
  <2>1. Doing(d) /\ idx[d] <= idx'[d] /\ idx[d] \in Nat /\ idx'[d] \in Nat BY <1>4 DEF TypeOK
  <2>2. Behind(d) \subseteq Behind(d)' BY <2>1 DEF Behind
  <2>3. IsFiniteSet(Behind(d)') BY <1>2, FS_Subset DEF Behind
  <2>4. /\ Cardinality(Behind(d)) \in Nat /\ Cardinality(Behind(d)') \in Nat
        /\ Cardinality(Behind(d)) <= Cardinality(Behind(d)')
    BY <2>2, <2>3, FS_Subset, FS_CardinalityType
  <2>5. st.done <= Cardinality(Behind(d)) /\ Counted(st) <= idx[d] - 1 /\ st.snap = NoRun
    BY <2>1 DEF Fits
  <2> QED BY <1>1, <2>1, <2>4, <2>5
<1>5. st.done <= Cardinality(inventory') /\ Counted(st) <= NumTargets BY <1>1, <1>3 DEF Fits
<1> QED BY <1>4, <1>5 DEF Fits

(* An attempt that goes on is the only one. *)
LEMMA OnlyOne ==
  ASSUME OneAtATime, NEW d \in Dispatches, Attempted(d)
  PROVE  /\ \A e \in Dispatches : Doing(e) => e = d
         /\ \A q \in Retriers : rpc[q] = "retrying" => q = d
<1>1. \A e \in Dispatches : Doing(e) => Attempted(e) BY DEF Doing, Attempted
<1>2. \A q \in Retriers : rpc[q] = "retrying" => Attempted(q) BY DEF Attempted
<1> QED BY <1>1, <1>2 DEF OneAtATime

LEMMA SameFits ==
  ASSUME NEW d, RunFits(d), inventory' = inventory,
         pc'[d] = pc[d], idx'[d] = idx[d], job'[d] = job[d], base'[d] = base[d]
  PROVE  RunFits(d)'
<1>1. Behind(d)' = Behind(d) BY DEF Behind
<1> QED BY <1>1 DEF RunFits

(* What a run that is not at work says rests on nothing but its copy. *)
LEMMA IdleFits ==
  ASSUME TypeOK, NEW d \in Dispatches, RunFits(d), pc[d] \notin Busy, pc'[d] \notin Busy,
         UNCHANGED <<idx[d], job[d], base[d]>>
  PROVE  RunFits(d)'
<1>1. idx[d] = 1 /\ idx'[d] = 1 BY DEF RunFits
<1>2. Behind(d) = {} /\ Behind(d)' = {} BY <1>1 DEF Behind
<1>3. /\ {"saving", "recovering", "completing", "raised", "cancelling", "failing"} \subseteq Busy
      /\ AtTarget \subseteq Busy
  BY DEF Busy, AtTarget
<1> QED BY <1>1, <1>2, <1>3 DEF RunFits

-----------------------------------------------------------------------------
(* The requests. *)
LEMMA RequestFits ==
  ASSUME TypeOK, TypeOK', AttemptsInv, UNCHANGED <<inventory, idx, job, base>>,
         \A d \in Dispatches : pc'[d] = pc[d] \/ (pc[d] \notin Busy /\ pc'[d] \notin Busy),
         \A d \in Dispatches : Doing(d)' => Doing(d)
  PROVE  /\ \A d \in Dispatches : RunFits(d)'
         /\ \A st \in Stats : Fits(st) => Fits(st)'
<1>1. ASSUME NEW d \in Dispatches PROVE RunFits(d)'
  <2>1. RunFits(d) BY DEF AttemptsInv
  <2>2. CASE pc'[d] = pc[d] BY <2>1, <2>2, SameFits
  <2>3. CASE pc[d] \notin Busy /\ pc'[d] \notin Busy BY <2>1, <2>3, IdleFits
  <2> QED BY <2>2, <2>3
<1>2. \A d \in Dispatches : Doing(d)' => Doing(d) /\ idx[d] <= idx'[d] BY DEF TypeOK
<1> QED BY <1>1, <1>2, FitsStay

(* The copies a request leaves behind when it closes. *)
LEMMA ClosedFits ==
  ASSUME TypeOK, AttemptsInv, NEW q \in Requests, CloseRequest(q), RequestPlaces',
         \A st \in Stats : Fits(st) => Fits(st)',
         \A p \in Retriers : rpc[p] = "retrying" /\ p # q => row' = row
  PROVE  RequestsFit'
<1>1. /\ rpc' = [rpc EXCEPT ![q] = "done"] /\ rjob' = [rjob EXCEPT ![q] = NewJob]
      /\ rbase' = [rbase EXCEPT ![q] = NewJob]
  BY DEF CloseRequest
<1>2. Fits(NoStats) /\ NoStats \in Stats /\ NewJob.stats = NoStats BY NothingFits DEF AttemptsInv
<1>3. \A p \in Requests : rjob[p].stats \in Stats BY DEF TypeOK, JobRow
<1>4. \A p \in Requests \ {q} : rpc'[p] = rpc[p] /\ rjob'[p] = rjob[p] /\ rbase'[p] = rbase[p]
  BY <1>1 DEF TypeOK
<1>5. rpc'[q] = "done" /\ rjob'[q] = NewJob BY <1>1 DEF TypeOK
<1>6. \A p \in Requests : Fits(rjob[p].stats)'
  BY <1>2, <1>3, <1>4, <1>5 DEF AttemptsInv, RequestsFit
<1>7. \A p \in Requests : rpc'[p] \in {"idle", "done"} => rjob'[p] = NewJob
  BY <1>4, <1>5 DEF AttemptsInv, RequestsFit
<1>8. rpc'[Start] \in {"enqueue", "dispatching"} =>
        rjob'[Start].status = "pending" /\ rjob'[Start].stats = NoStats /\ rbase'[Start] = NewJob
  BY <1>4, <1>5 DEF AttemptsInv, RequestsFit
<1>9. \A p \in Cancellers : rpc'[p] = "cancelling" =>
        rjob'[p].status = "cancelled" /\ rbase'[p].status \in {"pending", "running"}
  BY <1>4, <1>5 DEF AttemptsInv, RequestsFit
<1>10. \A p \in Retriers : rpc'[p] = "retrying" =>
        rjob'[p].status = "pending" /\ rjob'[p].stats = NoStats /\ rbase'[p] = row'
  BY <1>4, <1>5 DEF AttemptsInv, RequestsFit
<1> QED BY <1>6, <1>7, <1>8, <1>9, <1>10 DEF RequestsFit

LEMMA StartRequestFits ==
  ASSUME TypeOK, TypeOK', SnapshotInv, AttemptsInv, OneAtATime, Enqueue \/ EnqueueFails \/ SaveDispatch
  PROVE  AttemptsInv'
<1>1. UNCHANGED <<inventory, idx, job, base, snapshots>>
  BY DEF Enqueue, EnqueueFails, SaveDispatch, rowVars, runVars
<1>2. /\ rpc[Start] \in {"enqueue", "dispatching"} /\ Attempted(Start) /\ Start \in Dispatches
      /\ pc'[Start] = pc[Start] \/ (pc[Start] = "none" /\ pc'[Start] \in Waiting)
      /\ \A d \in Dispatches \ {Start} : pc'[d] = pc[d]
      /\ \A q \in Requests \ {Start} : rpc'[q] = rpc[q]
      /\ rpc'[Start] \in {"dispatching", "done"}
  BY DEF Enqueue, EnqueueFails, SaveDispatch, CloseRequest, runVars, TypeOK, Waiting, Attempted,
         SnapshotInv, DispatchedOnce, ToBeDispatched
<1>3. \A d \in Dispatches : pc'[d] = pc[d] \/ (pc[d] \notin Busy /\ pc'[d] \notin Busy)
  <2>1. "none" \notin Busy /\ Waiting \cap Busy = {} BY DEF Busy, Waiting
  <2> QED BY <1>2, <2>1
<1>4. \A d \in Dispatches : Doing(d)' => Doing(d)
  <2>1. "none" \notin Waiting \cup Busy BY DEF Busy, Waiting
  <2> QED BY <1>2, <2>1 DEF Doing
<1>5. (\A d \in Dispatches : RunFits(d)') /\ \A st \in Stats : Fits(st) => Fits(st)'
  BY <1>1, <1>3, <1>4, RequestFits
<1>6. RequestPlaces' BY <1>2, ParameterAssumption DEF AttemptsInv, RequestPlaces
<1>7. row \in JobRow /\ row.stats \in Stats /\ \A q \in Requests : rjob[q] \in JobRow /\ rjob[q].stats \in Stats
  BY DEF TypeOK, JobRow
<1>8. \A q \in Retriers : rpc[q] # "retrying" BY <1>2, OnlyOne, ParameterAssumption
<1>9. CASE Enqueue \/ EnqueueFails
  <2>1. UNCHANGED <<row, rbase>> BY <1>9 DEF Enqueue, EnqueueFails, rowVars
  <2>2. \A q \in Requests \ {Start} : rjob'[q] = rjob[q]
    BY <1>9 DEF Enqueue, EnqueueFails, TypeOK
  <2>3. rjob'[Start].stats = rjob[Start].stats /\ rjob'[Start].status = rjob[Start].status
    BY <1>7, <1>9 DEF Enqueue, EnqueueFails, TypeOK, JobRow
  <2>4. RowFits' BY <1>1, <1>4, <1>5, <1>7, <2>1 DEF AttemptsInv, RowFits
  <2>5. \A q \in Requests : Fits(rjob[q].stats)'
    BY <1>5, <1>7, <2>2, <2>3 DEF AttemptsInv, RequestsFit
  <2>6. rpc'[Start] = "dispatching" BY <1>9 DEF Enqueue, EnqueueFails, TypeOK
  <2>7. RequestsFit'
    BY <1>2, <2>1, <2>2, <2>3, <2>5, <2>6, ParameterAssumption DEF AttemptsInv, RequestsFit
  <2> QED BY <1>5, <1>6, <2>4, <2>7 DEF AttemptsInv
<1>10. CASE SaveDispatch
  <2>1. /\ rjob[Start].status = "pending" /\ rjob[Start].stats = NoStats /\ rbase[Start] = NewJob
        /\ Update(rjob[Start], rbase[Start]) /\ CloseRequest(Start) /\ Start \in Requests
    BY <1>10 DEF SaveDispatch, AttemptsInv, RequestsFit
  <2>2. NewJob.status = "pending" /\ NewJob.stats = NoStats BY DEF NewJob
  <2>3. /\ row'.stats \in {row.stats, NoStats}
        /\ row'.status = "pending" \/ (row'.status = row.status /\ row'.stats = row.stats)
    <3>1. NewJob \in JobRow BY NewJobIsRow
    <3> QED BY <1>7, <2>1, <2>2, <3>1, UpdateColumns
  <2>4. Fits(NoStats) /\ NoStats \in Stats BY NothingFits DEF AttemptsInv
  <2>5. RowFits' BY <1>1, <1>4, <1>5, <1>7, <2>3, <2>4 DEF AttemptsInv, RowFits
  <2>6. RequestsFit' BY <1>5, <1>6, <1>8, <2>1, ClosedFits
  <2> QED BY <1>5, <1>6, <2>5, <2>6 DEF AttemptsInv
<1> QED BY <1>9, <1>10

(* A cancel, and a request whose process dies. *)
LEMMA OtherRequestFits ==
  ASSUME TypeOK, TypeOK', AttemptsInv, OneAtATime, NEW q \in Requests,
         \/ CrashRequest(q)
         \/ q \in Cancellers /\ (ReadCancel(q) \/ SaveCancel(q))
         \/ q \in Retriers /\ ReadRetry(q)
  PROVE  AttemptsInv'
<1>1. UNCHANGED <<inventory, idx, job, base, snapshots, pc>>
  BY DEF CrashRequest, ReadCancel, SaveCancel, ReadRetry, rowVars, runVars
<1>2. /\ \A p \in Requests \ {q} : rpc'[p] = rpc[p]
      /\ \/ rpc'[q] = "done"
         \/ q \in Cancellers /\ rpc'[q] = "cancelling"
         \/ q \in Retriers /\ rpc'[q] = "retrying"
  BY DEF CrashRequest, ReadCancel, SaveCancel, ReadRetry, CloseRequest, TypeOK
<1>3. RequestPlaces' /\ (rpc'[Start] = rpc[Start] \/ rpc'[Start] = "done")
  BY <1>2, ParameterAssumption DEF AttemptsInv, RequestPlaces
<1>4. \A d \in Dispatches : Doing(d)' => Doing(d) BY <1>1, <1>3 DEF Doing
<1>5. (\A d \in Dispatches : RunFits(d)') /\ \A st \in Stats : Fits(st) => Fits(st)'
  BY <1>1, <1>4, RequestFits
<1>6. row \in JobRow /\ row.stats \in Stats /\ \A p \in Requests : rjob[p] \in JobRow /\ rjob[p].stats \in Stats
  BY DEF TypeOK, JobRow
<1>7. row' = row => RowFits' BY <1>1, <1>4, <1>5, <1>6 DEF AttemptsInv, RowFits
<1>8. CASE CrashRequest(q)
  <2>1. row' = row /\ CloseRequest(q) BY <1>8 DEF CrashRequest, rowVars
  <2>2. RequestsFit' BY <1>3, <1>5, <2>1, ClosedFits
  <2> QED BY <1>3, <1>5, <1>7, <2>1, <2>2 DEF AttemptsInv
<1>9. CASE q \in Cancellers /\ SaveCancel(q)
  <2>1. /\ rpc[q] = "cancelling" /\ Update(rjob[q], rbase[q]) /\ CloseRequest(q)
        /\ rjob[q].status = "cancelled" /\ rbase[q].status \in {"pending", "running"}
        /\ Fits(rjob[q].stats) /\ rbase[q] \in JobRow
    BY <1>9 DEF SaveCancel, AttemptsInv, RequestsFit, TypeOK
  <2>2. row'.stats \in {row.stats, rjob[q].stats} /\ row'.status = "cancelled"
    BY <1>6, <2>1, UpdateColumns
  <2>3. RowFits' BY <1>5, <1>6, <2>1, <2>2 DEF AttemptsInv, RowFits
  <2>4. \A p \in Retriers : rpc[p] # "retrying" BY <1>9, <2>1 DEF OneAtATime
  <2>5. RequestsFit' BY <1>3, <1>5, <2>1, <2>4, ClosedFits
  <2> QED BY <1>3, <1>5, <2>3, <2>5 DEF AttemptsInv
<1>10. CASE q \in Cancellers /\ ReadCancel(q)
  <2>1. /\ row' = row /\ rbase' = [rbase EXCEPT ![q] = row] /\ row.status \in {"pending", "running"}
        /\ rjob' = [rjob EXCEPT ![q] = [row EXCEPT !.status = "cancelled", !.finished = TRUE,
                                                   !.config.cancelled = TRUE]]
        /\ rpc'[q] = "cancelling"
    BY <1>10 DEF ReadCancel, rowVars, TypeOK
  <2>2. /\ rjob'[q].stats = row.stats /\ rjob'[q].status = "cancelled" /\ rbase'[q] = row
        /\ \A p \in Requests \ {q} : rjob'[p] = rjob[p] /\ rbase'[p] = rbase[p]
    BY <1>6, <2>1 DEF TypeOK, JobRow
  <2>3. q # Start /\ q \notin Retriers BY <1>10, ParameterAssumption
  <2>4. \A p \in Requests : Fits(rjob[p].stats)'
    BY <1>5, <1>6, <2>2 DEF AttemptsInv, RequestsFit, RowFits
  <2>5. RequestsFit' BY <1>2, <2>1, <2>2, <2>3, <2>4 DEF AttemptsInv, RequestsFit
  <2> QED BY <1>3, <1>5, <1>7, <2>1, <2>5 DEF AttemptsInv
<1>11. CASE q \in Retriers /\ ReadRetry(q)
  <2>1. /\ row' = row /\ rbase' = [rbase EXCEPT ![q] = row] /\ rpc'[q] = "retrying"
        /\ rjob'[q].status = "pending" /\ rjob'[q].stats = NoStats
        /\ \A p \in Requests \ {q} : rjob'[p] = rjob[p] /\ rbase'[p] = rbase[p]
    BY <1>11 DEF ReadRetry, rowVars, TypeOK
  <2>2. rbase'[q] = row' BY <2>1 DEF TypeOK
  <2>3. q # Start /\ q \notin Cancellers BY <1>11, ParameterAssumption
  <2>4. Fits(NoStats) /\ NoStats \in Stats BY NothingFits DEF AttemptsInv
  <2>5. \A p \in Requests : Fits(rjob[p].stats)'
    BY <1>5, <1>6, <2>1, <2>4 DEF AttemptsInv, RequestsFit
  <2>6. RequestsFit' BY <1>2, <2>1, <2>2, <2>3, <2>5 DEF AttemptsInv, RequestsFit
  <2> QED BY <1>3, <1>5, <1>7, <2>1, <2>6 DEF AttemptsInv
<1> QED BY <1>8, <1>9, <1>10, <1>11

(* An accepted retry: nothing else is on its way, and the row is as new. *)
LEMMA RetryFits ==
  ASSUME TypeOK, TypeOK', SnapshotInv, AttemptsInv, OneAtATime, NEW q \in Retriers, SaveRetry(q)
  PROVE  AttemptsInv'
<1>1. /\ UNCHANGED <<inventory, idx, job, base, snapshots>> /\ rpc[q] = "retrying"
      /\ Update(rjob[q], rbase[q]) /\ CloseRequest(q) /\ q \in Dispatches /\ q \in Requests
      /\ pc' = [pc EXCEPT ![q] = "scheduled"] /\ pc[q] = "none" /\ q # Start
  BY ParameterAssumption DEF SaveRetry, SnapshotInv, DispatchedOnce, ToBeDispatched
<1>2. /\ pc'[q] = "scheduled" /\ \A d \in Dispatches \ {q} : pc'[d] = pc[d]
      /\ \A p \in Requests \ {q} : rpc'[p] = rpc[p] /\ rjob'[p] = rjob[p]
      /\ rpc'[q] = "done" /\ rjob'[q] = NewJob
  BY <1>1 DEF TypeOK, CloseRequest
<1>3. \A e \in Dispatches : ~Doing(e)
  <2>1. Attempted(q) BY <1>1 DEF Attempted
  <2>2. ~Doing(q)
    <3>1. "none" \notin Waiting \cup Busy BY DEF Waiting, Busy
    <3> QED BY <1>1, <3>1 DEF Doing
  <2> QED BY <1>1, <2>1, <2>2, OnlyOne
<1>4. \A e \in Dispatches : Doing(e)' => e = q BY <1>2, <1>3 DEF Doing
<1>5. \A d \in Dispatches : RunFits(d)'
  <2>1. "none" \notin Busy /\ "scheduled" \notin Busy BY DEF Busy
  <2>2. RunFits(q)' BY <1>1, <1>2, <2>1, IdleFits DEF AttemptsInv
  <2>3. ASSUME NEW d \in Dispatches \ {q} PROVE RunFits(d)'
    BY <1>1, <1>2, SameFits DEF AttemptsInv
  <2> QED BY <2>2, <2>3
<1>6. Fits(NoStats)' /\ NewJob.stats = NoStats
  <2>1. NoStats.done = 0 /\ Counted(NoStats) = 0 /\ NoStats.snap = NoRun BY DEF NoStats, Counted
  <2>2. ASSUME NEW d \in Dispatches PROVE 0 <= Cardinality(Behind(d))' /\ 0 <= idx'[d] - 1
    <3>1. Behind(d)' = Behind(d) BY <1>1 DEF Behind
    <3>2. 0 <= idx[d] - 1 BY DEF AttemptsInv, RunFits
    <3> QED BY <1>1, <3>1, <3>2, Counts
  <2>3. 0 <= Cardinality(inventory)' /\ 0 <= NumTargets BY <1>1, InventoryCounts, ParameterAssumption
  <2>4. Fits(NoStats)' BY <2>1, <2>2, <2>3 DEF Fits
  <2> QED BY <2>4 DEF NewJob
<1>7. RequestPlaces' BY <1>1, <1>2, ParameterAssumption DEF AttemptsInv, RequestPlaces
<1>8. /\ rpc'[Start] = "done"
      /\ \A p \in Cancellers : rpc'[p] # "cancelling"
      /\ \A p \in Retriers : rpc'[p] # "retrying"
  <2>1. rpc[Start] = "done"
    <3>1. Start \in Dispatches BY DEF Dispatches
    <3>2. rpc[Start] \notin {"enqueue", "dispatching"}
      BY <1>1, <3>1 DEF OneAtATime, Attempted
    <3> QED BY <3>2 DEF AttemptsInv, RequestPlaces
  <2>2. \A p \in Retriers : rpc[p] = "retrying" => p = q
    BY <1>1, OnlyOne DEF Attempted
  <2> QED BY <1>1, <1>2, <2>1, <2>2, ParameterAssumption DEF OneAtATime
<1>9. \A p \in Requests : rjob'[p] = NewJob
  <2>1. \A p \in Requests : rpc'[p] \in {"idle", "done"} BY <1>7, <1>8 DEF RequestPlaces
  <2> QED BY <1>2, <2>1 DEF AttemptsInv, RequestsFit
<1>10. RequestsFit' BY <1>6, <1>8, <1>9 DEF RequestsFit
<1>11. row' = rjob[q]
  <2>1. rbase[q] = row BY <1>1 DEF AttemptsInv, RequestsFit
  <2>2. rjob[q] = [status |-> rjob[q].status, finished |-> rjob[q].finished,
                   config |-> rjob[q].config, stats |-> rjob[q].stats]
    BY <1>1 DEF TypeOK, JobRow
  <2>3. row' = Merge(row, row, rjob[q]) BY <1>1, <2>1 DEF Update
  <2>4. Merge(row, row, rjob[q]) = [status |-> rjob[q].status, finished |-> rjob[q].finished,
                                    config |-> rjob[q].config, stats |-> rjob[q].stats]
    BY DEF Merge, Column
  <2> QED BY <2>2, <2>3, <2>4
<1>12. RowFits'
  <2>1. rjob[q].status = "pending" /\ rjob[q].stats = NoStats
    BY <1>1 DEF AttemptsInv, RequestsFit
  <2> QED BY <1>6, <1>11, <2>1 DEF RowFits
<1> QED BY <1>5, <1>7, <1>10, <1>12 DEF AttemptsInv

-----------------------------------------------------------------------------
(* The runs. *)
LEMMA AttemptFrame ==
  ASSUME TypeOK, TypeOK', SnapshotInv, AttemptsInv, OneAtATime, NEW d \in Dispatches,
         pc[d] \in Waiting \cup Busy, UNCHANGED reqVars, inventory \subseteq inventory',
         \A e \in Dispatches \ {d} : UNCHANGED <<pc[e], idx[e], job[e], base[e]>>,
         pc'[d] # "none", Doing(d)' => idx[d] <= idx'[d]
  PROVE  /\ \A st \in Stats : Fits(st) => Fits(st)'
         /\ \A e \in Dispatches : Doing(e)' => e = d
         /\ RunFits(d)' /\ RowFits' => AttemptsInv'
<1>1. Attempted(d) /\ Doing(d) BY DEF Attempted, Doing
<1>2. /\ \A e \in Dispatches : Doing(e) => e = d
      /\ \A q \in Retriers : rpc[q] = "retrying" => q = d
  BY <1>1, OnlyOne
<1>3. ASSUME NEW e \in Dispatches \ {d}
      PROVE  Doing(e)' <=> Doing(e)
  BY DEF Doing, reqVars
<1>4. \A e \in Dispatches : Doing(e)' => Doing(e) /\ idx[e] <= idx'[e]
  BY <1>1, <1>3 DEF TypeOK
<1>5. \A st \in Stats : Fits(st) => Fits(st)' BY <1>4, FitsStay
<1>6. ASSUME NEW e \in Dispatches \ {d} PROVE RunFits(e)'
  <2>1. pc[e] \notin Busy BY <1>1 DEF OneAtATime, Attempted
  <2> QED BY <2>1, IdleFits DEF AttemptsInv
<1>7. \A q \in Retriers : rpc[q] # "retrying"
  <2>1. pc[d] # "none" BY DEF Waiting, Busy
  <2>2. rpc[d] # "retrying" BY <2>1 DEF SnapshotInv, DispatchedOnce, ToBeDispatched
  <2> QED BY <1>2, <2>2
<1>8. \A q \in Requests : rjob[q].stats \in Stats BY DEF TypeOK, JobRow
<1>9. RequestsFit' /\ RequestPlaces'
  BY <1>5, <1>7, <1>8 DEF AttemptsInv, RequestsFit, RequestPlaces, reqVars
<1> QED BY <1>2, <1>4, <1>5, <1>6, <1>9 DEF AttemptsInv

(* A run that ends. *)
LEMMA EndFits ==
  ASSUME TypeOK, TypeOK', SnapshotInv, AttemptsInv, OneAtATime, NEW d \in Dispatches,
         pc[d] \in Waiting \cup Busy, NEW how \in Ended, CloseRun(d, how),
         UNCHANGED <<reqVars, inventory>>, snapshots \subseteq snapshots',
         \/ row'.stats = row.stats
         \/ row'.stats = job[d].stats /\ pc[d] \notin {"saving", "recovering"},
         row'.status = "completed" => row'.stats.snap \in snapshots'
  PROVE  AttemptsInv'
<1>1. /\ pc'[d] = how /\ idx'[d] = 1 /\ job'[d] = NewJob
      /\ \A e \in Dispatches \ {d} : UNCHANGED <<pc[e], idx[e], job[e], base[e]>>
  BY DEF CloseRun, TypeOK
<1>2. pc'[d] # "none" /\ pc'[d] \notin Waiting \cup Busy \cup AtTarget
  BY <1>1 DEF Ended, Waiting, Busy, AtTarget
<1>3. ~Doing(d)' BY <1>2 DEF Doing
<1>4. /\ \A st \in Stats : Fits(st) => Fits(st)'
      /\ \A e \in Dispatches : ~Doing(e)'
      /\ RunFits(d)' /\ RowFits' => AttemptsInv'
  BY <1>1, <1>2, <1>3, AttemptFrame
<1>5. RunFits(d)'
  <2>1. /\ NewJob.stats.done = 0 /\ Counted(NewJob.stats) = 0 /\ NewJob.stats.snap = NoRun
        /\ NewJob.status = "pending"
    BY DEF NewJob, NoStats, Counted
  <2>2. Behind(d)' = {} BY <1>1 DEF Behind
  <2>3. Cardinality(Behind(d)') = 0 BY <2>2, FS_EmptySet
  <2>4. {"saving", "recovering", "completing", "raised"} \subseteq Busy BY DEF Busy
  <2> QED BY <1>1, <1>2, <2>1, <2>3, <2>4, ParameterAssumption DEF RunFits
<1>6. Fits(row.stats)'
  <2>1. row.stats \in Stats /\ job[d].stats \in Stats /\ idx[d] \in Nat BY DEF TypeOK, JobRow
  <2>2. CASE row'.stats = row.stats
    <3>1. Fits(row.stats) BY DEF AttemptsInv, RowFits
    <3>2. \A st \in Stats : Fits(st)' =>
            /\ st.done <= Cardinality(inventory)'
            /\ Counted(st) <= NumTargets
      BY DEF Fits
    <3> QED BY <1>4, <2>1, <2>2, <3>1, <3>2 DEF Fits, Counted
  <2>3. CASE row'.stats = job[d].stats /\ pc[d] \notin {"saving", "recovering"}
    <3>1. /\ job[d].stats.done <= Cardinality(Behind(d)) /\ Counted(job[d].stats) <= idx[d] - 1
          /\ idx[d] <= NumTargets + 1 /\ Cardinality(Behind(d)) \in Nat
          /\ job[d].stats.done \in Nat /\ Counted(job[d].stats) \in Nat
      <4>1. job[d].stats.done \in Nat /\ Counted(job[d].stats) \in Nat
        BY <2>1 DEF Stats, Counted
      <4>2. RunFits(d) BY DEF AttemptsInv
      <4>3. Cardinality(Behind(d)) \in Nat BY Counts
      <4> QED BY <2>1, <2>3, <4>1, <4>2, <4>3, ParameterAssumption DEF RunFits
    <3>2. /\ job[d].stats.done <= Cardinality(inventory') /\ Counted(job[d].stats) <= NumTargets
      BY <2>1, <3>1, Counts, ParameterAssumption
    <3> QED BY <1>4, <2>3, <3>2 DEF Fits, Counted
  <2> QED BY <2>2, <2>3
<1>7. RowFits' BY <1>4, <1>6 DEF RowFits
<1> QED BY <1>4, <1>5, <1>7

(* What a run that goes on can rely on. *)
LEMMA Underway ==
  ASSUME TypeOK, AttemptsInv, NEW d \in Dispatches, pc[d] \in Waiting \cup Busy
  PROVE  /\ Doing(d) /\ RunFits(d) /\ RowFits /\ row.status # "completed"
         /\ row.stats.done <= Cardinality(Behind(d)) /\ Counted(row.stats) <= idx[d] - 1
         /\ row.stats.snap = NoRun
         /\ row \in JobRow /\ job[d] \in JobRow /\ base[d] \in JobRow /\ idx[d] \in Nat
         /\ row.stats \in Stats /\ job[d].stats \in Stats
         /\ Counted(row.stats) \in Nat /\ Counted(job[d].stats) \in Nat
         /\ row.stats.done \in Nat /\ job[d].stats.done \in Nat
         /\ Cardinality(Behind(d)) \in Nat /\ NumTargets \in Nat /\ NoRun # d
<1>1. Doing(d) /\ RunFits(d) /\ RowFits BY DEF Doing, AttemptsInv
<1>2. row \in JobRow /\ job[d] \in JobRow /\ base[d] \in JobRow /\ idx[d] \in Nat BY DEF TypeOK
<1>3. row.stats \in Stats /\ job[d].stats \in Stats BY <1>2 DEF JobRow
<1>4. /\ row.stats.done \in Nat /\ job[d].stats.done \in Nat
      /\ Counted(row.stats) \in Nat /\ Counted(job[d].stats) \in Nat
  BY <1>3 DEF Stats, Counted
<1> QED BY <1>1, <1>2, <1>3, <1>4, Counts, ParameterAssumption DEF RowFits, Fits

(* A step that only moves the run and changes its copy. *)
LEMMA ReadFits ==
  ASSUME TypeOK, TypeOK', SnapshotInv, AttemptsInv, OneAtATime, NEW d \in Dispatches,
         pc[d] \in Waiting \cup Busy, UNCHANGED <<reqVars, rowVars>>,
         \A e \in Dispatches \ {d} : UNCHANGED <<pc[e], idx[e], job[e], base[e]>>,
         pc'[d] # "none", idx[d] <= idx'[d], RunFits(d)'
  PROVE  AttemptsInv'
<1>1. UNCHANGED <<row, inventory, snapshots>> BY DEF rowVars
<1>2. /\ \A st \in Stats : Fits(st) => Fits(st)'
      /\ RowFits' => AttemptsInv'
  BY <1>1, AttemptFrame
<1>3. Fits(row.stats) /\ row.stats \in Stats /\ row.status # "completed" BY Underway DEF RowFits
<1>4. RowFits' BY <1>1, <1>2, <1>3 DEF RowFits
<1> QED BY <1>2, <1>4

(* A step that stores the copy before the run has COMPLETED in hand. *)
LEMMA SaveFits ==
  ASSUME TypeOK, TypeOK', SnapshotInv, AttemptsInv, OneAtATime, NEW d \in Dispatches,
         pc[d] \in Waiting \cup Busy, UNCHANGED <<reqVars, snapshots, job>>,
         \A e \in Dispatches \ {d} : UNCHANGED <<pc[e], idx[e], base[e]>>,
         pc[d] \notin {"completing", "raised"}, pc'[d] # "none", idx[d] <= idx'[d],
         Update(job[d], base[d]), inventory \subseteq inventory', RunFits(d)', Fits(job[d].stats)'
  PROVE  AttemptsInv'
<1>1. /\ \A st \in Stats : Fits(st) => Fits(st)'
      /\ RunFits(d)' /\ RowFits' => AttemptsInv'
  BY AttemptFrame
<1>2. /\ Fits(row.stats) /\ row.stats \in Stats /\ row.status # "completed"
      /\ job[d].status # "completed" /\ row \in JobRow /\ job[d] \in JobRow /\ base[d] \in JobRow
  BY Underway DEF RowFits, RunFits
<1>3. row'.stats \in {row.stats, job[d].stats} /\ row'.status \in {row.status, job[d].status}
  BY <1>2, UpdateColumns, UpdateKeepsRow
<1>4. Fits(row.stats)' BY <1>1, <1>2, <1>3 DEF Fits, Counted
<1>5. RowFits' BY <1>2, <1>3, <1>4 DEF RowFits
<1> QED BY <1>1, <1>5

LEMMA BehindGrows ==
  ASSUME TypeOK, TypeOK', NEW d \in Dispatches, inventory \subseteq inventory', idx[d] <= idx'[d]
  PROVE  Cardinality(Behind(d)') \in Nat /\ Cardinality(Behind(d)) <= Cardinality(Behind(d)')
<1>1. Behind(d) \subseteq Behind(d)' BY DEF Behind, TypeOK
<1>2. inventory' \subseteq 1..NumTargets BY DEF TypeOK
<1>3. IsFiniteSet(1..NumTargets) BY ParameterAssumption, FS_Interval
<1>4. Behind(d)' \subseteq 1..NumTargets BY <1>2 DEF Behind
<1>5. IsFiniteSet(Behind(d)') BY <1>3, <1>4, FS_Subset
<1> QED BY <1>1, <1>5, FS_Subset, FS_CardinalityType

(* Which variables a step of a run leaves alone. *)
LEMMA OthersStay ==
  ASSUME TypeOK, NEW d \in Dispatches, RunStep(d)
  PROVE  /\ UNCHANGED reqVars
         /\ \A e \in Dispatches \ {d} : UNCHANGED <<pc[e], idx[e], job[e], base[e]>>
<1>1. CASE Begin(d) \/ SaveStarted(d) \/ SaveTargets(d)
  BY <1>1 DEF Begin, SaveStarted, SaveTargets, TypeOK
<1>2. CASE CheckCancelled(d) \/ CheckTarget(d) \/ CheckDone(d) \/ Raise(d) \/ HandleException(d)
  BY <1>2 DEF CheckCancelled, CheckTarget, CheckDone, Raise, HandleException, TypeOK
<1>3. CASE Unreachable(d) \/ Collect(d) \/ TargetFails(d) \/ SaveTarget(d) \/ ErrorNotSaved(d)
  BY <1>3 DEF Unreachable, Collect, TargetFails, SaveTarget, ErrorNotSaved, TypeOK
<1>4. CASE GiveUp(d) \/ Finish(d)
  BY <1>4 DEF GiveUp, Finish, CloseRun, TypeOK
<1> QED BY <1>1, <1>2, <1>3, <1>4 DEF RunStep

LEMMA BeginFits ==
  ASSUME TypeOK, TypeOK', SnapshotInv, AttemptsInv, OneAtATime, NEW d \in Dispatches, Begin(d)
  PROVE  AttemptsInv'
<1>1. /\ pc[d] \in Waiting /\ UNCHANGED <<rowVars, idx>> /\ UNCHANGED <<row, inventory>>
      /\ pc'[d] \in {"cancelling", "starting"}
      /\ job'[d].stats = row.stats \/ job'[d].stats = NoStats
      /\ pc'[d] = "starting" => job'[d].stats = NoStats
      /\ job'[d].status \in {row.status, "running"}
  <2>1. row \in JobRow BY DEF TypeOK
  <2>2. CASE IsCancelled(row)
    <3>1. job'[d] = [row EXCEPT !.finished = TRUE] /\ pc'[d] = "cancelling"
      BY <2>2 DEF Begin, TypeOK
    <3> QED BY <2>1, <3>1 DEF Begin, JobRow, rowVars
  <2>3. CASE ~IsCancelled(row)
    <3>1. job'[d] = [row EXCEPT !.status = "running", !.stats = NoStats] /\ pc'[d] = "starting"
      BY <2>3 DEF Begin, TypeOK
    <3> QED BY <2>1, <3>1 DEF Begin, JobRow, rowVars
  <2> QED BY <2>2, <2>3
<1>2. pc[d] \in Waiting \cup Busy BY <1>1
<1>3. /\ RunFits(d) /\ row.status # "completed" /\ row.stats.snap = NoRun /\ idx[d] \in Nat
      /\ row.stats.done <= Cardinality(Behind(d)) /\ Counted(row.stats) <= idx[d] - 1
      /\ Cardinality(Behind(d)) \in Nat
  BY <1>2, Underway
<1>4. NoStats.done = 0 /\ Counted(NoStats) = 0 /\ NoStats.snap = NoRun
  BY DEF NoStats, Counted
<1>5. Behind(d)' = Behind(d) /\ idx'[d] = idx[d] BY <1>1 DEF Behind
<1>6. pc[d] \notin Busy /\ pc'[d] \in Busy \ AtTarget BY <1>1 DEF Waiting, Busy, AtTarget
<1>7. idx[d] = 1 BY <1>3, <1>6 DEF RunFits
<1>8. RunFits(d)'
  <2>1. job'[d].stats.done <= Cardinality(Behind(d)) /\ Counted(job'[d].stats) <= idx[d] - 1
    BY <1>1, <1>3, <1>4, <1>7
  <2>2. job'[d].stats.snap = NoRun /\ job'[d].status # "completed" BY <1>1, <1>3, <1>4
  <2> QED BY <1>1, <1>3, <1>5, <1>6, <1>7, <2>1, <2>2, ParameterAssumption DEF RunFits
<1>9. pc'[d] # "none" /\ idx[d] <= idx'[d] BY <1>1, <1>3, <1>5
<1>10. /\ UNCHANGED reqVars
       /\ \A e \in Dispatches \ {d} : UNCHANGED <<pc[e], idx[e], job[e], base[e]>>
  BY OthersStay DEF RunStep
<1> QED BY <1>1, <1>2, <1>8, <1>9, <1>10, ReadFits

LEMMA StartFits ==
  ASSUME TypeOK, TypeOK', SnapshotInv, AttemptsInv, OneAtATime, NEW d \in Dispatches,
         SaveStarted(d) \/ SaveTargets(d)
  PROVE  AttemptsInv'
<1>1. /\ pc[d] \in {"starting", "expanded"} /\ UNCHANGED <<inventory, idx, job, snapshots>>
      /\ pc'[d] \in {"expanded", "checking"} /\ Update(job[d], base[d])
  BY DEF SaveStarted, SaveTargets, TypeOK
<1>2. pc[d] \in Waiting \cup Busy /\ pc'[d] \in Busy BY <1>1 DEF Busy
<1>3. /\ RunFits(d) /\ idx[d] \in Nat /\ job[d].stats \in Stats /\ Counted(job[d].stats) \in Nat
      /\ Cardinality(Behind(d)) \in Nat /\ NumTargets \in Nat /\ job[d].stats.done \in Nat
  BY <1>2, Underway
<1>4. Behind(d)' = Behind(d) /\ idx'[d] = idx[d] /\ job'[d] = job[d] BY <1>1 DEF Behind
<1>5. RunFits(d)' BY <1>1, <1>2, <1>3, <1>4 DEF RunFits, AtTarget
<1>6. /\ UNCHANGED reqVars
      /\ \A e \in Dispatches \ {d} : UNCHANGED <<pc[e], idx[e], job[e], base[e]>>
  BY OthersStay DEF RunStep
<1>7. pc'[d] # "none" /\ idx[d] <= idx'[d] BY <1>1, <1>3, <1>4
<1>8. Fits(job[d].stats)'
  <2>1. /\ job[d].stats.done <= Cardinality(Behind(d)) /\ Counted(job[d].stats) <= idx[d] - 1
        /\ idx[d] <= NumTargets + 1 /\ job[d].stats.snap = NoRun
    BY <1>1, <1>3 DEF RunFits
  <2>2. /\ job[d].stats.done <= Cardinality(inventory') /\ Counted(job[d].stats) <= NumTargets
    BY <1>1, <1>3, <2>1, Counts
  <2>3. \A e \in Dispatches : Doing(e)' => e = d
    BY <1>1, <1>2, <1>6, <1>7, AttemptFrame
  <2> QED BY <1>4, <2>1, <2>2, <2>3 DEF Fits, Counted
<1> QED BY <1>1, <1>2, <1>5, <1>6, <1>7, <1>8, SaveFits

(* The steps of a target's turn but its commit. *)
LEMMA TurnFits ==
  ASSUME TypeOK, TypeOK', SnapshotInv, AttemptsInv, OneAtATime, NEW d \in Dispatches,
         CheckTarget(d) \/ Unreachable(d) \/ Collect(d) \/ TargetFails(d) \/ ErrorNotSaved(d)
  PROVE  AttemptsInv'
<1>1. /\ UNCHANGED rowVars /\ UNCHANGED <<row, inventory>>
      /\ pc[d] \in {"checking"} \cup AtTarget /\ pc'[d] \in {"checking"} \cup AtTarget
  BY DEF CheckTarget, Unreachable, Collect, TargetFails, ErrorNotSaved, rowVars, TypeOK, AtTarget
<1>2. pc[d] \in Waiting \cup Busy /\ pc'[d] \in Busy /\ pc'[d] # "none"
      /\ pc'[d] \notin {"completing", "raised", "cancelling", "failing"}
      /\ pc[d] \notin {"completing", "raised", "cancelling", "failing"}
  BY <1>1 DEF Busy, AtTarget
<1>3. /\ RunFits(d) /\ idx[d] \in Nat /\ job[d].stats \in Stats /\ job[d] \in JobRow
      /\ Cardinality(Behind(d)) \in Nat /\ NumTargets \in Nat
      /\ job[d].stats.done \in Nat /\ Counted(job[d].stats) \in Nat
      /\ row \in JobRow /\ row.status # "completed" /\ row.stats.snap = NoRun /\ row.stats \in Stats
      /\ row.stats.done <= Cardinality(Behind(d)) /\ Counted(row.stats) <= idx[d] - 1
      /\ row.stats.done \in Nat /\ Counted(row.stats) \in Nat
  BY <1>2, Underway
<1>4. /\ idx[d] \in 1..(NumTargets + 1)
      /\ pc[d] \in AtTarget => idx[d] <= NumTargets
      /\ job[d].stats.done <= Cardinality(Behind(d)) + (IF pc[d] = "saving" THEN 1 ELSE 0)
      /\ Counted(job[d].stats)
           <= idx[d] - 1 + (IF pc[d] \in {"saving", "recovering"} THEN 1 ELSE 0)
      /\ job[d].stats.snap = NoRun /\ job[d].status # "completed"
  BY <1>2, <1>3 DEF RunFits
<1>5. /\ UNCHANGED reqVars
      /\ \A e \in Dispatches \ {d} : UNCHANGED <<pc[e], idx[e], job[e], base[e]>>
  BY OthersStay DEF RunStep
<1>6. ASSUME idx'[d] = idx[d], pc'[d] \in AtTarget => idx[d] <= NumTargets,
             job'[d].stats.done <= Cardinality(Behind(d)) + (IF pc'[d] = "saving" THEN 1 ELSE 0),
             Counted(job'[d].stats)
               <= idx[d] - 1 + (IF pc'[d] \in {"saving", "recovering"} THEN 1 ELSE 0),
             job'[d].stats.snap = NoRun, job'[d].status # "completed"
      PROVE  AttemptsInv'
  <2>1. Behind(d)' = Behind(d) BY <1>1, <1>6 DEF Behind
  <2>2. RunFits(d)' BY <1>2, <1>4, <1>6, <2>1 DEF RunFits
  <2> QED BY <1>1, <1>2, <1>3, <1>5, <1>6, <2>2, ReadFits
<1>7. CASE CheckTarget(d)
  <2>1. /\ pc[d] = "checking" /\ pc'[d] = "collecting" /\ idx[d] <= NumTargets /\ idx'[d] = idx[d]
        /\ job'[d] = [job[d] EXCEPT !.stats.scanned = idx[d]]
    BY <1>7 DEF CheckTarget, TypeOK
  <2>2. /\ job'[d].status = job[d].status /\ job'[d].stats = [job[d].stats EXCEPT !.scanned = idx[d]]
    BY <1>3, <2>1 DEF JobRow
  <2>3. /\ job'[d].stats.done = job[d].stats.done /\ Counted(job'[d].stats) = Counted(job[d].stats)
        /\ job'[d].stats.snap = job[d].stats.snap
    BY <1>3, <2>2 DEF Stats, Counted
  <2> QED BY <1>4, <1>6, <2>1, <2>2, <2>3
<1>8. CASE Collect(d)
  <2>1. /\ pc[d] = "collecting" /\ pc'[d] = "saving" /\ idx'[d] = idx[d]
        /\ job'[d] = [job[d] EXCEPT !.stats.done = @ + 1]
    BY <1>8 DEF Collect, TypeOK
  <2>2. /\ job'[d].status = job[d].status /\ job'[d].stats = [job[d].stats EXCEPT !.done = @ + 1]
    BY <1>3, <2>1 DEF JobRow
  <2>3. /\ job'[d].stats.done = job[d].stats.done + 1
        /\ Counted(job'[d].stats) = Counted(job[d].stats) + 1
        /\ job'[d].stats.snap = job[d].stats.snap
    BY <1>3, <2>2 DEF Stats, Counted
  <2>4. job'[d].stats.done <= Cardinality(Behind(d)) + 1 /\ Counted(job'[d].stats) <= idx[d] - 1 + 1
    BY <1>3, <1>4, <2>1, <2>3
  <2>5. idx[d] <= NumTargets BY <1>4, <2>1 DEF AtTarget
  <2> QED BY <1>4, <1>6, <2>1, <2>2, <2>3, <2>4, <2>5
<1>9. CASE TargetFails(d)
  <2>1. /\ pc[d] \in AtTarget /\ pc'[d] = "recovering" /\ idx'[d] = idx[d]
        /\ job'[d] = [row EXCEPT !.stats.errors = @ + 1]
    BY <1>9 DEF TargetFails, TypeOK, AtTarget
  <2>2. job'[d].status = row.status /\ job'[d].stats = [row.stats EXCEPT !.errors = @ + 1]
    BY <1>3, <2>1 DEF JobRow
  <2>3. /\ job'[d].stats.done = row.stats.done /\ job'[d].stats.snap = row.stats.snap
        /\ Counted(job'[d].stats) = Counted(row.stats) + 1
    BY <1>3, <2>2 DEF Stats, Counted
  <2>4. job'[d].stats.done <= Cardinality(Behind(d)) + 0 /\ Counted(job'[d].stats) <= idx[d] - 1 + 1
    BY <1>3, <2>3
  <2> QED BY <1>3, <1>4, <1>6, <2>1, <2>2, <2>3, <2>4
<1>10. CASE Unreachable(d) \/ ErrorNotSaved(d)
  <2>1. /\ UNCHANGED job /\ pc[d] \in {"collecting", "recovering"}
        /\ \/ pc'[d] = "progress" /\ pc[d] = "collecting" /\ idx'[d] = idx[d]
           \/ pc'[d] = "checking" /\ idx'[d] = idx[d] + 1
    BY <1>10 DEF Unreachable, ErrorNotSaved, TypeOK
  <2>2. idx[d] <= NumTargets BY <1>4, <2>1 DEF AtTarget
  <2>3. CASE pc'[d] = "progress" /\ pc[d] = "collecting" /\ idx'[d] = idx[d]
    BY <1>4, <1>6, <2>1, <2>2, <2>3
  <2>4. CASE pc'[d] = "checking" /\ idx'[d] = idx[d] + 1
    <3>1. /\ Cardinality(Behind(d)') \in Nat /\ Cardinality(Behind(d)) <= Cardinality(Behind(d)')
      BY <1>1, <1>3, <2>4, BehindGrows
    <3>2. /\ idx'[d] \in 1..(NumTargets + 1) /\ job'[d].stats.done <= Cardinality(Behind(d)')
          /\ Counted(job'[d].stats) <= idx'[d] - 1
      BY <1>3, <1>4, <2>1, <2>2, <2>4, <3>1
    <3>3. RunFits(d)' BY <1>2, <1>4, <2>1, <2>4, <3>1, <3>2 DEF RunFits, AtTarget
    <3> QED BY <1>1, <1>2, <1>3, <1>5, <2>4, <3>3, ReadFits
  <2> QED BY <2>1, <2>3, <2>4
<1> QED BY <1>7, <1>8, <1>9, <1>10

(* The commit of a target's turn. *)
LEMMA TargetSaveFits ==
  ASSUME TypeOK, TypeOK', SnapshotInv, AttemptsInv, OneAtATime, NEW d \in Dispatches, SaveTarget(d)
  PROVE  AttemptsInv'
<1> DEFINE i == idx[d]
           j == job[d].stats
<1>1. /\ pc[d] \in {"progress", "saving", "recovering"} /\ UNCHANGED <<job, snapshots>>
      /\ inventory' = IF pc[d] = "saving" THEN inventory \cup {i} ELSE inventory
      /\ pc'[d] = "checking" /\ idx'[d] = i + 1 /\ Update(job[d], base[d])
  BY DEF SaveTarget, TypeOK
<1>2. /\ pc[d] \in Waiting \cup Busy /\ pc'[d] \in Busy \ AtTarget /\ pc'[d] # "none"
      /\ pc[d] \in AtTarget /\ pc[d] \notin {"completing", "raised", "cancelling", "failing"}
  BY <1>1 DEF Busy, AtTarget
<1>3. /\ RunFits(d) /\ i \in Nat /\ Cardinality(Behind(d)) \in Nat /\ NumTargets \in Nat
      /\ j.done \in Nat /\ Counted(j) \in Nat
  BY <1>2, Underway
<1>4. /\ i \in 1..NumTargets
      /\ j.done <= Cardinality(Behind(d)) + (IF pc[d] = "saving" THEN 1 ELSE 0)
      /\ Counted(j) <= i
      /\ j.snap = NoRun
      /\ job[d].status # "completed"
  BY <1>1, <1>2, <1>3 DEF RunFits
<1>5. Cardinality(Behind(d)') \in Nat /\ j.done <= Cardinality(Behind(d)')
  <2>1. /\ Cardinality(Behind(d)') \in Nat /\ Cardinality(Behind(d)) <= Cardinality(Behind(d)')
    BY <1>1, <1>3, BehindGrows
  <2>2. CASE pc[d] = "saving"
    <3>1. Behind(d)' = Behind(d) \cup {i} /\ i \notin Behind(d)
      <4>1. inventory' = inventory \cup {i} /\ (idx'[d] - 1) = i BY <1>1, <1>3, <2>2
      <4>2. inventory \subseteq Nat /\ \A k \in Nat : k \in 1..i <=> k \in 1..(i - 1) \/ k = i
        BY <1>4 DEF TypeOK
      <4>3. i \in 1..i /\ i \notin 1..(i - 1) BY <1>4
      <4> QED BY <4>1, <4>2, <4>3 DEF Behind
    <3>2. IsFiniteSet(Behind(d)) BY Counts
    <3>3. Cardinality(Behind(d)') = Cardinality(Behind(d)) + 1
      BY <3>1, <3>2, FS_AddElement
    <3> QED BY <1>3, <1>4, <2>1, <2>2, <3>3
  <2>3. CASE pc[d] # "saving" BY <1>3, <1>4, <2>1, <2>3
  <2> QED BY <2>2, <2>3
<1>6. RunFits(d)'
  <2>1. idx'[d] \in 1..(NumTargets + 1) /\ idx'[d] - 1 = i BY <1>1, <1>3, <1>4
  <2>2. job'[d] = job[d] BY <1>1
  <2> QED BY <1>1, <1>2, <1>3, <1>4, <1>5, <2>1, <2>2 DEF RunFits
<1>7. /\ UNCHANGED reqVars
      /\ \A e \in Dispatches \ {d} : UNCHANGED <<pc[e], idx[e], job[e], base[e]>>
  BY OthersStay DEF RunStep
<1>8. i <= idx'[d] /\ inventory \subseteq inventory' BY <1>1, <1>3
<1>9. Fits(j)'
  <2>1. \A e \in Dispatches : Doing(e)' => e = d
    BY <1>2, <1>7, <1>8, AttemptFrame
  <2>2. /\ Cardinality(inventory') \in Nat /\ Cardinality(Behind(d)') <= Cardinality(inventory')
    <3>1. inventory' \subseteq 1..NumTargets BY DEF TypeOK
    <3>2. IsFiniteSet(1..NumTargets) BY ParameterAssumption, FS_Interval
    <3>3. IsFiniteSet(inventory') BY <3>1, <3>2, FS_Subset
    <3>4. Behind(d)' \subseteq inventory' BY DEF Behind
    <3> QED BY <3>3, <3>4, FS_Subset, FS_CardinalityType
  <2>3. j.done <= Cardinality(inventory') /\ Counted(j) <= NumTargets
    BY <1>3, <1>4, <1>5, <2>2
  <2>4. Counted(j) <= idx'[d] - 1 BY <1>1, <1>3, <1>4
  <2>5. j' = j BY <1>1
  <2> QED BY <1>4, <1>5, <2>1, <2>3, <2>4, <2>5 DEF Fits, Counted
<1> HIDE DEF i, j
<1>10. Fits(job[d].stats)' BY <1>9 DEF j
<1> QED BY <1>1, <1>2, <1>6, <1>7, <1>8, <1>10, SaveFits DEF i

(* What run() decides between and after the targets. *)
LEMMA ChecksFit ==
  ASSUME TypeOK, TypeOK', SnapshotInv, AttemptsInv, OneAtATime, NEW d \in Dispatches,
         CheckCancelled(d) \/ CheckDone(d) \/ Raise(d) \/ HandleException(d)
  PROVE  AttemptsInv'
<1>1. /\ UNCHANGED <<rowVars, idx>> /\ UNCHANGED <<row, inventory>>
      /\ pc[d] \in {"expanded", "checking", "stopping", "completing", "raised"}
      /\ pc'[d] \in {"stopping", "completing", "raised", "cancelling", "failing"}
  BY DEF CheckCancelled, CheckDone, Raise, HandleException, rowVars, TypeOK
<1>2. /\ pc[d] \in Waiting \cup Busy /\ pc'[d] \in Busy \ AtTarget /\ pc'[d] # "none"
      /\ pc[d] \notin {"saving", "recovering"}
  BY <1>1 DEF Busy, AtTarget
<1>3. /\ RunFits(d) /\ idx[d] \in Nat /\ job[d].stats \in Stats /\ job[d] \in JobRow
      /\ row.stats.snap = NoRun
  BY <1>2, Underway
<1>4. /\ idx'[d] = idx[d] /\ Behind(d)' = Behind(d)
      /\ idx[d] \in 1..(NumTargets + 1)
      /\ job[d].stats.done <= Cardinality(Behind(d)) + 0
      /\ Counted(job[d].stats) <= idx[d] - 1 + 0
  BY <1>1, <1>2, <1>3 DEF RunFits, Behind
<1>5. /\ UNCHANGED reqVars
      /\ \A e \in Dispatches \ {d} : UNCHANGED <<pc[e], idx[e], job[e], base[e]>>
  BY OthersStay DEF RunStep
<1>6. ASSUME job'[d].stats.done = job[d].stats.done, Counted(job'[d].stats) = Counted(job[d].stats),
             pc'[d] = "stopping" => job'[d].stats.snap = NoRun,
             pc'[d] = "completing" => job'[d].stats.snap = d /\ base'[d].stats.snap = NoRun,
             pc'[d] \in {"stopping", "cancelling", "failing"} => job'[d].status # "completed"
      PROVE  AttemptsInv'
  <2>1. RunFits(d)' BY <1>1, <1>2, <1>4, <1>6 DEF RunFits
  <2> QED BY <1>1, <1>2, <1>3, <1>4, <1>5, <2>1, ReadFits
<1>7. CASE CheckCancelled(d) \/ HandleException(d)
  <2>1. /\ \/ job'[d] = CancelledCopy(job[d])
           \/ job'[d] = [job[d] EXCEPT !.status = "failed", !.finished = TRUE]
        /\ \/ pc[d] = "checking" /\ pc'[d] = "stopping"
           \/ pc[d] = "raised" /\ pc'[d] \in {"cancelling", "failing"}
    BY <1>7 DEF CheckCancelled, HandleException, TypeOK
  <2>2. job'[d].stats = job[d].stats /\ job'[d].status \in {"cancelled", "failed"}
    BY <1>3, <2>1 DEF CancelledCopy, JobRow
  <2>3. pc[d] = "checking" => job[d].stats.snap = NoRun BY <1>3 DEF RunFits
  <2> QED BY <1>6, <2>1, <2>2, <2>3
<1>8. CASE CheckDone(d)
  <2>1. /\ pc'[d] = "completing" /\ base'[d] = row
        /\ job'[d] = [job[d] EXCEPT !.status = "completed", !.finished = TRUE, !.stats.snap = d]
    BY <1>8 DEF CheckDone, TypeOK
  <2>2. job'[d].stats = [job[d].stats EXCEPT !.snap = d] BY <1>3, <2>1 DEF JobRow
  <2>3. /\ job'[d].stats.done = job[d].stats.done /\ Counted(job'[d].stats) = Counted(job[d].stats)
        /\ job'[d].stats.snap = d
    BY <1>3, <2>2 DEF Stats, Counted
  <2> QED BY <1>3, <1>6, <2>1, <2>3
<1>9. CASE Raise(d)
  <2>1. pc'[d] = "raised" /\ UNCHANGED job BY <1>9 DEF Raise, TypeOK
  <2> QED BY <1>6, <2>1
<1> QED BY <1>7, <1>8, <1>9

LEMMA FinishFits ==
  ASSUME TypeOK, TypeOK', SnapshotInv, AttemptsInv, OneAtATime, NEW d \in Dispatches, Finish(d)
  PROVE  AttemptsInv'
<1>1. PICK how \in Ended :
        /\ pc[d] \in {"stopping", "cancelling", "completing", "failing"}
        /\ Update(job[d], base[d]) /\ CloseRun(d, how)
        /\ UNCHANGED <<inventory, reqVars>>
        /\ snapshots' = IF pc[d] = "completing" THEN snapshots \cup {d} ELSE snapshots
  BY DEF Finish, Ended
<1>2. pc[d] \in Waiting \cup Busy /\ pc[d] \notin {"saving", "recovering"} BY <1>1 DEF Busy
<1>3. /\ RunFits(d) /\ row.status # "completed" /\ row.stats.snap = NoRun
      /\ row \in JobRow /\ job[d] \in JobRow /\ base[d] \in JobRow /\ NoRun # d
  BY <1>2, Underway
<1>4. row'.stats \in {row.stats, job[d].stats} /\ row'.status \in {row.status, job[d].status}
  BY <1>1, <1>3, UpdateColumns, UpdateKeepsRow
<1>5. row'.status = "completed" => row'.stats.snap \in snapshots'
  <2>1. CASE pc[d] = "completing"
    <3>1. job[d].stats.snap = d /\ base[d].stats.snap = NoRun BY <1>3, <2>1 DEF RunFits
    <3>2. row'.stats = job[d].stats BY <1>1, <1>3, <3>1, UpdateColumns
    <3> QED BY <1>1, <2>1, <3>1, <3>2
  <2>2. CASE pc[d] # "completing"
    <3>1. job[d].status # "completed" BY <1>1, <1>3, <2>2 DEF RunFits
    <3> QED BY <1>3, <1>4, <3>1
  <2> QED BY <2>1, <2>2
<1> QED BY <1>1, <1>2, <1>4, <1>5, EndFits

(* A run that dies or gives up stores nothing. *)
LEMMA DeathFits ==
  ASSUME TypeOK, TypeOK', SnapshotInv, AttemptsInv, OneAtATime, NEW d \in Dispatches,
         pc[d] \in Waiting \cup Busy, CloseRun(d, "dead"), UNCHANGED <<rowVars, reqVars>>
  PROVE  AttemptsInv'
<1>1. UNCHANGED <<row, inventory, snapshots>> BY DEF rowVars
<1>2. row.status # "completed" BY Underway
<1>3. "dead" \in Ended BY DEF Ended
<1> QED BY <1>1, <1>2, <1>3, EndFits
-----------------------------------------------------------------------------
LEMMA AttemptsStep ==
  ASSUME TypeOK, TypeOK', SnapshotInv, AttemptsInv, OneAtATime, [Next]_vars
  PROVE  AttemptsInv'
<1>1. CASE UNCHANGED vars
  <2>1. \A d \in Dispatches : Doing(d)' <=> Doing(d) BY <1>1 DEF vars, Doing
  <2>2. \A d \in Dispatches : RunFits(d)' BY <1>1 DEF vars, RunFits, Behind, AttemptsInv
  <2>3. \A st : Fits(st)' <=> Fits(st) BY <1>1, <2>1 DEF vars, Fits, Behind
  <2>4. RowFits' BY <1>1, <2>1, <2>3 DEF vars, RowFits, AttemptsInv
  <2>5. RequestsFit' /\ RequestPlaces'
    BY <1>1, <2>3 DEF vars, RequestsFit, RequestPlaces, AttemptsInv
  <2> QED BY <2>2, <2>4, <2>5 DEF AttemptsInv
<1>2. ASSUME NEW q \in Requests, RequestStep(q) PROVE AttemptsInv'
  <2>1. CASE Enqueue \/ EnqueueFails \/ SaveDispatch BY <2>1, StartRequestFits
  <2>2. CASE q \in Cancellers /\ SaveCancel(q) BY <2>2, OtherRequestFits
  <2>3. CASE q \in Retriers /\ SaveRetry(q) BY <2>3, RetryFits
  <2> QED BY <1>2, <2>1, <2>2, <2>3 DEF RequestStep
<1>3. ASSUME NEW q \in Requests,
             CrashRequest(q) \/ (q \in Cancellers /\ ReadCancel(q)) \/ (q \in Retriers /\ ReadRetry(q))
      PROVE  AttemptsInv'
  BY <1>3, OtherRequestFits
<1>4. ASSUME NEW d \in Dispatches, RunStep(d) PROVE AttemptsInv'
  <2>1. CASE GiveUp(d)
    <3>1. pc[d] \in Waiting \cup Busy /\ CloseRun(d, "dead") /\ UNCHANGED <<rowVars, reqVars>>
      BY <2>1 DEF GiveUp, Busy
    <3> QED BY <3>1, DeathFits
  <2> QED BY <1>4, <2>1, BeginFits, StartFits, TurnFits, TargetSaveFits, ChecksFit, FinishFits
         DEF RunStep
<1>5. ASSUME NEW d \in Dispatches, CrashRun(d) \/ (d = Start /\ Terminate) PROVE AttemptsInv'
  <2>1. pc[d] \in Waiting \cup Busy /\ CloseRun(d, "dead") /\ UNCHANGED <<rowVars, reqVars>>
    BY <1>5 DEF CrashRun, Terminate, Waiting
  <2> QED BY <2>1, DeathFits
<1>6. Start \in Dispatches BY DEF Dispatches
<1> QED BY <1>1, <1>2, <1>3, <1>4, <1>5, <1>6 DEF Next

LEMMA AttemptsStart ==
  ASSUME TypeOK, Init
  PROVE  AttemptsInv
<1>1. /\ row = NewJob /\ inventory = {} /\ snapshots = {}
      /\ \A d \in Dispatches : pc[d] = "none" /\ idx[d] = 1 /\ job[d] = NewJob
      /\ \A q \in Requests : rjob[q] = NewJob /\ rbase[q] = NewJob
                          /\ rpc[q] = IF q = Start THEN "enqueue" ELSE "idle"
  BY DEF Init
<1>2. /\ NewJob.stats = NoStats /\ NewJob.status = "pending"
      /\ NoStats.done = 0 /\ NoStats.snap = NoRun /\ Counted(NoStats) = 0
  BY DEF NewJob, NoStats, Counted
<1>3. "none" \notin Busy \cup AtTarget BY DEF Busy, AtTarget
<1>4. ASSUME NEW d \in Dispatches PROVE RunFits(d)
  <2>1. Behind(d) = {} BY <1>1 DEF Behind
  <2>2. Cardinality(Behind(d)) = 0 BY <2>1, FS_EmptySet
  <2>3. idx[d] = 1 /\ pc[d] = "none" /\ job[d] = NewJob BY <1>1
  <2> QED BY <1>2, <1>3, <2>2, <2>3, ParameterAssumption DEF RunFits
<1>5. Fits(NoStats) BY <1>4, NothingFits
<1>6. RowFits BY <1>1, <1>2, <1>5 DEF RowFits
<1>7. RequestsFit BY <1>1, <1>2, <1>5, ParameterAssumption DEF RequestsFit
<1>8. RequestPlaces BY <1>1, ParameterAssumption DEF RequestPlaces
<1> QED BY <1>4, <1>6, <1>7, <1>8 DEF AttemptsInv

\* However often a job is retried, and however its cancels, failed targets,
\* early pickup, SIGTERM and crashes interleave with its runs, as long as an
\* attempt begins when the one before has ended the counters of the job never
\* claim more than what is committed (ReportIsBacked): nothing of an earlier
\* attempt comes back.
THEOREM RetriesAreBacked == Spec /\ []OneAtATime => []ReportIsBacked
<1>1. TypeOK /\ AttemptsInv => ReportIsBacked
  BY DEF AttemptsInv, RowFits, Fits, ReportIsBacked, Counted
<1>2. Init /\ TypeOK => AttemptsInv BY AttemptsStart
<1>3. TypeOK /\ TypeOK' /\ SnapshotInv /\ AttemptsInv /\ OneAtATime /\ [Next]_vars => AttemptsInv'
  BY AttemptsStep
<1> QED BY <1>1, <1>2, <1>3, TypeCorrect, SnapshotInvHolds, PTL DEF Spec
=============================================================================
