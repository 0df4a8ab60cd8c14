----------------------------- MODULE MetricsSweep -----------------------------
(* collect_metrics: the sweep that polls every device, started by the beat  *)
(* of the scheduler and, inside the API process, by POST collect-now.  One  *)
(* transaction holds all a sweep writes, from its first SELECT to the end:  *)
(* the metrics, one poll log for each device, the log of the sweep, and the *)
(* devices it has enriched.  Sweeps may overlap, and discovery changes the  *)
(* order of the devices, which is that of their hostnames.                  *)
EXTENDS Naturals, Sequences, FiniteSets

CONSTANTS
  Sweeps,       \* runs; each happens once
  SweepDevices,
  NoAddressSets, \* which devices can be without management_ip
  ThinDevices,  \* those discovery knew only as a stub at first
  Orders,       \* the orders their hostnames can have
  MaxRenames,   \* bound: times discovery changes the order of hostnames
  NoSweep       \* a run that has not begun

ASSUME SweepAssumption ==
  /\ NoAddressSets \subseteq SUBSET SweepDevices /\ ThinDevices \subseteq SweepDevices
  /\ IsFiniteSet(SweepDevices) /\ MaxRenames \in Nat
  /\ \A o \in Orders : /\ o \in [1..Cardinality(SweepDevices) -> SweepDevices]
                       /\ \A d \in SweepDevices : \E i \in DOMAIN o : o[i] = d

VARIABLES
  noAddress, \* devices without management_ip
  order,    \* devices by hostname
  thin,     \* devices whose committed row _needs_identity_enrichment
  sweep,    \* the transaction of each run
  metrics,  \* device_metrics: <<run, device>>
  polls,    \* metric_poll_logs of a device: [run, device, status]
  summary,  \* metric_poll_logs of a sweep: [run, status, written]
  renames

sweepVars == <<noAddress, order, thin, sweep, metrics, polls, summary, renames>>
tables == <<noAddress, thin, metrics, polls, summary>>

SweepInit ==
  /\ noAddress \in NoAddressSets /\ order \in Orders /\ thin = ThinDevices
  /\ sweep = [s \in Sweeps |-> NoSweep]
  /\ metrics = {} /\ polls = {} /\ summary = {} /\ renames = 0

Active(s) == sweep[s] # NoSweep /\ sweep[s].step # "ended"
At(s, step) == Active(s) /\ sweep[s].step = step
Current(s) == Head(sweep[s].todo)

Goes(s, new) == sweep' = [sweep EXCEPT ![s] = new] /\ UNCHANGED <<order, tables, renames>>
Ended == [step |-> "ended", todo |-> <<>>, thin |-> {}, dirty |-> {}, locked |-> {},
          enriched |-> {}, metrics |-> {}, polls |-> {}, ok |-> 0, errors |-> 0]
ASSUME NotBegunAssumption == NoSweep # Ended

(* Profiles, links, interface counts and devices are read; decrypting a     *)
(* global profile may fail and end the run.                                 *)
BeginSweep(s) ==
  /\ sweep[s] = NoSweep
  /\ \/ Goes(s, [Ended EXCEPT !.step = "device", !.todo = order, !.thin = thin])
     \/ Goes(s, Ended)

(* The log of the device is added; the loop goes on.                        *)
Polled(s, status) ==
  [sweep[s] EXCEPT !.step = "device", !.todo = Tail(@),
     !.polls = @ \cup {[run |-> s, device |-> Current(s), status |-> status]}]

Skip(s) ==
  /\ At(s, "device") /\ sweep[s].todo # <<>> /\ Current(s) \in noAddress
  /\ Goes(s, Polled(s, "skipped"))

\* Mutant: the failure is logged and not counted.
DeviceErrorUncounted(s) == Polled(s, "error")

DeviceError(s) == [Polled(s, "error") EXCEPT !.errors = @ + 1]

(* _SnmpProbeFailed, or links that cannot be read or decrypted. *)
ProbeFails(s) ==
  /\ At(s, "device") /\ sweep[s].todo # <<>> /\ Current(s) \notin noAddress
  /\ Goes(s, DeviceError(s))

(* An answer: the attributes of the row change.  With a profile the         *)
(* binding's SELECT flushes them; without one nothing is flushed yet.       *)
ProbeAnswers(s) ==
  /\ At(s, "device") /\ sweep[s].todo # <<>> /\ Current(s) \notin noAddress
  /\ \E next \in {"bind", "enrich"}, changed \in BOOLEAN :
       Goes(s, [sweep[s] EXCEPT !.step = next,
                  !.dirty = IF changed THEN @ \cup {Current(s)} ELSE @])

(* An UPDATE of a flush waits for a row that another transaction has        *)
(* updated, and keeps it locked until its own ends.                         *)
Flushing(s) == At(s, "bind") \/ (At(s, "device") /\ sweep[s].todo = <<>>)
LockRow(s) ==
  /\ Flushing(s)
  /\ \E d \in sweep[s].dirty \ sweep[s].locked :
       /\ \A t \in Sweeps \ {s} : sweep[t] # NoSweep => d \notin sweep[t].locked
       /\ Goes(s, [sweep[s] EXCEPT !.locked = @ \cup {d}])
RowsLocked(s) == Flushing(s) /\ sweep[s].dirty \subseteq sweep[s].locked

Bind(s) == At(s, "bind") /\ RowsLocked(s) /\ Goes(s, [sweep[s] EXCEPT !.step = "enrich"])

(* _enrich_device_identity for a device that was thin when the sweep began: *)
(* new identity and interfaces, nothing, or an exception that is swallowed. *)
Enrich(s) ==
  /\ At(s, "enrich")
  /\ \E done \in BOOLEAN :
       /\ done => Current(s) \in sweep[s].thin
       /\ Goes(s, [sweep[s] EXCEPT !.step = "collect",
                     !.enriched = IF done THEN @ \cup {Current(s)} ELSE @,
                     !.dirty = IF done THEN @ \cup {Current(s)} ELSE @])

(* The collector raises: what the device was enriched with stays. *)
CollectFails(s) == At(s, "collect") /\ Goes(s, DeviceError(s))

(* A sample; its log says ok, or partial without core metrics: "stored"     *)
(* here.  last_seen_at changes.                                             *)
Store(s) ==
  /\ At(s, "collect")
  /\ Goes(s, [Polled(s, "stored") EXCEPT !.ok = @ + 1, !.dirty = @ \cup {Current(s)},
                !.metrics = @ \cup {<<s, Current(s)>>}])

SweepStatus(s) == CASE sweep[s].errors = 0 -> "ok"
                    [] sweep[s].errors > 0 /\ sweep[s].ok > 0 -> "partial"
                    [] OTHER -> "error"

(* The log of the sweep, and the commit of everything. *)
CommitSweep(s) ==
  /\ At(s, "device") /\ sweep[s].todo = <<>> /\ RowsLocked(s)
  /\ metrics' = metrics \cup sweep[s].metrics
  /\ polls' = polls \cup sweep[s].polls
  /\ summary' = summary \cup {[run |-> s, status |-> SweepStatus(s), written |-> sweep[s].ok]}
  /\ thin' = thin \ sweep[s].enriched
  /\ sweep' = [sweep EXCEPT ![s] = Ended]
  /\ UNCHANGED <<noAddress, order, renames>>

\* Mutant: the session is left open after an exception.
LoseSweepOpen(s) == Active(s) /\ Goes(s, [Ended EXCEPT !.locked = sweep[s].locked])

(* A statement fails, or the process dies.  The rollback expires the        *)
(* device, so the handler itself raises: the whole sweep is lost.           *)
LoseSweep(s) == Active(s) /\ Goes(s, Ended)

(* PostgreSQL ends one of the sweeps that wait for each other in a circle. *)
WaitsFor(s, t) ==
  Flushing(s) /\ Flushing(t) /\ (sweep[s].dirty \ sweep[s].locked) \cap sweep[t].locked # {}
Victim(s) ==
  \E cycle \in SUBSET Sweeps : \E next \in [cycle -> cycle] :
    /\ s \in cycle
    /\ \A t \in cycle : WaitsFor(t, next[t])
    /\ \A t, u \in cycle : next[t] = next[u] => t = u
SweepDeadlock(s) == Victim(s) /\ LoseSweep(s)

(* Discovery commits other hostnames. *)
Rediscover ==
  /\ renames < MaxRenames /\ renames' = renames + 1
  /\ order' \in Orders \ {order}
  /\ UNCHANGED <<noAddress, thin, sweep, metrics, polls, summary>>

SweepSteps(s) ==
  \/ Skip(s) \/ ProbeFails(s) \/ ProbeAnswers(s) \/ LockRow(s) \/ Bind(s) \/ Enrich(s)
  \/ CollectFails(s) \/ Store(s) \/ CommitSweep(s) \/ SweepDeadlock(s)

SweepNext == Rediscover \/ \E s \in Sweeps : BeginSweep(s) \/ SweepSteps(s) \/ LoseSweep(s)

(* Every call of a sweep has a timeout, and a lock wait ends. *)
SweepFairness == \A s \in Sweeps : WF_sweepVars(SweepSteps(s))
SweepSpec == SweepInit /\ [][SweepNext]_sweepVars /\ SweepFairness

-----------------------------------------------------------------------------
(* What a sweep has committed fits together, and a lost one leaves nothing: *)
(* one summary, one log for each device, a metric exactly where the log     *)
(* says that one was stored, the number of them, and a status that tells    *)
(* whether any, some or no device failed.                                   *)
Stored(s) == {p \in polls : p.run = s /\ p.status = "stored"}
Failed(s) == {p \in polls : p.run = s /\ p.status = "error"}
RunConsistent ==
  /\ \A x \in metrics : \E y \in summary : y.run = x[1]
  /\ \A p \in polls : \E y \in summary : y.run = p.run
  /\ \A y \in summary :
       /\ \A z \in summary : z.run = y.run => z = y
       /\ \A d \in SweepDevices : Cardinality({p \in polls : p.run = y.run /\ p.device = d}) = 1
       /\ {x \in metrics : x[1] = y.run} = {<<y.run, p.device>> : p \in Stored(y.run)}
       /\ y.written = Cardinality(Stored(y.run))
       /\ y.status = "ok" <=> Failed(y.run) = {}
       /\ y.status = "partial" <=> Failed(y.run) # {} /\ Stored(y.run) # {}

(* A sweep that has begun ends, though sweeps lock the same rows in other   *)
(* orders.                                                                  *)
SweepsEnd == \A s \in Sweeps : Active(s) ~> ~Active(s)
=============================================================================
