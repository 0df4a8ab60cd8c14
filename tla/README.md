# A TLA+ model of NetAtlas

NetAtlas discovers the devices of a network, keeps an inventory and its topology, collects
metrics and syslog, and raises alerts.  It is a FastAPI application with Celery workers, a syslog
receiver, PostgreSQL (READ COMMITTED) through SQLAlchemy's async sessions, RabbitMQ and Redis.
The code's difficulty is not in its algorithms.  It is in sessions that read a row, work for
seconds or minutes on a private copy, and write the copy back while requests, workers and other
sessions do the same.  That is what these modules model, check with TLC and prove with TLAPS.

Paths are relative to `src/`; `NB` is `backend/src/netatlas`.

## Inventory

| Component | State | Operations | What is hard, and what makes it correct |
|---|---|---|---|
| Discovery jobs (`NB/api/routes/ops.py`, `NB/application/use_cases/discovery.py`, `NB/workers/celery_app.py`, job and snapshot repositories) | a row of `discovery_jobs` (status, times, config JSON, stats JSON), `snapshots`; each session's copy | start, cancel, retry; the run: started, targets, cancel check, probe, collect, save, roll back, snapshot, complete, fail | stale copies, SIGTERM, broker failure, failed flushes; one outcome, exact counters, COMPLETED exactly with a snapshot, every run ends |
| Inventory (`NB/infrastructure/persistence/repositories`, discovery 229-414, 532-726) | devices, interfaces, links, neighbours, FDB, ARP, VLANs, routes | upsert by identity, replace interfaces by name, upsert link, replace adjacency, materialise links, unknown devices | check-then-insert without unique keys, cascades that delete links, order of targets; one device per identity, stable interface ids, links between existing interfaces |
| Triggers and alerts (`NB/infrastructure/observability/trigger_engine.py`, `dispatcher.py`) | `trigger_definitions`, `trigger_events`, `alert_notifications` | periodic sweep, evaluation of a syslog message, notify, CRUD, acknowledge | overlapping sweeps and messages, mail sent inside a transaction, row locks held while sending; status follows events, events alternate, what was sent is recorded |
| Syslog (`syslog_server.py`, `ingest.py`, `syslog_parser.py`) | UDP queue of 10000, a buffer per TCP connection, `observability_events`, correlation hits | receive, parse, ingest, correlate, purge | queue at its limit, an exception in the middle of a stream, bursts counted at boundaries |
| Metrics (`celery_app.py` 372-690, `metrics_history.py`) | `device_metrics`, `metric_poll_logs`, device rows | periodic sweep, collect-now, enrichment, series | one transaction for all devices, two sweeps at once, counter resets and gaps |
| Authentication (`NB/api/routes/auth.py`, `NB/api/deps`, `NB/api/middleware`) | users, refresh tokens, a deque of login times per address | login, refresh, logout, rate limit | rotation read then written, sliding window boundary |
| Credentials (`credential_resolver.py`, `vault.py`) | profiles, bindings to devices and seeds | resolve, bind, bulk delete | read-then-insert from several runs, order of preference |
| Topology and intelligence (`NB/domain/services`, `NB/api/routes/intelligence.py`, `topology.py`) | none, or the role columns of a device | graph, cable path, link health, snapshot diff, role detection and override, layout, endpoint trace | BFS over a multigraph, tables read at different moments, manual role against automatic detection |
| IPAM, seeds, settings (`ops.py`) | prefixes, addresses, seeds | CRUD | check-then-insert, decided by unique constraints |
| Installation and start-up (`install.sh`, `update.sh`, `deploy/common.sh`, `docker-compose.yml`, `NB/bootstrap.py`) | the checkout, `.env`, the database volume, containers, default rows | install, update, recreate containers, patch the schema, seed | scripts that die and are repeated, secrets that exist once; saved profiles stay readable, a completed update runs the new release |
| Collectors, connectors, export, frontend | none of their own | device and file I/O, formatting | their failures are inputs of the components above |

How they interact: `start_job` commits the row, then publishes a Celery message (or, when the
broker refuses, adds a background task); the worker's run and the requests meet only in the row.
Celery beat starts trigger sweeps, metric sweeps and the purge.  The syslog receiver evaluates
triggers in the transaction in which it stores a message.  Discovery, metric sweeps and
collect-now write the same device and interface rows, which triggers, syslog and the API read.

`PROJECT.json` lists the hazards of each component at the line where they bite, with the property
that covers each.

## Modules

Each component has a module; its comments say what a row, a session and an action stand for, and
`map` in `PROJECT.json` ties each definition to its lines.  `MC*` modules give the constants of
TLC's instances.

| Module | Component | Checked by | Proofs |
|---|---|---|---|
| `DiscoveryJob` | a job, its requests and runs | `job_*` | `DiscoveryJobProofs`, `DiscoveryRetryProofs` |
| `DeviceInventory` | devices, interfaces and links under runs that overlap | `inventory` | `DeviceInventoryProofs` |
| `TriggerAlerts`, `AlertRecord` | triggers, sessions that evaluate them, alerts; what their record promises | `alerts`, `alerts_end` | `TriggerAlertsProofs` |
| `TokenRotation` | login, refresh, logout, access tokens, RBAC | `access` | `AccessProofs` |
| `LoginRateLimit`, `SlidingWindow` | the login limiter and what it promises | `access` | `AccessProofs` |
| `CredentialBinding` | profiles of devices and seeds | `access` | `AccessProofs` |
| `CredentialRotation` | the order in which profiles are tried | `access`, `cred_blocked` | `AccessProofs` |
| `Deployment` | install and update scripts, start-up of the API | `access` | `AccessProofs` |
| `RoleDetection` | role scores, detection, override, metadata | `topology` | `TopologyProofs` |
| `CablePath` | cable path, path to the core | `topology` | `TopologyProofs` |
| `NetworkViews` | graph, layout, links, cable map | `topology` | `TopologyProofs` |
| `LinkHealth` | health of a link | `topology` | `TopologyProofs` |
| `SnapshotDiff` | snapshots and their comparison | `topology` | `TopologyProofs` |
| `EndpointTrace` | where is a MAC address, an address, a host | `topology` | `TopologyProofs` |
| `SyslogReceiver` | UDP queue, TCP streams, ingest, bursts, purge | `telemetry` | `TelemetryProofs` |
| `MetricsSweep` | the sweep and collect-now | `telemetry` | `TelemetryProofs` |
| `MetricSeries` | rates from counters | `telemetry` | `TelemetryProofs` |

`MCAccess`, `MCTopology` and `MCTelemetry` put components into one run that share no state but
rows that others write, and whose modules let those rows change as they like.  A variable `part`
names the component that a behaviour is of; the others stay at their start.

### DiscoveryJob

One job, the requests about it and its runs.

* `row` is the committed row; `job`/`base` and `rjob`/`rbase` are each run's and each request's
  `DiscoveryJob` dataclass and the row as its session last saw it.  `config` keeps whether a task
  id is stored and the cancel flag, `stats` keeps scanned, inventoried, errors and snapshot id.
* `Update` is `SqlAlchemyDiscoveryJobRepository.update` with the commit that follows it.  `update`
  assigns *every* field of the copy; SQLAlchemy writes the columns that differ from the loaded
  instance.  That instance is normally read anew (the identity map is weak and `get` keeps no
  reference), so the stale copy wins; if the row changes between that read and the flush, columns
  the copy agrees with stay as the other session wrote them.  Both cases are in the model
  (`loaded`).
* A run is a program counter over the steps of `run()`: between two steps other sessions may
  commit.  `SaveTarget` is the `_emit` at the end of a target's turn, whose callback commits the
  inventory and the counters together.  `TargetFails` is the rollback and reload, `ErrorNotSaved`
  the inner handler, `Raise`/`HandleException`/`GiveUp` the outer one with its missing rollback.
* `Terminate` is the SIGTERM of `cancel_job`'s revoke, `CrashRun` and `CrashRequest` a process
  that dies.  The worker acknowledges messages early (Celery's default, `celery_app.conf` does not
  change it), so a lost run is not delivered again.
* `EarlyPickup` says whether the worker may start before `start_job`'s second commit.  Nothing in
  the code prevents it; with it, the stale second commit can turn a cancelled or finished job back
  to PENDING.  The properties that hold even so are checked with it, the others state their
  assumption by setting it to FALSE.
* A target is one step from its probe to its save.  What it stores is the set `inventory` of
  targets here, and the tables of `DeviceInventory` there.

### DeviceInventory

A session is a run of discovery over its targets; a turn, from the upsert of the device to the
commit of the progress callback, is one transaction.  `Select` is the lookup of
`upsert_by_identity`, `Upsert` its INSERT or UPDATE, which needs the lock of the row; `Store` is
`replace_for_device` and what follows it, `Connect` one neighbour of `_materialize_links`, with
the stub it upserts, `SkipNeighbor` a neighbour that is passed over, `Commit` the end.  `tx` holds what is written and not committed, `Written`
the columns SQLAlchemy puts into an UPDATE.  `Ambiguous` is `scalar_one_or_none` with two rows,
`Deadlock` PostgreSQL's victim, `Fail` any exception; each rolls the turn back and the run goes on.

Two devices with one address do occur in this model: nothing in the schema forbids them.  Two
unique constraints do exist, and `NoUniqueViolation` says they never strike, because every turn
updates the device, and so locks it, before it touches its interfaces or links.

### TriggerAlerts

Triggers, the sessions that evaluate them and their alerts.

* A session is one transaction: `_evaluate_triggers` of Celery, or `_ingest_and_evaluate` of the
  syslog receiver.  `Load` reads the enabled triggers once (`held`); `Changed`/`Unchanged`/
  `NoMatch` is the evaluation of one trigger and the comparison of `_apply_state`; `Flush` the
  UPDATE and INSERT, for which it needs the row (`lock`); `Send` one destination of
  `notify_trigger`; `Commit` the end.  `Close` releases the locks.
* The condition of a polled trigger (metric, interface, absence, device status, correlation count)
  is a predicate that changes at any time and is read when the trigger is evaluated.
* `Gone` is the flush of a row that was deleted meanwhile, `Deadlock` PostgreSQL's choice of a
  victim, `Fail` any exception of an evaluation or the death of the process.
* `DeleteTrigger` deletes the events by cascade; `alert_notifications` has no `ON DELETE`, so a
  trigger with a recorded alert is not deleted.
* `AlertRecord` is what a reader of the tables may rely on, without sessions, locks and mail: a
  session takes part once, in one step, in which each trigger it changes gets its status, one event
  and one notification for each destination.  `ImplementsRecord` is the refinement; only `exists`
  has another name there (`rows`).

### Access

* `TokenRotation`: a request reads the refresh token, the user and the roles by statements of
  their own and writes at its commit.  `tokens` are rows; `access` are the tokens clients hold.
  `seen` records which tokens were there when a request read its own.
* `LoginRateLimit`: `hits` is the deque of an address; an attempt has no `await` in it and is one
  step.  `passed` is a history of all that was let through.  `SlidingWindow` is the abstract
  limiter over the history; `ImplementsSlidingWindow` is the refinement.
* `CredentialBinding`: sessions that bind the profile that answered, replace the profiles of a
  device, or assign profiles to everything, each with its reads, flush and commit; the routes for
  profiles and seeds between them.  `want` is the set of places of the list whose link is to be
  inserted, so that an id given twice is inserted twice, as the code does.
* `CredentialRotation`: `AllIds`, `Candidates` and `MergedCandidates` are the three functions that
  make and merge the list of candidates; a device answers one credential, an answer may be lost,
  and a profile may be deleted or undecryptable.  A list that is filtered keeps its places and has
  gaps (a function on some of its indices): what is tried first is what has the least place.
* `Deployment`: one action per step of a script that changes the disk, `.env` or a container.
  `Stops` ends a script anywhere.  `ApiDies` restarts the API with the environment its container
  was made with, not with the one on disk.

### Topology

* `RoleDetection`: detectors load all devices and work on them one by one; editors override a role
  or save metadata.  `Flushed` is an UPDATE of the changed columns.  `Score` is the point table.
* `CablePath`: one `Visit` per round of the BFS, one `WalkBack` per hop.  The tables are read
  without an order, so the order of neighbours and the choice among double links are open.  The
  reference for a shortest path is not a search: `Chain(n, d, e)` says that some n devices are
  linked one to the next from `d` to `e`.
* `NetworkViews`: a request reads its tables one after the other, in the order of its route.
* `LinkHealth`: readings get worse between two requests.
* `SnapshotDiff`: three reads make a snapshot; `ChangesOf` is the comparison by key.
* `EndpointTrace`: one action per table, each depending on what was found before.

### Telemetry

* `SyslogReceiver`: `queue` is the asyncio queue, `buffer` that of a connection; a stream is cut
  into chunks anywhere.  A byte is an octet of interest: a line feed, a NUL, a byte of a message.
  The reference for framing, `Framed`, reads the whole stream at once: the messages are the text
  before each line feed that ends a line with something in it.
* `MetricsSweep`: one transaction from the first SELECT to the end; devices are enriched, which
  takes their locks in the order of host names.
* `MetricSeries`: a walk may return one direction or some interfaces only, counters wrap, devices
  restart, and two samples may carry one time.

### Abstractions

Messages, names, credentials and payloads are members of small sets.  Wording, logging and the
responses of read-only endpoints are left out unless a property is about them.  A commit is atomic
and durable; statements see what is committed when they run.

## Runs

Bounds are small because the interesting cases need few actors: two writers of one row, one of
them stale, are enough for a lost update, two locks for a deadlock.

| Run | Instance | Shows |
|---|---|---|
| `job_retry` | one target, a cancel, a retry, one crash | `TypeOK`; `SnapshotIffCompleted`: a snapshot is committed exactly for the runs that committed COMPLETED; `CompletedHasSnapshot`: a row that reads COMPLETED has one, whatever was written over it.  Two runs and four sessions share the row here |
| `job_early` | two targets, two cancels, a retry, early pickup, one crash | `ReportIsBacked`: the counters never claim more than is committed.  Two targets so that a failed one can follow a good one and the reverse.  The constraint `OneAtATime` leaves out retries that overlap with the run before, whose counters do mix |
| `job_orderly` | two targets, two cancels, one crash, fairness | `ReportIsExact`, `QuiescentIsTerminal`, `RunsEnd`, `Settles`: a job dispatched once, whose start request returned before the worker began, ends with a status that stays and counters that are exact |
| `alerts` | a polled and a syslog trigger, two sweeps, a message, two destinations, two changes of the condition, one edit, one failure | `StatusIsLastEvent`; `CommittedIsNotified`: every committed event has a notification for each destination and the reverse; `ImplementsRecord`: a session is one step of `AlertRecord` |
| `alerts_end` | two syslog triggers, two messages, one edit, one failure, fairness | `SessionsEnd`: sessions end although they lock the same rows in different orders.  The deadlock occurs here |
| `inventory` | two runs over two addresses in opposite orders, three reports of each (by LLDP, FDB and ARP, nothing usable, one serial number for both), one failure, fairness | `NoUniqueViolation`, `LinkEndsExist`, `IdentityKept` (a stub takes nothing back), `StableIds` (an interface keeps its id unless the turn of its own device does not list it), `RunsEnd` |
| `access` | two requests, three tokens, a clock to 2; two clients with two attempts in a window of 2; a binder, a PUT and an assignment over two profiles; two profiles of eight kinds; two releases, two deaths | `OverlapsOnly`: a refresh token is spent once, but for requests that overlap; `StalenessBounded`: rights that were taken away end with the access token; `ImplementsSlidingWindow`; `SetReplaces`, `AssignReaches`; `SeedProfileFirst`; `SecretsReadable`, `CompleteIsCurrent` |
| `topology` | two devices, a detector and an editor; networks of five devices with cycles, a double link and a loop; three commits during a request; both ends of a link; two snapshots; eight rows about two endpoints | `ManualSticks`, `MetadataKept`; `ShortestPath`, `NotFoundIsCut`; `CableEndsNamed`, `LayoutPlacesEach`; `HealthNeverImproves`; `DiffRebuilds`; `TraceIsGrounded` |
| `telemetry` | a stream of seven bytes in chunks of up to three, two datagrams, a queue of one; two sweeps of two devices in both orders; two interfaces, counters modulo 3 | `LinesAreFramed`, `BurstReported`, `DatagramsDrain`; `RunConsistent`, `SweepsEnd`; `RatesAreTrue` |
| `job_outcome` | one target, one cancel | *violated* `OutcomeSticks` |
| `job_stuck` | a start alone | *violated* `RunningHasRun` |
| `cred_blocked` | two profiles of eight kinds | *violated* `CorrectProfileIsTried` |

`ProgressEvery` is 25 in the code; the runs take a value at which some targets are reported and
some are not.  `QueueMax` is 10000, `Burst` 5, `HitMax` 50, `FdbLimit` 8000, `Limit` 10 and
`Window` 60 in the code: the runs take values that are reached and exceeded.  `TraceIsGrounded`
excepts what a table longer than `FdbLimit`, `IpamFdbLimit` or `IfaceLimit` hides, and the tables
of the run fit.  The runs do not
check for deadlock: when every request and run is over the system waits for a user.

Each property of a passing run has a mutant beside the definition it changes (its comment starts
with "Mutant"), a plausible bug that violates it.

### Findings

1. **A stopped job runs on** (`job_outcome`).  A run that passed its cancel check saves its copy
   of the job, status RUNNING, over the CANCELLED of the request.  The cancel survives in the
   `cancelled` key of `config` or not at all; when the SIGTERM hits next, the row says RUNNING for
   good.  `celery_app.py:124` says commits happen mid-run "so API/UI see progress and cancel flags".
2. **A RUNNING row without a run** (`job_stuck`).  The outer handler of `run()` does not roll
   back; after a failed flush its first query raises and the row keeps its last status.
   `retry_job` then refuses: "Job is already running" (`ops.py:291`).
3. **A wrong profile hides the right one** (`cred_blocked`).  `_merge_snmp_candidates` takes two
   SNMPv3 profiles with one user name for the same, and two communities that differ in case; the
   later one is dropped and not tried.  `celery_app.py:483` says that a wrong community linked to
   a device "must not block the correct profile from Credentials page".

Seen while modelling, and stated where the model shows it, but with no run of their own: a retry
can start while the cancelled run still collects (`DiscoveryJob`); two sessions that evaluate one
trigger both record PROBLEM, and alerts of a session that fails are sent and not recorded
(`TriggerAlerts`); a detector that loaded a device before an override writes its own role under
the mark `manual` (`RoleDetection`); two requests with one refresh token that overlap both get new
tokens (`TokenRotation`); an installer that dies while `.env` is aside, or before it has its text,
leaves an installation that cannot read its secrets (`Deployment`).

## Fairness

`DiscoveryJob`: weak fairness on the steps of an accepted request and of a dispatched run.  An
asyncio task whose await is done is scheduled again, probes and SNMP/SSH calls have timeouts, and
the Celery worker consumes its queue.  No fairness on sending requests, crashing or SIGTERM.
`TriggerAlerts`, `DeviceInventory` and `MetricsSweep`: weak fairness on the steps of a session
that has started, `Deadlock` among them, since PostgreSQL breaks deadlocks after
`deadlock_timeout`; SMTP, HTTP and SNMP calls have timeouts.  None on beat, on messages, on edits
or on failures.  A session blocked on a row is only continued when the lock is free or the
deadlock is broken: what `SessionsEnd`, `RunsEnd` and `SweepsEnd` say is not assumed.
`SyslogReceiver`: weak fairness on the queue's worker and on the handling of a message it has
taken, none on what arrives, on the death of the process or on the purge.  The other components
have safety properties only.

## Proofs

Every invariant and every safety action property of a passing run is a theorem, proved for every
value of the constants.  A proof module extends the modules it is about and rests on their
`ASSUME`s alone; the bounds of the runs (numbers of requests, devices, tokens, deaths) are
arbitrary in it.  Hypotheses beyond these are part of the theorem and named below.  A property that is not inductive is proved as part of an invariant that is,
named `...Inv`; the proof that a step keeps the invariant has a lemma for each action that
disturbs it.

### `DiscoveryJobProofs`

* `TypeCorrect` (`TypeOK`).  `Update` writes a row column by column from three rows;
  `UpdateKeepsRow` says the result is a row, `CopiesAreRows` that the copies the actions make are.
  `TypeOK` leaves `idx` in `Nat`; that it stays within the targets is `IndexInRange`.
* `SnapshotsAreComplete` (`SnapshotIffCompleted`).  A run that completed must not run again:
  `DispatchedOnce` (a request that is not over has not dispatched its run yet).
* `CompletedJobsHaveSnapshots` (`CompletedHasSnapshot`).  A copy held by a session may be
  written at any later time, so the invariant speaks of the copies as well: `CopiesAreBacked` says
  that a run's copy reads COMPLETED only while the run is completing (or has raised while it was)
  or when a snapshot is committed already, and that a request's copy never does; because `Merge`
  takes the status of the copy or of the row, each `Update` reduces to these two cases.
* `ReportsAreBacked` (`ReportIsBacked`), when no retry is accepted (`Retriers = {}`); for retries
  see `DiscoveryRetryProofs`.  `BackedInv` bounds the counters of the row, of the run's copy and
  of each request's copy: the run's copy is at most one target ahead of the committed inventory,
  and only between its count and its save.
* `ReportsAreExact` (`ReportIsExact`) and `QuietJobsAreTerminal` (`QuiescentIsTerminal`), when in
  addition the worker starts after `start_job` has returned (`EarlyPickup = FALSE`; the other case
  is the stale second commit described above).  `OrderlyInv` follows the run: a cancel is then the
  only other writer, so that the row is what the run last saw or is cancelled (`RunOrder`), and
  while it scans its counters are exact unless the job is cancelled (`ScanOrder`).
* `RunsAreShort`: a run takes at most `4 * NumTargets + 7` steps.  `StepsLeft` counts what is left
  from the place in `run()` and the target; every step of the run lowers it, rollbacks and errors
  that are not stored included, and nothing else raises it.  It is the part of `RunsEnd` that does
  not need fairness.

### `DiscoveryRetryProofs`

`RetriesAreBacked` (`ReportIsBacked`), for any number of retries, under `[]OneAtATime`: a retry is
accepted when the run before has ended and no cancel is under way.  The hypothesis is needed.
`retry_job` accepts a cancelled job whose run still collects; the two runs then write their
counters over each other.  `AttemptsInv` is stronger than `BackedInv` in two ways.  An attempt
counts only what is behind *its* index (`Behind`), since the inventory of the one before is
committed too; and copies that requests keep of an earlier attempt must fit the one that goes on
(`RequestsFit`), because a cancel may write its copy at any time.  `ReportsAreBacked` is the case
without retries, in which the hypothesis always holds; it stays because `OrderlyInv` rests on its
invariant.

### `WaitCircles`

`CircleExists`: where each of finitely many transactions waits for one of them, some wait in a
circle, namely the least set that none of its members waits out of.  Runs of discovery, sessions
of alerts and sweeps each lock rows in orders of their own, and `Deadlock`, which stands for
PostgreSQL's search for a circle, is all that ends a wait in which everyone waits.  The three
`...NeverStall` theorems say that it always can: while one of finitely many actors is on, one that
is on does not wait, or one is in a circle.  The instances of the runs reach states in which
all wait.

### `DeviceInventoryProofs`

* `LinksHaveEnds` (`LinkEndsExist`) and `NeverUniqueViolation` (`NoUniqueViolation`).
  `InventoryInv` says what a turn that is not committed may hold: interfaces it writes or deletes
  are of devices it has locked, ids it made are its own, links it writes join interfaces it sees
  (`WritesOK`).  So what one turn has locked is as committed for all others, two turns do not
  disturb each other (`Apart`), and a commit leaves names and ids distinct (`CommitKeeps`).
* `IdentityIsKept` (`IdentityKept`).  `TurnOK`: a row a turn has written is locked and at least as
  rich as the committed one, whatever copy it started from, since an UPDATE holds only the columns
  that changed and none is changed to nothing.
* `IdsAreStable` (`StableIds`).  `Unlisted`: the interfaces a turn has deleted are of the device of
  the turn, and its report does not list them.  The exception is real: a device that
  names itself as a neighbour, on a port it does not report, loses that interface and gets another
  of the same name in one turn.
* `RunsAreFinite`: each step of a run lowers, in the lexicographic order, the turns that are left,
  the part of the turn, the neighbours that are left, and the place of the next statement, and no
  step of another run changes them.  `LocksEndWithTurns`: a lock is held in the middle of a turn only, so whoever waits, waits for
  another run that is in a turn.  `RunsNeverStall` concludes that runs do not come to a
  standstill.  These are what `RunsEnd` rests on besides fairness.

### `TriggerAlertsProofs`

`StatusFollowsEvents` (`StatusIsLastEvent`) and `EventsAreNotified` (`CommittedIsNotified`).
`AlertsInv`: a session that has flushed a change of a trigger has its row locked (`LocksOK`), and
holds for that change one event and a notification for each destination but those it is still
sending (`PendingOK`).  Two sessions that decided on the same stale copy therefore commit one
after the other, and the status is that of the later one's event.

`SessionsAreAtomic` (`ImplementsRecord`) is the refinement of `AlertRecord`, step by step: a commit
is a `Record`, a deletion a `Remove`, every other step a stutter.  `RecordInv` adds what the step
needs: a session has no two notifications of one trigger and destination, nor, while it sends, one
of a destination that is still to come (`Singly`), and a session that has not committed is not in
the record.

`SessionsAreFinite` and `SessionsNeverStall` are what `SessionsEnd` rests on besides fairness: a
session goes down from trigger to trigger and from alert to alert, locks do not outlive it
(`LocksEnd`), and sessions do not come to a standstill.

### `AccessProofs`

* `TokensAreSpentOnce` (`OverlapsOnly`).  `AuthInv` adds that a token with a descendant is
  revoked, and that a request on its way to new tokens carries a `seen` without a descendant of
  its parent, since it passed the check of the row.
* `StalenessIsBounded` (`StalenessBounded`).  `MintedInv`: the permissions in an access token,
  handed out or about to be, are those of its roles, and if the user's roles are others by now it
  was made no later than the change.
* `LoginsAreSpaced` (`SpacedLogins`, which no run checks, since the refinement allows nothing
  else) and `LimiterImplementsWindow` (`ImplementsSlidingWindow`, the refinement of
  `SlidingWindow`, step by step).  The deque is the tail of the history from the
  first hit that is not expired (`KeptIsTail`, `AttemptKeepsTail`), both are in the order of time,
  and a full deque is a `Limit`-th last attempt within the window (`FullIsMany`).
* `PutsReplace` (`SetReplaces`) and `AssignmentsReach` (`AssignReaches`).  `CredInv` says of each
  transaction what it has placed on the devices behind it (`TxInv`) and, of a PUT, that what was
  there before is deleted or came from elsewhere (`SetInv`).  `DriftKeeps` is the one fact about
  the others: whatever they do is recorded in `came` and `gone`, and the invariant survives it.
* `SeedProfilesFirst` (`SeedProfileFirst`).  `IdsInv`: the merged list begins with the seed's
  profiles, in their order.  `TodoInv`: a profile that works is, until it is tried, among the
  candidates at its place or before it.
* `SecretsStayReadable` (`SecretsReadable`) and `CompleteMeansCurrent` (`CompleteIsCurrent`).  The
  invariant is in three parts: where `.env` is at each step of a script (`WhereEnvIs`), that the
  keys in `.env`, in containers and in the database are one while nothing was torn or lost
  (`KeysInv`), and which release the parts have at each step (`ReleaseInv`).

### `TopologyProofs`

* `RefusalIsCut` (`NotFoundIsCut`).  `SearchInv`: a device that was found and is no longer queued
  is not the goal, and its neighbours have been found; when the queue is empty the found devices
  are the cut.
* `PathsAreShortest` (`ShortestPath`).  `PathInv` gives each found device a depth: predecessors
  are one above (`Tree`), and the queue is in the order of depth, spans two depths and has every
  visited device above it, whose neighbours are at most one below (`Layers`).  If a chain were
  shorter than the depth of the first in the queue, its first device that is not visited (there is
  a least one, `LeastNatural`) would lie too high (`NoShortcut`); from the goal back, each hop
  takes one off the depth (`Trail`).
* `ManualRolesStick` (`ManualSticks`) and `MetadataIsKept` (`MetadataKept`).  An UPDATE writes the
  columns in which the copy differs from the row as it was loaded; `RoleInv` says of each
  session's copies which columns they can differ in.
* `CablesHaveEnds` (`CableEndsNamed`) and `LayoutsPlaceEach` (`LayoutPlacesEach`).  `ViewInv`
  follows the order of the reads: rows read later know the devices of rows read before, since
  devices are not deleted.  The layout is a lemma about one answer (`LayoutIsRight`): places are
  ranks in a finite set, so they differ and lie within its size.
* `HealthFollows` (`HealthNeverImproves`).  Each reading has a level that is monotonic in it
  (`HighIsMonotonic`, `CountedFollows`, ...), and the worst of levels that follow does
  (`WorstFollows`).
* `DiffsRebuild` (`DiffRebuilds`).  When keys differ, the map of a snapshot is all of it, and a
  map is rebuilt from another by what was removed, added and changed (`Rebuilt`).
* `TracesAreGrounded` (`TraceIsGrounded`).  `TraceInv` keeps, for each table that was read, that no
  row that was there all along matches; that is why "not found" is right at the end.

### `TelemetryProofs`

* `MessagesAreLines` (`LinesAreFramed`).  `FramingInv` adds to the property that what was taken
  from a stream ends with a line feed, so the first line feed of the rest ends the next line
  (`NextLine`, `LineTaken`), wherever the chunks end (`ChunkMoves`).
* `BurstsAreReported` (`BurstReported`).  `BurstInv`: a message that is being handled began after
  every message it knows of, and holds a hit unless it missed none; failures only become fewer
  (`EarlierShrinks`), so what was a burst at the count is one when it is judged.
* `RunsAreConsistent` (`RunConsistent`).  `SweepInv`: a run has logged each device behind it once,
  with a row for those stored (`RunOK`), and nothing of it is committed before its end.
* `SweepsAreFinite` and `SweepsNeverStall`, what `SweepsEnd` rests on besides fairness: a sweep
  goes down from device to device, from step to step and from row to row that it locks, and a
  sweep that ended holds no lock (`SweepLocks`).
* `RatesAreNeverTooHigh` (`RatesAreTrue`).  `SeriesInv`: what the loop remembers of an interface is
  its counter at the last row that had it (`Follows`), which a wrap or a restart can only exceed.
  Sums over interfaces are the size of a set of octets; `SumsGrow` and `SumsAdd` are about these.

### What the proofs assume of the constants

That sets of devices, interfaces and rows are finite; that bounds are naturals; that the values
that stand for "nothing" (`None`, `Nothing`, `NoEnd`, `NoReading`, `NoRow`, `NoOctets`, ...) are
no value of the columns they stand in; that an end of a link is a device and a port, a stream a
sequence of bytes, an order of devices a permutation; that the columns of the endpoint tables hold
values of their kind (`ColumnsAssumption`); that a burst is of at least two failures and no more
than the correlation query returns (5 and 50 in the code), the purge keeps what the correlation
needs, and an access token lives shorter than a refresh token.  TLC evaluates each of them on the
runs.  The `...NeverStall` theorems assume in addition that there are finitely many runs, sessions
or sweeps.

### Only model-checked

* Liveness, which is out of the provers' reach: `RunsEnd` (of jobs and of the inventory),
  `Settles`, `SessionsEnd`, `DatagramsDrain`, `SweepsEnd`.  What they need besides fairness is
  proved for all that lock rows or loop over targets: each run, session and sweep goes down a
  scale, and some can always go on (`RunsAreShort`, `RunsAreFinite`, `SessionsAreFinite`,
  `SweepsAreFinite` and the `...NeverStall` theorems).  That a step is enabled is itself a
  statement about `ENABLED`; the theorems speak of the guards.
* The three properties the code violates: `OutcomeSticks`, `RunningHasRun`, `CorrectProfileIsTried`.

## Plan

1. An abstract specification of a target's turn (all of its inventory or none), which
   `DiscoveryJob` and `DeviceInventory` both implement; the refinement proved.
2. The replacement of the adjacency tables and of VLANs in `DeviceInventory`, the expansion of
   targets, the VLAN explorer and the impact analysis as pure algorithms.

## Not modelled, and why

Transports, connectors, exporters and the frontend do I/O and formatting; their outcomes appear as
choices.  The read-only guard is a list of patterns.  The VLAN explorer, the impact analysis and
the statistics of the dashboard aggregate rows of one read and change nothing; `update_vlan_object`,
IPAM and settings routes write single rows, and where two requests meet, a unique constraint
decides.  Of discovery's enrichment, VLANs and routes are rows nothing modelled reads.  The parsing
of RFC 3164 and 5424 headers is formatting, but for the category the burst rule needs.
Configuration and migrations state the schema, whose constraints are in the models that meet them.
`PROJECT.json` names every component with its status.
