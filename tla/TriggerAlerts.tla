---------------------------- MODULE TriggerAlerts ----------------------------
(***************************************************************************)
(* The trigger engine and the notification dispatcher.                     *)
(*                                                                         *)
(* A session is one database transaction: a sweep is one evaluate_triggers *)
(* task of Celery beat, a message is one syslog line handled by the UDP    *)
(* worker or by a TCP connection.  A session loads the enabled triggers,   *)
(* evaluates them in the order the SELECT without ORDER BY returned them   *)
(* and, when one changes state, updates its row, inserts the event and     *)
(* sends the alerts before it goes on; everything is committed at the end. *)
(* Sessions overlap; an UPDATE waits for a transaction that has updated    *)
(* the same row (READ COMMITTED) but writes what was decided before.       *)
(***************************************************************************)
EXTENDS Integers, Sequences

CONSTANTS
  Polled,        \* triggers that evaluate a condition (metrics, interfaces, ...)
  Syslog,        \* triggers of kind syslog_match
  Sweeps,        \* evaluate_triggers tasks
  Messages,      \* syslog messages, one session each
  NumDest,       \* destinations an alert is sent to
  NoSession,     \* a row nobody has updated
  MaxFlips,      \* bound: changes of the conditions
  MaxEdits,      \* bound: PATCH and DELETE requests
  MaxFailures    \* bound: sessions that raise or die

Triggers == Polled \cup Syslog

Sessions == Sweeps \cup Messages

ASSUME AlertsAssumption ==
  /\ Polled \cap Syslog = {}
  /\ Sweeps \cap Messages = {}
  /\ NoSession \notin Sessions
  /\ NumDest \in Nat
  /\ MaxFlips \in Nat
  /\ MaxEdits \in Nat
  /\ MaxFailures \in Nat

States == {"ok", "problem"}

VARIABLES
  cond,       \* does the condition of a polled trigger hold?
  exists,     \* the rows of trigger_definitions ...
  enabled,    \* ... and their committed columns
  status,
  events,     \* committed events of each trigger, oldest first: [type, by]; the
              \* session that inserted a row stands for its id
  notes,      \* committed rows of alert_notifications: [trigger, by, dest, outcome]
  delivered,  \* alerts that reached their destination, wherever they were sent
  lock,       \* the session whose update of a row is not committed
  pc,         \* where each session is
  todo,       \* triggers a session has still to evaluate
  held,       \* status of the triggers as a session loaded them
  cur,        \* the trigger a session is about to write, or alerts about
  want,       \* the state it writes; "none" when only last_value changes
  pending,    \* state changes each session has flushed
  dest,       \* next destination
  wnotes,     \* notifications each session has flushed
  flips, edits, failures

dbVars == <<exists, enabled, status, events, notes>>
envVars == <<cond, flips, edits>>
sessionVars == <<pc, todo, held, cur, want, pending, dest, wnotes>>
vars == <<cond, exists, enabled, status, events, notes, delivered, lock, pc, todo, held,
          cur, want, pending, dest, wnotes, flips, edits, failures>>

Active == {"evaluating", "flushing", "sending"}

Nothing == [t \in Triggers |-> "none"]

AllOk == [t \in Triggers |-> "ok"]

AnyTrigger == CHOOSE t \in Triggers : TRUE

Init ==
  /\ cond = [t \in Polled |-> FALSE]
  /\ exists = Triggers
  /\ enabled = Triggers
  /\ status = AllOk
  /\ events = [t \in Triggers |-> <<>>]
  /\ notes = {}
  /\ delivered = {}
  /\ lock = [t \in Triggers |-> NoSession]
  /\ pc = [s \in Sessions |-> "idle"]
  /\ todo = [s \in Sessions |-> {}]
  /\ held = [s \in Sessions |-> AllOk]
  /\ cur = [s \in Sessions |-> AnyTrigger]
  /\ want = [s \in Sessions |-> "none"]
  /\ pending = [s \in Sessions |-> Nothing]
  /\ dest = [s \in Sessions |-> 1]
  /\ wnotes = [s \in Sessions |-> {}]
  /\ flips = 0
  /\ edits = 0
  /\ failures = 0

-----------------------------------------------------------------------------
(* A session.                                                              *)

\* evaluate_all and evaluate_syslog_event: load the enabled triggers.
Load(s) ==
  /\ pc[s] = "idle"
  /\ pc' = [pc EXCEPT ![s] = "evaluating"]
  /\ todo' = [todo EXCEPT ![s] = IF s \in Sweeps THEN exists \cap enabled
                                               ELSE exists \cap enabled \cap Syslog]
  /\ held' = [held EXCEPT ![s] = status]
  /\ UNCHANGED <<envVars, dbVars, delivered, lock, cur, want, pending, dest, wnotes, failures>>

\* What _eval_one and evaluate_syslog_event make of a trigger; a sweep keeps a
\* syslog trigger as it is.
Desired(s, t) ==
  IF t \in Polled THEN IF cond[t] THEN "problem" ELSE "ok"
  ELSE IF s \in Messages THEN "problem" ELSE held[s][t]

\* A syslog message the trigger does not match is skipped.
NoMatch(s) ==
  /\ pc[s] = "evaluating"
  /\ s \in Messages
  /\ \E t \in todo[s] : todo' = [todo EXCEPT ![s] = @ \ {t}]
  /\ UNCHANGED <<envVars, dbVars, delivered, lock, pc, held, cur, want, pending, dest,
                 wnotes, failures>>

\* _apply_state: the state is the one loaded and so is last_value.
Unchanged(s) ==
  /\ pc[s] = "evaluating"
  /\ \E t \in todo[s] :
       /\ Desired(s, t) = held[s][t]
       /\ todo' = [todo EXCEPT ![s] = @ \ {t}]
  /\ UNCHANGED <<envVars, dbVars, delivered, lock, pc, held, cur, want, pending, dest,
                 wnotes, failures>>

\* Mutant: a trigger whose row is written is evaluated again.
ChangedStays(s) ==
  /\ pc[s] = "evaluating"
  /\ \E t \in todo[s] :
       /\ ~(s \in Sweeps /\ t \in Syslog)
       /\ cur' = [cur EXCEPT ![s] = t]
       /\ want' = [want EXCEPT ![s] = IF Desired(s, t) = held[s][t] THEN "none"
                                                                    ELSE Desired(s, t)]
  /\ pc' = [pc EXCEPT ![s] = "flushing"]
  /\ UNCHANGED <<envVars, dbVars, delivered, lock, todo, held, pending, dest, wnotes, failures>>

\* _apply_state: the row has to be written, for its state or its last_value.
Changed(s) ==
  /\ pc[s] = "evaluating"
  /\ \E t \in todo[s] :
       /\ ~(s \in Sweeps /\ t \in Syslog)
       /\ todo' = [todo EXCEPT ![s] = @ \ {t}]
       /\ cur' = [cur EXCEPT ![s] = t]
       /\ want' = [want EXCEPT ![s] = IF Desired(s, t) = held[s][t] THEN "none"
                                                                    ELSE Desired(s, t)]
  /\ pc' = [pc EXCEPT ![s] = "flushing"]
  /\ UNCHANGED <<envVars, dbVars, delivered, lock, held, pending, dest, wnotes, failures>>

\* Mutant: the state is committed before the alerts are sent.
FlushCommitsStatus(s) ==
  /\ pc[s] = "flushing"
  /\ cur[s] \in exists
  /\ lock[cur[s]] \in {NoSession, s}
  /\ lock' = [lock EXCEPT ![cur[s]] = s]
  /\ status' = IF want[s] = "none" THEN status ELSE [status EXCEPT ![cur[s]] = want[s]]
  /\ pending' = [pending EXCEPT ![s][cur[s]] = want[s]]
  /\ dest' = [dest EXCEPT ![s] = 1]
  /\ pc' = [pc EXCEPT ![s] = IF want[s] = "none" \/ NumDest = 0 THEN "evaluating"
                                                                ELSE "sending"]
  /\ UNCHANGED <<envVars, exists, enabled, events, notes, delivered, todo, held, cur, want,
                 wnotes, failures>>

\* The flush: the row is updated once no other transaction has it, the event
\* inserted with it; then the alerts go out.  A new last_value alone may wait
\* for the next query or for the commit; as the order of the triggers is
\* arbitrary, flushing it at once reaches the same rows and locks.
Flush(s) ==
  /\ pc[s] = "flushing"
  /\ cur[s] \in exists
  /\ lock[cur[s]] \in {NoSession, s}
  /\ lock' = [lock EXCEPT ![cur[s]] = s]
  /\ pending' = [pending EXCEPT ![s][cur[s]] = want[s]]
  /\ dest' = [dest EXCEPT ![s] = 1]
  /\ pc' = [pc EXCEPT ![s] = IF want[s] = "none" \/ NumDest = 0 THEN "evaluating"
                                                                ELSE "sending"]
  /\ UNCHANGED <<envVars, dbVars, delivered, todo, held, cur, want, wnotes, failures>>

\* Mutant: only what was sent is recorded.
SendRecordsSuccess(s) ==
  /\ pc[s] = "sending"
  /\ \E outcome \in {"sent", "failed"}, arrived \in BOOLEAN :
       /\ outcome = "sent" => arrived
       /\ delivered' = IF arrived THEN delivered \cup {<<cur[s], s, dest[s]>>} ELSE delivered
       /\ wnotes' = IF outcome = "failed" THEN wnotes ELSE [wnotes EXCEPT ![s] = @ \cup
            {[trigger |-> cur[s], by |-> s, dest |-> dest[s], outcome |-> outcome]}]
  /\ dest' = [dest EXCEPT ![s] = @ + 1]
  /\ pc' = [pc EXCEPT ![s] = IF dest[s] < NumDest THEN "sending" ELSE "evaluating"]
  /\ UNCHANGED <<envVars, dbVars, lock, todo, held, cur, want, pending, failures>>

\* Mutant: an alert that was not sent is tried, and recorded, again.
SendRetries(s) ==
  /\ pc[s] = "sending"
  /\ \E outcome \in {"sent", "failed"}, arrived \in BOOLEAN :
       /\ outcome = "sent" => arrived
       /\ delivered' = IF arrived THEN delivered \cup {<<cur[s], s, dest[s]>>} ELSE delivered
       /\ wnotes' = [wnotes EXCEPT ![s] = @ \cup
            {[trigger |-> cur[s], by |-> s, dest |-> dest[s], outcome |-> outcome]}]
       /\ dest' = IF outcome = "sent" THEN [dest EXCEPT ![s] = @ + 1] ELSE dest
       /\ pc' = IF outcome = "sent" /\ dest[s] = NumDest THEN [pc EXCEPT ![s] = "evaluating"] ELSE pc
  /\ UNCHANGED <<envVars, dbVars, lock, todo, held, cur, want, pending, failures>>

\* notify_trigger: one destination; when sending raises, the alert may have
\* arrived all the same.
Send(s) ==
  /\ pc[s] = "sending"
  /\ \E outcome \in {"sent", "failed"}, arrived \in BOOLEAN :
       /\ outcome = "sent" => arrived
       /\ delivered' = IF arrived THEN delivered \cup {<<cur[s], s, dest[s]>>} ELSE delivered
       /\ wnotes' = [wnotes EXCEPT ![s] = @ \cup
            {[trigger |-> cur[s], by |-> s, dest |-> dest[s], outcome |-> outcome]}]
  /\ dest' = [dest EXCEPT ![s] = @ + 1]
  /\ pc' = [pc EXCEPT ![s] = IF dest[s] < NumDest THEN "sending" ELSE "evaluating"]
  /\ UNCHANGED <<envVars, dbVars, lock, todo, held, cur, want, pending, failures>>

\* The session is over; its locks are released.
Close(s, how) ==
  /\ pc' = [pc EXCEPT ![s] = how]
  /\ todo' = [todo EXCEPT ![s] = {}]
  /\ held' = [held EXCEPT ![s] = AllOk]
  /\ want' = [want EXCEPT ![s] = "none"]
  /\ dest' = [dest EXCEPT ![s] = 1]
  /\ pending' = [pending EXCEPT ![s] = Nothing]
  /\ wnotes' = [wnotes EXCEPT ![s] = {}]
  /\ lock' = [t \in Triggers |-> IF lock[t] = s THEN NoSession ELSE lock[t]]
  /\ UNCHANGED cur

\* The commit after the last trigger.
Commit(s) ==
  /\ pc[s] = "evaluating"
  /\ todo[s] = {}
  /\ status' = [t \in Triggers |->
                  IF pending[s][t] = "none" THEN status[t] ELSE pending[s][t]]
  /\ events' = [t \in Triggers |->
                  IF pending[s][t] = "none" THEN events[t]
                  ELSE Append(events[t], [type |-> pending[s][t], by |-> s])]
  /\ notes' = notes \cup wnotes[s]
  /\ Close(s, "done")
  /\ UNCHANGED <<envVars, exists, enabled, delivered, failures>>

\* The row to update was deleted: the flush raises and all is rolled back.
Gone(s) ==
  /\ pc[s] = "flushing"
  /\ cur[s] \notin exists
  /\ Close(s, "failed")
  /\ UNCHANGED <<envVars, dbVars, delivered, failures>>

\* Transactions that wait for each other: PostgreSQL cancels one of them.
Deadlocked(s) ==
  \E cycle \in SUBSET Sessions :
    /\ s \in cycle
    /\ \A r \in cycle : pc[r] = "flushing" /\ lock[cur[r]] \in cycle \ {r}
    /\ \A t \in cycle : \E r \in cycle : lock[cur[r]] = t

Deadlock(s) ==
  /\ Deadlocked(s)
  /\ Close(s, "failed")
  /\ UNCHANGED <<envVars, dbVars, delivered, failures>>

\* Evaluating a trigger raises (a bad regex or threshold, a database error), or
\* the process dies: the whole session is rolled back.
Fail(s) ==
  /\ failures < MaxFailures
  /\ pc[s] \in Active
  /\ failures' = failures + 1
  /\ Close(s, "failed")
  /\ UNCHANGED <<envVars, dbVars, delivered>>

SessionStep(s) ==
  \/ NoMatch(s) \/ Unchanged(s) \/ Changed(s)
  \/ Flush(s) \/ Send(s) \/ Commit(s) \/ Gone(s) \/ Deadlock(s)

-----------------------------------------------------------------------------
(* The environment.                                                        *)

\* A device changes: metrics, interface states, heartbeats.
Flip(t) ==
  /\ flips < MaxFlips
  /\ cond' = [cond EXCEPT ![t] = ~@]
  /\ flips' = flips + 1
  /\ UNCHANGED <<edits, dbVars, delivered, lock, sessionVars, failures>>

\* PATCH /triggers/{id} with another value of enabled.
UpdateTrigger(t) ==
  /\ edits < MaxEdits
  /\ t \in exists
  /\ lock[t] = NoSession
  /\ enabled' = IF t \in enabled THEN enabled \ {t} ELSE enabled \cup {t}
  /\ edits' = edits + 1
  /\ UNCHANGED <<cond, flips, exists, status, events, notes, delivered, lock, sessionVars,
                 failures>>

\* DELETE /triggers/{id}: the events go with the trigger; alert_notifications
\* does not, so a trigger with a recorded alert cannot be deleted.
DeleteTrigger(t) ==
  /\ edits < MaxEdits
  /\ t \in exists
  /\ lock[t] = NoSession
  /\ \A n \in notes : n.trigger # t
  /\ exists' = exists \ {t}
  /\ events' = [events EXCEPT ![t] = <<>>]
  /\ edits' = edits + 1
  /\ UNCHANGED <<cond, flips, enabled, status, notes, delivered, lock, sessionVars, failures>>

Next ==
  \/ \E s \in Sessions : Load(s)
  \/ \E s \in Sessions : SessionStep(s)
  \/ \E s \in Sessions : Fail(s)
  \/ \E t \in Polled : Flip(t)
  \/ \E t \in Triggers : UpdateTrigger(t)
  \/ \E t \in Triggers : DeleteTrigger(t)

Spec == Init /\ [][Next]_vars

\* A session that started goes on; when it waits, PostgreSQL grants the lock or
\* breaks the deadlock.
Fairness == \A s \in Sessions : WF_vars(SessionStep(s))

FairSpec == Spec /\ Fairness

-----------------------------------------------------------------------------
(* Properties.                                                             *)

\* The status of a trigger is what its last event says, however sessions that
\* decided on stale copies of the row overlap, fail and deadlock.
StatusIsLastEvent ==
  \A t \in exists :
    status[t] = IF events[t] = <<>> THEN "ok" ELSE events[t][Len(events[t])].type

\* Nothing is half recorded: a committed event has a notification for each
\* destination, a notification belongs to a committed event, and one that says
\* "sent" arrived.
CommittedIsNotified ==
  /\ \A t \in exists : \A i \in 1..Len(events[t]) : \A k \in 1..NumDest :
       \E n \in notes : n.trigger = t /\ n.by = events[t][i].by /\ n.dest = k
  /\ \A n \in notes :
       /\ \E i \in 1..Len(events[n.trigger]) : events[n.trigger][i].by = n.by
       /\ n.outcome = "sent" => <<n.trigger, n.by, n.dest>> \in delivered

\* The sessions implement the record of alerts: seen from the committed rows, a
\* session is one step, in which each trigger it changes gets one event and one
\* notification for each destination, and which takes nothing back, although
\* it decided on a stale copy, wrote and sent for minutes and met others.
Committed == INSTANCE AlertRecord WITH rows <- exists
ImplementsRecord == Committed!Spec

\* A session that loaded its triggers ends: sessions that update the same
\* triggers in different orders do not wait for each other for ever.
SessionsEnd == \A s \in Sessions : pc[s] \in Active ~> pc[s] \in {"done", "failed"}
=============================================================================
