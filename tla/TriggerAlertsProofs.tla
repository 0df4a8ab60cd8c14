------------------------- MODULE TriggerAlertsProofs -------------------------
(* What the trigger engine and the dispatcher commit, for any number of     *)
(* triggers, overlapping sessions, destinations, edits and failures.        *)
EXTENDS TriggerAlerts, WaitCircles, SequenceTheorems

Labels == {"idle", "evaluating", "flushing", "sending", "done", "failed"}
States0 == States \cup {"none"}

Event == [type : States, by : Sessions]
Note == [trigger : Triggers, by : Sessions, dest : 1..NumDest, outcome : {"sent", "failed"}]

TypeOK ==
  /\ exists \subseteq Triggers
  /\ status \in [Triggers -> States]
  /\ events \in [Triggers -> Seq(Event)]
  /\ notes \subseteq Note
  /\ lock \in [Triggers -> Sessions \cup {NoSession}]
  /\ pc \in [Sessions -> Labels]
  /\ todo \in [Sessions -> SUBSET Triggers]
  /\ held \in [Sessions -> [Triggers -> States]]
  /\ cur \in [Sessions -> Triggers \cup {AnyTrigger}]
  /\ want \in [Sessions -> States0]
  /\ pending \in [Sessions -> [Triggers -> States0]]
  /\ dest \in [Sessions -> Nat \ {0}]
  /\ wnotes \in [Sessions -> SUBSET Note]

(* A session locks a row once, after it has taken the trigger from its      *)
(* list, and a row that is locked is not deleted.                           *)
LocksOK(s) ==
  /\ pc[s] \in {"flushing", "sending"} => cur[s] \in Triggers \ todo[s]
  /\ pc[s] = "idle" => \A t \in Triggers : lock[t] # s
  /\ \A t \in Triggers : lock[t] = s =>
       t \in exists /\ t \notin todo[s] /\ (pc[s] = "flushing" => cur[s] # t)

(* What it has flushed: changes of rows it has locked, and for each a       *)
(* notification to every destination, but for the one it is sending.        *)
PendingOK(s) ==
  /\ \A t \in Triggers : pending[s][t] # "none" => lock[t] = s
  /\ pc[s] = "sending" => pending[s][cur[s]] # "none" /\ dest[s] <= NumDest
  /\ \A n \in wnotes[s] : n.by = s /\ pending[s][n.trigger] # "none"
                          /\ (n.outcome = "sent" => <<n.trigger, s, n.dest>> \in delivered)
  /\ \A t \in Triggers, k \in 1..NumDest :
       pending[s][t] # "none" /\ (pc[s] = "sending" /\ cur[s] = t => k < dest[s]) =>
         \E n \in wnotes[s] : n.trigger = t /\ n.dest = k

AlertsInv ==
  /\ TypeOK /\ StatusIsLastEvent /\ CommittedIsNotified
  /\ \A s \in Sessions : LocksOK(s) /\ PendingOK(s)

-----------------------------------------------------------------------------
LEMMA InitAlerts == Init => AlertsInv
<1> SUFFICES ASSUME Init PROVE AlertsInv
  OBVIOUS
<1>1. TypeOK
  <2>1. <<>> \in Seq(Event) BY EmptySeq
  <2>2. AllOk \in [Triggers -> States] /\ Nothing \in [Triggers -> States0]
    BY DEF AllOk, Nothing, States, States0
  <2> QED BY <2>1, <2>2 DEF Init, TypeOK, Labels, States0
<1>2. StatusIsLastEvent /\ CommittedIsNotified
  BY <1>1 DEF TypeOK, Init, StatusIsLastEvent, CommittedIsNotified, AllOk
<1>3. ASSUME NEW s \in Sessions PROVE LocksOK(s) /\ PendingOK(s)
  BY AlertsAssumption DEF Init, LocksOK, PendingOK, Nothing
<1> QED BY <1>1, <1>2, <1>3 DEF AlertsInv

(* The variables of the other sessions, and their locks, stay. *)
Others(s) ==
  /\ \A r \in Sessions \ {s} :
       /\ pc'[r] = pc[r] /\ todo'[r] = todo[r] /\ cur'[r] = cur[r] /\ pending'[r] = pending[r]
       /\ dest'[r] = dest[r] /\ wnotes'[r] = wnotes[r]
       /\ \A t \in Triggers : lock'[t] = r <=> lock[t] = r

LEMMA SessionStepKeeps ==
  ASSUME AlertsInv, NEW s \in Sessions, TypeOK', Others(s), UNCHANGED exists,
         delivered \subseteq delivered', LocksOK(s)', PendingOK(s)'
  PROVE  \A r \in Sessions : LocksOK(r)' /\ PendingOK(r)'
<1> SUFFICES ASSUME NEW r \in Sessions \ {s} PROVE LocksOK(r)' /\ PendingOK(r)'
  OBVIOUS
<1>1. LocksOK(r) /\ PendingOK(r) BY DEF AlertsInv
<1>2. LocksOK(r)' BY <1>1 DEF LocksOK, Others
<1>3. PendingOK(r)' BY <1>1 DEF PendingOK, Others
<1> QED BY <1>2, <1>3

(* The steps that write nothing to the database. *)
LEMMA LocalKeeps ==
  ASSUME AlertsInv, NEW s \in Sessions, TypeOK', Others(s), UNCHANGED dbVars,
         delivered \subseteq delivered', LocksOK(s)', PendingOK(s)'
  PROVE  AlertsInv'
<1>1. UNCHANGED <<exists, status, events, notes>> BY DEF dbVars
<1>2. StatusIsLastEvent' BY <1>1 DEF AlertsInv, StatusIsLastEvent
<1>3. CommittedIsNotified' BY <1>1 DEF AlertsInv, CommittedIsNotified
<1> QED BY <1>1, <1>2, <1>3, SessionStepKeeps DEF AlertsInv

LEMMA LoadKeeps == ASSUME AlertsInv, NEW s \in Sessions, Load(s) PROVE AlertsInv'
<1>1. PICK todos \in SUBSET Triggers :
        /\ pc[s] = "idle" /\ pc' = [pc EXCEPT ![s] = "evaluating"]
        /\ todo' = [todo EXCEPT ![s] = todos] /\ held' = [held EXCEPT ![s] = status]
        /\ UNCHANGED <<exists, status, events, notes, delivered, lock, cur, want, pending, dest, wnotes>>
  <2> DEFINE todos == IF s \in Sweeps THEN exists \cap enabled ELSE exists \cap enabled \cap Syslog
  <2>1. todos \in SUBSET Triggers BY DEF AlertsInv, TypeOK
  <2>2. todo' = [todo EXCEPT ![s] = todos] BY DEF Load
  <2> HIDE DEF todos
  <2> QED BY <2>1, <2>2 DEF Load, dbVars
<1>2. TypeOK' BY <1>1 DEF AlertsInv, TypeOK, Labels
<1>3. pc'[s] = "evaluating" /\ Others(s) BY <1>1 DEF AlertsInv, TypeOK, Others
<1>4. LocksOK(s) /\ PendingOK(s) BY DEF AlertsInv
<1>5. LocksOK(s)' /\ PendingOK(s)' BY <1>1, <1>3, <1>4 DEF LocksOK, PendingOK
<1>6. UNCHANGED dbVars BY DEF Load
<1> QED BY <1>1, <1>2, <1>3, <1>5, <1>6, LocalKeeps

(* A trigger that is passed over, or is as it was. *)
LEMMA PassKeeps ==
  ASSUME AlertsInv, NEW s \in Sessions, NEW t \in todo[s], pc[s] = "evaluating",
         todo' = [todo EXCEPT ![s] = @ \ {t}],
         UNCHANGED <<dbVars, delivered, lock, pc, held, cur, want, pending, dest, wnotes>>
  PROVE  AlertsInv'
<1>1. UNCHANGED <<exists, status, events, notes>> BY DEF dbVars
<1>2. TypeOK' BY <1>1 DEF AlertsInv, TypeOK
<1>3. todo'[s] = todo[s] \ {t} /\ Others(s) BY DEF AlertsInv, TypeOK, Others
<1>4. LocksOK(s) /\ PendingOK(s) BY DEF AlertsInv
<1>5. LocksOK(s)' /\ PendingOK(s)' BY <1>1, <1>3, <1>4 DEF LocksOK, PendingOK
<1> QED BY <1>2, <1>3, <1>5, LocalKeeps

LEMMA ChangedKeeps == ASSUME AlertsInv, NEW s \in Sessions, Changed(s) PROVE AlertsInv'
<1>1. PICK t \in todo[s], w \in States0 :
        /\ pc[s] = "evaluating" /\ pc' = [pc EXCEPT ![s] = "flushing"]
        /\ todo' = [todo EXCEPT ![s] = @ \ {t}] /\ cur' = [cur EXCEPT ![s] = t]
        /\ want' = [want EXCEPT ![s] = w]
        /\ UNCHANGED <<exists, status, events, notes, delivered, lock, held, pending, dest, wnotes>>
  <2>1. PICK t \in todo[s] :
        /\ pc[s] = "evaluating" /\ pc' = [pc EXCEPT ![s] = "flushing"]
        /\ todo' = [todo EXCEPT ![s] = @ \ {t}] /\ cur' = [cur EXCEPT ![s] = t]
        /\ want' = [want EXCEPT ![s] = IF Desired(s, t) = held[s][t] THEN "none" ELSE Desired(s, t)]
        /\ UNCHANGED <<exists, status, events, notes, delivered, lock, held, pending, dest, wnotes>>
    BY DEF Changed, dbVars
  <2>2. Desired(s, t) \in States BY <2>1 DEF Desired, AlertsInv, TypeOK, States
  <2> QED BY <2>1, <2>2 DEF States0
<1>2. t \in Triggers BY DEF AlertsInv, TypeOK
<1>3. TypeOK' BY <1>1, <1>2 DEF AlertsInv, TypeOK, Labels
<1>4. pc'[s] = "flushing" /\ cur'[s] = t /\ todo'[s] = todo[s] \ {t} /\ Others(s)
  BY <1>1 DEF AlertsInv, TypeOK, Others
<1>5. LocksOK(s) /\ PendingOK(s) BY DEF AlertsInv
<1>6. LocksOK(s)' BY <1>1, <1>2, <1>4, <1>5 DEF LocksOK
<1>7. PendingOK(s)' BY <1>1, <1>4, <1>5 DEF PendingOK
<1>8. UNCHANGED dbVars BY DEF Changed
<1> QED BY <1>1, <1>3, <1>4, <1>6, <1>7, <1>8, LocalKeeps

LEMMA FlushKeeps == ASSUME AlertsInv, NEW s \in Sessions, Flush(s) PROVE AlertsInv'
<1>1. /\ pc[s] = "flushing" /\ cur[s] \in exists /\ lock[cur[s]] \in {NoSession, s}
      /\ lock' = [lock EXCEPT ![cur[s]] = s]
      /\ pending' = [pending EXCEPT ![s][cur[s]] = want[s]]
      /\ dest' = [dest EXCEPT ![s] = 1]
      /\ pc' = [pc EXCEPT ![s] = IF want[s] = "none" \/ NumDest = 0 THEN "evaluating" ELSE "sending"]
      /\ UNCHANGED <<exists, status, events, notes, delivered, todo, held, cur, want, wnotes>>
  BY DEF Flush, dbVars
<1>2. TypeOK BY DEF AlertsInv
<1>3. LocksOK(s) /\ PendingOK(s) BY DEF AlertsInv
<1>4. cur[s] \in Triggers \ todo[s] /\ lock[cur[s]] # s
  BY <1>1, <1>3 DEF LocksOK
<1>5. TypeOK' BY <1>1, <1>2, <1>4 DEF TypeOK, Labels
<1>6. /\ pc'[s] = (IF want[s] = "none" \/ NumDest = 0 THEN "evaluating" ELSE "sending")
      /\ dest'[s] = 1 /\ want[s] \in States0
      /\ \A t \in Triggers : /\ lock'[t] = IF t = cur[s] THEN s ELSE lock[t]
                             /\ pending'[s][t] = IF t = cur[s] THEN want[s] ELSE pending[s][t]
  BY <1>1, <1>2 DEF TypeOK
<1>7. Others(s) BY <1>1, <1>2, <1>4, AlertsAssumption DEF TypeOK, Others
<1>8. LocksOK(s)' BY <1>1, <1>3, <1>4, <1>6 DEF LocksOK
<1>9. PendingOK(s)'
  <2>1. \A t \in Triggers : pending'[s][t] # "none" => lock'[t] = s
    BY <1>3, <1>6 DEF PendingOK
  <2>2. pc'[s] = "sending" => pending'[s][cur[s]] # "none" /\ dest'[s] <= NumDest
    BY <1>4, <1>6, AlertsAssumption
  <2>3. ASSUME NEW n \in wnotes[s]
        PROVE  /\ n.by = s /\ pending'[s][n.trigger] # "none"
               /\ n.outcome = "sent" => <<n.trigger, s, n.dest>> \in delivered'
    <3>1. n.trigger \in Triggers BY <1>2 DEF TypeOK, Note
    <3>2. pending[s][n.trigger] # "none" BY <1>3 DEF PendingOK
    <3>3. n.trigger # cur[s] BY <1>3, <1>4, <3>1, <3>2 DEF PendingOK
    <3> QED BY <1>1, <1>3, <1>6, <3>1, <3>2, <3>3 DEF PendingOK
  <2>4. ASSUME NEW t \in Triggers, NEW k \in 1..NumDest, pending'[s][t] # "none",
               pc'[s] = "sending" /\ cur[s] = t => k < dest'[s]
        PROVE  \E n \in wnotes[s] : n.trigger = t /\ n.dest = k
    <3>1. CASE t = cur[s]
      <4>1. want[s] # "none" /\ NumDest # 0 BY <1>6, <2>4, <3>1
      <4>2. k < 1 BY <1>6, <2>4, <3>1, <4>1
      <4> QED BY <4>2
    <3>2. CASE t # cur[s] BY <1>1, <1>3, <1>6, <2>4, <3>2 DEF PendingOK
    <3> QED BY <3>1, <3>2
  <2> QED BY <1>1, <2>1, <2>2, <2>3, <2>4 DEF PendingOK
<1>10. UNCHANGED dbVars BY DEF Flush
<1> QED BY <1>1, <1>5, <1>7, <1>8, <1>9, <1>10, LocalKeeps

LEMMA SendKeeps == ASSUME AlertsInv, NEW s \in Sessions, Send(s) PROVE AlertsInv'
<1> DEFINE note(o) == [trigger |-> cur[s], by |-> s, dest |-> dest[s], outcome |-> o]
<1>1. PICK o \in {"sent", "failed"} :
        /\ pc[s] = "sending"
        /\ delivered \subseteq delivered'
        /\ o = "sent" => <<cur[s], s, dest[s]>> \in delivered'
        /\ wnotes' = [wnotes EXCEPT ![s] = @ \cup {note(o)}]
        /\ dest' = [dest EXCEPT ![s] = @ + 1]
        /\ pc' = [pc EXCEPT ![s] = IF dest[s] < NumDest THEN "sending" ELSE "evaluating"]
        /\ UNCHANGED <<exists, status, events, notes, lock, todo, held, cur, want, pending>>
  BY DEF Send, dbVars
<1>2. TypeOK /\ LocksOK(s) /\ PendingOK(s) BY DEF AlertsInv
<1>3. /\ cur[s] \in Triggers /\ dest[s] \in 1..NumDest /\ pending[s][cur[s]] # "none"
  BY <1>1, <1>2, AlertsAssumption DEF TypeOK, LocksOK, PendingOK
<1>4. note(o) \in Note BY <1>3 DEF Note
<1>5. TypeOK' BY <1>1, <1>2, <1>4 DEF TypeOK, Labels
<1>6. /\ pc'[s] = (IF dest[s] < NumDest THEN "sending" ELSE "evaluating")
      /\ dest'[s] = dest[s] + 1 /\ wnotes'[s] = wnotes[s] \cup {note(o)}
  BY <1>1, <1>2 DEF TypeOK
<1>7. Others(s) BY <1>1, <1>2 DEF TypeOK, Others
<1>8. LocksOK(s)' BY <1>1, <1>2, <1>6 DEF LocksOK
<1>9. PendingOK(s)'
  <2>1. pc'[s] = "sending" => dest'[s] <= NumDest
    BY <1>3, <1>6, AlertsAssumption
  <2>2. \A n \in wnotes'[s] : n.by = s /\ pending[s][n.trigger] # "none"
                         /\ (n.outcome = "sent" => <<n.trigger, s, n.dest>> \in delivered')
    BY <1>1, <1>2, <1>3, <1>6 DEF PendingOK
  <2>3. ASSUME NEW t \in Triggers, NEW k \in 1..NumDest, pending[s][t] # "none",
               pc'[s] = "sending" /\ cur[s] = t => k < dest'[s]
        PROVE  \E n \in wnotes'[s] : n.trigger = t /\ n.dest = k
    <3>1. CASE t = cur[s] /\ k = dest[s]
      <4>1. note(o) \in wnotes'[s] /\ note(o).trigger = t /\ note(o).dest = k BY <1>6, <3>1
      <4> QED BY <4>1
    <3>2. CASE ~(t = cur[s] /\ k = dest[s])
      <4>1. cur[s] = t => k < dest[s] BY <1>3, <1>6, <2>3, <3>2, AlertsAssumption
      <4> QED BY <1>2, <1>6, <2>3, <4>1 DEF PendingOK
    <3> QED BY <3>1, <3>2
  <2> QED BY <1>1, <1>2, <2>1, <2>2, <2>3 DEF PendingOK
<1>10. UNCHANGED dbVars BY DEF Send
<1> QED BY <1>1, <1>5, <1>7, <1>8, <1>9, <1>10, LocalKeeps

LEMMA CloseEffect ==
  ASSUME AlertsInv, NEW s \in Sessions, NEW how \in {"done", "failed"}, Close(s, how)
  PROVE  /\ lock' \in [Triggers -> Sessions \cup {NoSession}] /\ pc' \in [Sessions -> Labels]
         /\ todo' \in [Sessions -> SUBSET Triggers] /\ held' \in [Sessions -> [Triggers -> States]]
         /\ cur' \in [Sessions -> Triggers \cup {AnyTrigger}] /\ want' \in [Sessions -> States0]
         /\ pending' \in [Sessions -> [Triggers -> States0]] /\ dest' \in [Sessions -> Nat \ {0}]
         /\ wnotes' \in [Sessions -> SUBSET Note]
         /\ Others(s) /\ LocksOK(s)' /\ PendingOK(s)'
<1>1. AllOk \in [Triggers -> States] /\ Nothing \in [Triggers -> States0]
  BY DEF AllOk, Nothing, States, States0
<1>2. TypeOK BY DEF AlertsInv
<1>3. /\ lock' \in [Triggers -> Sessions \cup {NoSession}] /\ pc' \in [Sessions -> Labels]
      /\ todo' \in [Sessions -> SUBSET Triggers] /\ held' \in [Sessions -> [Triggers -> States]]
      /\ cur' \in [Sessions -> Triggers \cup {AnyTrigger}] /\ want' \in [Sessions -> States0]
      /\ pending' \in [Sessions -> [Triggers -> States0]] /\ dest' \in [Sessions -> Nat \ {0}]
      /\ wnotes' \in [Sessions -> SUBSET Note]
  BY <1>1, <1>2 DEF TypeOK, Close, Labels, States0
<1>4. /\ pc'[s] = how /\ todo'[s] = {} /\ pending'[s] = Nothing /\ wnotes'[s] = {}
      /\ \A t \in Triggers : lock'[t] = IF lock[t] = s THEN NoSession ELSE lock[t]
  BY <1>2 DEF TypeOK, Close
<1>5. Others(s) BY <1>2, <1>4, AlertsAssumption DEF TypeOK, Close, Others
<1>6. LocksOK(s)' BY <1>4, AlertsAssumption DEF LocksOK
<1>7. PendingOK(s)' BY <1>4 DEF PendingOK, Nothing
<1> QED BY <1>3, <1>5, <1>6, <1>7

(* Gone, Deadlock and Fail. *)
LEMMA RollbackKeeps ==
  ASSUME AlertsInv, NEW s \in Sessions, Close(s, "failed"), UNCHANGED <<dbVars, delivered>>
  PROVE  AlertsInv'
<1>1. UNCHANGED <<exists, status, events, notes>> BY DEF dbVars
<1>2. TypeOK' BY <1>1, CloseEffect DEF AlertsInv, TypeOK
<1> QED BY <1>2, CloseEffect, LocalKeeps

(* A sequence of events with one more. *)
Appended(new, old, e) ==
  /\ new \in Seq(Event) /\ Len(old) \in Nat /\ Len(new) = Len(old) + 1
  /\ \A i \in 1..Len(old) : new[i] = old[i]
  /\ new[Len(new)] = e

LEMMA AppendedEvent ==
  ASSUME NEW old \in Seq(Event), NEW e \in Event PROVE Appended(Append(old, e), old, e)
  BY AppendProperties, LenProperties DEF Appended

LEMMA CommitKeeps == ASSUME AlertsInv, NEW s \in Sessions, Commit(s) PROVE AlertsInv'
<1>1. /\ pc[s] = "evaluating"
      /\ status' = [t \in Triggers |-> IF pending[s][t] = "none" THEN status[t] ELSE pending[s][t]]
      /\ events' = [t \in Triggers |->
                      IF pending[s][t] = "none" THEN events[t]
                      ELSE Append(events[t], [type |-> pending[s][t], by |-> s])]
      /\ notes' = notes \cup wnotes[s]
      /\ Close(s, "done") /\ UNCHANGED <<exists, delivered>>
  BY DEF Commit
<1>2. TypeOK /\ LocksOK(s) /\ PendingOK(s) BY DEF AlertsInv
<1>3. ASSUME NEW t \in Triggers, pending[s][t] # "none"
      PROVE  /\ status'[t] = pending[s][t] /\ pending[s][t] \in States
             /\ Appended(events'[t], events[t], [type |-> pending[s][t], by |-> s])
  <2>1. pending[s][t] \in States BY <1>2, <1>3 DEF TypeOK, States0
  <2>2. events[t] \in Seq(Event) /\ [type |-> pending[s][t], by |-> s] \in Event
    BY <1>2, <2>1 DEF TypeOK, Event
  <2>3. /\ events'[t] = Append(events[t], [type |-> pending[s][t], by |-> s])
        /\ status'[t] = pending[s][t]
    BY <1>1, <1>3
  <2> QED BY <2>1, <2>2, <2>3, AppendedEvent
<1>4. \A t \in Triggers : pending[s][t] # "none" => events'[t] \in Seq(Event)
  BY <1>3 DEF Appended
<1>5. \A t \in Triggers : pending[s][t] = "none" => events'[t] = events[t] /\ status'[t] = status[t]
  BY <1>1
<1>6. TypeOK'
  <2>1. status' \in [Triggers -> States] BY <1>1, <1>2, <1>3 DEF TypeOK
  <2>2. events' \in [Triggers -> Seq(Event)] BY <1>1, <1>2, <1>4, <1>5 DEF TypeOK
  <2>3. notes' \subseteq Note BY <1>1, <1>2 DEF TypeOK
  <2> QED BY <1>1, <1>2, <2>1, <2>2, <2>3, CloseEffect DEF TypeOK
<1>7. \A t \in Triggers : Len(events[t]) \in Nat BY <1>2, LenProperties DEF TypeOK
<1>8. StatusIsLastEvent'
  <2> SUFFICES ASSUME NEW t \in exists
               PROVE  status'[t] = IF events'[t] = <<>> THEN "ok" ELSE events'[t][Len(events'[t])].type
    BY <1>1 DEF StatusIsLastEvent
  <2>0. t \in Triggers BY <1>2 DEF TypeOK
  <2>1. CASE pending[s][t] = "none"
    BY <1>5, <2>0, <2>1 DEF AlertsInv, StatusIsLastEvent
  <2>2. CASE pending[s][t] # "none"
    <3>1. Appended(events'[t], events[t], [type |-> pending[s][t], by |-> s])
      BY <1>3, <2>0, <2>2
    <3>2. events'[t] # <<>>
      <4>1. Len(events'[t]) # 0 BY <3>1 DEF Appended
      <4> QED BY <4>1
    <3>3. events'[t][Len(events'[t])] = [type |-> pending[s][t], by |-> s] BY <3>1 DEF Appended
    <3> QED BY <1>3, <2>0, <2>2, <3>2, <3>3
  <2> QED BY <2>1, <2>2
<1>9. CommittedIsNotified'
  <2>1. ASSUME NEW t \in exists, NEW i \in 1..Len(events'[t]), NEW k \in 1..NumDest
        PROVE  \E n \in notes' : n.trigger = t /\ n.by = events'[t][i].by /\ n.dest = k
    <3>0. t \in Triggers BY <1>2 DEF TypeOK
    <3> DEFINE e == [type |-> pending[s][t], by |-> s]
    <3>1. CASE i \in 1..Len(events[t]) /\ events'[t][i] = events[t][i]
      <4>1. PICK n \in notes : n.trigger = t /\ n.by = events[t][i].by /\ n.dest = k
        BY <3>1 DEF AlertsInv, CommittedIsNotified
      <4> QED BY <1>1, <3>1, <4>1
    <3>2. CASE pending[s][t] # "none" /\ events'[t][i] = e
      <4>1. events'[t][i].by = s BY <3>2
      <4>2. PICK n \in wnotes[s] : n.trigger = t /\ n.dest = k
        BY <1>1, <1>2, <3>0, <3>2 DEF PendingOK
      <4>3. n.by = s BY <1>2 DEF PendingOK
      <4> QED BY <1>1, <4>1, <4>2, <4>3
    <3>3. CASE pending[s][t] = "none"
      <4>1. events'[t] = events[t] BY <1>5, <3>0, <3>3
      <4> QED BY <2>1, <3>1, <4>1
    <3>4. CASE pending[s][t] # "none"
      <4>1. Appended(events'[t], events[t], e) BY <1>3, <3>0, <3>4
      <4>2. events'[t][i] = e \/ (i \in 1..Len(events[t]) /\ events'[t][i] = events[t][i])
        BY <2>1, <4>1 DEF Appended
      <4> QED BY <3>1, <3>2, <3>4, <4>2
    <3> QED BY <3>3, <3>4
  <2>2. ASSUME NEW n \in notes'
        PROVE  /\ \E i \in 1..Len(events'[n.trigger]) : events'[n.trigger][i].by = n.by
               /\ n.outcome = "sent" => <<n.trigger, n.by, n.dest>> \in delivered
    <3>0. n.trigger \in Triggers BY <1>6 DEF TypeOK, Note
    <3>1. CASE n \in notes
      <4>1. PICK i \in 1..Len(events[n.trigger]) : events[n.trigger][i].by = n.by
        BY <3>1 DEF AlertsInv, CommittedIsNotified
      <4>2. i \in 1..Len(events'[n.trigger]) /\ events'[n.trigger][i] = events[n.trigger][i]
        <5>1. CASE pending[s][n.trigger] = "none" BY <1>5, <3>0, <4>1, <5>1
        <5>2. CASE pending[s][n.trigger] # "none"
          <6>1. Appended(events'[n.trigger], events[n.trigger],
                         [type |-> pending[s][n.trigger], by |-> s])
            BY <1>3, <3>0, <5>2
          <6> QED BY <4>1, <6>1 DEF Appended
        <5> QED BY <5>1, <5>2
      <4> QED BY <3>1, <4>1, <4>2 DEF AlertsInv, CommittedIsNotified
    <3>2. CASE n \in wnotes[s]
      <4>1. pending[s][n.trigger] # "none" /\ n.by = s
            /\ (n.outcome = "sent" => <<n.trigger, s, n.dest>> \in delivered)
        BY <1>2, <3>2 DEF PendingOK
      <4>2. Appended(events'[n.trigger], events[n.trigger],
                     [type |-> pending[s][n.trigger], by |-> s])
        BY <1>3, <3>0, <4>1
      <4>3. /\ Len(events'[n.trigger]) \in 1..Len(events'[n.trigger])
            /\ events'[n.trigger][Len(events'[n.trigger])].by = s
        BY <4>2 DEF Appended
      <4> QED BY <4>1, <4>2, <4>3
    <3> QED BY <1>1, <3>1, <3>2
  <2> QED BY <1>1, <2>1, <2>2 DEF CommittedIsNotified
<1>10. \A r \in Sessions : LocksOK(r)' /\ PendingOK(r)'
  BY <1>1, <1>6, CloseEffect, SessionStepKeeps
<1> QED BY <1>6, <1>8, <1>9, <1>10 DEF AlertsInv

(* What does not change any of these does not disturb the invariant. *)
LEMMA FrameKeeps ==
  ASSUME AlertsInv,
         UNCHANGED <<exists, status, events, notes, delivered, lock, pc, todo, held, cur, want,
                     pending, dest, wnotes>>
  PROVE  AlertsInv'
<1>1. TypeOK' BY DEF AlertsInv, TypeOK
<1>2. StatusIsLastEvent' BY DEF AlertsInv, StatusIsLastEvent
<1>3. CommittedIsNotified' BY DEF AlertsInv, CommittedIsNotified
<1>4. ASSUME NEW s \in Sessions PROVE LocksOK(s)' /\ PendingOK(s)'
  <2>1. LocksOK(s) /\ PendingOK(s) BY DEF AlertsInv
  <2>2. LocksOK(s)' BY <2>1 DEF LocksOK
  <2>3. PendingOK(s)' BY <2>1 DEF PendingOK
  <2> QED BY <2>2, <2>3
<1> QED BY <1>1, <1>2, <1>3, <1>4 DEF AlertsInv

LEMMA DeleteKeeps == ASSUME AlertsInv, NEW t \in Triggers, DeleteTrigger(t) PROVE AlertsInv'
<1>1. /\ t \in exists /\ lock[t] = NoSession /\ \A n \in notes : n.trigger # t
      /\ exists' = exists \ {t} /\ events' = [events EXCEPT ![t] = <<>>]
      /\ UNCHANGED <<status, notes, delivered, lock, pc, todo, held, cur, want, pending, dest, wnotes>>
  BY DEF DeleteTrigger, sessionVars
<1>2. TypeOK BY DEF AlertsInv
<1>3. TypeOK' BY <1>1, <1>2, EmptySeq DEF TypeOK
<1>4. StatusIsLastEvent' BY <1>1, <1>2 DEF AlertsInv, StatusIsLastEvent, TypeOK
<1>5. CommittedIsNotified' BY <1>1, <1>2 DEF AlertsInv, CommittedIsNotified, TypeOK, Note
<1>6. ASSUME NEW s \in Sessions PROVE LocksOK(s)' /\ PendingOK(s)'
  <2>1. LocksOK(s) /\ PendingOK(s) BY DEF AlertsInv
  <2>2. lock[t] # s BY <1>1, AlertsAssumption
  <2>3. LocksOK(s)' BY <1>1, <2>1, <2>2 DEF LocksOK
  <2>4. PendingOK(s)' BY <1>1, <2>1 DEF PendingOK
  <2> QED BY <2>3, <2>4
<1> QED BY <1>3, <1>4, <1>5, <1>6 DEF AlertsInv

LEMMA StepKeeps == AlertsInv /\ [Next]_vars => AlertsInv'
<1> SUFFICES ASSUME AlertsInv, [Next]_vars PROVE AlertsInv'
  OBVIOUS
<1>1. ASSUME NEW s \in Sessions, SessionStep(s) PROVE AlertsInv'
  <2>1. CASE NoMatch(s) BY <2>1, PassKeeps DEF NoMatch
  <2>2. CASE Unchanged(s) BY <2>2, PassKeeps DEF Unchanged
  <2>3. CASE Gone(s) BY <2>3, RollbackKeeps DEF Gone
  <2>4. CASE Deadlock(s) BY <2>4, RollbackKeeps DEF Deadlock
  <2> QED BY <1>1, <2>1, <2>2, <2>3, <2>4, ChangedKeeps, FlushKeeps, SendKeeps, CommitKeeps
      DEF SessionStep
<1>2. ASSUME NEW s \in Sessions, Fail(s) PROVE AlertsInv'
  BY <1>2, RollbackKeeps DEF Fail
<1>3. ASSUME NEW t \in Triggers, UpdateTrigger(t) \/ Flip(t) PROVE AlertsInv'
  BY <1>3, FrameKeeps DEF UpdateTrigger, Flip, sessionVars, dbVars
<1>4. CASE UNCHANGED vars BY <1>4, FrameKeeps DEF vars
<1> QED BY <1>1, <1>2, <1>3, <1>4, LoadKeeps, DeleteKeeps DEF Next, Triggers

(* However sessions that decided on stale copies of a row overlap, fail and *)
(* deadlock, what _apply_state left in the status of a trigger is what its  *)
(* last event says (StatusIsLastEvent): a session that has a row to write   *)
(* holds it until its event is committed with it.                           *)
THEOREM StatusFollowsEvents == Spec => []StatusIsLastEvent
<1>1. AlertsInv => StatusIsLastEvent BY DEF AlertsInv
<1> QED BY <1>1, InitAlerts, StepKeeps, PTL DEF Spec

(* notify_trigger records every destination of every committed change, and  *)
(* nothing else (CommittedIsNotified): a session commits its notifications  *)
(* with the event they belong to, after the last of them.                   *)
THEOREM EventsAreNotified == Spec => []CommittedIsNotified
<1>1. AlertsInv => CommittedIsNotified BY DEF AlertsInv
<1> QED BY <1>1, InitAlerts, StepKeeps, PTL DEF Spec

-----------------------------------------------------------------------------
(* The refinement: what a session commits is one step of the record.        *)

(* A session tells each destination once about a trigger. *)
Singly(s) ==
  /\ \A n, m \in wnotes[s] : n.trigger = m.trigger /\ n.dest = m.dest => n = m
  /\ pc[s] = "sending" => \A n \in wnotes[s] : n.trigger = cur[s] => n.dest < dest[s]

RecordInv == \A s \in Sessions : Singly(s) /\ (pc[s] # "done" => Committed!Unheard(s))

LEMMA InitRecord == Init => RecordInv /\ Committed!Init
BY DEF Init, RecordInv, Singly, AllOk, Committed!Unheard, Committed!Init

(* The steps of a session that commit nothing. *)
LEMMA LocalRecord ==
  ASSUME RecordInv, NEW s \in Sessions, Others(s), UNCHANGED dbVars, pc[s] # "done", Singly(s)'
  PROVE  RecordInv' /\ UNCHANGED <<exists, status, events, notes>>
<1>1. UNCHANGED <<exists, status, events, notes>>
  BY DEF dbVars
<1>2. \A r \in Sessions : Committed!Unheard(r)' <=> Committed!Unheard(r)
  BY <1>1 DEF Committed!Unheard
<1>3. ASSUME NEW r \in Sessions \ {s} PROVE Singly(r)' /\ (pc'[r] # "done" => Committed!Unheard(r)')
  BY <1>2 DEF RecordInv, Singly, Others
<1>4. Committed!Unheard(s)'
  BY <1>2 DEF RecordInv
<1> QED
  BY <1>1, <1>3, <1>4 DEF RecordInv

LEMMA LoadRecord ==
  ASSUME AlertsInv, RecordInv, NEW s \in Sessions, Load(s)
  PROVE  RecordInv' /\ UNCHANGED <<exists, status, events, notes>>
<1>1. /\ pc[s] = "idle" /\ pc' = [pc EXCEPT ![s] = "evaluating"] /\ UNCHANGED dbVars
      /\ UNCHANGED <<lock, cur, pending, dest, wnotes>>
      /\ \A r \in Sessions \ {s} : todo'[r] = todo[r]
  BY DEF Load, AlertsInv, TypeOK
<1>2. pc'[s] = "evaluating" /\ Others(s)
  BY <1>1 DEF AlertsInv, TypeOK, Others
<1>3. Singly(s)'
  BY <1>1, <1>2 DEF RecordInv, Singly
<1> QED
  BY <1>1, <1>2, <1>3, LocalRecord

LEMMA PassRecord ==
  ASSUME AlertsInv, RecordInv, NEW s \in Sessions, NoMatch(s) \/ Unchanged(s)
  PROVE  RecordInv' /\ UNCHANGED <<exists, status, events, notes>>
<1>1. /\ pc[s] = "evaluating" /\ UNCHANGED dbVars /\ UNCHANGED <<lock, pc, cur, pending, dest, wnotes>>
      /\ \A r \in Sessions \ {s} : todo'[r] = todo[r]
  BY DEF NoMatch, Unchanged, AlertsInv, TypeOK
<1>2. Others(s) /\ Singly(s)'
  BY <1>1 DEF Others, RecordInv, Singly
<1> QED
  BY <1>1, <1>2, LocalRecord

LEMMA ChangedRecord ==
  ASSUME AlertsInv, RecordInv, NEW s \in Sessions, Changed(s)
  PROVE  RecordInv' /\ UNCHANGED <<exists, status, events, notes>>
<1>1. /\ pc[s] = "evaluating" /\ pc' = [pc EXCEPT ![s] = "flushing"] /\ UNCHANGED dbVars
      /\ UNCHANGED <<lock, pending, dest, wnotes>>
      /\ \A r \in Sessions \ {s} : todo'[r] = todo[r] /\ cur'[r] = cur[r]
  BY DEF Changed, AlertsInv, TypeOK
<1>2. pc'[s] = "flushing" /\ Others(s)
  BY <1>1 DEF AlertsInv, TypeOK, Others
<1>3. Singly(s)'
  BY <1>1, <1>2 DEF RecordInv, Singly
<1> QED
  BY <1>1, <1>2, <1>3, LocalRecord

(* Nobody has been told about a trigger that is flushed now. *)
LEMMA FlushRecord ==
  ASSUME AlertsInv, RecordInv, NEW s \in Sessions, Flush(s)
  PROVE  RecordInv' /\ UNCHANGED <<exists, status, events, notes>>
<1>1. /\ pc[s] = "flushing" /\ lock[cur[s]] \in {NoSession, s} /\ lock' = [lock EXCEPT ![cur[s]] = s]
      /\ pending' = [pending EXCEPT ![s][cur[s]] = want[s]] /\ dest' = [dest EXCEPT ![s] = 1]
      /\ \A r \in Sessions \ {s} : pc'[r] = pc[r]
      /\ UNCHANGED dbVars /\ UNCHANGED <<todo, cur, wnotes>>
  BY DEF Flush, AlertsInv, TypeOK
<1>2. TypeOK /\ LocksOK(s) /\ PendingOK(s)
  BY DEF AlertsInv
<1>3. cur[s] \in Triggers /\ lock[cur[s]] # s
  BY <1>1, <1>2 DEF LocksOK
<1>4. Others(s)
  BY <1>1, <1>2, <1>3, AlertsAssumption DEF TypeOK, Others
<1>5. ASSUME NEW n \in wnotes[s] PROVE n.trigger # cur[s]
  <2>1. n.trigger \in Triggers
    BY <1>2 DEF TypeOK, Note
  <2>2. lock[n.trigger] = s
    BY <1>2, <2>1 DEF PendingOK
  <2> QED
    BY <1>3, <2>2
<1>6. Singly(s)'
  BY <1>1, <1>5 DEF RecordInv, Singly
<1> QED
  BY <1>1, <1>4, <1>6, LocalRecord

(* The next destination has not been told. *)
LEMMA SendRecord ==
  ASSUME AlertsInv, RecordInv, NEW s \in Sessions, Send(s)
  PROVE  RecordInv' /\ UNCHANGED <<exists, status, events, notes>>
<1>1. PICK o \in {"sent", "failed"} :
        /\ pc[s] = "sending"
        /\ wnotes' = [wnotes EXCEPT ![s] = @ \cup
             {[trigger |-> cur[s], by |-> s, dest |-> dest[s], outcome |-> o]}]
        /\ dest' = [dest EXCEPT ![s] = @ + 1]
        /\ \A r \in Sessions \ {s} : pc'[r] = pc[r]
        /\ UNCHANGED dbVars /\ UNCHANGED <<lock, todo, cur, pending>>
  BY DEF Send, AlertsInv, TypeOK
<1> DEFINE note == [trigger |-> cur[s], by |-> s, dest |-> dest[s], outcome |-> o]
<1>2. /\ wnotes'[s] = wnotes[s] \cup {note} /\ dest'[s] = dest[s] + 1 /\ dest[s] \in Nat
      /\ wnotes[s] \subseteq Note
  BY <1>1 DEF AlertsInv, TypeOK
<1>3. Others(s)
  BY <1>1 DEF AlertsInv, TypeOK, Others
<1>4. \A n \in wnotes[s] : n.trigger = cur[s] => n.dest < dest[s] /\ n.dest \in Nat
  BY <1>1, <1>2 DEF RecordInv, Singly, Note
<1>5. note.trigger = cur[s] /\ note.dest = dest[s]
  OBVIOUS
<1> HIDE DEF note
<1>6. \A n, m \in wnotes'[s] : n.trigger = m.trigger /\ n.dest = m.dest => n = m
  <2> SUFFICES ASSUME NEW n \in wnotes'[s], NEW m \in wnotes'[s], n.trigger = m.trigger, n.dest = m.dest
               PROVE  n = m
    OBVIOUS
  <2>1. CASE n \in wnotes[s] /\ m \in wnotes[s]
    BY <2>1 DEF RecordInv, Singly
  <2>2. ASSUME NEW k \in wnotes[s], k.trigger = note.trigger PROVE k.dest # note.dest
    BY <1>2, <1>4, <1>5, <2>2
  <2> QED
    BY <1>2, <2>1, <2>2
<1>7. \A n \in wnotes'[s] : n.trigger = cur[s] => n.dest < dest'[s]
  BY <1>2, <1>4, <1>5
<1>8. Singly(s)'
  BY <1>1, <1>6, <1>7 DEF Singly
<1> QED
  BY <1>1, <1>3, <1>8, LocalRecord

LEMMA RollbackRecord ==
  ASSUME AlertsInv, RecordInv, NEW s \in Sessions, Close(s, "failed"), pc[s] # "done", UNCHANGED dbVars
  PROVE  RecordInv' /\ UNCHANGED <<exists, status, events, notes>>
<1>1. Others(s)
  BY CloseEffect
<1>2. wnotes'[s] = {}
  BY DEF Close, AlertsInv, TypeOK
<1>3. Singly(s)'
  BY <1>2 DEF Singly
<1> QED
  BY <1>1, <1>3, LocalRecord

(* The commit: the triggers changed are those it has flushed a change of,   *)
(* and what it adds is its own.                                             *)
LEMMA CommitRecord ==
  ASSUME AlertsInv, RecordInv, NEW s \in Sessions, Commit(s)
  PROVE  RecordInv' /\ Committed!Record(s)
<1> DEFINE C == {t \in exists : pending[s][t] # "none"}
           type == [t \in C |-> pending[s][t]]
<1>1. /\ pc[s] = "evaluating"
      /\ status' = [t \in Triggers |-> IF pending[s][t] = "none" THEN status[t] ELSE pending[s][t]]
      /\ events' = [t \in Triggers |->
                      IF pending[s][t] = "none" THEN events[t]
                      ELSE Append(events[t], [type |-> pending[s][t], by |-> s])]
      /\ notes' = notes \cup wnotes[s]
      /\ Close(s, "done") /\ UNCHANGED exists
  BY DEF Commit
<1>2. TypeOK /\ LocksOK(s) /\ PendingOK(s) /\ Singly(s) /\ Committed!Unheard(s)
  BY <1>1 DEF AlertsInv, RecordInv
<1>3. \A t \in Triggers : t \in C <=> pending[s][t] # "none"
  BY <1>2 DEF LocksOK, PendingOK
<1>4. C \in SUBSET exists /\ type \in [C -> {"ok", "problem"}] /\ \A t \in C : type[t] = pending[s][t]
  BY <1>2 DEF TypeOK, States0, States
<1> HIDE DEF C, type
<1>5. notes' \ notes = wnotes[s]
  BY <1>1, <1>2 DEF PendingOK, Committed!Unheard
<1>6. ASSUME NEW n \in wnotes[s] PROVE n.by = s /\ n.trigger \in C
  <2>1. n.trigger \in Triggers
    BY <1>2 DEF TypeOK, Note
  <2>2. n.by = s /\ pending[s][n.trigger] # "none"
    BY <1>2 DEF PendingOK
  <2> QED
    BY <1>3, <2>1, <2>2
<1>7. Committed!OneEach(notes' \ notes, s, C)
  <2>1. ASSUME NEW t \in C, NEW k \in 1..NumDest
        PROVE  \E n \in wnotes[s] : /\ n.trigger = t /\ n.dest = k
                                    /\ \A m \in wnotes[s] : m.trigger = t /\ m.dest = k => m = n
    <3>1. t \in Triggers /\ pending[s][t] # "none"
      BY <1>2, <1>3, <1>4 DEF TypeOK
    <3>2. PICK n \in wnotes[s] : n.trigger = t /\ n.dest = k
      BY <1>1, <1>2, <3>1 DEF PendingOK
    <3> QED
      BY <1>2, <3>2 DEF Singly
  <2> QED
    BY <1>5, <1>6, <2>1 DEF Committed!OneEach
<1>8. status' = [t \in Triggers |-> IF t \in C THEN type[t] ELSE status[t]]
  BY <1>1, <1>3, <1>4
<1>9. events' = [t \in Triggers |-> IF t \in C THEN Append(events[t], [type |-> type[t], by |-> s])
                                              ELSE events[t]]
  BY <1>1, <1>3, <1>4
<1>10. Committed!Record(s)
  BY <1>1, <1>2, <1>4, <1>7, <1>8, <1>9 DEF Committed!Record
<1>11. ASSUME NEW r \in Sessions \ {s} PROVE Singly(r)' /\ (pc'[r] # "done" => Committed!Unheard(r)')
  <2>1. Others(s)
    BY <1>1, CloseEffect
  <2>2. Singly(r)' /\ pc'[r] = pc[r]
    BY <2>1 DEF RecordInv, Singly, Others
  <2>3. ASSUME Committed!Unheard(r), NEW t \in Triggers, NEW i \in DOMAIN events'[t] PROVE events'[t][i].by # r
    <3>1. CASE pending[s][t] = "none"
      <4>1. events'[t] = events[t]
        BY <1>1, <3>1
      <4> QED
        BY <2>3, <4>1 DEF Committed!Unheard
    <3>2. CASE pending[s][t] # "none"
      <4> DEFINE e == [type |-> pending[s][t], by |-> s]
      <4>0. pending[s][t] \in States
        BY <1>2, <3>2 DEF TypeOK, States0
      <4>1. events[t] \in Seq(Event) /\ e \in Event /\ events'[t] = Append(events[t], e) /\ e.by = s
        <5>1. events'[t] = Append(events[t], e)
          BY <1>1, <3>2
        <5>2. e \in Event
          BY <4>0 DEF Event
        <5> QED
          BY <1>2, <5>1, <5>2 DEF TypeOK
      <4> HIDE DEF e
      <4>2. Appended(events'[t], events[t], e)
        BY <4>1, AppendedEvent
      <4>3. DOMAIN events[t] = 1..Len(events[t]) /\ DOMAIN events'[t] = 1..Len(events'[t])
        BY <4>1, <4>2, LenProperties DEF Appended
      <4>4. events'[t][i] = e \/ (i \in DOMAIN events[t] /\ events'[t][i] = events[t][i])
        BY <2>3, <4>2, <4>3 DEF Appended
      <4> QED
        BY <2>3, <4>1, <4>4 DEF Committed!Unheard
    <3> QED
      BY <3>1, <3>2
  <2>4. Committed!Unheard(r) => \A n \in notes' : n.by # r
    BY <1>1, <1>6 DEF Committed!Unheard
  <2>5. Committed!Unheard(r) => Committed!Unheard(r)'
    BY <2>3, <2>4 DEF Committed!Unheard
  <2> QED
    BY <2>2, <2>5 DEF RecordInv
<1>12. pc'[s] = "done" /\ wnotes'[s] = {}
  BY <1>1, <1>2 DEF Close, TypeOK
<1>13. Singly(s)'
  BY <1>12 DEF Singly
<1> QED
  BY <1>10, <1>11, <1>12, <1>13 DEF RecordInv

LEMMA DeleteRecord ==
  ASSUME AlertsInv, RecordInv, NEW t \in Triggers, DeleteTrigger(t)
  PROVE  RecordInv' /\ Committed!Remove(t)
<1>1. /\ t \in exists /\ \A n \in notes : n.trigger # t
      /\ exists' = exists \ {t} /\ events' = [events EXCEPT ![t] = <<>>]
      /\ UNCHANGED <<status, notes, pc, cur, dest, wnotes>>
  BY DEF DeleteTrigger, sessionVars
<1>2. \A u \in Triggers : events'[u] = IF u = t THEN <<>> ELSE events[u]
  BY <1>1 DEF AlertsInv, TypeOK
<1>3. ASSUME NEW s \in Sessions, Committed!Unheard(s) PROVE Committed!Unheard(s)'
  BY <1>1, <1>2, <1>3 DEF Committed!Unheard
<1>4. \A s \in Sessions : Singly(s)'
  BY <1>1 DEF RecordInv, Singly
<1>5. Committed!Remove(t)
  BY <1>1 DEF Committed!Remove
<1> QED
  BY <1>1, <1>3, <1>4, <1>5 DEF RecordInv

LEMMA RecordStep ==
  ASSUME AlertsInv, RecordInv, [Next]_vars
  PROVE  RecordInv' /\ [Committed!Next]_(Committed!recordVars)
<1> DEFINE Still == UNCHANGED <<exists, status, events, notes>>
<1>1. Still => [Committed!Next]_(Committed!recordVars)
  BY DEF Committed!recordVars
<1> HIDE DEF Still
<1>2. ASSUME NEW s \in Sessions, SessionStep(s) PROVE (RecordInv' /\ Still) \/ (RecordInv' /\ Committed!Record(s))
  <2>1. CASE Gone(s)
    BY <2>1, RollbackRecord DEF Gone, Still
  <2>2. CASE Deadlock(s)
    BY <2>2, RollbackRecord DEF Deadlock, Deadlocked, Still
  <2> QED
    BY <1>2, <2>1, <2>2, PassRecord, ChangedRecord, FlushRecord, SendRecord, CommitRecord
    DEF SessionStep, Still
<1>3. ASSUME NEW s \in Sessions, Fail(s) PROVE RecordInv' /\ Still
  <2>1. pc[s] # "done"
    BY <1>3 DEF Fail, Active
  <2> QED
    BY <1>3, <2>1, RollbackRecord DEF Fail, Still
<1>4. ASSUME NEW s \in Sessions, Load(s) PROVE RecordInv' /\ Still
  BY <1>4, LoadRecord DEF Still
<1>5. ASSUME UNCHANGED <<exists, status, events, notes, pc, cur, dest, wnotes>> PROVE RecordInv' /\ Still
  BY <1>5 DEF RecordInv, Singly, Committed!Unheard, Still
<1>6. ASSUME NEW t \in Triggers, UpdateTrigger(t) \/ Flip(t) PROVE RecordInv' /\ Still
  BY <1>5, <1>6 DEF UpdateTrigger, Flip, sessionVars, dbVars
<1>7. CASE UNCHANGED vars
  <2>1. UNCHANGED <<exists, status, events, notes, pc, cur, dest, wnotes>>
    BY <1>7 DEF vars
  <2> QED
    BY <1>1, <1>5, <2>1
<1>8. ASSUME NEW t \in Triggers, DeleteTrigger(t) PROVE RecordInv' /\ Committed!Next
  BY <1>8, DeleteRecord DEF Committed!Next
<1>9. ASSUME NEW s \in Sessions, SessionStep(s) PROVE RecordInv' /\ [Committed!Next]_(Committed!recordVars)
  BY <1>1, <1>2, <1>9 DEF Committed!Next
<1> QED
  BY <1>1, <1>3, <1>4, <1>6, <1>7, <1>8, <1>9 DEF Next, Triggers

(* Seen from the committed rows, evaluate_all and evaluate_syslog_event,    *)
(* with the alerts they send, are one step each (ImplementsRecord): each    *)
(* trigger that changed has one event and one notification for each         *)
(* destination, and no session loses or repeats what another recorded.      *)
THEOREM SessionsAreAtomic == Spec => ImplementsRecord
<1>1. AlertsInv /\ RecordInv /\ [Next]_vars => AlertsInv' /\ RecordInv' /\ [Committed!Next]_(Committed!recordVars)
  BY StepKeeps, RecordStep
<1>2. Init => AlertsInv /\ RecordInv /\ Committed!Init
  BY InitAlerts, InitRecord
<1> QED
  BY <1>1, <1>2, PTL DEF Spec, ImplementsRecord, Committed!Spec

-----------------------------------------------------------------------------
(* Sessions end.                                                            *)

(* No lock outlives the session that took it. *)
LocksEnd == \A t \in Triggers : lock[t] # NoSession => lock[t] \in Sessions /\ pc[lock[t]] \in Active

(* Down the scale of a session: the triggers that are left, then the alerts *)
(* of the one it is at.                                                     *)
Place(s) == IF pc[s] = "flushing" THEN NumDest + 1
            ELSE IF pc[s] = "sending" THEN NumDest + 1 - dest[s] ELSE 0
OnTheScale(s) == todo[s] \subseteq Triggers /\ Place(s) \in 0..(NumDest + 1)
Advanced(s) ==
  \/ pc'[s] \in {"done", "failed"}
  \/ todo'[s] # todo[s] /\ todo'[s] \subseteq todo[s]
  \/ todo'[s] = todo[s] /\ Place(s)' < Place(s)
Stands(s) == pc'[s] = pc[s] /\ todo'[s] = todo[s] /\ dest'[s] = dest[s]

(* Every step of a session takes it down the scale, and no step of another  *)
(* session, of a device or of a user takes it back up.                      *)
SessionsAdvance ==
  /\ [](\A s \in Sessions : OnTheScale(s))
  /\ [][\A s \in Sessions :
          /\ SessionStep(s) \/ Fail(s) => pc[s] \in Active /\ Advanced(s)
          /\ pc[s] # "idle" => Advanced(s) \/ Stands(s)]_vars

LEMMA StepIsDown ==
  ASSUME AlertsInv, LocksEnd, NEW s \in Sessions, SessionStep(s) \/ Fail(s)
  PROVE  /\ pc[s] \in Active /\ Advanced(s) /\ LocksEnd'
         /\ \A r \in Sessions \ {s} : Stands(r)
<1>1. LocksOK(s) /\ PendingOK(s) /\ TypeOK
  BY DEF AlertsInv
<1>2. /\ pc \in [Sessions -> Labels] /\ todo \in [Sessions -> SUBSET Triggers]
      /\ dest \in [Sessions -> Nat \ {0}] /\ lock \in [Triggers -> Sessions \cup {NoSession}]
  BY <1>1 DEF TypeOK
<1> DEFINE Fine == /\ pc[s] \in Active /\ Advanced(s) /\ LocksEnd'
                   /\ \A r \in Sessions \ {s} : Stands(r)
<1>3. ASSUME NEW how \in {"done", "failed"}, Close(s, how), pc[s] \in Active PROVE Fine
  <2>1. /\ pc' = [pc EXCEPT ![s] = how] /\ todo' = [todo EXCEPT ![s] = {}]
        /\ dest' = [dest EXCEPT ![s] = 1]
        /\ lock' = [t \in Triggers |-> IF lock[t] = s THEN NoSession ELSE lock[t]]
    BY <1>3 DEF Close
  <2>2. Advanced(s) /\ \A r \in Sessions \ {s} : Stands(r)
    BY <1>2, <2>1 DEF Advanced, Stands
  <2>3. LocksEnd'
    BY <1>2, <2>1 DEF LocksEnd
  <2> QED BY <1>3, <2>2, <2>3
<1>4. CASE NoMatch(s) \/ Unchanged(s)
  <2>1. PICK t \in todo[s] : todo' = [todo EXCEPT ![s] = @ \ {t}]
    BY <1>4 DEF NoMatch, Unchanged
  <2>2. pc[s] = "evaluating" /\ UNCHANGED <<pc, dest, lock>>
    BY <1>4 DEF NoMatch, Unchanged
  <2>3. Advanced(s) /\ \A r \in Sessions \ {s} : Stands(r)
    BY <1>2, <2>1, <2>2 DEF Advanced, Stands
  <2>4. LocksEnd'
    BY <2>2 DEF LocksEnd
  <2> QED BY <2>2, <2>3, <2>4 DEF Active
<1>5. CASE Changed(s)
  <2>1. PICK t \in todo[s] : todo' = [todo EXCEPT ![s] = @ \ {t}]
    BY <1>5 DEF Changed
  <2>2. pc[s] = "evaluating" /\ pc' = [pc EXCEPT ![s] = "flushing"] /\ UNCHANGED <<dest, lock>>
    BY <1>5 DEF Changed
  <2>3. Advanced(s) /\ \A r \in Sessions \ {s} : Stands(r)
    BY <1>2, <2>1, <2>2 DEF Advanced, Stands
  <2>4. LocksEnd'
    BY <1>2, <2>2 DEF LocksEnd, Active
  <2> QED BY <2>2, <2>3, <2>4 DEF Active
<1>6. CASE Flush(s)
  <2>1. PICK l \in {"evaluating", "sending"} :
          /\ pc[s] = "flushing" /\ pc' = [pc EXCEPT ![s] = l] /\ dest' = [dest EXCEPT ![s] = 1]
          /\ UNCHANGED todo
    BY <1>6 DEF Flush
  <2>2. cur[s] \in Triggers /\ lock' = [lock EXCEPT ![cur[s]] = s]
    BY <1>1, <1>6, <2>1 DEF Flush, LocksOK
  <2>3. Place(s) = NumDest + 1 /\ pc'[s] = l /\ dest'[s] = 1
    BY <1>2, <2>1 DEF Place
  <2>4. Place(s)' < Place(s)
    BY <2>3, AlertsAssumption DEF Place
  <2>5. Advanced(s) /\ \A r \in Sessions \ {s} : Stands(r)
    BY <1>2, <2>1, <2>4 DEF Advanced, Stands
  <2>6. LocksEnd'
    BY <1>2, <2>1, <2>2 DEF LocksEnd, Active
  <2> QED BY <2>1, <2>5, <2>6 DEF Active
<1>7. CASE Send(s)
  <2>1. /\ pc[s] = "sending" /\ dest' = [dest EXCEPT ![s] = @ + 1] /\ UNCHANGED <<todo, lock>>
        /\ pc' = [pc EXCEPT ![s] = IF dest[s] < NumDest THEN "sending" ELSE "evaluating"]
    BY <1>7 DEF Send
  <2>2. /\ pc'[s] = (IF dest[s] < NumDest THEN "sending" ELSE "evaluating") /\ dest'[s] = dest[s] + 1
        /\ Place(s) = NumDest + 1 - dest[s] /\ dest[s] \in Nat \ {0} /\ dest[s] <= NumDest
    BY <1>1, <1>2, <2>1 DEF Place, PendingOK
  <2>3. Place(s)' < Place(s)
    BY <2>2, AlertsAssumption DEF Place
  <2>4. Advanced(s) /\ \A r \in Sessions \ {s} : Stands(r)
    BY <1>2, <2>1, <2>3 DEF Advanced, Stands
  <2>5. LocksEnd'
    BY <1>2, <2>1 DEF LocksEnd, Active
  <2> QED BY <2>1, <2>4, <2>5 DEF Active
<1>8. CASE Commit(s) \/ Gone(s) \/ Deadlock(s) \/ Fail(s)
  <2>1. pc[s] \in Active
    BY <1>8 DEF Commit, Gone, Deadlock, Deadlocked, Fail, Active
  <2>2. Close(s, "done") \/ Close(s, "failed")
    BY <1>8 DEF Commit, Gone, Deadlock, Fail
  <2> QED BY <1>3, <2>1, <2>2
<1> QED BY <1>4, <1>5, <1>6, <1>7, <1>8 DEF SessionStep

LEMMA SessionsDown ==
  ASSUME AlertsInv, LocksEnd, [Next]_vars
  PROVE  /\ LocksEnd'
         /\ \A s \in Sessions : /\ SessionStep(s) \/ Fail(s) => pc[s] \in Active /\ Advanced(s)
                                /\ pc[s] # "idle" => Advanced(s) \/ Stands(s)
<1>1. \A s \in Sessions : SessionStep(s) \/ Fail(s) => pc[s] \in Active /\ Advanced(s)
  BY StepIsDown
<1>2. CASE \E s \in Sessions : SessionStep(s) \/ Fail(s)
  BY <1>1, <1>2, StepIsDown
<1>3. ASSUME NEW s \in Sessions, Load(s)
      PROVE  LocksEnd' /\ \A r \in Sessions : pc[r] # "idle" => Stands(r)
  <2>1. /\ pc[s] = "idle" /\ pc' = [pc EXCEPT ![s] = "evaluating"] /\ UNCHANGED <<lock, dest>>
        /\ \A r \in Sessions \ {s} : todo'[r] = todo[r]
    BY <1>3 DEF Load, AlertsInv, TypeOK
  <2>2. pc \in [Sessions -> Labels]
    BY DEF AlertsInv, TypeOK
  <2> QED BY <2>1, <2>2 DEF LocksEnd, Stands, Active
<1>4. ASSUME UNCHANGED <<lock, pc, todo, dest>>
      PROVE  LocksEnd' /\ \A r \in Sessions : Stands(r)
  BY <1>4 DEF LocksEnd, Stands
<1>5. ASSUME NEW t \in Triggers, UpdateTrigger(t) \/ DeleteTrigger(t) \/ Flip(t)
      PROVE  UNCHANGED <<lock, pc, todo, dest>>
  BY <1>5 DEF UpdateTrigger, DeleteTrigger, Flip, sessionVars
<1>6. CASE UNCHANGED vars
  BY <1>1, <1>4, <1>6 DEF vars
<1>7. CASE \E t \in Triggers : UpdateTrigger(t) \/ DeleteTrigger(t) \/ Flip(t)
  BY <1>1, <1>4, <1>5, <1>7
<1> QED BY <1>1, <1>2, <1>3, <1>6, <1>7 DEF Next, Triggers

LEMMA InitLocks == Init => LocksEnd
BY DEF Init, LocksEnd

\* However sessions meet at the same triggers, fail, or find rows deleted, each
\* step of evaluate_all or evaluate_syslog_event, and of the alerts it sends,
\* brings its session nearer to its end: no trigger is taken up twice and no
\* destination tried again.  What the end of every session (SessionsEnd) asks
\* of the scheduler is only that one that can go on does.
THEOREM SessionsAreFinite == Spec => SessionsAdvance
<1> DEFINE Scale == \A s \in Sessions : OnTheScale(s)
           Down == \A s \in Sessions : /\ SessionStep(s) \/ Fail(s) => pc[s] \in Active /\ Advanced(s)
                                       /\ pc[s] # "idle" => Advanced(s) \/ Stands(s)
<1>1. AlertsInv => Scale
  <2> SUFFICES ASSUME AlertsInv, NEW s \in Sessions PROVE OnTheScale(s)
    OBVIOUS
  <2>1. todo[s] \subseteq Triggers /\ dest[s] \in Nat \ {0} /\ PendingOK(s)
    BY DEF AlertsInv, TypeOK
  <2> QED BY <2>1, AlertsAssumption DEF OnTheScale, Place, PendingOK
<1>2. AlertsInv /\ LocksEnd /\ [Next]_vars => AlertsInv' /\ LocksEnd' /\ Down
  BY StepKeeps, SessionsDown
<1> HIDE DEF Scale, Down
<1>3. Spec => []Scale /\ [][Down]_vars
  BY <1>1, <1>2, InitAlerts, InitLocks, PTL DEF Spec
<1> QED BY <1>3 DEF Scale, Down, SessionsAdvance

(* A session that can do nothing but wait for a row. *)
Halted(s) == pc[s] = "flushing" /\ cur[s] \in exists /\ lock[cur[s]] \notin {NoSession, s}

(* While a session is on, one goes on, or PostgreSQL finds one to cancel.   *)
SomeSessionMoves ==
  (\E s \in Sessions : pc[s] \in Active) =>
    \E s \in Sessions : pc[s] \in Active /\ (~Halted(s) \/ Deadlocked(s))

LEMMA HaltedMeansDeadlocked ==
  ASSUME IsFiniteSet(Sessions), AlertsInv, LocksEnd
  PROVE  SomeSessionMoves
<1> DEFINE on == {s \in Sessions : pc[s] \in Active}
           next == [s \in on |-> lock[cur[s]]]
<1> SUFFICES ASSUME on # {}, \A s \in on : Halted(s) PROVE \E s \in on : Deadlocked(s)
  BY DEF SomeSessionMoves
<1>1. \A s \in on : /\ next[s] \in on \ {s} /\ next[s] = lock[cur[s]] /\ pc[s] = "flushing"
  BY DEF Halted, AlertsInv, TypeOK, LocksEnd
<1>2. IsFiniteSet(on) /\ next \in [on -> on] /\ on \in SUBSET Sessions
  BY <1>1, FS_Subset
<1> HIDE DEF on, next
<1>3. PICK C \in SUBSET on : Circle(C, next)
  BY <1>2, CircleExists
<1>4. /\ C \in SUBSET Sessions
      /\ \A r \in C : pc[r] = "flushing" /\ lock[cur[r]] \in C \ {r}
      /\ \A t \in C : \E r \in C : lock[cur[r]] = t
  BY <1>1, <1>2, <1>3 DEF Circle
<1>5. PICK s \in C : TRUE
  BY <1>3 DEF Circle
<1>6. Deadlocked(s)
  BY <1>4, <1>5 DEF Deadlocked
<1> QED BY <1>5, <1>6

\* Finitely many sessions never come to a standstill: they keep the rows they
\* have updated locked while they send mail, and take them in any order, but
\* one that is on does not wait, or some wait in a circle and PostgreSQL
\* cancels one of these.
THEOREM SessionsNeverStall ==
  ASSUME IsFiniteSet(Sessions)
  PROVE  Spec => []SomeSessionMoves
<1>1. AlertsInv /\ LocksEnd => SomeSessionMoves BY HaltedMeansDeadlocked
<1>2. AlertsInv /\ LocksEnd /\ [Next]_vars => AlertsInv' /\ LocksEnd' BY StepKeeps, SessionsDown
<1> QED BY <1>1, <1>2, InitAlerts, InitLocks, PTL DEF Spec
==============================================================================
