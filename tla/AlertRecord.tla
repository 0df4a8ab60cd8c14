----------------------------- MODULE AlertRecord ------------------------------
(* What the record of alerts promises to those who read it, without         *)
(* sessions that work on copies, locks, mail and failures: a session takes  *)
(* part in it once, in one step, in which each trigger it changes gets its  *)
(* status, one event and one notification for each destination.  Nothing    *)
(* that is recorded is changed; the events of a trigger go with the         *)
(* trigger, and one with a notification stays.                              *)
EXTENDS Naturals, Sequences

CONSTANTS Triggers, Sessions, NumDest

VARIABLES
  rows,    \* the triggers there are
  status,  \* of each trigger
  events,  \* of each trigger, oldest first: [type, by]
  notes    \* notifications: [trigger, by, dest, outcome]

recordVars == <<rows, status, events, notes>>

Init ==
  /\ rows = Triggers
  /\ status = [t \in Triggers |-> "ok"]
  /\ events = [t \in Triggers |-> <<>>]
  /\ notes = {}

(* Nothing that is recorded is of session s. *)
Unheard(s) ==
  /\ \A t \in Triggers : \A i \in DOMAIN events[t] : events[t][i].by # s
  /\ \A n \in notes : n.by # s

(* The notifications of s about the triggers of C, one for each destination. *)
OneEach(new, s, C) ==
  /\ \A n \in new : n.by = s /\ n.trigger \in C
  /\ \A t \in C, k \in 1..NumDest : \E n \in new :
       /\ n.trigger = t /\ n.dest = k
       /\ \A m \in new : m.trigger = t /\ m.dest = k => m = n

Record(s) ==
  /\ Unheard(s)
  /\ \E C \in SUBSET rows : \E type \in [C -> {"ok", "problem"}] :
       /\ status' = [t \in Triggers |-> IF t \in C THEN type[t] ELSE status[t]]
       /\ events' = [t \in Triggers |-> IF t \in C THEN Append(events[t], [type |-> type[t], by |-> s])
                                                   ELSE events[t]]
       /\ notes \subseteq notes' /\ OneEach(notes' \ notes, s, C)
  /\ UNCHANGED rows

Remove(t) ==
  /\ t \in rows /\ \A n \in notes : n.trigger # t
  /\ rows' = rows \ {t}
  /\ events' = [events EXCEPT ![t] = <<>>]
  /\ UNCHANGED <<status, notes>>

Next == (\E s \in Sessions : Record(s)) \/ (\E t \in Triggers : Remove(t))
Spec == Init /\ [][Next]_recordVars
=============================================================================
