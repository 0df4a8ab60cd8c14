--------------------------- MODULE TelemetryProofs ---------------------------
(* What the syslog process, the metrics sweep and the series drawn from its *)
(* counters guarantee for any number of connections, messages, devices,     *)
(* sweeps and rows.                                                         *)
EXTENDS SyslogReceiver, MetricsSweep, MetricSeries, WaitCircles, SequenceTheorems

-----------------------------------------------------------------------------
(* Syslog: bursts.                                                          *)

(* The id of a message that no handler works on any more. *)
Past(id) == \E h \in Handlers : \E n \in Nat :
  id = <<h, n>> /\ n <= handled[h] /\ (n = handled[h] => job[h] = NoJob)

(* The failures that were there when the message of e began, and count. *)
Earlier(e) == {p \in events : p.cat = "auth_failure" /\ p.id \in e.prior
                                /\ p.at + SiemWindow >= e.counted}
Missed(e) == e.cat = "auth_failure" /\ Cardinality(Earlier(e)) + 1 >= Burst

TablesOK ==
  /\ sysTime \in Nat /\ handled \in [Handlers -> Nat] /\ IsFiniteSet(events)
  /\ job = [h \in Handlers |-> job[h]]

EventsOK == \A p \in events :
  /\ p.at \in Nat /\ p.at <= sysTime
  /\ Past(p.id) /\ \A i \in p.prior : Past(i)
  /\ Missed(p) => \E b \in bursts : b.by = p.id

(* What a handler holds is of its message, began after all it knows of, and *)
(* has a hit unless it missed none.                                         *)
JobOK(h, j) ==
  /\ DOMAIN j = {"text", "at", "step", "prior", "event", "hit"}
  /\ j = [f \in {"text", "at", "step", "prior", "event", "hit"} |-> j[f]]
  /\ j.at \in Nat /\ j.at <= sysTime
  /\ \A i \in j.prior : Past(i)
  /\ \A p \in events : p.id \in j.prior => p.at <= j.at
  /\ j.step = "evaluate" =>
       /\ j.event.id = <<h, handled[h]>> /\ j.event.at = j.at /\ j.event.prior = j.prior
       /\ j.hit = {} => ~Missed(j.event)

BurstInv == TablesOK /\ EventsOK /\ \A h \in Handlers : job[h] # NoJob => JobOK(h, job[h])

(* A message in the works is not past. *)
LEMMA CurrentIsNotPast ==
  ASSUME NEW h \in Handlers, job[h] # NoJob
  PROVE  ~Past(<<h, handled[h]>>)
BY DEF Past

(* Events that are added are of messages in the works, so that nobody has   *)
(* seen them before: the failures a message has missed only become fewer.   *)
Advances ==
  /\ IsFiniteSet(events) /\ IsFiniteSet(events')
  /\ \A id : Past(id) => Past(id)'
  /\ \A p \in events' : p \in events \/ ~Past(p.id)
  /\ sysTime \in Nat /\ sysTime' \in Nat /\ sysTime <= sysTime'

LEMMA EarlierShrinks ==
  ASSUME Advances
  PROVE  \A e : (\A i \in e.prior : Past(i)) => (Missed(e)' => Missed(e))
<1> SUFFICES ASSUME NEW e, \A i \in e.prior : Past(i), Missed(e)'
             PROVE  Missed(e)
  OBVIOUS
<1>1. Earlier(e)' \subseteq Earlier(e)
  BY DEF Advances, Earlier
<1>2. IsFiniteSet(Earlier(e)) /\ Cardinality(Earlier(e)') <= Cardinality(Earlier(e))
  <2>1. Earlier(e) \subseteq events
    BY DEF Earlier
  <2>2. IsFiniteSet(Earlier(e))
    BY <2>1, FS_Subset DEF Advances
  <2>3. QED
    BY <1>1, <2>2, FS_Subset
<1>3. Cardinality(Earlier(e)) \in Nat /\ Cardinality(Earlier(e)') \in Nat
  BY <1>1, <1>2, FS_Subset, FS_CardinalityType
<1>4. QED
  BY <1>2, <1>3, SyslogAssumption DEF Missed

(* What a handler holds goes on to be right while others work. *)
LEMMA JobStays ==
  ASSUME Advances
  PROVE  \A h, j : JobOK(h, j) /\ handled'[h] = handled[h] => JobOK(h, j)'
<1> SUFFICES ASSUME NEW h, NEW j, JobOK(h, j), handled'[h] = handled[h]
             PROVE  JobOK(h, j)'
  OBVIOUS
<1>1. \A p \in events' : p.id \in j.prior => p.at <= j.at
  BY DEF Advances, JobOK
<1>2. j.step = "evaluate" /\ j.hit = {} => ~Missed(j.event)'
  BY EarlierShrinks DEF JobOK
<1>3. QED
  BY <1>1, <1>2 DEF JobOK, Advances

LEMMA EventsStay ==
  ASSUME Advances, EventsOK, bursts \subseteq bursts'
  PROVE  \A p \in events' \cap events :
           /\ p.at \in Nat /\ p.at <= sysTime'
           /\ Past(p.id)' /\ \A i \in p.prior : Past(i)'
           /\ Missed(p)' => \E b \in bursts' : b.by = p.id
BY EarlierShrinks DEF Advances, EventsOK

(* Messages once done are done for good. *)
LEMMA PastStays ==
  ASSUME TablesOK,
         \A h \in Handlers : \/ handled'[h] = handled[h] /\ (job[h] = NoJob => job'[h] = NoJob)
                             \/ handled'[h] = handled[h] + 1
  PROVE  \A id : Past(id) => Past(id)'
<1> SUFFICES ASSUME NEW id, Past(id) PROVE Past(id)'
  OBVIOUS
<1>1. PICK h \in Handlers, n \in Nat :
        id = <<h, n>> /\ n <= handled[h] /\ (n = handled[h] => job[h] = NoJob)
  BY DEF Past
<1>2. handled[h] \in Nat
  BY DEF TablesOK
<1>3. n <= handled'[h] /\ (n = handled'[h] => job'[h] = NoJob)
  BY <1>1, <1>2
<1>4. QED
  BY <1>1, <1>3 DEF Past

(* Steps in which handlers at most give up, and rows are at most deleted. *)
LEMMA QuietKeeps ==
  ASSUME BurstInv, TablesOK', sysTime <= sysTime',
         events' \subseteq events, bursts' = bursts, handled' = handled,
         \A h \in Handlers : job'[h] = job[h] \/ job'[h] = NoJob
  PROVE  BurstInv'
<1>1. \A id : Past(id) => Past(id)'
  BY PastStays DEF BurstInv
<1>2. Advances
  BY <1>1 DEF Advances, BurstInv, TablesOK
<1>3. EventsOK'
  BY <1>2, EventsStay DEF BurstInv, EventsOK
<1>4. ASSUME NEW h \in Handlers, job'[h] # NoJob PROVE JobOK(h, job[h])' 
  <2>1. job'[h] = job[h] /\ JobOK(h, job[h])
    BY <1>4 DEF BurstInv
  <2>2. \A j : JobOK(h, j) => JobOK(h, j)'
    BY <1>2, JobStays
  <2>3. QED
    BY <2>1, <2>2
<1>5. QED
  BY <1>3, <1>4 DEF BurstInv

LEMMA FailsKeeps ==
  ASSUME BurstInv, NEW h \in Handlers, Fails(h)
  PROVE  BurstInv'
<1>1. TablesOK' /\ sysTime' = sysTime /\ events' = events
  BY DEF Fails, BurstInv, TablesOK, udpVars, tableVars
<1>2. bursts' = bursts /\ handled' = handled
  BY DEF Fails, udpVars, tableVars
<1>3. \A g \in Handlers : job'[g] = job[g] \/ job'[g] = NoJob
  BY DEF Fails, BurstInv, TablesOK
<1>4. QED
  BY <1>1, <1>2, <1>3, QuietKeeps DEF BurstInv, TablesOK

(* A new message has seen the events that are there. *)
LEMMA BeginKeeps ==
  ASSUME BurstInv, NEW h \in Handlers, NEW text, job[h] = NoJob, Begin(h, text),
         UNCHANGED <<sysTime, events, bursts>>
  PROVE  BurstInv'
<1>1. TablesOK'
  BY DEF Begin, BurstInv, TablesOK
<1>2. /\ job'[h] = NewJob(text) /\ handled'[h] = handled[h] + 1
      /\ \A g \in Handlers \ {h} : job'[g] = job[g] /\ handled'[g] = handled[g]
  BY DEF Begin, BurstInv, TablesOK
<1>3. \A id : Past(id) => Past(id)'
  BY <1>2, PastStays DEF BurstInv
<1>4. Advances
  BY <1>3 DEF Advances, BurstInv, TablesOK
<1>5. EventsOK'
  BY <1>4, EventsStay DEF BurstInv, EventsOK
<1>6. JobOK(h, job[h])'
  <2>1. \A p \in events : Past(p.id)' /\ p.at <= sysTime
    BY <1>3 DEF BurstInv, EventsOK
  <2>2. job'[h].prior = {p.id : p \in events} /\ job'[h].at = sysTime /\ job'[h].step = "ingest"
    BY <1>2 DEF NewJob
  <2>3. /\ DOMAIN job'[h] = {"text", "at", "step", "prior", "event", "hit"}
        /\ job'[h] = [f \in {"text", "at", "step", "prior", "event", "hit"} |-> job'[h][f]]
    BY <1>2 DEF NewJob
  <2>4. \A i \in job'[h].prior : Past(i)'
    BY <2>1, <2>2
  <2>5. QED
    BY <2>1, <2>2, <2>3, <2>4 DEF JobOK, BurstInv, TablesOK
<1>7. ASSUME NEW g \in Handlers \ {h}, job'[g] # NoJob PROVE JobOK(g, job[g])'
  <2>1. job'[g] = job[g] /\ handled'[g] = handled[g] /\ JobOK(g, job[g])
    BY <1>2, <1>7 DEF BurstInv
  <2>2. \A j : JobOK(g, j) => JobOK(g, j)'
    BY <1>4, <2>1, JobStays
  <2>3. QED
    BY <2>1, <2>2
<1>8. QED
  BY <1>1, <1>5, <1>6, <1>7 DEF BurstInv

(* The failures that e has missed are among those it counts, and e itself   *)
(* is one of these when it has missed any: it began after them.             *)
LEMMA MissedIsCounted ==
  ASSUME TablesOK, NEW e, e.cat = "auth_failure", e.counted = sysTime, e.at \in Nat,
         \A p \in events : p.at \in Nat /\ Past(p.id),
         \A p \in events : p.id \in e.prior => p.at <= e.at,
         ~Past(e.id), Cardinality(Failures(e)) < Burst
  PROVE  ~Missed(e)
<1> DEFINE F == Failures(e)
           E == Earlier(e)
<1>1. E \subseteq F
  BY DEF Failures, Earlier
<1>2. E # {} => e \in F
  <2> SUFFICES ASSUME NEW p \in E PROVE e \in F
    OBVIOUS
  <2>1. p \in events /\ p.id \in e.prior /\ p.at + SiemWindow >= sysTime
    BY DEF Earlier
  <2>2. p.at \in Nat /\ p.at <= e.at
    BY <2>1
  <2>3. e.at + SiemWindow >= sysTime
    BY <2>1, <2>2, SyslogAssumption DEF TablesOK
  <2>4. QED
    BY <2>3 DEF Failures
<1>3. e \notin E
  BY DEF Earlier
<1>4. IsFiniteSet(F)
  <2>1. IsFiniteSet(events \cup {e})
    BY FS_AddElement DEF TablesOK
  <2>2. F \subseteq events \cup {e}
    BY DEF Failures
  <2>3. QED
    BY <2>1, <2>2, FS_Subset
<1> HIDE DEF F, E
<1>5. IsFiniteSet(E) /\ Cardinality(F) \in Nat /\ Cardinality(E) \in Nat
  BY <1>1, <1>4, FS_Subset, FS_CardinalityType
<1>6. CASE E = {}
  BY <1>6, FS_EmptySet, SyslogAssumption DEF Missed, E
<1>7. CASE E # {}
  <2>1. Cardinality(E \cup {e}) = Cardinality(E) + 1
    BY <1>3, <1>5, FS_AddElement
  <2>2. Cardinality(E \cup {e}) <= Cardinality(F)
    BY <1>1, <1>2, <1>4, <1>7, FS_Subset
  <2>3. Cardinality(F) < Burst
    BY DEF F
  <2>4. Cardinality(E) + 1 < Burst
    BY <2>1, <2>2, <2>3, <1>5, SyslogAssumption
  <2>5. QED
    BY <2>4, <1>5, SyslogAssumption DEF Missed, E
<1>8. QED
  BY <1>6, <1>7

LEMMA IngestKeeps ==
  ASSUME BurstInv, NEW h \in Handlers, Ingest(h)
  PROVE  BurstInv'
<1>1. CASE matches > 1
  BY <1>1, FailsKeeps DEF Ingest
<1>2. CASE ~(matches > 1)
  <2>0. PICK e : e = [cat |-> Category(job[h].text), at |-> job[h].at, prior |-> job[h].prior,
                      counted |-> sysTime, id |-> <<h, handled[h]>>]
    OBVIOUS
  <2>1. job[h] # NoJob /\ JobOK(h, job[h])
    BY DEF Ingest, BurstInv
  <2>2. /\ e.cat = Category(job[h].text) /\ e.at = job[h].at /\ e.prior = job[h].prior
        /\ e.counted = sysTime /\ e.id = <<h, handled[h]>>
    BY <2>0
  <2>3. PICK ids \in IF e.cat # "auth_failure" \/ Cardinality(Failures(e)) < Burst THEN {{}}
                     ELSE {s \in SUBSET Failures(e) :
                             \/ s = Failures(e) /\ Cardinality(s) <= HitMax
                             \/ Cardinality(s) = HitMax} :
          job' = [job EXCEPT ![h].event = e, ![h].step = "evaluate", ![h].hit = {p.id : p \in ids}]
    BY <1>2, <2>0 DEF Ingest
  <2>4. UNCHANGED <<sysTime, handled, events, bursts>>
    BY <1>2 DEF Ingest, tableVars
  <2>5. ids = {} => ~Missed(e)
    <3> SUFFICES ASSUME ids = {}, e.cat = "auth_failure" PROVE ~Missed(e)
      BY DEF Missed
    <3>1. Cardinality(Failures(e)) < Burst
      <4> SUFFICES ASSUME ~(Cardinality(Failures(e)) < Burst) PROVE FALSE
        OBVIOUS
      <4>1. \/ {} = Failures(e) /\ Cardinality({}) <= HitMax
            \/ Cardinality({}) = HitMax
        BY <2>3
      <4>2. Cardinality({}) = 0
        BY FS_EmptySet
      <4>3. Burst \in Nat /\ HitMax \in Nat /\ 0 < Burst /\ Burst <= HitMax
        <5>1. Burst \in Nat \ {0, 1} /\ HitMax \in Nat /\ HitMax >= Burst
          BY SyslogAssumption
        <5> QED BY <5>1
      <4>4. ~(Cardinality({}) = HitMax)
        BY <4>2, <4>3
      <4>5. {} = Failures(e)
        BY <4>1, <4>4
      <4>6. Cardinality(Failures(e)) < Burst
        BY <4>2, <4>3, <4>5
      <4>7. QED
        BY <4>6
    <3>2. ~Past(e.id)
      BY <2>1, <2>2, CurrentIsNotPast
    <3>3. e.counted = sysTime /\ e.at \in Nat
      BY <2>1, <2>2 DEF JobOK
    <3>4. \A p \in events : p.at \in Nat /\ Past(p.id)
      BY DEF BurstInv, EventsOK
    <3>5. \A p \in events : p.id \in e.prior => p.at <= e.at
      BY <2>1, <2>2 DEF JobOK
    <3>6. TablesOK
      BY DEF BurstInv
    <3>7. QED
      BY <3>1, <3>2, <3>3, <3>4, <3>5, <3>6, MissedIsCounted
  <2>6. job'[h] = [job[h] EXCEPT !.event = e, !.step = "evaluate", !.hit = {p.id : p \in ids}]
    BY <2>3 DEF BurstInv, TablesOK
  <2>7. \A g \in Handlers \ {h} : job'[g] = job[g]
    BY <2>3 DEF BurstInv, TablesOK
  <2>8. TablesOK'
    BY <2>3, <2>4 DEF BurstInv, TablesOK
  <2>9. \A id : Past(id) => Past(id)'
    BY <2>1, <2>4, <2>7 DEF Past
  <2>10. Advances
    BY <2>4, <2>8, <2>9 DEF Advances, BurstInv, TablesOK
  <2>11. EventsOK'
    BY <2>4, <2>10, EventsStay DEF BurstInv, EventsOK
  <2>12. JobOK(h, job[h])'
    <3>1. /\ DOMAIN job'[h] = {"text", "at", "step", "prior", "event", "hit"}
          /\ job'[h] = [f \in {"text", "at", "step", "prior", "event", "hit"} |-> job'[h][f]]
          /\ job'[h].at = job[h].at /\ job'[h].prior = job[h].prior
          /\ job'[h].event = e /\ job'[h].hit = {p.id : p \in ids}
      BY <2>1, <2>6 DEF JobOK
    <3>2. job'[h].hit = {} => ids = {}
      BY <3>1
    <3>3. job'[h].hit = {} => ~Missed(e)'
      <4>1. \A i \in e.prior : Past(i)
        BY <2>1, <2>2 DEF JobOK
      <4>2. Missed(e)' => Missed(e)
        BY <2>10, <4>1, EarlierShrinks
      <4>3. QED
        BY <2>5, <3>2, <4>2
    <3>4. \A i \in job'[h].prior : Past(i)'
      BY <2>1, <2>9, <3>1 DEF JobOK
    <3>5. \A p \in events' : p.id \in job'[h].prior => p.at <= job'[h].at
      BY <2>1, <2>4, <3>1 DEF JobOK
    <3>6. /\ job'[h].at \in Nat /\ job'[h].at <= sysTime'
          /\ job'[h].event.id = <<h, handled'[h]>> /\ job'[h].event.at = job'[h].at
          /\ job'[h].event.prior = job'[h].prior
      BY <2>1, <2>2, <2>4, <3>1 DEF JobOK
    <3>7. QED
      <4>1. PICK j : j = job'[h]
        OBVIOUS
      <4>2. JobOK(h, j)'
        BY <4>1, <3>1, <3>3, <3>4, <3>5, <3>6 DEF JobOK
      <4>3. QED
        BY <4>1, <4>2
  <2>13. ASSUME NEW g \in Handlers \ {h}, job'[g] # NoJob PROVE JobOK(g, job[g])'
    <3>1. job'[g] = job[g] /\ handled'[g] = handled[g] /\ JobOK(g, job[g])
      BY <2>4, <2>7, <2>13 DEF BurstInv
    <3>2. \A j : JobOK(g, j) => JobOK(g, j)'
      BY <2>10, <3>1, JobStays
    <3>3. QED
      BY <3>1, <3>2
  <2>14. QED
    BY <2>8, <2>11, <2>12, <2>13 DEF BurstInv
<1>3. QED
  BY <1>1, <1>2

LEMMA CommitMessageKeeps ==
  ASSUME BurstInv, NEW h \in Handlers, CommitMessage(h)
  PROVE  BurstInv'
<1>0. PICK e : e = job[h].event
  OBVIOUS
<1>1. job[h] # NoJob /\ job[h].step = "evaluate" /\ JobOK(h, job[h])
  BY DEF CommitMessage, BurstInv
<1>2. e.id = <<h, handled[h]>> /\ e.at = job[h].at /\ e.prior = job[h].prior
  BY <1>0, <1>1 DEF JobOK
<1>3. /\ events' = events \cup {e} /\ job' = [job EXCEPT ![h] = NoJob]
      /\ bursts \subseteq bursts' /\ UNCHANGED <<sysTime, handled>>
      /\ job[h].hit # {} => \E b \in bursts' : b.by = e.id
  <2>1. bursts' = IF job[h].hit = {} THEN bursts ELSE bursts \cup {[by |-> e.id, ids |-> job[h].hit]}
    BY <1>0 DEF CommitMessage
  <2>2. [by |-> e.id, ids |-> job[h].hit].by = e.id
    OBVIOUS
  <2>3. events' = events \cup {e} /\ job' = [job EXCEPT ![h] = NoJob] /\ UNCHANGED <<sysTime, handled>>
    BY <1>0 DEF CommitMessage
  <2>4. QED
    BY <2>1, <2>2, <2>3
<1>4. TablesOK'
  BY <1>3, FS_AddElement DEF BurstInv, TablesOK
<1>5. job'[h] = NoJob /\ \A g \in Handlers \ {h} : job'[g] = job[g]
  BY <1>3 DEF BurstInv, TablesOK
<1>6. \A id : Past(id) => Past(id)'
  BY <1>3, <1>5, PastStays DEF BurstInv
<1>7. Advances
  <2>1. ~Past(e.id)
    BY <1>1, <1>2, CurrentIsNotPast
  <2>2. \A p \in events' : p \in events \/ ~Past(p.id)
    BY <1>3, <2>1
  <2>3. QED
    BY <1>3, <1>4, <1>6, <2>2 DEF Advances, BurstInv, TablesOK
<1>8. EventsOK'
  <2>1. \A p \in events :
           /\ p.at \in Nat /\ p.at <= sysTime'
           /\ Past(p.id)' /\ \A i \in p.prior : Past(i)'
           /\ Missed(p)' => \E b \in bursts' : b.by = p.id
    BY <1>3, <1>7, EventsStay DEF BurstInv
  <2>2. /\ e.at \in Nat /\ e.at <= sysTime' /\ \A i \in e.prior : Past(i)'
    BY <1>1, <1>2, <1>3, <1>6 DEF JobOK
  <2>3. Past(e.id)'
    <3>1. handled'[h] \in Nat /\ e.id = <<h, handled'[h]>>
      BY <1>2, <1>3, <1>4 DEF TablesOK
    <3>2. QED
      BY <1>5, <3>1 DEF Past
  <2>4. Missed(e)' => \E b \in bursts' : b.by = e.id
    <3>1. job[h].hit = {} => ~Missed(e)
      BY <1>0, <1>1 DEF JobOK
    <3>2. \A i \in e.prior : Past(i)
      BY <1>1, <1>2 DEF JobOK
    <3>3. job[h].hit = {} => ~Missed(e)'
      <4>1. Missed(e)' => Missed(e)
        BY <1>7, <3>2, EarlierShrinks
      <4>2. QED
        BY <3>1, <4>1
    <3>4. QED
      BY <1>3, <3>3
  <2>5. \A p \in events' : p \in events \/ p = e
    BY <1>3
  <2>6. QED
    BY <2>1, <2>2, <2>3, <2>4, <2>5 DEF EventsOK
<1>9. ASSUME NEW g \in Handlers, job'[g] # NoJob PROVE JobOK(g, job[g])'
  <2>1. job'[g] = job[g] /\ handled'[g] = handled[g] /\ JobOK(g, job[g])
    BY <1>3, <1>5, <1>9 DEF BurstInv
  <2>2. \A j : JobOK(g, j) => JobOK(g, j)'
    BY <1>7, <2>1, JobStays
  <2>3. QED
    BY <2>1, <2>2
<1>10. QED
  BY <1>4, <1>8, <1>9 DEF BurstInv

LEMMA SyslogStep ==
  ASSUME BurstInv, [SysNext]_sysVars
  PROVE  BurstInv'
<1>1. ASSUME UNCHANGED <<events, bursts, job, handled>>, sysTime' \in Nat, sysTime <= sysTime'
      PROVE  BurstInv'
  BY <1>1, QuietKeeps DEF BurstInv, TablesOK
<1>2. ASSUME UNCHANGED <<sysTime, events, bursts, job, handled>> PROVE BurstInv'
  BY <1>1, <1>2 DEF BurstInv, TablesOK
<1>3. CASE DatagramReceived
  BY <1>2, <1>3 DEF DatagramReceived, tableVars
<1>4. CASE TakeDatagram
  <2>1. Udp \in Handlers
    BY DEF Handlers
  <2>2. QED
    BY <1>4, <2>1, BeginKeeps DEF TakeDatagram, tableVars
<1>5. CASE Purge
  <2>1. events' \subseteq events
    BY <1>5 DEF Purge
  <2>2. UNCHANGED <<sysTime, bursts, job, handled>>
    BY <1>5 DEF Purge
  <2>3. TablesOK'
    BY <2>1, <2>2, FS_Subset DEF BurstInv, TablesOK
  <2>4. QED
    BY <2>1, <2>2, <2>3, QuietKeeps DEF BurstInv, TablesOK
<1>6. CASE DevicesChange
  BY <1>2, <1>6 DEF DevicesChange, tableVars
<1>7. CASE SysTick
  <2>1. sysTime' \in Nat /\ sysTime <= sysTime'
    BY <1>7 DEF SysTick, BurstInv, TablesOK
  <2>2. QED
    BY <1>1, <1>7, <2>1 DEF SysTick, tableVars
<1>8. ASSUME NEW c \in TcpClients, ReadClient(c) PROVE BurstInv'
  <2>1. CASE ReadChunk(c)
    BY <1>2, <2>1 DEF ReadChunk, tableVars
  <2>2. CASE EndOfStream(c)
    BY <1>2, <2>2 DEF EndOfStream, tableVars
  <2>3. CASE TakeLine(c)
    <3> DEFINE text == Strip(SubSeq(buffer[c], 1, FirstNewline(buffer[c]) - 1))
    <3>1. /\ IF text = <<>> THEN UNCHANGED <<lines, job, handled>>
             ELSE lines' = [lines EXCEPT ![c] = Append(@, text)] /\ Begin(c, text)
          /\ UNCHANGED <<sysTime, events, bursts>> /\ job[c] = NoJob
      BY <2>3 DEF TakeLine, tableVars
    <3> HIDE DEF text
    <3>2. c \in Handlers
      BY DEF Handlers
    <3>3. QED
      BY <1>2, <3>1, <3>2, BeginKeeps
  <2>4. QED
    BY <1>8, <2>1, <2>2, <2>3 DEF ReadClient
<1>9. ASSUME NEW h \in Handlers, Handle(h) PROVE BurstInv'
  BY <1>9, IngestKeeps, CommitMessageKeeps, FailsKeeps DEF Handle, EvaluateFails
<1>10. CASE UNCHANGED sysVars
  BY <1>2, <1>10 DEF sysVars
<1>11. QED
  BY <1>3, <1>4, <1>5, <1>6, <1>7, <1>8, <1>9, <1>10 DEF SysNext

(* A burst of failures goes unnoticed only if its messages overlap, however *)
(* many connections there are and whatever is purged or fails in between    *)
(* (SyslogIngestService.ingest, _correlate).                                *)
THEOREM BurstsAreReported == SysSpec => []BurstReported
<1>1. SysInit => BurstInv
  <2> SUFFICES ASSUME SysInit PROVE BurstInv
    OBVIOUS
  <2>1. events = {} /\ IsFiniteSet(events)
    BY FS_EmptySet DEF SysInit
  <2>2. job = [h \in Handlers |-> NoJob] /\ handled = [h \in Handlers |-> 0] /\ sysTime = 0
    BY DEF SysInit
  <2>3. QED
    BY <2>1, <2>2 DEF BurstInv, TablesOK, EventsOK
<1>2. BurstInv /\ [SysNext]_sysVars => BurstInv'
  BY SyslogStep
<1>3. BurstInv => BurstReported
  BY DEF BurstInv, EventsOK, BurstReported, Missed, Earlier
<1>4. QED
  BY <1>1, <1>2, <1>3, PTL DEF SysSpec

-----------------------------------------------------------------------------
(* The sweep: what a run has collected, while it runs and when it commits.  *)

Distinct(q) == \A i, j \in 1..Len(q) : q[i] = q[j] => i = j
Listed(q) == {q[i] : i \in 1..Len(q)}
Fields == {"step", "todo", "thin", "dirty", "locked", "enriched", "metrics", "polls", "ok", "errors"}
StoredOf(logs) == {p \in logs : p.status = "stored"}
FailedOf(logs) == {p \in logs : p.status = "error"}

(* The logs of run s when the devices left are those of todo: one for each  *)
(* of the others.                                                           *)
LogsOK(s, logs, todo) ==
  /\ IsFiniteSet(logs)
  /\ \A p \in logs : p.run = s /\ p.device \in SweepDevices \ Listed(todo)
  /\ \A p, q \in logs : p.device = q.device => p = q
  /\ \A d \in SweepDevices \ Listed(todo) : \E p \in logs : p.device = d

CountsOK(s, w) ==
  /\ w.metrics = {<<s, p.device>> : p \in StoredOf(w.polls)}
  /\ w.ok \in Nat /\ w.ok = Cardinality(StoredOf(w.polls))
  /\ w.errors \in Nat /\ (w.errors = 0 <=> FailedOf(w.polls) = {})

RunOK(s, w) ==
  /\ DOMAIN w = Fields
  /\ w.todo \in Seq(SweepDevices) /\ Distinct(w.todo)
  /\ w.step \in {"bind", "enrich", "collect"} => w.todo # <<>>
  /\ LogsOK(s, w.polls, w.todo) /\ CountsOK(s, w)

(* Until it ends a run has no rows. *)
NoRows(s) == /\ \A x \in metrics : x[1] # s
             /\ \A p \in polls : p.run # s
             /\ \A y \in summary : y.run # s
RunsOK == \A s \in Sweeps :
  /\ sweep[s] # NoSweep /\ sweep[s].step # "ended" => RunOK(s, sweep[s])
  /\ sweep[s] = NoSweep \/ sweep[s].step # "ended" => NoRows(s)
SweepInv == order \in Orders /\ sweep = [s \in Sweeps |-> sweep[s]] /\ RunsOK /\ RunConsistent

-----------------------------------------------------------------------------
(* An order of the hostnames names each device once. *)
LEMMA OrdersAreDistinct ==
  ASSUME NEW o \in Orders
  PROVE  o \in Seq(SweepDevices) /\ Distinct(o) /\ Listed(o) = SweepDevices
<1> DEFINE n == Cardinality(SweepDevices)
<1>1. n \in Nat
  BY SweepAssumption, FS_CardinalityType
<1>2. o \in [1..n -> SweepDevices] /\ \A d \in SweepDevices : \E i \in DOMAIN o : o[i] = d
  BY SweepAssumption
<1>3. IsFiniteSet(1..n) /\ Cardinality(1..n) = n
  <2> HIDE DEF n
  <2>1. IsFiniteSet(1..n) /\ Cardinality(1..n) = IF 1 > n THEN 0 ELSE n - 1 + 1
    BY <1>1, FS_Interval
  <2>2. QED
    BY <1>1, <2>1
<1>4. o \in Injection(1..n, SweepDevices)
  <2>1. o \in Surjection(1..n, SweepDevices)
    BY <1>2 DEF Surjection
  <2>2. QED
    BY <1>3, <2>1, FS_SurjSameCardinalityImpliesInj
<1> HIDE DEF n
<1>5. o \in Seq(SweepDevices) /\ Len(o) = n /\ DOMAIN o = 1..n
  BY <1>1, <1>2
<1>6. Distinct(o)
  BY <1>4, <1>5 DEF Distinct, Injection, IsInjective
<1>7. Listed(o) = SweepDevices
  BY <1>2, <1>5 DEF Listed
<1>8. QED
  BY <1>5, <1>6, <1>7

(* Its head is dealt with, and the tail lists the others. *)
LEMMA TailLists ==
  ASSUME NEW S, NEW q \in Seq(S), q # <<>>, Distinct(q)
  PROVE  /\ Tail(q) \in Seq(S) /\ Distinct(Tail(q))
         /\ Head(q) \in S /\ Listed(Tail(q)) = Listed(q) \ {Head(q)} /\ Head(q) \in Listed(q)
<1> DEFINE t == Tail(q)
<1>1. /\ t \in Seq(S) /\ Len(q) \in Nat \ {0} /\ Len(t) = Len(q) - 1 /\ Head(q) = q[1]
      /\ \A i \in 1..(Len(q) - 1) : t[i] = q[i + 1]
  OBVIOUS
<1>2. q[1] \in S
  BY <1>1
<1> HIDE DEF t
<1>3. Distinct(t)
  <2> SUFFICES ASSUME NEW i \in 1..Len(t), NEW j \in 1..Len(t), t[i] = t[j]
               PROVE  i = j
    BY DEF Distinct
  <2>1. i + 1 \in 1..Len(q) /\ j + 1 \in 1..Len(q) /\ q[i + 1] = q[j + 1]
    BY <1>1
  <2>2. i + 1 = j + 1
    BY <2>1 DEF Distinct
  <2>3. QED
    BY <1>1, <2>2
<1>4. ASSUME NEW d \in Listed(t) PROVE d \in Listed(q) \ {q[1]}
  <2>1. PICK i \in 1..Len(t) : d = t[i]
    BY <1>4 DEF Listed
  <2>2. i + 1 \in 1..Len(q) /\ 1 \in 1..Len(q) /\ i + 1 # 1 /\ d = q[i + 1]
    BY <1>1, <2>1
  <2>3. q[i + 1] # q[1]
    BY <2>2 DEF Distinct
  <2>4. QED
    BY <2>2, <2>3 DEF Listed
<1>5. ASSUME NEW d \in Listed(q) \ {q[1]} PROVE d \in Listed(t)
  <2>1. PICK i \in 1..Len(q) : d = q[i]
    BY <1>5 DEF Listed
  <2>2. i - 1 \in 1..Len(t) /\ t[i - 1] = d
    <3>1. i # 1
      BY <1>5, <2>1
    <3>2. i - 1 \in 1..(Len(q) - 1) /\ (i - 1) + 1 = i
      BY <1>1, <3>1
    <3>3. QED
      BY <1>1, <2>1, <3>2
  <2>3. QED
    BY <2>2 DEF Listed
<1>6. q[1] \in Listed(q)
  BY <1>1 DEF Listed
<1>7. QED
  BY <1>1, <1>2, <1>3, <1>4, <1>5, <1>6 DEF t

(* One more log, of the device that is first. *)
LEMMA LogAdded ==
  ASSUME NEW s, NEW w, RunOK(s, w), w.todo # <<>>,
         NEW status \in {"skipped", "error", "stored"}, NEW v,
         LET p == [run |-> s, device |-> Head(w.todo), status |-> status]
         IN  /\ DOMAIN v = Fields /\ v.step = "device" /\ v.todo = Tail(w.todo)
             /\ v.polls = w.polls \cup {p}
             /\ v.metrics = IF status = "stored" THEN w.metrics \cup {<<s, Head(w.todo)>>} ELSE w.metrics
             /\ v.ok = IF status = "stored" THEN w.ok + 1 ELSE w.ok
             /\ v.errors = IF status = "error" THEN w.errors + 1 ELSE w.errors
  PROVE  RunOK(s, v)
<1>1. PICK p : p = [run |-> s, device |-> Head(w.todo), status |-> status]
  OBVIOUS
<1>2. p.run = s /\ p.device = Head(w.todo) /\ p.status = status
  BY <1>1
<1>3. /\ v.polls = w.polls \cup {p}
      /\ v.metrics = IF status = "stored" THEN w.metrics \cup {<<s, p.device>>} ELSE w.metrics
  BY <1>1, <1>2
<1>4. /\ v.todo \in Seq(SweepDevices) /\ Distinct(v.todo) /\ p.device \in SweepDevices
      /\ Listed(v.todo) = Listed(w.todo) \ {p.device} /\ p.device \in Listed(w.todo)
  BY <1>2, TailLists DEF RunOK
<1>5. \A q \in w.polls : q.device # p.device
  BY <1>4 DEF RunOK, LogsOK
<1>6. LogsOK(s, v.polls, v.todo)
  <2>1. IsFiniteSet(v.polls)
    BY <1>3, FS_AddElement DEF RunOK, LogsOK
  <2>2. QED
    BY <1>2, <1>3, <1>4, <1>5, <2>1 DEF RunOK, LogsOK
<1>7. /\ StoredOf(v.polls) = IF status = "stored" THEN StoredOf(w.polls) \cup {p} ELSE StoredOf(w.polls)
      /\ FailedOf(v.polls) = IF status = "error" THEN FailedOf(w.polls) \cup {p} ELSE FailedOf(w.polls)
      /\ p \notin StoredOf(w.polls)
  BY <1>2, <1>3, <1>5 DEF StoredOf, FailedOf
<1>8. IsFiniteSet(StoredOf(w.polls))
  <2>1. StoredOf(w.polls) \subseteq w.polls
    BY DEF StoredOf
  <2>2. QED
    BY <2>1, FS_Subset DEF RunOK, LogsOK
<1>9. v.ok \in Nat /\ v.ok = Cardinality(StoredOf(v.polls))
  <2>1. Cardinality(StoredOf(w.polls) \cup {p}) = Cardinality(StoredOf(w.polls)) + 1
    BY <1>7, <1>8, FS_AddElement
  <2>2. QED
    BY <1>7, <2>1 DEF RunOK, CountsOK
<1>10. v.errors \in Nat /\ (v.errors = 0 <=> FailedOf(v.polls) = {})
  <2>1. w.errors \in Nat /\ (w.errors = 0 <=> FailedOf(w.polls) = {})
    BY DEF RunOK, CountsOK
  <2>2. CASE status = "error"
    <3>1. v.errors = w.errors + 1 /\ FailedOf(v.polls) # {}
      BY <1>7, <2>2
    <3>2. v.errors \in Nat /\ v.errors # 0
      BY <2>1, <3>1
    <3>3. QED
      BY <3>1, <3>2
  <2>3. CASE status # "error"
    <3>1. v.errors = w.errors /\ FailedOf(v.polls) = FailedOf(w.polls)
      BY <1>7, <2>3
    <3>2. QED
      BY <2>1, <3>1
  <2>4. QED
    BY <2>2, <2>3
<1>11. v.metrics = {<<s, q.device>> : q \in StoredOf(v.polls)}
  BY <1>3, <1>7 DEF RunOK, CountsOK
<1>12. QED
  BY <1>4, <1>6, <1>9, <1>10, <1>11 DEF RunOK, CountsOK

(* Changes to a run that touch no log and no count. *)
LEMMA CountsUntouched ==
  ASSUME NEW s, NEW w, RunOK(s, w), NEW v,
         DOMAIN v = Fields /\ v.todo = w.todo /\ v.polls = w.polls /\ v.metrics = w.metrics,
         v.ok = w.ok /\ v.errors = w.errors,
         v.step \in {"bind", "enrich", "collect"} => w.todo # <<>>
  PROVE  RunOK(s, v)
BY DEF RunOK, CountsOK

(* A run that goes on, or ends without a commit. *)
LEMMA GoesKeeps ==
  ASSUME SweepInv, NEW s \in Sweeps, sweep[s] = NoSweep \/ Active(s), NEW new, Goes(s, new),
         new.step = "ended" \/ RunOK(s, new)
  PROVE  SweepInv'
<1>1. sweep' = [sweep EXCEPT ![s] = new] /\ UNCHANGED <<order, metrics, polls, summary>>
  BY DEF Goes, tables
<1>2. sweep' = [t \in Sweeps |-> sweep'[t]] /\ sweep'[s] = new
  BY <1>1 DEF SweepInv
<1>3. \A t \in Sweeps \ {s} : sweep'[t] = sweep[t]
  BY <1>1 DEF SweepInv
<1>4. NoRows(s)' /\ \A t : NoRows(t) => NoRows(t)'
  BY <1>1 DEF SweepInv, RunsOK, Active, NoRows
<1>5. RunsOK'
  <2> SUFFICES ASSUME NEW t \in Sweeps
               PROVE  /\ sweep'[t] # NoSweep /\ sweep'[t].step # "ended" => RunOK(t, sweep'[t])
                      /\ sweep'[t] = NoSweep \/ sweep'[t].step # "ended" => NoRows(t)'
    BY DEF RunsOK, RunOK, LogsOK, CountsOK
  <2>1. CASE t = s
    BY <1>2, <1>4, <2>1
  <2>2. CASE t # s
    BY <1>3, <1>4, <2>2 DEF SweepInv, RunsOK
  <2>3. QED
    BY <2>1, <2>2
<1>6. RunConsistent'
  BY <1>1 DEF SweepInv, RunConsistent, Stored, Failed
<1>7. QED
  BY <1>1, <1>2, <1>5, <1>6 DEF SweepInv

(* Summary y says of the run s that has written w what its logs say. *)
Reports(s, w, y) ==
  /\ \A d \in SweepDevices : Cardinality({p \in w.polls : p.run = s /\ p.device = d}) = 1
  /\ \A p \in w.polls : p.run = s
  /\ w.metrics = {<<s, p.device>> : p \in StoredOf(w.polls)}
  /\ y.run = s /\ y.written = Cardinality(StoredOf(w.polls))
  /\ y.status = "ok" <=> FailedOf(w.polls) = {}
  /\ y.status = "partial" <=> FailedOf(w.polls) # {} /\ StoredOf(w.polls) # {}

(* What a run that is complete commits is consistent. *)
LEMMA CommittedIsConsistent ==
  ASSUME NEW s, NEW w, RunOK(s, w), w.todo = <<>>, NEW y, NEW status,
         y = [run |-> s, status |-> status, written |-> w.ok],
         status = "ok" <=> w.errors = 0,
         status = "partial" <=> w.errors > 0 /\ w.ok > 0
  PROVE  Reports(s, w, y)
<1>1. Listed(w.todo) = {}
  BY DEF Listed
<1>2. ASSUME NEW d \in SweepDevices PROVE Cardinality({p \in w.polls : p.run = s /\ p.device = d}) = 1
  <2>1. PICK p \in w.polls : p.device = d
    BY <1>1 DEF RunOK, LogsOK
  <2>2. {q \in w.polls : q.run = s /\ q.device = d} = {p}
    BY <2>1 DEF RunOK, LogsOK
  <2>3. QED
    BY <2>2, FS_Singleton
<1>3. w.ok > 0 <=> StoredOf(w.polls) # {}
  <2>1. IsFiniteSet(StoredOf(w.polls))
    <3>1. StoredOf(w.polls) \subseteq w.polls
      BY DEF StoredOf
    <3>2. QED
      BY <3>1, FS_Subset DEF RunOK, LogsOK
  <2>2. Cardinality(StoredOf(w.polls)) = 0 <=> StoredOf(w.polls) = {}
    BY <2>1, FS_EmptySet
  <2>3. QED
    BY <2>2 DEF RunOK, CountsOK
<1>5. /\ y.run = s /\ y.status = status /\ y.written = w.ok
  OBVIOUS
<1>6. \A p \in w.polls : p.run = s
  BY DEF RunOK, LogsOK
<1>7. w.errors \in Nat /\ (w.errors = 0 <=> FailedOf(w.polls) = {})
  BY DEF RunOK, CountsOK
<1>8. /\ y.status = "ok" <=> FailedOf(w.polls) = {}
      /\ y.status = "partial" <=> FailedOf(w.polls) # {} /\ StoredOf(w.polls) # {}
  BY <1>3, <1>5, <1>7
<1>9. QED
  <2>1. w.metrics = {<<s, p.device>> : p \in StoredOf(w.polls)} /\ w.ok = Cardinality(StoredOf(w.polls))
    BY DEF RunOK, CountsOK
  <2>2. QED
    BY <1>2, <1>5, <1>6, <1>8, <2>1 DEF Reports

LEMMA CommitSweepKeeps ==
  ASSUME SweepInv, NEW s \in Sweeps, CommitSweep(s)
  PROVE  SweepInv'
<1> DEFINE w == sweep[s]
<1>1. PICK y : y = [run |-> s, status |-> SweepStatus(s), written |-> w.ok]
  OBVIOUS
<1>2. RunOK(s, w) /\ w.todo = <<>> /\ NoRows(s)
  BY DEF CommitSweep, At, Active, SweepInv, RunsOK
<1>3. /\ metrics' = metrics \cup w.metrics /\ polls' = polls \cup w.polls
      /\ summary' = summary \cup {y} /\ sweep' = [sweep EXCEPT ![s] = Ended] /\ order' = order
  BY <1>1 DEF CommitSweep
<1>4. sweep' = [t \in Sweeps |-> sweep'[t]] /\ sweep'[s] = Ended
  BY <1>3 DEF SweepInv
<1>5. \A t \in Sweeps \ {s} : sweep'[t] = sweep[t]
  BY <1>3 DEF SweepInv
<1>6. /\ \A d \in SweepDevices : Cardinality({p \in w.polls : p.run = s /\ p.device = d}) = 1
      /\ \A p \in w.polls : p.run = s
      /\ w.metrics = {<<s, p.device>> : p \in StoredOf(w.polls)}
      /\ y.run = s /\ y.written = Cardinality(StoredOf(w.polls))
      /\ y.status = "ok" <=> FailedOf(w.polls) = {}
      /\ y.status = "partial" <=> FailedOf(w.polls) # {} /\ StoredOf(w.polls) # {}
  <2>1. Reports(s, w, y)
    <3>1. PICK status : status = SweepStatus(s)
      OBVIOUS
    <3>2. /\ status = "ok" <=> w.errors = 0
          /\ status = "partial" <=> w.errors > 0 /\ w.ok > 0
      BY <1>2, <3>1 DEF SweepStatus, RunOK, CountsOK
    <3>3. y = [run |-> s, status |-> status, written |-> w.ok]
      BY <1>1, <3>1
    <3> HIDE DEF w
    <3>4. RunOK(s, w) /\ w.todo = <<>>
      BY <1>2
    <3>5. QED
      BY <3>2, <3>3, <3>4, CommittedIsConsistent
  <2>2. QED
    BY <2>1 DEF Reports
<1> HIDE DEF w
<1>7. \A x \in w.metrics : x[1] = s
  BY <1>6
<1>8. RunsOK'
  <2> SUFFICES ASSUME NEW t \in Sweeps
               PROVE  /\ sweep'[t] # NoSweep /\ sweep'[t].step # "ended" => RunOK(t, sweep'[t])
                      /\ sweep'[t] = NoSweep \/ sweep'[t].step # "ended" => NoRows(t)'
    BY DEF RunsOK, RunOK, LogsOK, CountsOK
  <2>1. CASE t = s
    BY <1>4, <2>1, NotBegunAssumption DEF Ended
  <2>2. CASE t # s
    <3>1. NoRows(t) => NoRows(t)'
      BY <1>3, <1>6, <1>7, <2>2 DEF NoRows
    <3>2. QED
      BY <1>5, <2>2, <3>1 DEF SweepInv, RunsOK
  <2>3. QED
    BY <2>1, <2>2
<1>9. /\ \A x \in metrics' : \E z \in summary' : z.run = x[1]
      /\ \A p \in polls' : \E z \in summary' : z.run = p.run
  BY <1>3, <1>6, <1>7 DEF SweepInv, RunConsistent
<1>10. ASSUME NEW z \in summary
       PROVE  /\ \A x \in summary' : x.run = z.run => x = z
              /\ {p \in polls' : p.run = z.run} = {p \in polls : p.run = z.run}
              /\ {x \in metrics' : x[1] = z.run} = {x \in metrics : x[1] = z.run}
  <2>1. z.run # s
    BY <1>2 DEF NoRows
  <2>2. QED
    BY <1>3, <1>6, <1>7, <2>1 DEF SweepInv, RunConsistent
<1>11. /\ \A x \in summary' : x.run = s => x = y
       /\ {p \in polls' : p.run = s} = w.polls
       /\ {x \in metrics' : x[1] = s} = w.metrics
  BY <1>2, <1>3, <1>6, <1>7 DEF NoRows
<1>12. ASSUME NEW z \in summary'
       PROVE  /\ \A x \in summary' : x.run = z.run => x = z
              /\ \A d \in SweepDevices : Cardinality({p \in polls' : p.run = z.run /\ p.device = d}) = 1
              /\ {x \in metrics' : x[1] = z.run} = {<<z.run, p.device>> : p \in Stored(z.run)'}
              /\ z.written = Cardinality(Stored(z.run)')
              /\ z.status = "ok" <=> Failed(z.run)' = {}
              /\ z.status = "partial" <=> Failed(z.run)' # {} /\ Stored(z.run)' # {}
  <2>1. CASE z \in summary
    <3>1. /\ \A d \in SweepDevices : Cardinality({p \in polls : p.run = z.run /\ p.device = d}) = 1
          /\ {x \in metrics : x[1] = z.run} = {<<z.run, p.device>> : p \in Stored(z.run)}
          /\ z.written = Cardinality(Stored(z.run))
          /\ z.status = "ok" <=> Failed(z.run) = {}
          /\ z.status = "partial" <=> Failed(z.run) # {} /\ Stored(z.run) # {}
      BY <2>1 DEF SweepInv, RunConsistent
    <3>2. Stored(z.run)' = Stored(z.run) /\ Failed(z.run)' = Failed(z.run)
      BY <1>10, <2>1 DEF Stored, Failed
    <3>3. \A d : {p \in polls' : p.run = z.run /\ p.device = d} = {p \in polls : p.run = z.run /\ p.device = d}
      BY <1>10, <2>1
    <3>4. QED
      BY <1>10, <2>1, <3>1, <3>2, <3>3
  <2>2. CASE z = y
    <3>1. Stored(z.run)' = StoredOf(w.polls) /\ Failed(z.run)' = FailedOf(w.polls)
      BY <1>6, <1>11, <2>2 DEF Stored, Failed, StoredOf, FailedOf
    <3>2. \A d : {p \in polls' : p.run = s /\ p.device = d} = {p \in w.polls : p.run = s /\ p.device = d}
      BY <1>11
    <3>3. QED
      BY <1>6, <1>11, <2>2, <3>1, <3>2
  <2>3. QED
    BY <1>3, <2>1, <2>2
<1>13. RunConsistent'
  BY <1>9, <1>12 DEF RunConsistent, Stored, Failed
<1>14. QED
  BY <1>3, <1>4, <1>8, <1>13 DEF SweepInv

(* Each device is logged in one way; what else happens to it is not counted. *)
LEMMA StepsKeep ==
  ASSUME SweepInv, NEW s \in Sweeps, SweepSteps(s)
  PROVE  SweepInv'
<1>1. CASE CommitSweep(s)
  BY <1>1, CommitSweepKeeps
<1>2. CASE SweepDeadlock(s)
  <2>1. Active(s) /\ Goes(s, Ended) /\ Ended.step = "ended"
    BY <1>2 DEF SweepDeadlock, LoseSweep, Ended
  <2>2. QED
    BY <2>1, GoesKeeps
<1>3. CASE ~CommitSweep(s) /\ ~SweepDeadlock(s)
  <2>1. Active(s) /\ RunOK(s, sweep[s])
    BY <1>3 DEF SweepSteps, Skip, ProbeFails, ProbeAnswers, LockRow, Flushing, Bind, Enrich, CollectFails,
                Store, At, Active, SweepInv, RunsOK
  <2>2. \A new : RunOK(s, new) /\ Goes(s, new) => SweepInv'
    BY <2>1, GoesKeeps
  <2>3. CASE Skip(s)
    <3>1. RunOK(s, sweep[s]) /\ sweep[s].todo # <<>> /\ DOMAIN sweep[s] = Fields
      BY <2>1, <2>3 DEF Skip, RunOK
    <3> DEFINE v == Polled(s, "skipped")
    <3>3. /\ DOMAIN v = Fields /\ v.step = "device" /\ v.todo = Tail(sweep[s].todo)
          /\ v.polls = sweep[s].polls \cup {[run |-> s, device |-> Head(sweep[s].todo), status |-> "skipped"]}
          /\ v.metrics = sweep[s].metrics /\ v.ok = sweep[s].ok /\ v.errors = sweep[s].errors
      BY <3>1 DEF Polled, Current, Fields
    <3> HIDE DEF v
    <3>4. RunOK(s, v)
      BY <3>1, <3>3, LogAdded
    <3>2. QED
      BY <2>2, <2>3, <3>4 DEF Skip, v
  <2>4. CASE ProbeFails(s) \/ CollectFails(s)
    <3>1. sweep[s].todo # <<>>
      BY <2>1, <2>4 DEF ProbeFails, CollectFails, At, RunOK
    <3> DEFINE v == DeviceError(s)
    <3>2. DOMAIN sweep[s] = Fields
      BY <2>1 DEF RunOK
    <3>3. /\ DOMAIN v = Fields /\ v.step = "device" /\ v.todo = Tail(sweep[s].todo)
          /\ v.polls = sweep[s].polls \cup {[run |-> s, device |-> Head(sweep[s].todo), status |-> "error"]}
          /\ v.metrics = sweep[s].metrics /\ v.ok = sweep[s].ok /\ v.errors = sweep[s].errors + 1
      BY <3>2 DEF DeviceError, Polled, Current, Fields
    <3> HIDE DEF v
    <3>4. RunOK(s, v)
      BY <2>1, <3>1, <3>3, LogAdded
    <3>5. QED
      BY <2>2, <2>4, <3>4 DEF ProbeFails, CollectFails, v
  <2>5. CASE Store(s)
    <3>1. sweep[s].todo # <<>>
      BY <2>1, <2>5 DEF Store, At, RunOK
    <3> DEFINE v == [Polled(s, "stored") EXCEPT !.ok = @ + 1, !.dirty = @ \cup {Current(s)},
                       !.metrics = @ \cup {<<s, Current(s)>>}]
    <3>2. DOMAIN sweep[s] = Fields
      BY <2>1 DEF RunOK
    <3>3. /\ DOMAIN v = Fields /\ v.step = "device" /\ v.todo = Tail(sweep[s].todo)
          /\ v.polls = sweep[s].polls \cup {[run |-> s, device |-> Head(sweep[s].todo), status |-> "stored"]}
          /\ v.metrics = sweep[s].metrics \cup {<<s, Head(sweep[s].todo)>>}
          /\ v.ok = sweep[s].ok + 1 /\ v.errors = sweep[s].errors
      BY <3>2 DEF Polled, Current, Fields
    <3> HIDE DEF v
    <3>4. RunOK(s, v)
      BY <2>1, <3>1, <3>3, LogAdded
    <3>5. QED
      BY <2>2, <2>5, <3>4 DEF Store, v
  <2>6. CASE ProbeAnswers(s)
    <3>1. PICK next \in {"bind", "enrich"}, changed \in BOOLEAN :
            Goes(s, [sweep[s] EXCEPT !.step = next,
                       !.dirty = IF changed THEN @ \cup {Current(s)} ELSE @])
      BY <2>6 DEF ProbeAnswers
    <3> DEFINE v == [sweep[s] EXCEPT !.step = next, !.dirty = IF changed THEN @ \cup {Current(s)} ELSE @]
    <3>2. /\ DOMAIN v = Fields /\ v.todo = sweep[s].todo /\ v.polls = sweep[s].polls
          /\ v.metrics = sweep[s].metrics /\ v.ok = sweep[s].ok /\ v.errors = sweep[s].errors
      BY <2>1 DEF RunOK, Fields
    <3>3. RunOK(s, v)
      BY <2>1, <2>6, <3>2, CountsUntouched DEF ProbeAnswers
    <3>4. QED
      BY <2>2, <3>1, <3>3
  <2>7. CASE LockRow(s)
    <3>1. PICK d : Goes(s, [sweep[s] EXCEPT !.locked = @ \cup {d}])
      BY <2>7 DEF LockRow
    <3> DEFINE v == [sweep[s] EXCEPT !.locked = @ \cup {d}]
    <3>2. /\ DOMAIN v = Fields /\ v.todo = sweep[s].todo /\ v.polls = sweep[s].polls
          /\ v.metrics = sweep[s].metrics /\ v.ok = sweep[s].ok /\ v.errors = sweep[s].errors
          /\ v.step = sweep[s].step
      BY <2>1 DEF RunOK, Fields
    <3>3. RunOK(s, v)
      BY <2>1, <3>2, CountsUntouched DEF RunOK
    <3>4. QED
      BY <2>2, <3>1, <3>3
  <2>8. CASE Bind(s)
    <3> DEFINE v == [sweep[s] EXCEPT !.step = "enrich"]
    <3>1. /\ DOMAIN v = Fields /\ v.todo = sweep[s].todo /\ v.polls = sweep[s].polls
          /\ v.metrics = sweep[s].metrics /\ v.ok = sweep[s].ok /\ v.errors = sweep[s].errors
      BY <2>1 DEF RunOK, Fields
    <3>2. sweep[s].todo # <<>>
      BY <2>1, <2>8 DEF Bind, At, RunOK
    <3>3. RunOK(s, v)
      BY <2>1, <3>1, <3>2, CountsUntouched
    <3>4. QED
      BY <2>2, <2>8, <3>3 DEF Bind
  <2>9. CASE Enrich(s)
    <3>1. PICK done \in BOOLEAN :
            Goes(s, [sweep[s] EXCEPT !.step = "collect",
                       !.enriched = IF done THEN @ \cup {Current(s)} ELSE @,
                       !.dirty = IF done THEN @ \cup {Current(s)} ELSE @])
      BY <2>9 DEF Enrich
    <3> DEFINE v == [sweep[s] EXCEPT !.step = "collect",
                       !.enriched = IF done THEN @ \cup {Current(s)} ELSE @,
                       !.dirty = IF done THEN @ \cup {Current(s)} ELSE @]
    <3>2. /\ DOMAIN v = Fields /\ v.todo = sweep[s].todo /\ v.polls = sweep[s].polls
          /\ v.metrics = sweep[s].metrics /\ v.ok = sweep[s].ok /\ v.errors = sweep[s].errors
      BY <2>1 DEF RunOK, Fields
    <3>3. sweep[s].todo # <<>>
      BY <2>1, <2>9 DEF Enrich, At, RunOK
    <3>4. RunOK(s, v)
      BY <2>1, <3>2, <3>3, CountsUntouched
    <3>5. QED
      BY <2>2, <3>1, <3>4
  <2>10. QED
    BY <1>3, <2>3, <2>4, <2>5, <2>6, <2>7, <2>8, <2>9 DEF SweepSteps
<1>4. QED
  BY <1>1, <1>2, <1>3

LEMMA SweepStep ==
  ASSUME SweepInv, [SweepNext]_sweepVars
  PROVE  SweepInv'
<1>1. ASSUME NEW s \in Sweeps, BeginSweep(s) PROVE SweepInv'
  <2> DEFINE v == [Ended EXCEPT !.step = "device", !.todo = order, !.thin = thin]
  <2>1. RunOK(s, v)
    <3>1. order \in Seq(SweepDevices) /\ Distinct(order) /\ Listed(order) = SweepDevices
      BY OrdersAreDistinct DEF SweepInv
    <3>2. /\ DOMAIN v = Fields /\ v.step = "device" /\ v.todo = order /\ v.polls = {} /\ v.metrics = {}
          /\ v.ok = 0 /\ v.errors = 0
      BY DEF Ended, Fields
    <3> HIDE DEF v
    <3>3. StoredOf({}) = {} /\ FailedOf({}) = {}
      BY DEF StoredOf, FailedOf
    <3>4. CountsOK(s, v)
      BY <3>2, <3>3, FS_EmptySet DEF CountsOK
    <3>5. LogsOK(s, v.polls, v.todo)
      BY <3>1, <3>2, FS_EmptySet DEF LogsOK
    <3>6. QED
      BY <3>1, <3>2, <3>4, <3>5 DEF RunOK
  <2>2. Ended.step = "ended"
    BY DEF Ended
  <2>3. sweep[s] = NoSweep /\ (Goes(s, v) \/ Goes(s, Ended))
    BY <1>1 DEF BeginSweep
  <2> HIDE DEF v
  <2>4. QED
    BY <2>1, <2>2, <2>3, GoesKeeps
<1>2. ASSUME NEW s \in Sweeps, LoseSweep(s) PROVE SweepInv'
  <2>1. Active(s) /\ Goes(s, Ended) /\ Ended.step = "ended"
    BY <1>2 DEF LoseSweep, Ended
  <2>2. QED
    BY <2>1, GoesKeeps
<1>3. CASE Rediscover \/ UNCHANGED sweepVars
  <2>1. order' \in Orders /\ UNCHANGED <<sweep, metrics, polls, summary>>
    BY <1>3 DEF Rediscover, sweepVars, SweepInv
  <2>2. RunConsistent'
    BY <2>1 DEF SweepInv, RunConsistent, Stored, Failed
  <2>3. RunsOK'
    <3>1. \A s : NoRows(s) => NoRows(s)'
      BY <2>1 DEF NoRows
    <3> SUFFICES ASSUME NEW t \in Sweeps
                 PROVE  /\ sweep'[t] # NoSweep /\ sweep'[t].step # "ended" => RunOK(t, sweep'[t])
                        /\ sweep'[t] = NoSweep \/ sweep'[t].step # "ended" => NoRows(t)'
      BY DEF RunsOK, RunOK, LogsOK, CountsOK
    <3>2. QED
      BY <2>1, <3>1 DEF SweepInv, RunsOK
  <2>4. QED
    BY <2>1, <2>2, <2>3 DEF SweepInv
<1>4. QED
  BY <1>1, <1>2, <1>3, StepsKeep DEF SweepNext

LEMMA SweepStarts == SweepInit => SweepInv
<1> SUFFICES ASSUME SweepInit PROVE SweepInv
  OBVIOUS
<1>1. /\ sweep = [s \in Sweeps |-> NoSweep] /\ metrics = {} /\ polls = {} /\ summary = {}
      /\ order \in Orders
  BY DEF SweepInit
<1>2. RunsOK /\ RunConsistent
  BY <1>1 DEF RunsOK, NoRows, RunConsistent
<1> QED
  BY <1>1, <1>2 DEF SweepInv

(* However many sweeps overlap, fail or are lost, and whatever the number   *)
(* of devices, the rows of a sweep that committed fit together              *)
(* (_collect_metrics).                                                      *)
THEOREM RunsAreConsistent == SweepSpec => []RunConsistent
<1>1. SweepInit => SweepInv
  BY SweepStarts
<1>2. SweepInv /\ [SweepNext]_sweepVars => SweepInv'
  BY SweepStep
<1>3. SweepInv => RunConsistent
  BY DEF SweepInv
<1>4. QED
  BY <1>1, <1>2, <1>3, PTL DEF SweepSpec

-----------------------------------------------------------------------------
(* Sweeps end.                                                              *)

(* A sweep locks rows it has changed, and keeps them until it ends.         *)
LocksOK(w) ==
  /\ w.step \in {"device", "bind", "enrich", "collect", "ended"}
  /\ w.locked \subseteq w.dirty /\ w.dirty \subseteq SweepDevices
  /\ w.step = "ended" => w.locked = {}
SweepLocks == \A s \in Sweeps : sweep[s] # NoSweep => LocksOK(sweep[s])

(* How far a sweep has to go: the devices that are left, the place in the   *)
(* turn of a device, and the rows that are not locked.                      *)
PlaceOf == [device |-> 3, bind |-> 2, enrich |-> 1, collect |-> 0, ended |-> 0]
Place(w) == PlaceOf[w.step]
Unlocked(w) == Cardinality(SweepDevices \ w.locked)

(* Down the scale, the earlier numbers weighing more than the later ones. *)
Further(v, w) ==
  \/ v.step = "ended"
  \/ Len(v.todo) < Len(w.todo)
  \/ Len(v.todo) = Len(w.todo) /\ Place(v) < Place(w)
  \/ Len(v.todo) = Len(w.todo) /\ Place(v) = Place(w) /\ Unlocked(v) < Unlocked(w)

OnTheScale(w) == Len(w.todo) \in Nat /\ Place(w) \in Nat /\ Unlocked(w) \in Nat

(* A sweep is a descent: every step of its own takes it down the scale, and *)
(* no step of another sweep or of discovery moves it.  What the end of      *)
(* every sweep (SweepsEnd) asks of the scheduler is only that one that can  *)
(* go on does.                                                              *)
SweepsDescend ==
  /\ [](\A s \in Sweeps : Active(s) => OnTheScale(sweep[s]))
  /\ [][\A s \in Sweeps :
          /\ SweepSteps(s) \/ LoseSweep(s) => Further(sweep'[s], sweep[s])
          /\ Active(s) => sweep'[s] = sweep[s] \/ Further(sweep'[s], sweep[s])]_sweepVars

LEMMA PlacesAre ==
  /\ PlaceOf["device"] = 3 /\ PlaceOf["bind"] = 2 /\ PlaceOf["enrich"] = 1
  /\ PlaceOf["collect"] = 0 /\ PlaceOf["ended"] = 0
BY DEF PlaceOf

LEMMA ScaleCounts ==
  ASSUME NEW s, NEW w, RunOK(s, w), LocksOK(w)
  PROVE  OnTheScale(w)
<1>1. Len(w.todo) \in Nat
  BY LenProperties DEF RunOK
<1>2. Place(w) \in Nat
  BY PlacesAre DEF LocksOK, Place
<1>3. Unlocked(w) \in Nat
  BY SweepAssumption, FS_Subset, FS_CardinalityType DEF Unlocked
<1> QED
  BY <1>1, <1>2, <1>3 DEF OnTheScale

(* The next device.                                                         *)
LEMMA NextDevice ==
  ASSUME NEW s, NEW w, RunOK(s, w), LocksOK(w), w.todo # <<>>, NEW v,
         v.step = "device", v.todo = Tail(w.todo), v.locked = w.locked,
         v.dirty \in {w.dirty, w.dirty \cup {Head(w.todo)}}
  PROVE  LocksOK(v) /\ Further(v, w)
<1>1. Head(w.todo) \in SweepDevices
  BY TailLists DEF RunOK
<1>2. Len(v.todo) < Len(w.todo)
  BY LenProperties DEF RunOK
<1> QED
  BY <1>1, <1>2 DEF LocksOK, Further

LEMMA RowLocked ==
  ASSUME NEW w, LocksOK(w), NEW d \in w.dirty \ w.locked, w.step # "ended", NEW v,
         v.step = w.step, v.todo = w.todo, v.locked = w.locked \cup {d}, v.dirty = w.dirty
  PROVE  LocksOK(v) /\ Further(v, w)
<1>1. d \in SweepDevices \ w.locked
  BY DEF LocksOK
<1>2. IsFiniteSet(SweepDevices \ w.locked)
  BY SweepAssumption, FS_Subset
<1>3. SweepDevices \ v.locked = (SweepDevices \ w.locked) \ {d}
  OBVIOUS
<1>4. Unlocked(v) < Unlocked(w)
  <2> DEFINE free == SweepDevices \ w.locked
  <2> HIDE DEF free
  <2>1. Cardinality(free) \in Nat /\ Cardinality(free \ {d}) = Cardinality(free) - 1
    BY <1>1, <1>2, FS_RemoveElement, FS_CardinalityType DEF free
  <2> QED
    BY <1>3, <2>1 DEF Unlocked, free
<1> QED
  BY <1>1, <1>4 DEF LocksOK, Further, Place

(* What one step makes of its sweep.                                        *)
LEMMA StepGoesFurther ==
  ASSUME SweepInv, SweepLocks, NEW s \in Sweeps, SweepSteps(s) \/ LoseSweep(s)
  PROVE  /\ Active(s) /\ sweep' = [sweep EXCEPT ![s] = sweep'[s]]
         /\ LocksOK(sweep'[s]) /\ Further(sweep'[s], sweep[s])
<1> DEFINE w == sweep[s]
           Good(v) == LocksOK(v) /\ Further(v, w)
<1>1. Active(s)
  <2>1. \A step : At(s, step) => Active(s)
    BY DEF At
  <2>2. LockRow(s) \/ Bind(s) => Active(s)
    BY <2>1 DEF LockRow, Bind, Flushing
  <2>3. LoseSweep(s) \/ SweepDeadlock(s) => Active(s)
    BY DEF LoseSweep, SweepDeadlock
  <2>4. Skip(s) \/ ProbeFails(s) \/ ProbeAnswers(s) \/ Enrich(s) => Active(s)
    BY <2>1 DEF Skip, ProbeFails, ProbeAnswers, Enrich
  <2>5. CollectFails(s) \/ Store(s) \/ CommitSweep(s) => Active(s)
    BY <2>1 DEF CollectFails, Store, CommitSweep
  <2> QED
    BY <2>2, <2>3, <2>4, <2>5 DEF SweepSteps
<1>2. RunOK(s, w) /\ LocksOK(w) /\ DOMAIN sweep = Sweeps
  BY <1>1 DEF SweepInv, RunsOK, SweepLocks, Active
<1>3. DOMAIN w = Fields
  BY <1>2 DEF RunOK
<1>4. ASSUME NEW v, sweep' = [sweep EXCEPT ![s] = v], Good(v)
      PROVE  sweep' = [sweep EXCEPT ![s] = sweep'[s]] /\ Good(sweep'[s])
  <2>1. sweep'[s] = v
    BY <1>2, <1>4
  <2> QED
    BY <1>4, <2>1
<1>5. Good(Ended)
  BY DEF Ended, LocksOK, Further
<1> HIDE DEF Good
<1>6. CASE LoseSweep(s) \/ SweepDeadlock(s) \/ CommitSweep(s)
  BY <1>1, <1>4, <1>5, <1>6 DEF LoseSweep, SweepDeadlock, CommitSweep, Goes, Good
<1>7. CASE Skip(s) \/ ProbeFails(s) \/ CollectFails(s)
  <2>1. PICK v \in {Polled(s, "skipped"), DeviceError(s)} : Goes(s, v)
    BY <1>7 DEF Skip, ProbeFails, CollectFails
  <2>2. v.step = "device" /\ v.todo = Tail(w.todo) /\ v.locked = w.locked /\ v.dirty = w.dirty
    BY <1>3, <2>1 DEF DeviceError, Polled, Fields
  <2>3. w.todo # <<>>
    BY <1>2, <1>7 DEF Skip, ProbeFails, CollectFails, At, RunOK
  <2>4. Good(v)
    BY <1>2, <2>2, <2>3, NextDevice DEF Good
  <2> QED
    BY <1>1, <1>4, <2>1, <2>4 DEF Goes, Good
<1>8. CASE Store(s)
  <2> DEFINE v == [Polled(s, "stored") EXCEPT !.ok = @ + 1, !.dirty = @ \cup {Current(s)},
                     !.metrics = @ \cup {<<s, Current(s)>>}]
  <2>1. /\ v.step = "device" /\ v.todo = Tail(w.todo) /\ v.locked = w.locked
        /\ v.dirty = w.dirty \cup {Head(w.todo)}
    BY <1>3 DEF Polled, Fields, Current
  <2>2. Goes(s, v) /\ w.todo # <<>>
    BY <1>2, <1>8 DEF Store, At, RunOK
  <2> HIDE DEF v
  <2>3. Good(v)
    BY <1>2, <2>1, <2>2, NextDevice DEF Good
  <2> QED
    BY <1>1, <1>4, <2>2, <2>3 DEF Goes, Good
<1>9. CASE ProbeAnswers(s)
  <2>1. PICK next \in {"bind", "enrich"}, changed \in BOOLEAN :
          Goes(s, [sweep[s] EXCEPT !.step = next,
                     !.dirty = IF changed THEN @ \cup {Current(s)} ELSE @])
    BY <1>9 DEF ProbeAnswers
  <2> DEFINE v == [sweep[s] EXCEPT !.step = next, !.dirty = IF changed THEN @ \cup {Current(s)} ELSE @]
  <2>2. /\ v.step = next /\ v.todo = w.todo /\ v.locked = w.locked
        /\ v.dirty \in {w.dirty, w.dirty \cup {Head(w.todo)}}
    BY <1>3 DEF Fields, Current
  <2>3. Goes(s, v)
    BY <2>1
  <2> HIDE DEF v
  <2>4. w.step = "device" /\ Head(w.todo) \in SweepDevices
    BY <1>2, <1>9, TailLists DEF ProbeAnswers, At, RunOK
  <2>5. LocksOK(v)
    BY <1>2, <2>2, <2>4 DEF LocksOK
  <2>6. Place(v) < Place(w)
    BY <2>2, <2>4, PlacesAre DEF Place
  <2>7. Good(v)
    BY <2>2, <2>5, <2>6 DEF Good, Further
  <2> QED
    BY <1>1, <1>4, <2>3, <2>7 DEF Goes, Good
<1>10. CASE LockRow(s)
  <2>1. PICK d \in w.dirty \ w.locked : Goes(s, [sweep[s] EXCEPT !.locked = @ \cup {d}])
    BY <1>10 DEF LockRow
  <2> DEFINE v == [sweep[s] EXCEPT !.locked = @ \cup {d}]
  <2>2. v.step = w.step /\ v.todo = w.todo /\ v.locked = w.locked \cup {d} /\ v.dirty = w.dirty
    BY <1>3 DEF Fields
  <2>3. Goes(s, v)
    BY <2>1
  <2> HIDE DEF v
  <2>4. Good(v)
    BY <1>1, <1>2, <2>1, <2>2, RowLocked DEF Good, Active
  <2> QED
    BY <1>1, <1>4, <2>3, <2>4 DEF Goes, Good
<1>11. CASE Bind(s)
  <2> DEFINE v == [sweep[s] EXCEPT !.step = "enrich"]
  <2>1. v.step = "enrich" /\ v.todo = w.todo /\ v.locked = w.locked /\ v.dirty = w.dirty
    BY <1>3 DEF Fields
  <2>2. Goes(s, v) /\ w.step = "bind"
    BY <1>11 DEF Bind, At
  <2> HIDE DEF v
  <2>3. LocksOK(v)
    BY <1>2, <2>1 DEF LocksOK
  <2>4. Place(v) < Place(w)
    BY <2>1, <2>2, PlacesAre DEF Place
  <2>5. Good(v)
    BY <2>1, <2>3, <2>4 DEF Good, Further
  <2> QED
    BY <1>1, <1>4, <2>2, <2>5 DEF Goes, Good
<1>12. CASE Enrich(s)
  <2>1. PICK done \in BOOLEAN :
          Goes(s, [sweep[s] EXCEPT !.step = "collect",
                     !.enriched = IF done THEN @ \cup {Current(s)} ELSE @,
                     !.dirty = IF done THEN @ \cup {Current(s)} ELSE @])
    BY <1>12 DEF Enrich
  <2> DEFINE v == [sweep[s] EXCEPT !.step = "collect",
                     !.enriched = IF done THEN @ \cup {Current(s)} ELSE @,
                     !.dirty = IF done THEN @ \cup {Current(s)} ELSE @]
  <2>2. /\ v.step = "collect" /\ v.todo = w.todo /\ v.locked = w.locked
        /\ v.dirty \in {w.dirty, w.dirty \cup {Head(w.todo)}}
    BY <1>3 DEF Fields, Current
  <2>3. Goes(s, v)
    BY <2>1
  <2> HIDE DEF v
  <2>4. w.step = "enrich" /\ Head(w.todo) \in SweepDevices
    BY <1>2, <1>12, TailLists DEF Enrich, At, RunOK
  <2>5. LocksOK(v)
    BY <1>2, <2>2, <2>4 DEF LocksOK
  <2>6. Place(v) < Place(w)
    BY <2>2, <2>4, PlacesAre DEF Place
  <2>7. Good(v)
    BY <2>2, <2>5, <2>6 DEF Good, Further
  <2> QED
    BY <1>1, <1>4, <2>3, <2>7 DEF Goes, Good
<1> QED
  BY <1>6, <1>7, <1>8, <1>9, <1>10, <1>11, <1>12 DEF SweepSteps

LEMMA LocksAndScale ==
  ASSUME SweepInv, SweepLocks, [SweepNext]_sweepVars
  PROVE  /\ SweepLocks'
         /\ \A s \in Sweeps :
              /\ SweepSteps(s) \/ LoseSweep(s) => Further(sweep'[s], sweep[s])
              /\ Active(s) => sweep'[s] = sweep[s] \/ Further(sweep'[s], sweep[s])
<1>1. DOMAIN sweep = Sweeps
  BY DEF SweepInv
<1>2. ASSUME NEW s \in Sweeps, SweepSteps(s) \/ LoseSweep(s)
      PROVE  /\ SweepLocks' /\ Further(sweep'[s], sweep[s])
             /\ \A t \in Sweeps : sweep'[t] = sweep[t] \/ Further(sweep'[t], sweep[t])
  <2>1. /\ sweep' = [sweep EXCEPT ![s] = sweep'[s]]
        /\ LocksOK(sweep'[s]) /\ Further(sweep'[s], sweep[s])
    BY <1>2, StepGoesFurther
  <2>2. \A t \in Sweeps \ {s} : sweep'[t] = sweep[t]
    BY <1>1, <2>1
  <2> QED
    BY <2>1, <2>2 DEF SweepLocks
<1>3. ASSUME NEW s \in Sweeps, BeginSweep(s)
      PROVE  /\ SweepLocks' /\ ~Active(s)
             /\ \A t \in Sweeps \ {s} : sweep'[t] = sweep[t]
  <2> DEFINE v == [Ended EXCEPT !.step = "device", !.todo = order, !.thin = thin]
  <2>1. LocksOK(v) /\ LocksOK(Ended)
    BY DEF Ended, LocksOK
  <2>2. sweep[s] = NoSweep /\ (Goes(s, v) \/ Goes(s, Ended))
    BY <1>3 DEF BeginSweep
  <2> HIDE DEF v
  <2>3. PICK w : LocksOK(w) /\ sweep' = [sweep EXCEPT ![s] = w]
    BY <2>1, <2>2 DEF Goes
  <2> QED
    BY <1>1, <2>2, <2>3 DEF SweepLocks, Active
<1>5. ASSUME NEW t \in Sweeps, SweepSteps(t) \/ LoseSweep(t) PROVE Further(sweep'[t], sweep[t])
  BY <1>2, <1>5
<1>6. SweepLocks' /\ \A t \in Sweeps : Active(t) => sweep'[t] = sweep[t] \/ Further(sweep'[t], sweep[t])
  <2>1. CASE UNCHANGED sweep
    BY <2>1 DEF SweepLocks
  <2>2. CASE \E s \in Sweeps : SweepSteps(s) \/ LoseSweep(s)
    BY <1>2, <2>2
  <2>3. CASE \E s \in Sweeps : BeginSweep(s)
    BY <1>3, <2>3
  <2>4. Rediscover \/ UNCHANGED sweepVars => UNCHANGED sweep
    BY DEF Rediscover, sweepVars
  <2> QED
    BY <2>1, <2>2, <2>3, <2>4 DEF SweepNext
<1> QED
  BY <1>5, <1>6

(* However sweeps overlap, fail and wait, each step of a sweep takes it     *)
(* towards the end of its devices, and nothing else moves it: the loop of   *)
(* _collect_metrics neither repeats a device nor waits again for a row it   *)
(* has.                                                                     *)
THEOREM SweepsAreFinite == SweepSpec => SweepsDescend
<1> DEFINE Inv == SweepInv /\ SweepLocks
           Scale == \A s \in Sweeps : Active(s) => OnTheScale(sweep[s])
           Down == \A s \in Sweeps :
                     /\ SweepSteps(s) \/ LoseSweep(s) => Further(sweep'[s], sweep[s])
                     /\ Active(s) => sweep'[s] = sweep[s] \/ Further(sweep'[s], sweep[s])
<1>1. SweepInit => Inv
  BY SweepStarts DEF SweepInit, SweepLocks
<1>2. Inv /\ [SweepNext]_sweepVars => Inv' /\ Down
  BY SweepStep, LocksAndScale
<1>3. Inv => Scale
  BY ScaleCounts DEF SweepInv, RunsOK, SweepLocks, Active
<1> HIDE DEF Inv, Scale, Down
<1>4. SweepSpec => []Scale /\ [][Down]_sweepVars
  BY <1>1, <1>2, <1>3, PTL DEF SweepSpec
<1> QED
  BY <1>4 DEF Scale, Down, SweepsDescend

(* A sweep that can do nothing but wait: each row it still needs is locked. *)
Halted(s) == /\ Active(s) /\ Flushing(s) /\ ~RowsLocked(s)
             /\ \A d \in sweep[s].dirty \ sweep[s].locked :
                  \E t \in Sweeps \ {s} : sweep[t] # NoSweep /\ d \in sweep[t].locked

(* While a sweep is on, one can go on, or PostgreSQL finds one to cancel.   *)
SomeSweepMoves ==
  (\E s \in Sweeps : Active(s)) => \E s \in Sweeps : Active(s) /\ (~Halted(s) \/ Victim(s))

LEMMA HaltedMeansCircle ==
  ASSUME IsFiniteSet(Sweeps), SweepLocks
  PROVE  SomeSweepMoves
<1> DEFINE on == {s \in Sweeps : Active(s)}
<1> SUFFICES ASSUME on # {}, \A s \in on : Halted(s) PROVE \E s \in on : Victim(s)
  BY DEF SomeSweepMoves
<1>1. ASSUME NEW s \in on PROVE \E t \in on : WaitsFor(s, t)
  <2>1. PICK d \in sweep[s].dirty \ sweep[s].locked : TRUE
    BY DEF Halted, RowsLocked
  <2>2. PICK t \in Sweeps : sweep[t] # NoSweep /\ d \in sweep[t].locked
    BY DEF Halted
  <2>3. t \in on
    BY <2>2 DEF SweepLocks, LocksOK, Active
  <2>4. Flushing(s) /\ Flushing(t)
    BY <2>3 DEF Halted
  <2> QED
    BY <2>1, <2>2, <2>3, <2>4 DEF WaitsFor
<1> DEFINE next == [s \in on |-> CHOOSE t \in on : WaitsFor(s, t)]
<1>2. \A s \in on : next[s] \in on /\ WaitsFor(s, next[s])
  BY <1>1
<1>3. IsFiniteSet(on) /\ next \in [on -> on]
  BY <1>2, FS_Subset
<1> HIDE DEF on, next
<1>4. PICK C \in SUBSET on : Circle(C, next)
  BY <1>3, CircleExists
<1> DEFINE round == [s \in C |-> next[s]]
<1>5. /\ C \in SUBSET Sweeps /\ round \in [C -> C]
      /\ \A t \in C : WaitsFor(t, round[t])
      /\ \A t, u \in C : round[t] = round[u] => t = u
  BY <1>2, <1>4 DEF Circle, on
<1>6. PICK s \in C : TRUE
  BY <1>4 DEF Circle
<1> HIDE DEF round
<1>7. Victim(s)
  BY <1>5, <1>6 DEF Victim
<1> QED
  BY <1>6, <1>7

(* Finitely many sweeps never come to a standstill: whichever rows they     *)
(* lock and in whatever order, either a sweep that is on does not wait, or  *)
(* some wait in a circle, which PostgreSQL breaks.  No lock is left behind  *)
(* by a sweep that ended, so none waits for what nobody will release.       *)
THEOREM SweepsNeverStall ==
  ASSUME IsFiniteSet(Sweeps)
  PROVE  SweepSpec => []SomeSweepMoves
<1>1. SweepInit => SweepInv /\ SweepLocks
  BY SweepStarts DEF SweepInit, SweepLocks
<1>2. SweepInv /\ SweepLocks /\ [SweepNext]_sweepVars => SweepInv' /\ SweepLocks'
  BY SweepStep, LocksAndScale
<1>3. SweepLocks => SomeSweepMoves
  BY HaltedMeansCircle
<1> QED
  BY <1>1, <1>2, <1>3, PTL DEF SweepSpec

-----------------------------------------------------------------------------
(* Syslog: lines.                                                           *)

Bytes == {"n", "z", "f", "o"}

(* What has been framed ends with a newline.                                *)
FramingOK(bytes, pending, ls) ==
  /\ bytes \in Seq(Bytes) /\ pending \in Seq(Bytes)
  /\ ls = [k \in 1..Len(ls) |-> ls[k]] /\ Len(ls) \in Nat
  /\ Len(pending) <= Len(bytes)
  /\ LET done == Len(bytes) - Len(pending) IN done = 0 \/ bytes[done] = "n"
  /\ Framed(bytes, pending, ls)
FramingInv ==
  /\ sent = [c \in TcpClients |-> sent[c]] /\ buffer = [c \in TcpClients |-> buffer[c]]
  /\ wire = [c \in TcpClients |-> wire[c]] /\ lines = [c \in TcpClients |-> lines[c]]
  /\ \A c \in TcpClients : /\ buffer[c] \in Seq(Bytes) /\ wire[c] \in Seq(Bytes)
                            /\ FramingOK(sent[c], buffer[c] \o wire[c], lines[c])

LEMMA LeastNatural ==
  ASSUME NEW S \in SUBSET Nat, S # {}
  PROVE  \E m \in S : \A k \in S : m <= k
<1> DEFINE R == {ss \in Nat \X Nat : ss[1] < ss[2]}
<1>1. R = OpToRel(<, Nat)
  BY DEF OpToRel
<1>2. IsWellFoundedOn(R, Nat)
  BY <1>1, NatLessThanWellFounded
<1>3. PICK m \in S : \A k \in S : <<k, m>> \notin R
  <2> HIDE DEF R
  <2> QED BY <1>2, WFMin
<1>4. \A k \in S : ~(k < m)
  BY <1>3
<1> QED
  BY <1>4

LEMMA Regrouped ==
  ASSUME NEW p \in Seq(Bytes), NEW q \in Seq(Bytes), NEW r \in Seq(Bytes), NEW pq, pq = p \o q
  PROVE  pq \o r = p \o (q \o r)
BY ConcatAssociative, SMTT(30)

(* The bytes of a chunk move from the wire to the buffer. *)
LEMMA ChunkMoves ==
  ASSUME NEW b \in Seq(Bytes), NEW w \in Seq(Bytes), NEW n \in 1..Len(w)
  PROVE  /\ b \o SubSeq(w, 1, n) \in Seq(Bytes) /\ SubSeq(w, n + 1, Len(w)) \in Seq(Bytes)
         /\ (b \o SubSeq(w, 1, n)) \o SubSeq(w, n + 1, Len(w)) = b \o w
<1>1. Len(w) \in Nat /\ \A k \in 1..Len(w) : w[k] \in Bytes
  BY LenProperties, ElementOfSeq
<1>2. SubSeq(w, 1, n) \in Seq(Bytes)
  BY <1>1, SubSeqProperties
<1>3. SubSeq(w, n + 1, Len(w)) \in Seq(Bytes)
  BY <1>1, SubSeqProperties
<1>4. SubSeq(w, 1, n) \o SubSeq(w, n + 1, Len(w)) = w
  BY <1>1, ConcatAdjacentSubSeq, SubSeqFull
<1>5. b \o SubSeq(w, 1, n) \in Seq(Bytes)
  BY <1>2, ConcatProperties
<1>6. (b \o SubSeq(w, 1, n)) \o SubSeq(w, n + 1, Len(w)) = b \o (SubSeq(w, 1, n) \o SubSeq(w, n + 1, Len(w)))
  <2> DEFINE f == SubSeq(w, 1, n)
             a == SubSeq(w, n + 1, Len(w))
  <2> SUFFICES (b \o f) \o a = b \o (f \o a)
    OBVIOUS
  <2> HIDE DEF f, a
  <2> QED
    <3>1. f \in Seq(Bytes) /\ a \in Seq(Bytes)
      BY <1>2, <1>3 DEF f, a
    <3> QED
      BY <3>1, Regrouped
<1>7. QED
  BY <1>3, <1>4, <1>5, <1>6

(* A newline is the first of its sequence. *)
LEMMA FirstIsFirst ==
  ASSUME NEW b \in Seq(Bytes), Newlines(b) # {}
  PROVE  LET i == FirstNewline(b)
         IN  i \in 1..Len(b) /\ b[i] = "n" /\ \A k \in 1..(i - 1) : b[k] # "n"
<1>1. Newlines(b) \subseteq Nat /\ Newlines(b) = {i \in 1..Len(b) : b[i] = "n"}
  BY DEF Newlines
<1>2. \E i \in Newlines(b) : \A j \in Newlines(b) : i <= j
  BY <1>1, LeastNatural
<1>3. FirstNewline(b) \in Newlines(b) /\ \A j \in Newlines(b) : FirstNewline(b) <= j
  BY <1>2 DEF FirstNewline
<1>4. QED
  BY <1>1, <1>3

(* A line taken from the buffer is the next line of what was sent. *)
LEMMA NextLine ==
  ASSUME NEW bytes \in Seq(Bytes), NEW b \in Seq(Bytes), NEW p \in Nat, NEW i \in 1..Len(b),
         p + Len(b) <= Len(bytes), p = 0 \/ bytes[p] = "n",
         \A k \in 1..Len(b) : bytes[p + k] = b[k],
         \A k \in 1..(i - 1) : b[k] # "n"
  PROVE  LineAt(bytes, p + i) = Strip(SubSeq(b, 1, i - 1))
<1> DEFINE starts == LineStarts(bytes, p + i)
<1>0. starts = {j \in 1..(p + i) : \A k \in j..(p + i - 1) : bytes[k] # "n"}
  BY DEF LineStarts
<1>1. p + 1 \in starts
  <2>1. \A k \in (p + 1)..(p + i - 1) : bytes[k] # "n"
    <3> TAKE k \in (p + 1)..(p + i - 1)
    <3>1. k - p \in 1..(i - 1) /\ k - p \in 1..Len(b) /\ k = p + (k - p)
      OBVIOUS
    <3>2. QED
      BY <3>1
  <2>2. p + 1 \in 1..(p + i)
    OBVIOUS
  <2>3. QED
    BY <1>0, <2>1, <2>2
<1>2. \A j \in starts : p + 1 <= j
  <2> SUFFICES ASSUME NEW j \in starts, j <= p PROVE FALSE
    BY <1>0
  <2>1. p \in j..(p + i - 1) /\ bytes[p] = "n"
    BY <1>0
  <2>2. QED
    BY <1>0, <2>1
<1>3. LineStart(bytes, p + i) = p + 1
  <2>1. LineStart(bytes, p + i) \in starts /\ \A j \in starts : LineStart(bytes, p + i) <= j
    <3>1. LineStart(bytes, p + i) = CHOOSE j \in starts : \A k \in starts : j <= k
      BY DEF LineStart
    <3>2. \E j \in starts : \A k \in starts : j <= k
      BY <1>1, <1>2
    <3> HIDE DEF starts
    <3>3. QED
      BY <3>1, <3>2
  <2>2. \A j \in starts : j \in Nat
    BY <1>0
  <2> HIDE DEF starts
  <2>3. QED
    BY <1>1, <1>2, <2>1, <2>2
<1>4. SubSeq(bytes, p + 1, p + i - 1) = SubSeq(b, 1, i - 1)
  <2>1. Len(bytes) \in Nat /\ Len(b) \in Nat /\ \A k \in 1..Len(bytes) : bytes[k] \in Bytes
    BY LenProperties, ElementOfSeq
  <2>2. \A k \in 1..Len(b) : b[k] \in Bytes
    BY ElementOfSeq
  <2>3. \A k \in 1..(i - 1) : bytes[p + k] = b[k]
    BY <2>1
  <2>4. /\ SubSeq(bytes, p + 1, p + i - 1) \in Seq(Bytes)
        /\ Len(SubSeq(bytes, p + 1, p + i - 1)) = i - 1
        /\ \A k \in 1..(i - 1) : SubSeq(bytes, p + 1, p + i - 1)[k] = bytes[p + k]
    <3>1. p + 1 \in Int /\ p + i - 1 \in Int /\ \A k \in (p + 1)..(p + i - 1) : bytes[k] \in Bytes
      BY <2>1
    <3>2. /\ SubSeq(bytes, p + 1, p + i - 1) \in Seq(Bytes)
          /\ Len(SubSeq(bytes, p + 1, p + i - 1)) = IF p + 1 <= p + i - 1 THEN (p + i - 1) - (p + 1) + 1 ELSE 0
          /\ \A k \in 1..((p + i - 1) - (p + 1) + 1) :
               SubSeq(bytes, p + 1, p + i - 1)[k] = bytes[(p + 1) + k - 1]
      <4> DEFINE m == p + 1
                 n == p + i - 1
      <4>1. m \in Int /\ n \in Int /\ \A k \in m..n : bytes[k] \in Bytes
        BY <3>1
      <4> HIDE DEF m, n
      <4>2. /\ SubSeq(bytes, m, n) \in Seq(Bytes)
            /\ Len(SubSeq(bytes, m, n)) = IF m <= n THEN n - m + 1 ELSE 0
            /\ \A k \in 1..(n - m + 1) : SubSeq(bytes, m, n)[k] = bytes[m + k - 1]
        BY <4>1, SubSeqProperties
      <4>3. QED
        BY <4>2 DEF m, n
    <3>3. (p + i - 1) - (p + 1) + 1 = i - 1 /\ (p + 1 <= p + i - 1 <=> i # 1) /\ \A k \in Int : (p + 1) + k - 1 = p + k
      BY <2>1
    <3>4. QED
      BY <2>1, <3>2, <3>3
  <2>5. /\ SubSeq(b, 1, i - 1) \in Seq(Bytes) /\ Len(SubSeq(b, 1, i - 1)) = i - 1
        /\ \A k \in 1..(i - 1) : SubSeq(b, 1, i - 1)[k] = b[k]
    <3>1. 1 \in Int /\ i - 1 \in Int /\ \A k \in 1..(i - 1) : b[k] \in Bytes
      BY <2>1, <2>2
    <3>2. /\ SubSeq(b, 1, i - 1) \in Seq(Bytes)
          /\ Len(SubSeq(b, 1, i - 1)) = IF 1 <= i - 1 THEN (i - 1) - 1 + 1 ELSE 0
          /\ \A k \in 1..((i - 1) - 1 + 1) : SubSeq(b, 1, i - 1)[k] = b[1 + k - 1]
      BY <3>1, SubSeqProperties
    <3>3. QED
      BY <2>1, <3>2
  <2>6. QED
    BY <2>3, <2>4, <2>5, SeqEqual
<1>5. LineAt(bytes, p + i) = Strip(SubSeq(bytes, LineStart(bytes, p + i), p + i - 1))
  BY DEF LineAt
<1>6. LineAt(bytes, p + i) = Strip(SubSeq(bytes, p + 1, p + i - 1))
  BY <1>3, <1>5
<1>7. QED
  BY <1>4, <1>6

LEMMA LineTaken ==
  ASSUME NEW bytes, NEW pending, NEW ls, FramingOK(bytes, pending, ls),
         NEW i \in 1..Len(pending), pending[i] = "n", \A k \in 1..(i - 1) : pending[k] # "n"
  PROVE  LET text == Strip(SubSeq(pending, 1, i - 1))
         IN  FramingOK(bytes, SubSeq(pending, i + 1, Len(pending)), IF text = <<>> THEN ls ELSE Append(ls, text))
<1> DEFINE text == Strip(SubSeq(pending, 1, i - 1))
           left == SubSeq(pending, i + 1, Len(pending))
           done == Len(bytes) - Len(pending)
           ends == {k \in LineEnds(bytes) : k <= done}
           more == {k \in LineEnds(bytes) : k <= done + i}
           longer == IF text = <<>> THEN ls ELSE Append(ls, text)
<1>1. /\ bytes \in Seq(Bytes) /\ pending \in Seq(Bytes)
      /\ Len(bytes) \in Nat /\ Len(pending) \in Nat /\ i \in Nat \ {0} /\ i <= Len(pending)
      /\ \A k \in 1..Len(bytes) : bytes[k] \in Bytes
      /\ \A k \in 1..Len(pending) : pending[k] \in Bytes
  BY LenProperties, ElementOfSeq DEF FramingOK
<1>2. pending[i] = "n" /\ \A k \in 1..(i - 1) : pending[k] # "n"
  OBVIOUS
<1>3. /\ done \in Nat /\ done + Len(pending) = Len(bytes) /\ (done = 0 \/ bytes[done] = "n")
      /\ pending = SubSeq(bytes, done + 1, Len(bytes))
      /\ Len(ls) = Cardinality(ends)
      /\ \A k \in ends : ls[Cardinality({j \in ends : j <= k})] = LineAt(bytes, k)
  <2>1. done \in Nat /\ done + Len(pending) = Len(bytes)
    BY <1>1 DEF FramingOK
  <2>2. QED
    BY <2>1 DEF FramingOK, Framed
<1> HIDE DEF done
<1>4. \A k \in 1..Len(pending) : bytes[done + k] = pending[k]
  <2>1. \A k \in 1..(Len(bytes) - (done + 1) + 1) :
          SubSeq(bytes, done + 1, Len(bytes))[k] = bytes[(done + 1) + k - 1]
    BY <1>1, <1>3, SubSeqProperties
  <2>2. QED
    BY <1>1, <1>3, <2>1
<1>5. /\ left \in Seq(Bytes) /\ Len(left) = Len(pending) - i
      /\ \A k \in 1..(Len(pending) - i) : left[k] = pending[i + k]
  <2>1. i + 1 \in Int /\ Len(pending) \in Int /\ \A k \in (i + 1)..Len(pending) : pending[k] \in Bytes
    BY <1>1
  <2>2. /\ left \in Seq(Bytes)
        /\ Len(left) = IF i + 1 <= Len(pending) THEN Len(pending) - (i + 1) + 1 ELSE 0
        /\ \A k \in 1..(Len(pending) - (i + 1) + 1) : left[k] = pending[(i + 1) + k - 1]
    BY <2>1, SubSeqProperties
  <2> HIDE DEF left
  <2>3. QED
    BY <1>1, <2>2
<1> HIDE DEF left
<1>6. Len(bytes) - Len(left) = done + i /\ Len(left) <= Len(bytes) /\ bytes[done + i] = "n"
  <2>1. Len(bytes) - Len(left) = done + i /\ Len(left) <= Len(bytes)
    <3>1. /\ done \in Nat /\ Len(pending) \in Nat /\ i \in Nat /\ i <= Len(pending)
          /\ Len(bytes) = done + Len(pending) /\ Len(left) = Len(pending) - i
      BY <1>1, <1>3, <1>5
    <3> QED
      BY <3>1
  <2>2. bytes[done + i] = "n"
    BY <1>2, <1>4
  <2>3. QED
    BY <2>1, <2>2
<1>7. left = SubSeq(bytes, done + i + 1, Len(bytes))
  <2> DEFINE end == SubSeq(bytes, done + i + 1, Len(bytes))
  <2>1. done + i + 1 \in Int /\ Len(bytes) \in Int /\ \A k \in (done + i + 1)..Len(bytes) : bytes[k] \in Bytes
    BY <1>1, <1>3
  <2>2. /\ end \in Seq(Bytes)
        /\ Len(end) = IF done + i + 1 <= Len(bytes) THEN Len(bytes) - (done + i + 1) + 1 ELSE 0
        /\ \A k \in 1..(Len(bytes) - (done + i + 1) + 1) : end[k] = bytes[(done + i + 1) + k - 1]
    BY <2>1, SubSeqProperties
  <2> HIDE DEF end
  <2>3. Len(end) = Len(left)
    BY <1>1, <1>3, <1>5, <2>2
  <2>4. ASSUME NEW k \in 1..Len(left) PROVE left[k] = end[k]
    <3>1. k \in 1..(Len(pending) - i) /\ i + k \in 1..Len(pending) /\ k \in 1..(Len(bytes) - (done + i + 1) + 1)
      BY <1>1, <1>3, <1>5
    <3>2. end[k] = bytes[(done + i + 1) + k - 1] /\ (done + i + 1) + k - 1 = done + (i + k)
      BY <1>1, <1>3, <2>2, <3>1
    <3>3. left[k] = pending[i + k] /\ bytes[done + (i + k)] = pending[i + k]
      BY <1>4, <1>5, <3>1
    <3>4. QED
      BY <3>2, <3>3
  <2>5. left = end
    BY <1>5, <2>2, <2>3, <2>4, SeqEqual
  <2>6. QED
    BY <2>5 DEF end
<1>8. LineEnds(bytes) = {k \in 1..Len(bytes) : bytes[k] = "n" /\ LineAt(bytes, k) # <<>>}
  BY <1>1, LenProperties DEF LineEnds, Newlines
<1>9. LineAt(bytes, done + i) = text
  <2>1. /\ done \in Nat /\ done + Len(pending) <= Len(bytes) /\ (done = 0 \/ bytes[done] = "n")
        /\ i \in 1..Len(pending)
    BY <1>1, <1>3
  <2>2. /\ \A k \in 1..Len(pending) : bytes[done + k] = pending[k]
        /\ \A k \in 1..(i - 1) : pending[k] # "n"
    BY <1>2, <1>4
  <2>3. bytes \in Seq(Bytes) /\ pending \in Seq(Bytes)
    BY <1>1
  <2>4. LineAt(bytes, done + i) = Strip(SubSeq(pending, 1, i - 1))
    BY <2>1, <2>2, <2>3, NextLine
  <2>5. QED
    BY <2>4
<1>10. more = IF text = <<>> THEN ends ELSE ends \cup {done + i}
  <2>1. ASSUME NEW k \in more, k > done PROVE k = done + i
    <3>1. k \in 1..Len(bytes) /\ bytes[k] = "n" /\ k <= done + i
      BY <1>8, <2>1
    <3>2. k - done \in 1..i /\ k - done \in 1..Len(pending) /\ k = done + (k - done)
      BY <1>1, <1>3, <2>1, <3>1
    <3>3. pending[k - done] = "n"
      BY <1>4, <3>1, <3>2
    <3>4. k - done \notin 1..(i - 1)
      BY <1>2, <3>3
    <3>5. QED
      BY <1>1, <1>3, <3>1, <3>2, <3>4
  <2>2. ends \subseteq more
    <3>1. \A k \in Nat : k <= done => k <= done + i
      BY <1>1, <1>3
    <3>2. QED
      BY <1>8, <3>1
  <2>3. done + i \in more <=> text # <<>>
    BY <1>1, <1>3, <1>6, <1>8, <1>9
  <2>4. ASSUME NEW k \in more, k # done + i PROVE k \in ends
    <3>1. k \in LineEnds(bytes) /\ k \in Nat
      BY <1>8
    <3>2. ~(k > done)
      BY <2>1, <2>4
    <3>3. QED
      BY <1>3, <3>1, <3>2
  <2>5. done + i \notin ends
    BY <1>1, <1>3
  <2> HIDE DEF more, ends, text
  <2>6. CASE text = <<>>
    BY <2>2, <2>3, <2>4, <2>6
  <2>7. CASE text # <<>>
    BY <2>2, <2>3, <2>4, <2>7
  <2>8. QED
    BY <2>6, <2>7
<1>11. IsFiniteSet(ends) /\ \A k \in ends : k \in Nat /\ k <= done /\ k # done + i
  <2>1. ends \subseteq 1..Len(bytes) /\ IsFiniteSet(1..Len(bytes))
    BY <1>1, <1>8, FS_Interval
  <2>2. IsFiniteSet(ends)
    BY <2>1, FS_Subset
  <2>3. QED
    BY <1>1, <1>3, <2>1, <2>2
<1> HIDE DEF more, ends, text
<1>12. /\ longer = [k \in 1..Len(longer) |-> longer[k]] /\ Len(longer) \in Nat
       /\ Len(longer) = Cardinality(more)
       /\ \A k \in more : longer[Cardinality({j \in more : j <= k})] = LineAt(bytes, k)
  <2>0. ls = [k \in 1..Len(ls) |-> ls[k]] /\ Len(ls) \in Nat
    BY DEF FramingOK
  <2>1. CASE text = <<>>
    BY <1>3, <1>10, <2>0, <2>1
  <2>2. CASE text # <<>>
    <3>1. more = ends \cup {done + i} /\ longer = Append(ls, text)
      BY <1>10, <2>2
    <3>2. Cardinality(more) = Cardinality(ends) + 1
      BY <1>11, <3>1, FS_AddElement
    <3> DEFINE V == {ls[k] : k \in 1..Len(ls)} \cup {text}
    <3>3. ls \in Seq(V)
      BY <2>0
    <3>4. text \in V
      OBVIOUS
    <3> HIDE DEF V
    <3>5. /\ longer \in Seq(V) /\ Len(longer) = Len(ls) + 1 /\ longer[Len(ls) + 1] = text
          /\ \A k \in 1..Len(ls) : longer[k] = ls[k]
      BY <3>1, <3>3, <3>4
    <3> HIDE DEF longer
    <3>6. ASSUME NEW k \in more PROVE longer[Cardinality({j \in more : j <= k})] = LineAt(bytes, k)
      <4>1. CASE k = done + i
        <5>1. \A j \in more : j <= k
          BY <1>1, <1>3, <1>11, <3>1, <4>1
        <5>2. {j \in more : j <= k} = more
          BY <5>1
        <5>3. QED
          BY <1>3, <1>9, <3>2, <3>5, <4>1, <5>2
      <4>2. CASE k \in ends
        <5> DEFINE before == {j \in ends : j <= k}
        <5>1. ~(done + i <= k)
          BY <1>1, <1>3, <1>11, <4>2
        <5>2. {j \in more : j <= k} = before
          BY <3>1, <5>1
        <5>3. Cardinality(before) \in Nat /\ Cardinality(before) <= Cardinality(ends) /\ IsFiniteSet(before)
          BY <1>11, FS_Subset, FS_CardinalityType
        <5>4. k \in before
          BY <1>11, <4>2
        <5>5. Cardinality(before) # 0
          BY <5>3, <5>4, FS_EmptySet
        <5>6. Cardinality(before) \in 1..Len(ls)
          BY <1>3, <2>0, <5>3, <5>5
        <5>7. QED
          BY <1>3, <3>5, <4>2, <5>2, <5>6
      <4>3. QED
        BY <3>1, <4>1, <4>2
    <3>7. longer = [k \in 1..Len(longer) |-> longer[k]] /\ Len(longer) \in Nat
      BY <2>0, <3>5, LenProperties
    <3>8. QED
      BY <1>3, <3>2, <3>5, <3>6, <3>7
  <2>3. QED
    BY <2>1, <2>2
<1> HIDE DEF longer
<1>13. Framed(bytes, left, longer)
  BY <1>6, <1>7, <1>12 DEF Framed, more
<1>14. FramingOK(bytes, left, longer)
  BY <1>1, <1>5, <1>6, <1>12, <1>13 DEF FramingOK
<1>15. QED
  BY <1>14 DEF longer, left, text

(* The first newline of the buffer is the first of what is pending. *)
LEMMA LineTakenFromBuffer ==
  ASSUME NEW bytes, NEW b \in Seq(Bytes), NEW w \in Seq(Bytes), NEW ls, FramingOK(bytes, b \o w, ls),
         Newlines(b) # {}
  PROVE  LET i == FirstNewline(b)
             text == Strip(SubSeq(b, 1, i - 1))
             left == SubSeq(b, i + 1, Len(b))
         IN  left \in Seq(Bytes) /\ FramingOK(bytes, left \o w, IF text = <<>> THEN ls ELSE Append(ls, text))
<1> DEFINE i == FirstNewline(b)
           text == Strip(SubSeq(b, 1, i - 1))
           left == SubSeq(b, i + 1, Len(b))
           first == SubSeq(b, 1, i)
           pending == b \o w
<1>1. i \in 1..Len(b) /\ b[i] = "n" /\ \A k \in 1..(i - 1) : b[k] # "n"
  BY FirstIsFirst
<1> HIDE DEF i
<1>2. /\ Len(b) \in Nat /\ Len(w) \in Nat /\ i \in Nat /\ i <= Len(b)
      /\ \A k \in 1..Len(b) : b[k] \in Bytes
  BY <1>1, LenProperties, ElementOfSeq
<1>3. left \in Seq(Bytes) /\ first \in Seq(Bytes) /\ Len(first) = i
  <2>1. i + 1 \in Int /\ Len(b) \in Int /\ i \in Int /\ 1 \in Int
    BY <1>2
  <2>2. left \in Seq(Bytes)
    BY <1>2, <2>1, SubSeqProperties
  <2>3. first \in Seq(Bytes) /\ Len(first) = IF 1 <= i THEN i - 1 + 1 ELSE 0
    BY <1>2, <2>1, SubSeqProperties
  <2> HIDE DEF first, left
  <2>4. QED
    BY <1>1, <2>2, <2>3
<1>4. b = first \o left
  BY <1>1, <1>2, ConcatAdjacentSubSeq, SubSeqFull
<1>5. /\ pending \in Seq(Bytes) /\ Len(pending) = Len(b) + Len(w)
      /\ \A k \in 1..Len(b) : pending[k] = b[k]
  BY <1>2, ConcatProperties
<1>6. SubSeq(pending, 1, i - 1) = SubSeq(b, 1, i - 1)
  <2> HIDE DEF pending
  <2>1. 1 \in Int /\ i - 1 \in Int /\ \A k \in 1..(i - 1) : b[k] \in Bytes /\ pending[k] = b[k]
    BY <1>1, <1>2, <1>5
  <2> DEFINE x == SubSeq(pending, 1, i - 1)
             y == SubSeq(b, 1, i - 1)
  <2>2. /\ x \in Seq(Bytes) /\ Len(x) = (IF 1 <= i - 1 THEN i - 1 - 1 + 1 ELSE 0)
        /\ \A k \in 1..(i - 1 - 1 + 1) : x[k] = pending[1 + k - 1]
    BY <2>1, SubSeqProperties
  <2>3. /\ y \in Seq(Bytes) /\ Len(y) = (IF 1 <= i - 1 THEN i - 1 - 1 + 1 ELSE 0)
        /\ \A k \in 1..(i - 1 - 1 + 1) : y[k] = b[1 + k - 1]
    BY <2>1, SubSeqProperties
  <2> HIDE DEF x, y
  <2>4. \A k \in 1..Len(x) : x[k] = y[k]
    BY <1>1, <1>2, <2>1, <2>2, <2>3
  <2>5. x = y
    BY <2>2, <2>3, <2>4, SeqEqual
  <2>6. QED
    BY <2>5 DEF x, y
<1>7. SubSeq(pending, i + 1, Len(pending)) = left \o w
  <2>1. pending = first \o (left \o w)
    <3> HIDE DEF first, left
    <3>1. QED
      BY <1>3, <1>4, Regrouped
  <2> DEFINE e == left \o w
             x == SubSeq(pending, i + 1, Len(pending))
  <2>2. e \in Seq(Bytes)
    BY <1>3, ConcatProperties
  <2> HIDE DEF pending, first, left, e
  <2>3. /\ pending = first \o e /\ Len(e) \in Nat /\ Len(pending) = i + Len(e)
        /\ \A k \in 1..Len(e) : pending[i + k] = e[k]
    <3>1. pending = first \o e
      BY <2>1 DEF e
    <3>2. /\ Len(first \o e) = Len(first) + Len(e) /\ Len(e) \in Nat
          /\ \A k \in 1..(Len(first) + Len(e)) : (first \o e)[k] = IF k <= Len(first) THEN first[k] ELSE e[k - Len(first)]
      BY <1>3, <2>2, ConcatProperties, LenProperties
    <3>3. QED
      BY <1>2, <1>3, <3>1, <3>2
  <2>4. i + 1 \in Int /\ Len(pending) \in Int /\ \A k \in (i + 1)..Len(pending) : pending[k] \in Bytes
    BY <1>2, <1>5, <2>3, ElementOfSeq
  <2>5. /\ x \in Seq(Bytes) /\ Len(x) = (IF i + 1 <= Len(pending) THEN Len(pending) - (i + 1) + 1 ELSE 0)
        /\ \A k \in 1..(Len(pending) - (i + 1) + 1) : x[k] = pending[(i + 1) + k - 1]
    BY <2>4, SubSeqProperties
  <2> HIDE DEF x
  <2>6. Len(x) = Len(e) /\ \A k \in 1..Len(x) : x[k] = e[k]
    <3>1. Len(x) = Len(e) /\ i \in Nat /\ Len(e) \in Nat /\ Len(pending) = i + Len(e)
      BY <1>2, <2>3, <2>5
    <3>2. ASSUME NEW k \in 1..Len(x) PROVE x[k] = e[k]
      <4>1. k \in 1..Len(e) /\ k \in 1..(Len(pending) - (i + 1) + 1) /\ (i + 1) + k - 1 = i + k
        BY <3>1
      <4>2. QED
        BY <2>3, <2>5, <4>1
    <3>3. QED
      BY <3>1, <3>2
  <2>7. x = e
    BY <2>2, <2>5, <2>6, SeqEqual
  <2>8. QED
    BY <2>7 DEF x, e
<1>8. FramingOK(bytes, SubSeq(pending, i + 1, Len(pending)),
                IF Strip(SubSeq(pending, 1, i - 1)) = <<>> THEN ls ELSE Append(ls, Strip(SubSeq(pending, 1, i - 1))))
  <2>1. FramingOK(bytes, pending, ls)
    OBVIOUS
  <2> HIDE DEF pending
  <2>2. i \in 1..Len(pending) /\ pending[i] = "n" /\ \A k \in 1..(i - 1) : pending[k] # "n"
    BY <1>1, <1>2, <1>5
  <2>3. QED
    BY <2>1, <2>2, LineTaken
<1>9. QED
  BY <1>3, <1>6, <1>7, <1>8 DEF i

(* A chunk, a line and the end of a stream change what is pending as the    *)
(* lemmas say; nothing else touches it.                                     *)
LEMMA FramingStep ==
  ASSUME FramingInv, [SysNext]_sysVars
  PROVE  FramingInv'
<1> USE DEF FramingInv
<1>1. CASE UNCHANGED <<sent, wire, buffer, lines>>
  BY <1>1
<1>2. ASSUME NEW c \in TcpClients, ReadChunk(c) PROVE FramingInv'
  <2>1. PICK n \in 1..(IF Len(wire[c]) < ChunkMax THEN Len(wire[c]) ELSE ChunkMax) :
          /\ buffer' = [buffer EXCEPT ![c] = @ \o SubSeq(wire[c], 1, n)]
          /\ wire' = [wire EXCEPT ![c] = SubSeq(@, n + 1, Len(@))]
    BY <1>2 DEF ReadChunk
  <2>2. n \in 1..Len(wire[c])
    <3>1. Len(wire[c]) \in Nat
      BY LenProperties
    <3>2. QED
      BY <3>1, SyslogAssumption
  <2>3. sent' = sent /\ lines' = lines
    BY <1>2 DEF ReadChunk
  <2> DEFINE b == buffer[c] \o SubSeq(wire[c], 1, n)
             w == SubSeq(wire[c], n + 1, Len(wire[c]))
  <2>4. b \in Seq(Bytes) /\ w \in Seq(Bytes) /\ b \o w = buffer[c] \o wire[c]
    BY <2>2, ChunkMoves
  <2>5. buffer' = [buffer EXCEPT ![c] = b] /\ wire' = [wire EXCEPT ![c] = w]
    BY <2>1
  <2> HIDE DEF b, w
  <2>6. ASSUME NEW d \in TcpClients
        PROVE  /\ buffer'[d] \in Seq(Bytes) /\ wire'[d] \in Seq(Bytes)
               /\ FramingOK(sent[d], buffer'[d] \o wire'[d], lines[d])
    <3>1. CASE d = c
      <4>1. buffer'[d] = b /\ wire'[d] = w
        BY <2>5, <3>1
      <4>2. QED
        BY <2>4, <3>1, <4>1
    <3>2. CASE d # c
      <4>1. buffer'[d] = buffer[d] /\ wire'[d] = wire[d]
        BY <2>5, <3>2
      <4>2. QED
        BY <4>1
    <3>3. QED
      BY <3>1, <3>2
  <2>7. QED
    BY <2>3, <2>5, <2>6
<1>3. ASSUME NEW c \in TcpClients, TakeLine(c) PROVE FramingInv'
  <2> DEFINE i == FirstNewline(buffer[c])
             text == Strip(SubSeq(buffer[c], 1, i - 1))
             b == SubSeq(buffer[c], i + 1, Len(buffer[c]))
             ls == IF text = <<>> THEN lines[c] ELSE Append(lines[c], text)
  <2>1. /\ Newlines(buffer[c]) # {} /\ sent' = sent /\ wire' = wire
        /\ buffer' = [buffer EXCEPT ![c] = b] /\ lines' = [lines EXCEPT ![c] = ls]
    <3>1. /\ Newlines(buffer[c]) # {} /\ sent' = sent /\ wire' = wire
          /\ buffer' = [buffer EXCEPT ![c] = b]
          /\ IF text = <<>> THEN UNCHANGED <<lines, job, handled>>
             ELSE lines' = [lines EXCEPT ![c] = Append(@, text)] /\ Begin(c, text)
      BY <1>3 DEF TakeLine
    <3> HIDE DEF text, b
    <3>2. lines' = [lines EXCEPT ![c] = ls]
      BY <3>1
    <3>3. QED
      BY <3>1, <3>2
  <2>2. b \in Seq(Bytes) /\ FramingOK(sent[c], b \o wire[c], ls)
    BY <2>1, LineTakenFromBuffer
  <2> HIDE DEF b, ls
  <2>3. ASSUME NEW d \in TcpClients
        PROVE  /\ buffer'[d] \in Seq(Bytes) /\ wire'[d] \in Seq(Bytes)
               /\ FramingOK(sent[d], buffer'[d] \o wire'[d], lines'[d])
    <3>1. CASE d = c
      <4>1. buffer'[d] = b /\ lines'[d] = ls
        BY <2>1, <3>1
      <4>2. QED
        BY <2>1, <2>2, <3>1, <4>1
    <3>2. CASE d # c
      <4>1. buffer'[d] = buffer[d] /\ lines'[d] = lines[d]
        BY <2>1, <3>2
      <4>2. QED
        BY <2>1, <4>1
    <3>3. QED
      BY <3>1, <3>2
  <2>4. QED
    BY <2>1, <2>3
<1>4. ASSUME NEW h \in Handlers, Handle(h) PROVE UNCHANGED <<sent, wire, buffer, lines>>
  BY <1>4 DEF Handle, Ingest, EvaluateFails, CommitMessage, Fails, tcpVars
<1>5. ASSUME NEW c \in TcpClients, EndOfStream(c) PROVE UNCHANGED <<sent, wire, buffer, lines>>
  BY <1>5 DEF EndOfStream
<1>6. ASSUME DatagramReceived \/ TakeDatagram \/ Purge \/ DevicesChange \/ SysTick \/ UNCHANGED sysVars
      PROVE  UNCHANGED <<sent, wire, buffer, lines>>
  BY <1>6 DEF DatagramReceived, TakeDatagram, Purge, DevicesChange, SysTick, sysVars, tcpVars
<1>7. QED
  BY <1>1, <1>2, <1>3, <1>4, <1>5, <1>6 DEF SysNext, ReadClient

(* However streams are cut into chunks, and whatever fails, the messages of *)
(* a connection are the first lines that its client sent, in order          *)
(* (SyslogServer._handle_tcp).                                              *)
THEOREM MessagesAreLines == SysSpec => []LinesAreFramed
<1>1. SysInit => FramingInv
  <2> SUFFICES ASSUME SysInit PROVE FramingInv
    OBVIOUS
  <2>1. /\ sent \in [TcpClients -> Streams] /\ wire = sent
        /\ buffer = [c \in TcpClients |-> <<>>] /\ lines = [c \in TcpClients |-> <<>>]
    BY DEF SysInit
  <2>2. ASSUME NEW c \in TcpClients
        PROVE  /\ buffer[c] \in Seq(Bytes) /\ wire[c] \in Seq(Bytes)
               /\ FramingOK(sent[c], buffer[c] \o wire[c], lines[c])
    <3> DEFINE s == sent[c]
    <3>1. s \in Seq(Bytes) /\ wire[c] = s /\ buffer[c] = <<>> /\ lines[c] = <<>>
      BY <2>1, SyslogAssumption DEF Bytes
    <3> HIDE DEF s
    <3>2. Len(s) \in Nat /\ <<>> \in Seq(Bytes) /\ <<>> \o s = s /\ SubSeq(s, 1, Len(s)) = s
      BY <3>1, LenProperties, ConcatEmptySeq, SubSeqFull
    <3>3. {i \in LineEnds(s) : i <= Len(s) - Len(s)} = {}
      BY <3>1, <3>2, LenProperties DEF LineEnds, Newlines
    <3>4. Framed(s, s, <<>>)
      <4>1. (Len(s) - Len(s)) + 1 = 1 /\ Len(<<>>) = 0 /\ Cardinality({}) = 0
        BY <3>2, FS_EmptySet
      <4>2. QED
        BY <3>2, <3>3, <4>1, Zenon DEF Framed
    <3>5. FramingOK(s, s, <<>>)
      BY <3>1, <3>2, <3>4 DEF FramingOK
    <3>6. QED
      BY <3>1, <3>2, <3>5 DEF s
  <2>3. QED
    BY <2>1, <2>2 DEF FramingInv
<1>2. FramingInv /\ [SysNext]_sysVars => FramingInv'
  BY FramingStep
<1>3. FramingInv => LinesAreFramed
  BY DEF FramingInv, FramingOK, LinesAreFramed
<1>4. QED
  BY <1>1, <1>2, <1>3, PTL DEF SysSpec

-----------------------------------------------------------------------------
(* Series: rates.                                                           *)

(* The counter of i was old at the last row. *)
Follows(i, old) ==
  /\ old \in Nat /\ octets[i] <= old + moved[i]
  /\ Steady(i) => octets[i] = old + moved[i]

(* What the loop remembers of the last row are the counters at its time. *)
SeriesTypeOK ==
  /\ octets \in [SeriesIfs -> 0..(Wrap - 1)] /\ moved \in [SeriesIfs -> 0..MaxMoved]
  /\ restarted \subseteq SeriesIfs
  /\ prevIf = [i \in DOMAIN prevIf |-> prevIf[i]]
SeriesInv ==
  /\ SeriesTypeOK
  /\ last # NoOctets =>
       /\ last.present \subseteq SeriesIfs /\ last.present \subseteq DOMAIN prevIf
       /\ \A i \in last.present : prevIf[i] # NoOctets => Follows(i, prevIf[i])
       /\ last.full => \E old \in [SeriesIfs -> 0..(Wrap - 1)] :
            prevTotal = Sum(old, SeriesIfs) /\ \A i \in SeriesIfs : Follows(i, old[i])

(* Sums. *)
LEMMA OctetsAre ==
  ASSUME NEW S, NEW f, NEW p
  PROVE  p \in Octets(f, S) <=> \E i \in S : \E n \in 1..f[i] : p = <<i, n>>
BY DEF Octets

LEMMA SumsAreNumbers ==
  ASSUME NEW S, IsFiniteSet(S), NEW M \in Nat, NEW f \in [S -> 0..M]
  PROVE  IsFiniteSet(Octets(f, S)) /\ Sum(f, S) \in Nat
<1>1. IsFiniteSet(S \X (1..M))
  <2>1. IsFiniteSet(1..M)
    BY FS_Interval
  <2>2. QED
    BY <2>1, FS_Product
<1>2. Octets(f, S) \subseteq S \X (1..M)
  <2> SUFFICES ASSUME NEW p \in Octets(f, S) PROVE p \in S \X (1..M)
    OBVIOUS
  <2>1. PICK i \in S : \E n \in 1..f[i] : p = <<i, n>>
    BY OctetsAre
  <2>2. f[i] \in 0..M
    OBVIOUS
  <2>3. QED
    BY <2>1, <2>2
<1>3. QED
  BY <1>1, <1>2, FS_Subset, FS_CardinalityType DEF Sum

LEMMA SumsGrow ==
  ASSUME NEW S, IsFiniteSet(S), NEW M \in Nat, NEW f \in [S -> 0..M], NEW g \in [S -> 0..M],
         \A i \in S : f[i] <= g[i]
  PROVE  Sum(f, S) <= Sum(g, S)
<1>1. Octets(f, S) \subseteq Octets(g, S)
  <2> SUFFICES ASSUME NEW p \in Octets(f, S) PROVE p \in Octets(g, S)
    OBVIOUS
  <2>1. PICK i \in S : \E n \in 1..f[i] : p = <<i, n>>
    BY OctetsAre
  <2>2. PICK n \in 1..f[i] : p = <<i, n>>
    BY <2>1
  <2>3. f[i] \in Nat /\ g[i] \in Nat /\ f[i] <= g[i]
    OBVIOUS
  <2>4. n \in 1..g[i]
    BY <2>3
  <2>5. QED
    BY <2>2, <2>4, OctetsAre
<1>2. QED
  BY <1>1, SumsAreNumbers, FS_Subset DEF Sum

(* The octets of g + h are those of g and, counted on, those of h. *)
LEMMA SumsAdd ==
  ASSUME NEW S, IsFiniteSet(S), NEW M \in Nat, NEW g \in [S -> 0..M], NEW h \in [S -> 0..M],
         NEW f \in [S -> 0..(2 * M)], \A i \in S : f[i] = g[i] + h[i]
  PROVE  Sum(f, S) = Sum(g, S) + Sum(h, S)
<1> DEFINE G == Octets(g, S)
           H == Octets(h, S)
           F == Octets(f, S)
           on == [p \in H |-> <<p[1], g[p[1]] + p[2]>>]
           T == F \ G
<1>1. IsFiniteSet(G) /\ IsFiniteSet(H) /\ IsFiniteSet(F)
  BY SumsAreNumbers
<1>2. \A i \in S : g[i] \in Nat /\ h[i] \in Nat /\ f[i] = g[i] + h[i]
  OBVIOUS
<1>3. ASSUME NEW p \in G PROVE p \in F
  <2>1. PICK i \in S : \E n \in 1..g[i] : p = <<i, n>>
    BY OctetsAre
  <2>2. PICK n \in 1..g[i] : p = <<i, n>>
    BY <2>1
  <2>3. n \in 1..f[i]
    BY <1>2
  <2>4. QED
    BY <2>2, <2>3, OctetsAre
<1>4. ASSUME NEW p \in H PROVE on[p] \in T
  <2>1. PICK i \in S : \E n \in 1..h[i] : p = <<i, n>>
    BY OctetsAre
  <2>2. PICK n \in 1..h[i] : p = <<i, n>>
    BY <2>1
  <2>3. on[p] = <<i, g[i] + n>>
    BY <2>2
  <2>4. g[i] + n \in 1..f[i] /\ g[i] + n \notin 1..g[i]
    BY <1>2
  <2>5. <<i, g[i] + n>> \in F
    BY <2>4, OctetsAre
  <2>6. <<i, g[i] + n>> \notin G
    <3> SUFFICES ASSUME <<i, g[i] + n>> \in G PROVE FALSE
      OBVIOUS
    <3>1. PICK j \in S : \E m \in 1..g[j] : <<i, g[i] + n>> = <<j, m>>
      BY OctetsAre
    <3>2. QED
      BY <2>4, <3>1
  <2>7. QED
    BY <2>3, <2>5, <2>6
<1>5. ASSUME NEW p \in H, NEW q \in H, on[p] = on[q] PROVE p = q
  <2>1. PICK i \in S : \E n \in 1..h[i] : p = <<i, n>>
    BY OctetsAre
  <2>2. PICK n \in 1..h[i] : p = <<i, n>>
    BY <2>1
  <2>3. PICK j \in S : \E m \in 1..h[j] : q = <<j, m>>
    BY OctetsAre
  <2>4. PICK m \in 1..h[j] : q = <<j, m>>
    BY <2>3
  <2>5. on[p] = <<i, g[i] + n>> /\ on[q] = <<j, g[j] + m>>
    BY <2>2, <2>4
  <2>6. i = j /\ g[i] + n = g[j] + m
    BY <1>5, <2>5
  <2>7. n = m
    BY <1>2, <2>6
  <2>8. QED
    BY <2>2, <2>4, <2>6, <2>7
<1>6. ASSUME NEW t \in T PROVE \E p \in H : on[p] = t
  <2>1. PICK i \in S : \E n \in 1..f[i] : t = <<i, n>>
    BY OctetsAre
  <2>2. PICK n \in 1..f[i] : t = <<i, n>>
    BY <2>1
  <2>3. n \notin 1..g[i]
    BY <2>2, OctetsAre
  <2>4. n - g[i] \in 1..h[i] /\ g[i] + (n - g[i]) = n
    BY <1>2, <2>3
  <2>5. <<i, n - g[i]>> \in H
    BY <2>4, OctetsAre
  <2>6. on[<<i, n - g[i]>>] = <<i, g[i] + (n - g[i])>>
    BY <2>5
  <2>7. QED
    BY <2>2, <2>4, <2>5, <2>6
<1> HIDE DEF on, T, H, G, F
<1>7. on \in Bijection(H, T)
  <2>1. on \in [H -> T]
    <3>1. on = [p \in H |-> on[p]]
      BY DEF on
    <3>2. QED
      BY <1>4, <3>1
  <2>2. QED
    BY <1>5, <1>6, <2>1 DEF Bijection, Injection, Surjection, IsInjective
<1>8. IsFiniteSet(T) /\ Cardinality(T) = Cardinality(H)
  BY <1>1, <1>7, FS_Bijection DEF ExistsBijection
<1>9. Cardinality(T) = Cardinality(F) - Cardinality(G)
  <2>1. F \cap G = G
    BY <1>3
  <2>2. Cardinality(F \ G) = Cardinality(F) - Cardinality(F \cap G)
    BY <1>1, FS_Difference
  <2>3. QED
    BY <2>1, <2>2 DEF T
<1>10. Cardinality(F) \in Nat /\ Cardinality(G) \in Nat /\ Cardinality(H) \in Nat
  BY <1>1, FS_CardinalityType
<1>11. QED
  BY <1>8, <1>9, <1>10 DEF Sum, F, G, H

LEMMA NextCount ==
  ASSUME NEW n \in Nat, NEW w \in Nat \ {0}, n < w
  PROVE  (n + 1) % w = IF n + 1 = w THEN 0 ELSE n + 1
<1>1. CASE n + 1 = w
  BY <1>1
<1>2. CASE n + 1 < w
  BY <1>2
<1>3. QED
  BY <1>1, <1>2

(* A transfer and a restart keep what each counter has to do with the       *)
(* reading of the last row.                                                 *)
LEMMA DeviceKeeps ==
  ASSUME SeriesInv, NEW j \in SeriesIfs, UNCHANGED <<last, prevTotal, prevIf>>,
         \/ /\ moved[j] < MaxMoved /\ moved' = [moved EXCEPT ![j] = @ + 1]
            /\ octets' = [octets EXCEPT ![j] = (@ + 1) % Wrap] /\ restarted' = restarted
         \/ /\ restarted' = restarted \cup {j} /\ octets' = [octets EXCEPT ![j] = 0] /\ moved' = moved
  PROVE  SeriesInv'
<1>1. /\ octets \in [SeriesIfs -> 0..(Wrap - 1)] /\ moved \in [SeriesIfs -> 0..MaxMoved] /\ Wrap \in Nat \ {0}
      /\ MaxMoved \in Nat /\ restarted \subseteq SeriesIfs
  BY SeriesAssumption DEF SeriesInv, SeriesTypeOK
<1>2. octets[j] \in Nat /\ octets[j] < Wrap /\ moved[j] \in Nat
  BY <1>1
<1>3. (octets[j] + 1) % Wrap = IF octets[j] + 1 = Wrap THEN 0 ELSE octets[j] + 1
  BY <1>1, <1>2, NextCount
<1>4. /\ \A i \in SeriesIfs \ {j} : octets'[i] = octets[i] /\ moved'[i] = moved[i] /\ (i \in restarted' <=> i \in restarted)
      /\ \/ /\ octets'[j] = 0 /\ j \in restarted' /\ moved'[j] = moved[j]
         \/ /\ octets'[j] = 0 /\ moved'[j] = moved[j] + 1 /\ (j \in restarted' <=> j \in restarted)
         \/ /\ octets'[j] = octets[j] + 1 /\ moved'[j] = moved[j] + 1 /\ (j \in restarted' <=> j \in restarted)
  BY <1>1, <1>3
<1>5. SeriesTypeOK'
  <2>1. CASE moved' = moved /\ octets' = [octets EXCEPT ![j] = 0] /\ restarted' = restarted \cup {j}
    BY <1>1, <2>1 DEF SeriesInv, SeriesTypeOK
  <2>2. CASE /\ moved[j] < MaxMoved /\ moved' = [moved EXCEPT ![j] = @ + 1]
             /\ octets' = [octets EXCEPT ![j] = (@ + 1) % Wrap] /\ restarted' = restarted
    <3>1. (octets[j] + 1) % Wrap \in 0..(Wrap - 1) /\ moved[j] + 1 \in 0..MaxMoved
      BY <1>1, <1>2, <1>3, <2>2
    <3>2. octets' \in [SeriesIfs -> 0..(Wrap - 1)] /\ moved' \in [SeriesIfs -> 0..MaxMoved]
      BY <1>1, <2>2, <3>1
    <3>3. QED
      BY <1>1, <2>2, <3>2 DEF SeriesInv, SeriesTypeOK
  <2>3. QED
    BY <2>1, <2>2
<1>6. ASSUME NEW i \in SeriesIfs, NEW old, Follows(i, old)
      PROVE  /\ octets'[i] <= old + moved'[i]
             /\ i \notin restarted' /\ octets'[i] >= moved'[i] => octets'[i] = old + moved'[i]
  <2>1. old \in Nat /\ octets[i] \in Nat /\ moved[i] \in Nat /\ octets[i] <= old + moved[i]
    BY <1>1, <1>6 DEF Follows
  <2>2. i \notin restarted /\ octets[i] >= moved[i] => octets[i] = old + moved[i]
    BY <1>6 DEF Follows, Steady
  <2>3. CASE i # j
    BY <1>4, <2>1, <2>2, <2>3
  <2>4. CASE i = j
    <3>1. CASE octets'[j] = 0 /\ j \in restarted' /\ moved'[j] = moved[j]
      BY <2>1, <2>4, <3>1
    <3>2. CASE octets'[j] = 0 /\ moved'[j] = moved[j] + 1
      BY <2>1, <2>4, <3>2
    <3>3. CASE /\ octets'[j] = octets[j] + 1 /\ moved'[j] = moved[j] + 1 /\ (j \in restarted' <=> j \in restarted)
      BY <2>1, <2>2, <2>4, <3>3
    <3>4. QED
      BY <1>4, <3>1, <3>2, <3>3
  <2>5. QED
    BY <2>3, <2>4
<1>7. ASSUME NEW i \in SeriesIfs, NEW old, Follows(i, old) PROVE old \in Nat
  BY <1>7 DEF Follows
<1>8. ASSUME last # NoOctets
      PROVE  /\ last.present \subseteq SeriesIfs /\ last.present \subseteq DOMAIN prevIf
             /\ \A i \in last.present : prevIf[i] # NoOctets => Follows(i, prevIf[i])'
             /\ last.full => \E old \in [SeriesIfs -> 0..(Wrap - 1)] :
                  prevTotal = Sum(old, SeriesIfs) /\ \A i \in SeriesIfs : Follows(i, old[i])'
  <2>1. last.present \subseteq SeriesIfs /\ last.present \subseteq DOMAIN prevIf
    BY <1>8 DEF SeriesInv
  <2>2. ASSUME NEW i \in last.present, prevIf[i] # NoOctets PROVE Follows(i, prevIf[i])'
    <3>1. i \in SeriesIfs /\ Follows(i, prevIf[i])
      BY <1>8, <2>1, <2>2 DEF SeriesInv
    <3>2. QED
      BY <1>6, <1>7, <3>1 DEF Follows, Steady
  <2>3. ASSUME last.full
        PROVE  \E old \in [SeriesIfs -> 0..(Wrap - 1)] :
                 prevTotal = Sum(old, SeriesIfs) /\ \A i \in SeriesIfs : Follows(i, old[i])'
    <3>1. PICK old \in [SeriesIfs -> 0..(Wrap - 1)] :
            prevTotal = Sum(old, SeriesIfs) /\ \A i \in SeriesIfs : Follows(i, old[i])
      BY <1>8, <2>3 DEF SeriesInv
    <3>2. \A i \in SeriesIfs : Follows(i, old[i])'
      BY <1>6, <1>7, <3>1 DEF Follows, Steady
    <3>3. QED
      BY <3>1, <3>2
  <2>4. QED
    BY <2>1, <2>2, <2>3
<1>9. QED
  BY <1>5, <1>8 DEF SeriesInv

(* A row: what was present, whether its time is later, and what it holds. *)
Reads(present, later, r) ==
  LET timed == last # NoOctets /\ later
      both == present \cap DOMAIN prevIf
  IN  /\ rates' = [total |-> IF timed THEN Increase(prevTotal, r.total) ELSE NoOctets,
                   ifs |-> [i \in both |-> IF timed THEN Increase(prevIf[i], r.ifs[i]) ELSE NoOctets]]
      /\ prevTotal' = r.total
      /\ prevIf' = [i \in present \cup DOMAIN prevIf |-> IF i \in present THEN r.ifs[i] ELSE prevIf[i]]
      /\ last' = [full |-> r.full, present |-> present]
      /\ moved' = [i \in SeriesIfs |-> 0] /\ restarted' = {}
      /\ UNCHANGED octets

LEMMA RowsHold ==
  ASSUME NEW present, NEW r \in RowsWith(present)
  PROVE  /\ \A i \in present : r.ifs[i] = NoOctets \/ r.ifs[i] = octets[i]
         /\ r.full => r.total = Sum(octets, SeriesIfs)
<1>1. CASE r = [full |-> FALSE, total |-> IF present = {} THEN NoOctets ELSE Sum(octets, present),
                ifs |-> [i \in present |-> octets[i]]]
  BY <1>1
<1>2. ASSUME NEW reached \in SUBSET SeriesIfs \ {{}},
             NEW ifs \in {[i \in present |-> NoOctets], [i \in present |-> octets[i]]},
             r = [full |-> reached = SeriesIfs, total |-> Sum(octets, reached), ifs |-> ifs]
      PROVE  /\ \A i \in present : r.ifs[i] = NoOctets \/ r.ifs[i] = octets[i]
             /\ r.full => r.total = Sum(octets, SeriesIfs)
  BY <1>2
<1>3. QED
  BY <1>1, <1>2 DEF RowsWith

LEMMA RowKeeps ==
  ASSUME SeriesInv, NextRow
  PROVE  SeriesInv'
<1>1. PICK present \in SUBSET SeriesIfs, later \in BOOLEAN : \E r \in RowsWith(present) : Reads(present, later, r)
  BY DEF NextRow, Reads
<1>2. PICK r \in RowsWith(present) : Reads(present, later, r)
  BY <1>1
<1>3. /\ \A i \in present : r.ifs[i] = NoOctets \/ r.ifs[i] = octets[i]
      /\ r.full => r.total = Sum(octets, SeriesIfs)
  BY <1>2, RowsHold
<1>4. /\ prevTotal' = r.total /\ last'.full = r.full /\ last'.present = present /\ present \subseteq SeriesIfs
      /\ prevIf' = [i \in present \cup DOMAIN prevIf |-> IF i \in present THEN r.ifs[i] ELSE prevIf[i]]
      /\ moved' = [i \in SeriesIfs |-> 0] /\ restarted' = {} /\ octets' = octets
  BY <1>2 DEF Reads
<1>5. octets \in [SeriesIfs -> 0..(Wrap - 1)] /\ MaxMoved \in Nat
  BY SeriesAssumption DEF SeriesInv, SeriesTypeOK
<1>6. SeriesTypeOK'
  <2>1. moved' \in [SeriesIfs -> 0..MaxMoved]
    BY <1>4, <1>5
  <2>2. QED
    BY <1>4, <1>5, <2>1 DEF SeriesTypeOK
<1>7. ASSUME NEW i \in SeriesIfs PROVE Follows(i, octets[i])'
  <2>1. octets[i] \in Nat /\ octets'[i] = octets[i] /\ moved'[i] = 0
    BY <1>4, <1>5
  <2>2. QED
    BY <1>4, <2>1 DEF Follows, Steady
<1>8. ASSUME NEW i \in present, prevIf'[i] # NoOctets PROVE Follows(i, prevIf[i])'
  <2>1. prevIf'[i] = octets[i] /\ octets'[i] = octets[i]
    BY <1>3, <1>4, <1>8
  <2>2. QED
    BY <1>4, <1>7, <2>1 DEF Follows, Steady
<1>9. r.full => \E old \in [SeriesIfs -> 0..(Wrap - 1)] :
        prevTotal' = Sum(old, SeriesIfs) /\ \A i \in SeriesIfs : Follows(i, old[i])'
  <2>1. \A i \in SeriesIfs : octets'[i] = octets[i]
    BY <1>4
  <2>2. \A i \in SeriesIfs : Follows(i, octets[i])'
    BY <1>7
  <2>3. octets' = octets /\ prevTotal' = r.total
    BY <1>4
  <2>4. QED
    BY <1>3, <1>5, <2>2, <2>3
<1>10. present \subseteq DOMAIN prevIf'
  BY <1>4
<1>11. QED
  BY <1>4, <1>6, <1>8, <1>9, <1>10 DEF SeriesInv

(* The rates of a row are increases over what the loop remembers. *)
LEMMA RowIsTrue ==
  ASSUME SeriesInv, NextRow
  PROVE  /\ \A i \in DOMAIN rates'.ifs : rates'.ifs[i] # NoOctets /\ i \in last.present =>
              /\ 0 <= rates'.ifs[i] /\ rates'.ifs[i] <= moved[i]
              /\ Steady(i) => rates'.ifs[i] = moved[i]
         /\ rates'.total # NoOctets /\ last.full /\ last'.full =>
              /\ 0 <= rates'.total /\ rates'.total <= Sum(moved, SeriesIfs)
              /\ (\A i \in SeriesIfs : Steady(i)) => rates'.total = Sum(moved, SeriesIfs)
<1>1. PICK present \in SUBSET SeriesIfs, later \in BOOLEAN : \E r \in RowsWith(present) : Reads(present, later, r)
  BY DEF NextRow, Reads
<1>2. PICK r \in RowsWith(present) : Reads(present, later, r)
  BY <1>1
<1>3. /\ \A i \in present : r.ifs[i] = NoOctets \/ r.ifs[i] = octets[i]
      /\ r.full => r.total = Sum(octets, SeriesIfs)
  BY <1>2, RowsHold
<1> DEFINE timed == last # NoOctets /\ later
           both == present \cap DOMAIN prevIf
<1>4. /\ rates'.total = IF timed THEN Increase(prevTotal, r.total) ELSE NoOctets
      /\ rates'.ifs = [i \in both |-> IF timed THEN Increase(prevIf[i], r.ifs[i]) ELSE NoOctets]
      /\ last'.full = r.full
  BY <1>2 DEF Reads
<1>5. /\ octets \in [SeriesIfs -> 0..(Wrap - 1)] /\ moved \in [SeriesIfs -> 0..MaxMoved]
      /\ MaxMoved \in Nat /\ Wrap \in Nat \ {0} /\ IsFiniteSet(SeriesIfs) /\ NoOctets \notin Nat
  BY SeriesAssumption DEF SeriesInv, SeriesTypeOK
<1>6. ASSUME NEW i \in DOMAIN rates'.ifs, rates'.ifs[i] # NoOctets, i \in last.present
      PROVE  /\ 0 <= rates'.ifs[i] /\ rates'.ifs[i] <= moved[i]
             /\ Steady(i) => rates'.ifs[i] = moved[i]
  <2>1. i \in present /\ i \in SeriesIfs /\ timed /\ rates'.ifs[i] = Increase(prevIf[i], r.ifs[i])
    BY <1>4, <1>6
  <2>2. /\ prevIf[i] # NoOctets /\ r.ifs[i] # NoOctets /\ ~(r.ifs[i] < prevIf[i])
        /\ rates'.ifs[i] = r.ifs[i] - prevIf[i]
    BY <1>6, <2>1 DEF Increase
  <2>3. Follows(i, prevIf[i]) /\ r.ifs[i] = octets[i]
    BY <1>3, <1>6, <2>1, <2>2 DEF SeriesInv
  <2>4. /\ octets[i] \in Nat /\ moved[i] \in Nat /\ prevIf[i] \in Nat /\ octets[i] <= prevIf[i] + moved[i]
        /\ Steady(i) => octets[i] = prevIf[i] + moved[i]
    BY <1>5, <2>1, <2>3 DEF Follows
  <2>5. QED
    BY <2>2, <2>3, <2>4
<1>7. ASSUME rates'.total # NoOctets, last.full, last'.full
      PROVE  /\ 0 <= rates'.total /\ rates'.total <= Sum(moved, SeriesIfs)
             /\ (\A i \in SeriesIfs : Steady(i)) => rates'.total = Sum(moved, SeriesIfs)
  <2>1. timed /\ rates'.total = Increase(prevTotal, r.total) /\ r.total = Sum(octets, SeriesIfs)
    BY <1>3, <1>4, <1>7
  <2>2. ~(r.total < prevTotal) /\ rates'.total = r.total - prevTotal
    BY <1>7, <2>1 DEF Increase
  <2>3. PICK old \in [SeriesIfs -> 0..(Wrap - 1)] :
          prevTotal = Sum(old, SeriesIfs) /\ \A i \in SeriesIfs : Follows(i, old[i])
    BY <1>7, <2>1 DEF SeriesInv
  <2> DEFINE M == Wrap + MaxMoved
             both2 == [i \in SeriesIfs |-> old[i] + moved[i]]
  <2>4. /\ M \in Nat /\ 2 * M \in Nat /\ octets \in [SeriesIfs -> 0..M] /\ moved \in [SeriesIfs -> 0..M]
        /\ old \in [SeriesIfs -> 0..M] /\ octets \in [SeriesIfs -> 0..(2 * M)]
    BY <1>5
  <2>5. both2 \in [SeriesIfs -> 0..(2 * M)] /\ \A i \in SeriesIfs : both2[i] = old[i] + moved[i]
    <3>1. \A i \in SeriesIfs : old[i] + moved[i] \in 0..(2 * M)
      BY <1>5
    <3>2. QED
      BY <3>1
  <2> HIDE DEF M, both2
  <2>6. Sum(both2, SeriesIfs) = Sum(old, SeriesIfs) + Sum(moved, SeriesIfs)
    BY <1>5, <2>4, <2>5, SumsAdd
  <2>7. Sum(octets, SeriesIfs) <= Sum(both2, SeriesIfs)
    <3>1. \A i \in SeriesIfs : octets[i] <= both2[i]
      BY <2>3, <2>5 DEF Follows
    <3>2. QED
      BY <1>5, <2>4, <2>5, <3>1, SumsGrow
  <2>8. ASSUME \A i \in SeriesIfs : Steady(i) PROVE Sum(octets, SeriesIfs) = Sum(both2, SeriesIfs)
    <3>1. \A i \in SeriesIfs : octets[i] = both2[i]
      BY <2>3, <2>5, <2>8 DEF Follows
    <3>2. octets = both2
      BY <1>5, <2>5, <3>1
    <3>3. QED
      BY <3>2
  <2>9. Sum(octets, SeriesIfs) \in Nat /\ Sum(old, SeriesIfs) \in Nat /\ Sum(moved, SeriesIfs) \in Nat
    BY <1>5, <2>4, SumsAreNumbers
  <2>10. QED
    BY <2>1, <2>2, <2>3, <2>6, <2>7, <2>8, <2>9
<1>8. QED
  BY <1>6, <1>7

(* No rate claims more than was transferred, whatever wraps, restarts or is *)
(* left out of a walk (build_metric_series).                                *)
THEOREM RatesAreNeverTooHigh == SeriesSpec => RatesAreTrue
<1>1. SeriesInit => SeriesInv
  <2> SUFFICES ASSUME SeriesInit PROVE SeriesInv
    OBVIOUS
  <2>1. /\ octets = [i \in SeriesIfs |-> 0] /\ moved = [i \in SeriesIfs |-> 0] /\ restarted = {} /\ last = NoOctets
        /\ prevIf = [i \in {} |-> 0]
    BY DEF SeriesInit
  <2>2. SeriesTypeOK
    BY <2>1, SeriesAssumption DEF SeriesTypeOK
  <2>3. QED
    BY <2>1, <2>2 DEF SeriesInv
<1>2. SeriesInv /\ [SeriesNext]_seriesVars => SeriesInv'
  <2> SUFFICES ASSUME SeriesInv, [SeriesNext]_seriesVars PROVE SeriesInv'
    OBVIOUS
  <2>1. CASE Transfer
    <3>1. PICK j \in SeriesIfs : /\ moved[j] < MaxMoved /\ moved' = [moved EXCEPT ![j] = @ + 1]
                                 /\ octets' = [octets EXCEPT ![j] = (@ + 1) % Wrap]
      BY <2>1 DEF Transfer
    <3>2. UNCHANGED <<last, prevTotal, prevIf>> /\ restarted' = restarted
      BY <2>1 DEF Transfer
    <3>3. QED
      BY <3>1, <3>2, DeviceKeeps
  <2>2. CASE Restart
    <3>1. PICK j \in SeriesIfs : restarted' = restarted \cup {j} /\ octets' = [octets EXCEPT ![j] = 0]
      BY <2>2 DEF Restart
    <3>2. UNCHANGED <<last, prevTotal, prevIf>> /\ moved' = moved
      BY <2>2 DEF Restart
    <3>3. QED
      BY <3>1, <3>2, DeviceKeeps
  <2>3. CASE NextRow
    BY <2>3, RowKeeps
  <2>4. CASE UNCHANGED seriesVars
    BY <2>4 DEF seriesVars, SeriesInv, SeriesTypeOK, Follows, Steady
  <2>5. QED
    BY <2>1, <2>2, <2>3, <2>4 DEF SeriesNext
<1> DEFINE A == /\ \A i \in DOMAIN rates'.ifs : rates'.ifs[i] # NoOctets /\ i \in last.present =>
                     /\ 0 <= rates'.ifs[i] /\ rates'.ifs[i] <= moved[i]
                     /\ Steady(i) => rates'.ifs[i] = moved[i]
                /\ rates'.total # NoOctets /\ last.full /\ last'.full =>
                     /\ 0 <= rates'.total /\ rates'.total <= Sum(moved, SeriesIfs)
                     /\ (\A i \in SeriesIfs : Steady(i)) => rates'.total = Sum(moved, SeriesIfs)
<1>3. SeriesInv /\ [SeriesNext]_seriesVars => [A]_seriesVars
  <2> SUFFICES ASSUME SeriesInv, SeriesNext PROVE A
    OBVIOUS
  <2>1. CASE NextRow
    BY <2>1, RowIsTrue
  <2>2. CASE Transfer \/ Restart
    <3>1. rates' = NoRates
      BY <2>2 DEF Transfer, Restart
    <3>2. DOMAIN rates'.ifs = {} /\ rates'.total = NoOctets
      BY <3>1 DEF NoRates
    <3>3. QED
      BY <3>2
  <2>3. QED
    BY <2>1, <2>2 DEF SeriesNext
<1>4. RatesAreTrue <=> [][A]_seriesVars
  BY DEF RatesAreTrue
<1>5. QED
  BY <1>1, <1>2, <1>3, <1>4, PTL DEF SeriesSpec
=============================================================================
