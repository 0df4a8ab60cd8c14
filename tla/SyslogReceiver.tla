--------------------------- MODULE SyslogReceiver ----------------------------
(* The syslog process: the UDP queue and its worker, the TCP clients, the   *)
(* ingest of a message (device lookup, event row, correlation), and the     *)
(* hourly deletion of old events by another process.                        *)
(*                                                                          *)
(* A message is handled in a session of its own.  What the trigger engine   *)
(* does in it is module TriggerAlerts; here it ends with a commit or an     *)
(* exception.                                                               *)
EXTENDS Naturals, Sequences, FiniteSets

CONSTANTS
  TcpClients,     \* open connections
  Udp,            \* the queue's worker
  Streams,        \* what a TCP client may send: sequences of bytes
  Datagrams,      \* texts of UDP messages
  ChunkMax,       \* reader.read(4096)
  QueueMax,       \* maxsize=10000
  Burst,          \* 5 failures make a burst
  HitMax,         \* limit(50)
  SiemWindow,     \* siem_correlation_window_seconds
  Retention,      \* syslog_retention_days
  MaxDatagrams,   \* bound: datagrams that arrive
  MaxSysTime,     \* bound: the clock
  NoJob

ASSUME SyslogAssumption ==
  /\ Streams \subseteq Seq({"n", "z", "f", "o"})
  /\ Udp \notin TcpClients
  /\ ChunkMax \in Nat \ {0} /\ QueueMax \in Nat \ {0}
  /\ Burst \in Nat \ {0, 1} /\ HitMax \in Nat /\ HitMax >= Burst
  /\ SiemWindow \in Nat /\ Retention \in Nat /\ SiemWindow <= Retention

Handlers == TcpClients \cup {Udp}

VARIABLES
  sysTime,  \* the clock
  matches,  \* how many devices have the senders' address
  arrived,  \* number of datagrams that have arrived
  queue,    \* _queue
  dropped,  \* history: number of datagrams refused by a full queue
  sent,     \* what each client sends
  wire,     \* bytes of it not yet read
  buffer,   \* bytes read and not yet framed
  lines,    \* history: the lines of each client handed to ingest
  open,     \* connections the server still reads
  job,      \* the message each handler is on, with its session
  events,   \* rows of observability_events
  bursts,   \* rows of siem_correlation_hits
  handled   \* history: number of messages each handler began

sysVars == <<sysTime, matches, arrived, queue, dropped, wire, buffer, lines, open, job,
             events, bursts, handled, sent>>
tcpVars == <<sent, wire, buffer, lines, open>>
udpVars == <<arrived, queue, dropped>>
tableVars == <<events, bursts>>

-----------------------------------------------------------------------------
(* Framing.  "n" is a newline, "z" a NUL or a carriage return, "f" a word   *)
(* that makes a message an authentication failure.                          *)

Strip(text) == LET kept == {i \in DOMAIN text : \E j, k \in DOMAIN text :
                               j <= i /\ i <= k /\ text[j] # "z" /\ text[k] # "z"}
               IN  IF kept = {} THEN <<>>
                   ELSE SubSeq(text, CHOOSE i \in kept : \A j \in kept : i <= j,
                                     CHOOSE i \in kept : \A j \in kept : j <= i)

Newlines(bytes) == {i \in DOMAIN bytes : bytes[i] = "n"}
FirstNewline(bytes) == CHOOSE i \in Newlines(bytes) : \A j \in Newlines(bytes) : i <= j

(* Reference: where the line begins that the newline at i ends, its text,   *)
(* and the newlines that end a line that is not empty.                      *)
LineStarts(bytes, i) == {j \in 1..i : \A k \in j..(i - 1) : bytes[k] # "n"}
LineStart(bytes, i) == CHOOSE j \in LineStarts(bytes, i) : \A k \in LineStarts(bytes, i) : j <= k
LineAt(bytes, i) == Strip(SubSeq(bytes, LineStart(bytes, i), i - 1))
LineEnds(bytes) == {i \in Newlines(bytes) : LineAt(bytes, i) # <<>>}

(* categorize_message, as far as the correlation depends on it. *)
Category(text) == IF \E i \in DOMAIN text : text[i] = "f" THEN "auth_failure" ELSE "syslog"

-----------------------------------------------------------------------------
SysInit ==
  /\ sysTime = 0 /\ matches = 1
  /\ arrived = 0 /\ queue = <<>> /\ dropped = 0
  /\ handled = [h \in Handlers |-> 0]
  /\ sent \in [TcpClients -> Streams] /\ wire = sent
  /\ buffer = [c \in TcpClients |-> <<>>]
  /\ lines = [c \in TcpClients |-> <<>>]
  /\ open = TcpClients
  /\ job = [h \in Handlers |-> NoJob]
  /\ events = {} /\ bursts = {}

(* _ingest_and_evaluate begins: received_at is taken. *)
NewJob(text) == [text |-> text, at |-> sysTime, step |-> "ingest", prior |-> {e.id : e \in events},
                 event |-> NoJob, hit |-> {}]
Begin(h, text) == /\ job' = [job EXCEPT ![h] = NewJob(text)]
                  /\ handled' = [handled EXCEPT ![h] = @ + 1]

DatagramReceived ==
  /\ arrived < MaxDatagrams
  /\ \E text \in Datagrams :
       /\ queue' = IF Len(queue) < QueueMax THEN Append(queue, text) ELSE queue
       /\ dropped' = IF Len(queue) < QueueMax THEN dropped ELSE dropped + 1
  /\ arrived' = arrived + 1
  /\ UNCHANGED <<sysTime, matches, job, handled, tcpVars, tableVars>>

TakeDatagram ==
  /\ job[Udp] = NoJob /\ queue # <<>>
  /\ Begin(Udp, Head(queue))
  /\ queue' = Tail(queue)
  /\ UNCHANGED <<sysTime, matches, arrived, dropped, tcpVars, tableVars>>

\* Mutant: what is left of a chunk without a newline is forgotten.
ReadChunkOnly(c) ==
  /\ c \in open /\ job[c] = NoJob /\ Newlines(buffer[c]) = {} /\ wire[c] # <<>>
  /\ \E n \in 1..(IF Len(wire[c]) < ChunkMax THEN Len(wire[c]) ELSE ChunkMax) :
       /\ buffer' = [buffer EXCEPT ![c] = SubSeq(wire[c], 1, n)]
       /\ wire' = [wire EXCEPT ![c] = SubSeq(@, n + 1, Len(@))]
  /\ UNCHANGED <<sysTime, matches, sent, lines, open, job, handled, udpVars, tableVars>>

(* A client is read only when no complete line is buffered. *)
ReadChunk(c) ==
  /\ c \in open /\ job[c] = NoJob /\ Newlines(buffer[c]) = {} /\ wire[c] # <<>>
  /\ \E n \in 1..(IF Len(wire[c]) < ChunkMax THEN Len(wire[c]) ELSE ChunkMax) :
       /\ buffer' = [buffer EXCEPT ![c] = @ \o SubSeq(wire[c], 1, n)]
       /\ wire' = [wire EXCEPT ![c] = SubSeq(@, n + 1, Len(@))]
  /\ UNCHANGED <<sysTime, matches, sent, lines, open, job, handled, udpVars, tableVars>>

(* The end of the stream: a last line without a newline is not a message. *)
EndOfStream(c) ==
  /\ c \in open /\ job[c] = NoJob /\ Newlines(buffer[c]) = {} /\ wire[c] = <<>>
  /\ open' = open \ {c}
  /\ UNCHANGED <<sysTime, matches, sent, wire, buffer, lines, job, handled, udpVars, tableVars>>

TakeLine(c) ==
  /\ c \in open /\ job[c] = NoJob /\ Newlines(buffer[c]) # {}
  /\ LET i == FirstNewline(buffer[c])
         text == Strip(SubSeq(buffer[c], 1, i - 1))
     IN  /\ buffer' = [buffer EXCEPT ![c] = SubSeq(@, i + 1, Len(@))]
         /\ IF text = <<>> THEN UNCHANGED <<lines, job, handled>>
            ELSE lines' = [lines EXCEPT ![c] = Append(@, text)] /\ Begin(c, text)
  /\ UNCHANGED <<sysTime, matches, sent, wire, open, udpVars, tableVars>>

\* Mutant: an exception ends the worker.
FailsForGood(h) ==
  /\ job' = [job EXCEPT ![h] = IF h = Udp THEN [step |-> "dead"] ELSE NoJob]
  /\ open' = open \ {h}
  /\ UNCHANGED <<sysTime, matches, handled, sent, wire, buffer, lines, udpVars, tableVars>>

(* An exception anywhere: the session is rolled back.  The worker goes on   *)
(* to the next datagram; a connection is closed, with what it had buffered. *)
Fails(h) ==
  /\ job' = [job EXCEPT ![h] = NoJob]
  /\ open' = open \ {h}
  /\ UNCHANGED <<sysTime, matches, handled, sent, wire, buffer, lines, udpVars, tableVars>>

\* Mutant: the session counts before it has flushed its own event.
FailuresBefore(e) == {p \in events : p.cat = "auth_failure" /\ p.at + SiemWindow >= sysTime}

(* What _correlate counts: committed failures of the window and its own. *)
Failures(e) == {p \in events \cup {e} : p.cat = "auth_failure" /\ p.at + SiemWindow >= sysTime}

(* ingest: the sender's device is looked up, which raises when two devices  *)
(* share the address; the event is inserted, then failures are counted.     *)
Ingest(h) ==
  /\ job[h] # NoJob /\ job[h].step = "ingest"
  /\ IF matches > 1 THEN Fails(h)
     ELSE LET e == [cat |-> Category(job[h].text), at |-> job[h].at, prior |-> job[h].prior, counted |-> sysTime,
                    id |-> <<h, handled[h]>>]
          IN  /\ \E ids \in IF e.cat # "auth_failure" \/ Cardinality(Failures(e)) < Burst THEN {{}}
                            ELSE {s \in SUBSET Failures(e) :
                                    \/ s = Failures(e) /\ Cardinality(s) <= HitMax
                                    \/ Cardinality(s) = HitMax} :
                   job' = [job EXCEPT ![h].event = e, ![h].step = "evaluate",
                                      ![h].hit = {p.id : p \in ids}]
              /\ UNCHANGED <<sysTime, matches, handled, udpVars, tcpVars, tableVars>>

(* The triggers are evaluated; a deadlock or a lost connection raises. *)
EvaluateFails(h) == job[h] # NoJob /\ job[h].step = "evaluate" /\ Fails(h)

CommitMessage(h) ==
  /\ job[h] # NoJob /\ job[h].step = "evaluate"
  /\ events' = events \cup {job[h].event}
  /\ bursts' = IF job[h].hit = {} THEN bursts
               ELSE bursts \cup {[by |-> job[h].event.id, ids |-> job[h].hit]}
  /\ job' = [job EXCEPT ![h] = NoJob]
  /\ UNCHANGED <<sysTime, matches, handled, udpVars, tcpVars>>

(* purge_expired *)
Purge ==
  /\ \E e \in events : e.at + Retention < sysTime
  /\ events' = {e \in events : e.at + Retention >= sysTime}
  /\ UNCHANGED <<sysTime, matches, bursts, job, handled, udpVars, tcpVars>>

(* Discovery adds or removes devices with the senders' address. *)
DevicesChange ==
  /\ matches' \in 1..2 \ {matches}
  /\ UNCHANGED <<sysTime, job, handled, udpVars, tcpVars, tableVars>>

SysTick == /\ sysTime < MaxSysTime /\ sysTime' = sysTime + 1
           /\ UNCHANGED <<matches, job, handled, udpVars, tcpVars, tableVars>>

Handle(h) == Ingest(h) \/ EvaluateFails(h) \/ CommitMessage(h)
ReadClient(c) == ReadChunk(c) \/ EndOfStream(c) \/ TakeLine(c)

SysNext ==
  \/ DatagramReceived \/ TakeDatagram \/ Purge \/ DevicesChange \/ SysTick
  \/ \E c \in TcpClients : ReadClient(c)
  \/ \E h \in Handlers : Handle(h)

(* The event loop runs every task that can run. *)
SysFairness == /\ WF_sysVars(TakeDatagram)
               /\ \A h \in Handlers : WF_sysVars(Handle(h))
               /\ \A c \in TcpClients : WF_sysVars(ReadClient(c))

SysSpec == SysInit /\ [][SysNext]_sysVars /\ SysFairness

-----------------------------------------------------------------------------
(* However a stream is cut into chunks, what a connection has buffered and  *)
(* what is on the wire is the end of what the client has sent, and its      *)
(* messages are the lines before that, each one once and in order.          *)
Framed(bytes, pending, ls) ==
  LET done == Len(bytes) - Len(pending)
      ends == {i \in LineEnds(bytes) : i <= done}
  IN  /\ pending = SubSeq(bytes, done + 1, Len(bytes))
      /\ Len(ls) = Cardinality(ends)
      /\ \A i \in ends : ls[Cardinality({j \in ends : j <= i})] = LineAt(bytes, i)
LinesAreFramed == \A c \in TcpClients : Framed(sent[c], buffer[c] \o wire[c], lines[c])

(* A burst goes unnoticed only if its messages overlap: when Burst failures *)
(* of a window are stored and one of them began after the others were       *)
(* committed, a correlation hit was made by it.                             *)
BurstReported == \A e \in events :
  LET earlier == {p \in events : p.cat = "auth_failure" /\ p.id \in e.prior
                                   /\ p.at + SiemWindow >= e.counted}
  IN  e.cat = "auth_failure" /\ Cardinality(earlier) + 1 >= Burst
        => \E b \in bursts : b.by = e.id

(* Every datagram that the queue took is handled in the end, whatever       *)
(* happens to those before it.                                              *)
DatagramsDrain == [](arrived = MaxDatagrams => <>(queue = <<>> /\ job[Udp] = NoJob))
=============================================================================
