------------------------------ MODULE LinkHealth ------------------------------
(* The health of one link, as LinkHealthScorer computes it whenever the     *)
(* graph, the list of links or a link is asked for: from the state of its   *)
(* two interfaces, their counters in the latest metrics, and what the link  *)
(* row says of utilisation, optics and temperature.  Between two requests   *)
(* readings get worse; the classification must follow.                      *)
EXTENDS Integers

CONSTANTS
  Errors,     \* values of in_errors
  Drops,      \* values of in_discards and out_discards together
  Percents,   \* values of a utilisation
  Powers,     \* values of an optical power in dBm
  Degrees,    \* values of the temperature
  NoReading,  \* None
  MaxWorse    \* bound: readings that get worse

ASSUME HealthAssumption ==
  /\ Errors \cup Drops \cup Percents \cup Degrees \subseteq Nat /\ Powers \subseteq Int
  /\ NoReading \notin Int \cup {"full", "half"} \cup [errors : Errors, drops : Drops]
  /\ MaxWorse \in Nat

VARIABLES
  oper,      \* oper_status of each interface
  duplex,    \* duplex of each interface
  counters,  \* the latest counters of each interface: [errors, drops]
  gauges,    \* columns of the link: rx and tx utilisation and power, temperature
  worse

healthVars == <<oper, duplex, counters, gauges, worse>>

(* The two ends of the link. *)
Sides == {"a", "b"}
Gauges == {"rxUtil", "txUtil", "rxPower", "txPower", "temperature"}

HealthInit ==
  /\ oper \in [Sides -> {"up", "unknown"}]
  /\ duplex \in [Sides -> {"full", NoReading}]
  /\ counters = [s \in Sides |-> NoReading]
  /\ gauges = [g \in Gauges |-> NoReading]
  /\ worse = 0

Worsens == worse < MaxWorse /\ worse' = worse + 1

GoesDown ==
  /\ Worsens
  /\ \E s \in Sides : oper' = [oper EXCEPT ![s] = "down"]
  /\ UNCHANGED <<duplex, counters, gauges>>

DuplexChanges ==
  /\ Worsens
  /\ \E s, t \in Sides : s # t /\ duplex[t] = "full" /\ duplex' = [duplex EXCEPT ![s] = "half"]
  /\ UNCHANGED <<oper, counters, gauges>>

(* A sweep stores counters, which only grow. *)
CountersGrow ==
  /\ Worsens
  /\ \E s \in Sides, e \in Errors, d \in Drops :
       /\ counters[s] # NoReading => e >= counters[s].errors /\ d >= counters[s].drops
       /\ counters' = [counters EXCEPT ![s] = [errors |-> e, drops |-> d]]
  /\ UNCHANGED <<oper, duplex, gauges>>

GaugeWorsens ==
  /\ Worsens
  /\ \E g \in Gauges :
       \/ /\ g \in {"rxUtil", "txUtil"}
          /\ \E v \in Percents : /\ gauges[g] # NoReading => v >= gauges[g]
                                 /\ gauges' = [gauges EXCEPT ![g] = v]
       \/ /\ g \in {"rxPower", "txPower"}
          /\ \E v \in Powers : /\ gauges[g] # NoReading => v <= gauges[g]
                               /\ gauges' = [gauges EXCEPT ![g] = v]
       \/ /\ g = "temperature"
          /\ \E v \in Degrees : /\ gauges[g] # NoReading => v >= gauges[g]
                                /\ gauges' = [gauges EXCEPT ![g] = v]
  /\ UNCHANGED <<oper, duplex, counters>>

HealthNext == GoesDown \/ DuplexChanges \/ CountersGrow \/ GaugeWorsens
HealthSpec == HealthInit /\ [][HealthNext]_healthVars

-----------------------------------------------------------------------------
(* score: 0 healthy, 1 warning, 2 critical, the worst of the readings.      *)
High(v, warn, crit) == IF v >= crit THEN 2 ELSE IF v >= warn THEN 1 ELSE 0
Low(v, warn, crit) == High(-v, -warn, -crit)

Count(s, field) == IF counters[s] = NoReading THEN 0 ELSE counters[s][field]
Counted(field) == Count("a", field) + Count("b", field)

\* Mutant: an optical power is compared as if high values were bad.
GaugeLevelSwapped(g) ==
  IF gauges[g] = NoReading THEN 0
  ELSE CASE g \in {"rxUtil", "txUtil"}   -> High(gauges[g], 80, 95)
         [] g \in {"rxPower", "txPower"} -> High(gauges[g], -23, -18)
         [] g = "temperature"            -> High(gauges[g], 55, 70)

GaugeLevel(g) ==
  IF gauges[g] = NoReading THEN 0
  ELSE CASE g \in {"rxUtil", "txUtil"}   -> High(gauges[g], 80, 95)
         [] g \in {"rxPower", "txPower"} -> Low(gauges[g], -18, -23)
         [] g = "temperature"            -> High(gauges[g], 55, 70)

StateLevels ==
  { IF \E s \in Sides : oper[s] = "down" THEN 2 ELSE 0,
    IF \E s, t \in Sides : NoReading \notin {duplex[s], duplex[t]} /\ duplex[s] # duplex[t] THEN 1 ELSE 0,
    High(Counted("errors"), 50, 500),
    High(Counted("drops"), 100, 1000) }

Levels == {GaugeLevel(g) : g \in Gauges} \cup StateLevels
Level == CHOOSE worst \in Levels : \A n \in Levels : n <= worst

Status ==
  IF Level = 0 /\ \A s \in Sides : counters[s] = NoReading /\ oper[s] = "unknown"
  THEN "unknown" ELSE <<"healthy", "warning", "critical">>[Level + 1]

(* When a reading of a link gets worse, its health never gets better, and a *)
(* link that has telemetry never goes back to unknown.                      *)
Severity == [unknown |-> 0, healthy |-> 1, warning |-> 2, critical |-> 3]
HealthNeverImproves == [][Severity[Status'] >= Severity[Status]]_healthVars
=============================================================================
