----------------------------- MODULE MetricSeries -----------------------------
(* build_metric_series: the transfer rates drawn from the stored samples of *)
(* a device.  The counters of the device wrap and restart, walks of its     *)
(* tables are cut short, and two samples may carry one time.  A rate is the *)
(* octets it claims.                                                        *)
EXTENDS Integers, FiniteSets

CONSTANTS
  SeriesIfs,   \* interfaces
  Wrap,        \* counters count modulo Wrap
  MaxMoved,    \* bound: octets an interface transfers between two rows
  NoOctets     \* None

ASSUME SeriesAssumption ==
  Wrap \in Nat \ {0} /\ MaxMoved \in Nat /\ IsFiniteSet(SeriesIfs) /\ NoOctets \notin Nat

VARIABLES
  octets,     \* the counters of the device
  moved,      \* history: octets transferred since the last row
  restarted,  \* history: interfaces that restarted since the last row
  last,       \* the last row: [full, present], or NoOctets
  prevTotal,  \* prev_in
  prevIf,     \* prev_if_oct: of the interfaces that have been in a row
  rates       \* the points the last row added: [total, ifs]

seriesVars == <<octets, moved, restarted, last, prevTotal, prevIf, rates>>

NoRates == [total |-> NoOctets, ifs |-> [i \in {} |-> 0]]

SeriesInit ==
  /\ octets = [i \in SeriesIfs |-> 0] /\ moved = [i \in SeriesIfs |-> 0] /\ restarted = {}
  /\ last = NoOctets
  /\ prevTotal = NoOctets /\ prevIf = [i \in {} |-> 0] /\ rates = NoRates

(* The device. *)
Transfer ==
  /\ \E i \in SeriesIfs : /\ moved[i] < MaxMoved
                          /\ moved' = [moved EXCEPT ![i] = @ + 1]
                          /\ octets' = [octets EXCEPT ![i] = (@ + 1) % Wrap]
  /\ rates' = NoRates
  /\ UNCHANGED <<restarted, last, prevTotal, prevIf>>

Restart ==
  /\ \E i \in SeriesIfs \ restarted : /\ restarted' = restarted \cup {i}
                                      /\ octets' = [octets EXCEPT ![i] = 0]
  /\ rates' = NoRates
  /\ UNCHANGED <<moved, last, prevTotal, prevIf>>

(* The sum of f over S, as the number of single octets. *)
Octets(f, S) == UNION {{i} \X (1..f[i]) : i \in S}
Sum(f, S) == Cardinality(Octets(f, S))

(* What the collector may store: the interfaces its walks have reached,     *)
(* with octets or without, and the sum of a walk of the octets; when that   *)
(* walk found nothing, the sum over the interfaces, if there are any.       *)
RowsWith(present) ==
  {[full |-> reached = SeriesIfs, total |-> Sum(octets, reached), ifs |-> ifs] :
     reached \in SUBSET SeriesIfs \ {{}},
     ifs \in {[i \in present |-> NoOctets], [i \in present |-> octets[i]]}}
  \cup
  {[full |-> FALSE, total |-> IF present = {} THEN NoOctets ELSE Sum(octets, present),
    ifs |-> [i \in present |-> octets[i]]]}

\* Mutant: a counter that has fallen is taken to have wrapped.
IncreaseWrapped(old, new) ==
  IF old = NoOctets \/ new = NoOctets THEN NoOctets
  ELSE IF new < old THEN new - old + Wrap ELSE new - old

(* The octets between two readings; none when the counter has fallen. *)
Increase(old, new) ==
  IF old = NoOctets \/ new = NoOctets \/ new < old THEN NoOctets ELSE new - old

(* The loop reads a row; later says whether its time is after the last's.   *)
NextRow ==
  \E present \in SUBSET SeriesIfs, later \in BOOLEAN : \E r \in RowsWith(present) :
    LET timed == last # NoOctets /\ later
        both == present \cap DOMAIN prevIf
    IN  /\ rates' = [total |-> IF timed THEN Increase(prevTotal, r.total) ELSE NoOctets,
                     ifs |-> [i \in both |-> IF timed THEN Increase(prevIf[i], r.ifs[i]) ELSE NoOctets]]
        /\ prevTotal' = r.total
        /\ prevIf' = [i \in present \cup DOMAIN prevIf |-> IF i \in present THEN r.ifs[i] ELSE prevIf[i]]
        /\ last' = [full |-> r.full, present |-> present]
        /\ moved' = [i \in SeriesIfs |-> 0] /\ restarted' = {}
        /\ UNCHANGED octets

SeriesNext == Transfer \/ Restart \/ NextRow
SeriesSpec == SeriesInit /\ [][SeriesNext]_seriesVars

-----------------------------------------------------------------------------
(* No rate claims more than was transferred: that of an interface that was  *)
(* in the row before, and the total when both rows counted every interface. *)
(* While nothing wraps or restarts, they are exact.                         *)
Steady(i) == i \notin restarted /\ octets[i] >= moved[i]
RatesAreTrue == [][
  /\ \A i \in DOMAIN rates'.ifs : rates'.ifs[i] # NoOctets /\ i \in last.present =>
       /\ 0 <= rates'.ifs[i] /\ rates'.ifs[i] <= moved[i]
       /\ Steady(i) => rates'.ifs[i] = moved[i]
  /\ rates'.total # NoOctets /\ last.full /\ last'.full =>
       /\ 0 <= rates'.total /\ rates'.total <= Sum(moved, SeriesIfs)
       /\ (\A i \in SeriesIfs : Steady(i)) => rates'.total = Sum(moved, SeriesIfs)]_seriesVars
=============================================================================
