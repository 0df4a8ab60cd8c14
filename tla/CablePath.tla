------------------------------ MODULE CablePath -------------------------------
(* The two routes that look for a path between devices: the cable path of   *)
(* two given devices, and the path of a device "to the core".  One query at *)
(* a time: the search is a loop over tables that were read before it.       *)
(*                                                                          *)
(* The tables are read without ORDER BY.  The order of the links decides in *)
(* which order the neighbours of a device are queued and over which of      *)
(* several links: both are left open here.                                  *)
EXTENDS Naturals, Sequences, FiniteSets

CONSTANTS
  Nodes,      \* devices
  Networks,   \* sets of links; a link has two ends [dev, port], a and b
  CoreSets,   \* the devices that may have role core, firewall or router
  NoEnd       \* the predecessor of the first device, the port of the first hop

ASSUME PathAssumption ==
  /\ IsFiniteSet(Nodes) /\ CoreSets \subseteq SUBSET Nodes
  /\ \A edges \in Networks : \A l \in edges :
       /\ \A e \in {l.a, l.b} : e.dev \in Nodes /\ e = [dev |-> e.dev, port |-> e.port]
       /\ NoEnd \notin {<<l.a, l.b>>, <<l.b, l.a>>}

VARIABLES
  edges,      \* the links
  cores,      \* devices with role core, firewall or router
  start, goal,
  toCore,     \* the goal was picked by _path_to_core
  frontier,      \* the deque
  prev,       \* how each device that was found was reached: <<near end, far end>>
  cursor,     \* where the walk back is
  hops,       \* the answer, as far as it is built: [dev, port]
  at

pathVars == <<edges, cores, start, goal, toCore, frontier, prev, cursor, hops, at>>
question == <<edges, cores, start, goal, toCore>>

\* Mutant: a link is only followed from its end a.
CrossingsOneWay(d) == {<<l.a, l.b>> : l \in {k \in edges : k.a.dev = d}}

(* The adjacency list of a device, in both directions of every link. *)
Crossings(d) == {<<l.a, l.b>> : l \in {k \in edges : k.a.dev = d}}
                \cup {<<l.b, l.a>> : l \in {k \in edges : k.b.dev = d}}

Linked(d, e) == \E l \in edges : {l.a.dev, l.b.dev} = {d, e}

Arrangements(S) == {s \in [1..Cardinality(S) -> S] : \A x \in S : \E i \in 1..Cardinality(S) : s[i] = x}

-----------------------------------------------------------------------------
(* A start that is its own goal, and a network without a core, are answered *)
(* with the start alone.  Of several cores the first of an unordered SELECT *)
(* is the goal.                                                             *)
PathInit ==
  /\ edges \in Networks
  /\ start \in Nodes /\ cores \in CoreSets
  /\ \/ toCore = FALSE /\ goal \in Nodes
     \/ toCore = TRUE /\ goal \in (IF cores = {} \/ start \in cores THEN {start} ELSE cores)
  /\ frontier = <<start>>
  /\ prev = [d \in {start} |-> NoEnd]
  /\ cursor = goal
  /\ hops = <<>>
  /\ at = IF start = goal THEN "walk" ELSE "search"

\* Mutant: the new devices go to the front of the frontier.
VisitDeep ==
  /\ at = "search" /\ frontier # <<>> /\ Head(frontier) # goal
  /\ LET new == {c[2].dev : c \in Crossings(Head(frontier))} \ DOMAIN prev
     IN  \E order \in Arrangements(new), via \in [new -> Crossings(Head(frontier))] :
           /\ \A d \in new : via[d][2].dev = d
           /\ frontier' = order \o Tail(frontier)
           /\ prev' = [d \in DOMAIN prev \cup new |-> IF d \in new THEN via[d] ELSE prev[d]]
  /\ UNCHANGED <<question, cursor, hops, at>>

(* One round of the loop: the first of the frontier, its new neighbours. *)
Visit ==
  /\ at = "search" /\ frontier # <<>> /\ Head(frontier) # goal
  /\ LET new == {c[2].dev : c \in Crossings(Head(frontier))} \ DOMAIN prev
     IN  \E order \in Arrangements(new), via \in [new -> Crossings(Head(frontier))] :
           /\ \A d \in new : via[d][2].dev = d
           /\ frontier' = Tail(frontier) \o order
           /\ prev' = [d \in DOMAIN prev \cup new |-> IF d \in new THEN via[d] ELSE prev[d]]
  /\ UNCHANGED <<question, cursor, hops, at>>

Arrive ==
  /\ at = "search" /\ frontier # <<>> /\ Head(frontier) = goal
  /\ at' = "walk"
  /\ UNCHANGED <<question, frontier, prev, cursor, hops>>

NotFound ==
  /\ at = "search" /\ frontier = <<>>
  /\ at' = "none"
  /\ UNCHANGED <<question, frontier, prev, cursor, hops>>

(* The hops are collected from the goal back; a hop names the port on which *)
(* its device is entered.                                                   *)
WalkBack ==
  /\ at = "walk"
  /\ IF prev[cursor] = NoEnd
     THEN /\ hops' = <<[dev |-> cursor, port |-> NoEnd]>> \o hops
          /\ at' = "found"
          /\ UNCHANGED cursor
     ELSE /\ hops' = <<[dev |-> cursor, port |-> prev[cursor][2].port]>> \o hops
          /\ cursor' = prev[cursor][1].dev
          /\ UNCHANGED at
  /\ UNCHANGED <<question, frontier, prev>>

PathNext == Visit \/ Arrive \/ NotFound \/ WalkBack

PathSpec == PathInit /\ [][PathNext]_pathVars

-----------------------------------------------------------------------------
(* Reference: a link leads from d to the end e, and n devices form a chain  *)
(* of links from d to e.                                                    *)
Enters(d, e) == \E l \in edges : (l.a.dev = d /\ l.b = e) \/ (l.b.dev = d /\ l.a = e)
Chain(n, d, e) == \E p \in [1..n -> Nodes] :
  p[1] = d /\ p[n] = e /\ \A i \in 1..(n - 1) : Linked(p[i], p[i + 1])

(* "Shortest path over undirected device graph using BFS": the answer goes  *)
(* from the start to the goal over links, through the ports it names, and   *)
(* no chain of links is shorter.                                            *)
ShortestPath == at = "found" =>
  /\ hops[1] = [dev |-> start, port |-> NoEnd] /\ hops[Len(hops)].dev = goal
  /\ \A i \in 1..(Len(hops) - 1) : Enters(hops[i].dev, hops[i + 1])
  /\ \A n \in 1..(Len(hops) - 1) : ~Chain(n, start, goal)

(* "found": false is only said when no path exists: what was searched is    *)
(* closed under links, contains the start and not the goal.                 *)
NotFoundIsCut == at = "none" =>
  \E S \in SUBSET Nodes :
    /\ start \in S /\ goal \notin S
    /\ \A l \in edges : l.a.dev \in S <=> l.b.dev \in S
=============================================================================
