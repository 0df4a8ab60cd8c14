--------------------------- MODULE TopologyProofs ----------------------------
(* What is made of the discovered network: paths, roles, drawings, the      *)
(* comparison of snapshots, the health of links and the trace of an         *)
(* endpoint, for any devices, links, interfaces and rows.                   *)
EXTENDS RoleDetection, CablePath, NetworkViews, LinkHealth, SnapshotDiff, EndpointTrace, TLAPS,
        FiniteSetTheorems, SequenceTheorems, WellFoundedInduction

-----------------------------------------------------------------------------
(* Paths: the search says that there is none only when there is none.       *)

Queued == {frontier[i] : i \in DOMAIN frontier}
Neighbours(d) == {c[2].dev : c \in Crossings(d)}

(* What was found but is no longer queued has been visited: it is not the   *)
(* goal, and its neighbours have been found.                                *)
Visited == DOMAIN prev \ Queued
SearchInv ==
  /\ edges \in Networks /\ start \in Nodes
  /\ at = "search" => /\ frontier \in Seq(Nodes) /\ Queued \subseteq DOMAIN prev
                      /\ start \in DOMAIN prev /\ DOMAIN prev \subseteq Nodes
                      /\ \A d \in Visited : d # goal /\ Neighbours(d) \subseteq DOMAIN prev

-----------------------------------------------------------------------------
LEMMA NeighboursAreNodes ==
  ASSUME edges \in Networks, NEW d
  PROVE  Neighbours(d) \subseteq Nodes
<1>1. \A l \in edges : l.a.dev \in Nodes /\ l.b.dev \in Nodes
  BY PathAssumption
<1>2. \A c \in Crossings(d) : \E l \in edges : c = <<l.a, l.b>> \/ c = <<l.b, l.a>>
  BY DEF Crossings
<1> QED BY <1>1, <1>2 DEF Neighbours

(* A link joins neighbours. *)
LEMMA LinksAreCrossings ==
  ASSUME NEW l \in edges
  PROVE  l.b.dev \in Neighbours(l.a.dev) /\ l.a.dev \in Neighbours(l.b.dev)
<1>1. <<l.a, l.b>> \in Crossings(l.a.dev) /\ <<l.b, l.a>> \in Crossings(l.b.dev)
  BY DEF Crossings
<1>2. <<l.a, l.b>>[2].dev = l.b.dev /\ <<l.b, l.a>>[2].dev = l.a.dev OBVIOUS
<1> QED BY <1>1, <1>2 DEF Neighbours

(* An arrangement of a finite set is a sequence of all of it. *)
LEMMA ArrangementIsSeq ==
  ASSUME NEW S, IsFiniteSet(S), NEW s \in Arrangements(S)
  PROVE  /\ s \in Seq(S) /\ \A x \in S : \E i \in 1..Len(s) : s[i] = x
<1>1. Cardinality(S) \in Nat BY FS_CardinalityType
<1> DEFINE n == Cardinality(S)
<1>2. s \in [1..n -> S] /\ \A x \in S : \E i \in 1..n : s[i] = x BY DEF Arrangements
<1> HIDE DEF n
<1>3. n \in Nat BY <1>1 DEF n
<1> QED BY <1>2, <1>3

(* What is in a queue q that was f, after its first is taken and o appended. *)
Requeued(S, f, o, q) ==
  /\ q \in Seq(S)
  /\ \A i \in DOMAIN f : f[i] = Head(f) \/ \E j \in DOMAIN q : q[j] = f[i]
  /\ \A i \in DOMAIN o : \E j \in DOMAIN q : q[j] = o[i]
  /\ \A j \in DOMAIN q : (\E i \in DOMAIN f : q[j] = f[i]) \/ (\E i \in DOMAIN o : q[j] = o[i])
LEMMA NextQueue ==
  ASSUME NEW S, NEW f \in Seq(S), f # <<>>, NEW o \in Seq(S)
  PROVE  Requeued(S, f, o, Tail(f) \o o)
<1> DEFINE t == Tail(f)
           q == t \o o
<1>1. /\ t \in Seq(S) /\ Len(t) = Len(f) - 1 /\ Head(f) = f[1] /\ Len(f) \in Nat \ {0}
      /\ \A i \in 1..(Len(f) - 1) : t[i] = f[i + 1]
  OBVIOUS
<1>2. /\ q \in Seq(S) /\ Len(q) = Len(t) + Len(o) /\ Len(t) \in Nat /\ Len(o) \in Nat
      /\ \A j \in 1..Len(q) : q[j] = IF j <= Len(t) THEN t[j] ELSE o[j - Len(t)]
  BY <1>1
<1>3. DOMAIN f = 1..Len(f) /\ DOMAIN o = 1..Len(o) /\ DOMAIN q = 1..Len(q) BY <1>2
<1> HIDE DEF t, q
<1>4. ASSUME NEW i \in 1..Len(f) PROVE f[i] = Head(f) \/ \E j \in 1..Len(q) : q[j] = f[i]
  <2>1. CASE i = 1 BY <2>1, <1>1
  <2>2. CASE i # 1
    <3>1. i - 1 \in 1..Len(t) /\ i - 1 \in 1..Len(q) /\ t[i - 1] = f[i] BY <2>2, <1>1, <1>2
    <3>2. i - 1 <= Len(t) BY <3>1
    <3>3. q[i - 1] = t[i - 1] BY <3>1, <3>2, <1>2
    <3> QED BY <3>1, <3>3
  <2> QED BY <2>1, <2>2
<1>5. ASSUME NEW i \in 1..Len(o) PROVE \E j \in 1..Len(q) : q[j] = o[i]
  <2>1. Len(t) + i \in 1..Len(q) /\ ~(Len(t) + i <= Len(t)) /\ (Len(t) + i) - Len(t) = i BY <1>2
  <2> QED BY <2>1, <1>2
<1>6. ASSUME NEW j \in 1..Len(q)
      PROVE  (\E i \in 1..Len(f) : q[j] = f[i]) \/ (\E i \in 1..Len(o) : q[j] = o[i])
  <2>1. CASE j <= Len(t)
    <3>1. j \in 1..(Len(f) - 1) /\ j + 1 \in 1..Len(f) BY <2>1, <1>1, <1>2
    <3> QED BY <2>1, <3>1, <1>1, <1>2
  <2>2. CASE ~(j <= Len(t))
    <3>1. j - Len(t) \in 1..Len(o) BY <2>2, <1>2
    <3> QED BY <2>2, <3>1, <1>2
  <2> QED BY <2>1, <2>2
<1> QED BY <1>2, <1>3, <1>4, <1>5, <1>6 DEF q, t, Requeued

LEMMA SearchInit == PathInit => SearchInv /\ NotFoundIsCut
<1> SUFFICES ASSUME PathInit PROVE SearchInv /\ NotFoundIsCut
  OBVIOUS
<1>1. edges \in Networks /\ start \in Nodes /\ frontier = <<start>> /\ DOMAIN prev = {start} /\ at # "none"
  BY DEF PathInit
<1>2. frontier \in Seq(Nodes) /\ Queued = {start} BY <1>1 DEF Queued
<1> QED BY <1>1, <1>2 DEF SearchInv, Visited, NotFoundIsCut

(* A visit queues exactly the neighbours that were not found before. *)
LEMMA VisitKeeps == SearchInv /\ Visit => SearchInv' /\ NotFoundIsCut'
<1> SUFFICES ASSUME SearchInv, Visit PROVE SearchInv' /\ NotFoundIsCut'
  OBVIOUS
<1> DEFINE h == Head(frontier)
           new == Neighbours(h) \ DOMAIN prev
<1>1. PICK order \in Arrangements(new) :
        /\ frontier' = Tail(frontier) \o order
        /\ DOMAIN prev' = DOMAIN prev \cup new
  BY DEF Visit, Neighbours
<1>2. /\ frontier \in Seq(Nodes) /\ frontier # <<>> /\ h # goal /\ at = "search" /\ at' = "search"
      /\ edges' = edges /\ start' = start /\ goal' = goal
  BY DEF Visit, SearchInv, question
<1>3. new \subseteq Nodes /\ IsFiniteSet(new)
  BY NeighboursAreNodes, PathAssumption, FS_Subset DEF SearchInv
<1> HIDE DEF new
<1>4. order \in Seq(new) /\ \A x \in new : \E i \in 1..Len(order) : order[i] = x
  BY <1>3, ArrangementIsSeq
<1>5. order \in Seq(Nodes) /\ DOMAIN order = 1..Len(order) /\ \A i \in DOMAIN order : order[i] \in new
  BY <1>3, <1>4
<1>6. /\ frontier' \in Seq(Nodes)
      /\ \A i \in DOMAIN frontier : frontier[i] = h \/ frontier[i] \in Queued'
      /\ \A i \in DOMAIN order : order[i] \in Queued'
      /\ \A d \in Queued' : d \in Queued \/ \E i \in DOMAIN order : d = order[i]
  <2> DEFINE q == Tail(frontier) \o order
  <2>1. Requeued(Nodes, frontier, order, q) BY <1>2, <1>5, NextQueue
  <2>2. frontier' = q BY <1>1
  <2> HIDE DEF q
  <2>3. /\ q \in Seq(Nodes)
        /\ \A i \in DOMAIN frontier : frontier[i] = h \/ \E j \in DOMAIN q : q[j] = frontier[i]
        /\ \A i \in DOMAIN order : \E j \in DOMAIN q : q[j] = order[i]
        /\ \A j \in DOMAIN q : \/ \E i \in DOMAIN frontier : q[j] = frontier[i]
                              \/ \E i \in DOMAIN order : q[j] = order[i]
    BY <2>1 DEF Requeued
  <2>4. Queued' = {q[j] : j \in DOMAIN q}
    BY <2>2 DEF Queued
  <2>5. frontier' \in Seq(Nodes)
    BY <2>2, <2>3
  <2>6. \A i \in DOMAIN frontier : frontier[i] = h \/ frontier[i] \in Queued'
    BY <2>3, <2>4
  <2>7. \A i \in DOMAIN order : order[i] \in Queued'
    BY <2>3, <2>4
  <2>8. ASSUME NEW d \in Queued' PROVE d \in Queued \/ \E i \in DOMAIN order : d = order[i]
    <3>1. PICK j \in DOMAIN q : d = q[j] BY <2>4
    <3>2. \/ \E i \in DOMAIN frontier : q[j] = frontier[i]
          \/ \E i \in DOMAIN order : q[j] = order[i]
      BY <2>3
    <3> QED BY <3>1, <3>2 DEF Queued
  <2> QED BY <2>5, <2>6, <2>7, <2>8
<1>7. new \subseteq Queued' /\ Queued' \subseteq Queued \cup new /\ Queued \subseteq Queued' \cup {h}
  <2>1. ASSUME NEW x \in new PROVE x \in Queued'
    <3>1. PICK i \in DOMAIN order : order[i] = x
      BY <1>4, <1>5
    <3> QED BY <1>6, <3>1
  <2>2. ASSUME NEW x \in Queued' PROVE x \in Queued \cup new
    BY <1>5, <1>6
  <2>3. ASSUME NEW x \in Queued PROVE x \in Queued' \cup {h}
    <3>1. PICK i \in DOMAIN frontier : x = frontier[i]
      BY DEF Queued
    <3> QED BY <1>6, <3>1
  <2> QED BY <2>1, <2>2, <2>3
<1>8. \A d : Neighbours(d)' = Neighbours(d) BY <1>2 DEF Neighbours, Crossings
<1>9. ASSUME NEW d \in Visited' PROVE d # goal /\ Neighbours(d) \subseteq DOMAIN prev'
  <2>1. d \in DOMAIN prev /\ d \notin Queued' BY <1>1, <1>7 DEF Visited
  <2>2. CASE d = h BY <2>2, <1>1, <1>2 DEF new
  <2>3. CASE d # h
    <3>1. d \in Visited BY <2>1, <2>3, <1>7 DEF Visited
    <3> QED BY <3>1, <1>1, <1>2 DEF SearchInv
  <2> QED BY <2>2, <2>3
<1>10. SearchInv' BY <1>1, <1>2, <1>3, <1>6, <1>7, <1>8, <1>9 DEF SearchInv
<1> QED BY <1>2, <1>10 DEF NotFoundIsCut

(* When the queue is empty, what was found is the cut. *)
LEMMA NotFoundKeeps == SearchInv /\ NotFound => SearchInv' /\ NotFoundIsCut'
<1> SUFFICES ASSUME SearchInv, NotFound PROVE SearchInv' /\ NotFoundIsCut'
  OBVIOUS
<1>1. /\ at = "search" /\ frontier = <<>> /\ at' = "none"
      /\ edges' = edges /\ start' = start /\ goal' = goal
  BY DEF NotFound, question
<1>2. Visited = DOMAIN prev
  <2>1. DOMAIN frontier = {} BY <1>1
  <2> QED BY <2>1 DEF Visited, Queued
<1> DEFINE S == DOMAIN prev
<1>3. S \in SUBSET Nodes /\ start \in S /\ goal \notin S BY <1>1, <1>2 DEF SearchInv
<1>4. ASSUME NEW l \in edges PROVE l.a.dev \in S <=> l.b.dev \in S
  BY <1>1, <1>2, LinksAreCrossings DEF SearchInv
<1>5. NotFoundIsCut' BY <1>1, <1>3, <1>4 DEF NotFoundIsCut
<1> QED BY <1>1, <1>5 DEF SearchInv

LEMMA SearchStep == SearchInv /\ NotFoundIsCut /\ [PathNext]_pathVars => SearchInv' /\ NotFoundIsCut'
<1> SUFFICES ASSUME SearchInv, NotFoundIsCut, [PathNext]_pathVars PROVE SearchInv' /\ NotFoundIsCut'
  OBVIOUS
<1>1. CASE Visit BY <1>1, VisitKeeps
<1>2. CASE NotFound BY <1>2, NotFoundKeeps
<1>3. CASE Arrive BY <1>3 DEF Arrive, question, SearchInv, NotFoundIsCut
<1>4. CASE WalkBack
  BY <1>4 DEF WalkBack, question, SearchInv, NotFoundIsCut
<1>5. CASE UNCHANGED pathVars
  BY <1>5 DEF pathVars, SearchInv, NotFoundIsCut, Queued, Visited, Neighbours, Crossings
<1> QED BY <1>1, <1>2, <1>3, <1>4, <1>5 DEF PathNext

(* "found": false is only said of devices that no chain of links joins      *)
(* (CablePathResolver.resolve, _path_to_core).                              *)
THEOREM RefusalIsCut == PathSpec => []NotFoundIsCut
<1>1. SearchInv /\ NotFoundIsCut /\ [PathNext]_pathVars => (SearchInv /\ NotFoundIsCut)'
  BY SearchStep
<1> QED BY <1>1, SearchInit, PTL DEF PathSpec

(* Every set of naturals that is not empty has a least member. *)
LEMMA LeastNatural ==
  ASSUME NEW S \in SUBSET Nat, S # {}
  PROVE  \E m \in S : \A k \in S : m <= k
<1> DEFINE R == {ss \in Nat \X Nat : ss[1] < ss[2]}
<1>1. R = OpToRel(<, Nat)
  BY DEF OpToRel
<1>2. IsWellFoundedOn(R, Nat)
  BY <1>1, NatLessThanWellFounded
<1>3. PICK m \in S : \A k \in S : <<k, m>> \notin R
  <2> HIDE DEF R
  <2> QED BY <1>2, WFMin
<1>4. \A k \in S : ~(k < m)
  BY <1>3
<1> QED
  BY <1>4

-----------------------------------------------------------------------------
(* Paths: what is found is the shortest.                                    *)

(* depth is the length of the way back from each device that was found. *)
Tree(depth) ==
  /\ start \in DOMAIN prev /\ depth[start] = 0 /\ prev[start] = NoEnd
  /\ \A d \in DOMAIN prev \ {start} : \E n \in DOMAIN prev :
       prev[d] \in Crossings(n) /\ prev[d][2].dev = d /\ depth[d] = depth[n] + 1

(* The queue is in the order of depth and spans two depths; what has been   *)
(* visited lies above it, with its neighbours at most one below.            *)
Layers(depth) ==
  /\ \A i, j \in DOMAIN frontier : i <= j =>
       depth[frontier[i]] <= depth[frontier[j]] /\ depth[frontier[j]] <= depth[frontier[i]] + 1
  /\ \A v \in Visited : /\ \A i \in DOMAIN frontier : depth[v] <= depth[frontier[i]]
                        /\ \A e \in Neighbours(v) : depth[e] <= depth[v] + 1

(* The answer so far leads from the cursor to the goal. *)
Trail ==
  /\ Len(hops) \in Nat /\ hops = [i \in 1..Len(hops) |-> hops[i]]
  /\ Len(hops) = 0 => cursor = goal
  /\ Len(hops) # 0 => hops[Len(hops)].dev = goal /\ Enters(cursor, hops[1])
  /\ \A i \in 1..(Len(hops) - 1) : Enters(hops[i].dev, hops[i + 1])

(* The search: the tree is in layers.  The way back: it shortens the depth  *)
(* by one with every hop, and the goal has no chain as short as its depth.  *)
PathInv ==
  /\ SearchInv
  /\ at = "search" => /\ hops = <<>> /\ cursor = goal
                      /\ \E depth \in [DOMAIN prev -> Nat] : Tree(depth) /\ Layers(depth)
  /\ at = "walk" =>
       /\ goal \in DOMAIN prev /\ cursor \in DOMAIN prev /\ Trail
       /\ \E depth \in [DOMAIN prev -> Nat] :
            /\ Tree(depth) /\ Len(hops) = depth[goal] - depth[cursor]
            /\ \A n \in 1..depth[goal] : ~Chain(n, start, goal)
  /\ ShortestPath

LEMMA PathInit1 == PathInit => PathInv
<1> SUFFICES ASSUME PathInit PROVE PathInv
  OBVIOUS
<1>1. /\ start \in Nodes /\ frontier = <<start>> /\ prev = [d \in {start} |-> NoEnd] /\ cursor = goal /\ hops = <<>>
      /\ at = IF start = goal THEN "walk" ELSE "search"
  BY DEF PathInit
<1> DEFINE depth == [d \in {start} |-> 0]
<1>2. depth \in [DOMAIN prev -> Nat] /\ Tree(depth) /\ depth[start] = 0
  BY <1>1 DEF Tree
<1>3. Layers(depth)
  <2>1. DOMAIN frontier = {1} /\ frontier[1] = start /\ Visited = {}
    BY <1>1 DEF Visited, Queued
  <2>2. QED
    BY <1>2, <2>1 DEF Layers
<1>4. Trail /\ ShortestPath
  <2>1. Len(hops) = 0 /\ hops = [i \in 1..Len(hops) |-> hops[i]]
    BY <1>1
  <2>2. QED
    BY <1>1, <2>1 DEF Trail, ShortestPath
<1> HIDE DEF depth
<1>5. at = "walk" => /\ goal \in DOMAIN prev /\ cursor \in DOMAIN prev /\ Len(hops) = depth[goal] - depth[cursor]
                     /\ \A n \in 1..depth[goal] : ~Chain(n, start, goal)
  <2>1. ASSUME at = "walk" PROVE depth[goal] = 0 /\ goal = start /\ Len(hops) = 0
    BY <1>1, <1>2, <2>1
  <2>2. QED
    BY <1>1, <2>1
<1>6. SearchInv
  BY SearchInit
<1>7. QED
  BY <1>1, <1>2, <1>3, <1>4, <1>5, <1>6 DEF PathInv

(* A visit puts the new devices one below the one it visits. *)
LEMMA VisitKeepsLayers ==
  ASSUME PathInv, Visit
  PROVE  PathInv'
<1> DEFINE h == Head(frontier)
           new == Neighbours(h) \ DOMAIN prev
<1>1. PICK order \in Arrangements(new), via \in [new -> Crossings(h)] :
        /\ \A d \in new : via[d][2].dev = d
        /\ frontier' = Tail(frontier) \o order
        /\ prev' = [d \in DOMAIN prev \cup new |-> IF d \in new THEN via[d] ELSE prev[d]]
  BY DEF Visit, Neighbours
<1>2. /\ frontier # <<>> /\ at = "search" /\ at' = "search" /\ cursor' = cursor /\ hops' = hops
      /\ edges' = edges /\ start' = start /\ goal' = goal
  BY DEF Visit, question
<1>3. /\ frontier \in Seq(Nodes) /\ Queued \subseteq DOMAIN prev /\ DOMAIN prev \subseteq Nodes /\ edges \in Networks
      /\ \A v \in Visited : Neighbours(v) \subseteq DOMAIN prev
      /\ hops = <<>> /\ cursor = goal
  BY <1>2 DEF PathInv, SearchInv
<1>4. PICK depth \in [DOMAIN prev -> Nat] : Tree(depth) /\ Layers(depth)
  BY <1>2 DEF PathInv
<1>5. new \subseteq Nodes /\ IsFiniteSet(new)
  BY <1>3, NeighboursAreNodes, PathAssumption, FS_Subset
<1> HIDE DEF new
<1>6. order \in Seq(new) /\ order \in Seq(Nodes) /\ Len(order) \in Nat /\ \A i \in 1..Len(order) : order[i] \in new
  <2>1. order \in Seq(new)
    BY <1>5, ArrangementIsSeq
  <2>2. QED
    BY <1>5, <2>1, SeqMonotonic, LenProperties, ElementOfSeq
<1> DEFINE q == Tail(frontier) \o order
<1>7. /\ Len(frontier) \in Nat \ {0} /\ DOMAIN frontier = 1..Len(frontier) /\ h = frontier[1]
      /\ Len(q) = Len(frontier) - 1 + Len(order) /\ DOMAIN q = 1..Len(q)
      /\ \A j \in 1..Len(q) : IF j <= Len(frontier) - 1 THEN q[j] = frontier[j + 1]
                                ELSE q[j] = order[j - (Len(frontier) - 1)]
  <2> DEFINE t == Tail(frontier)
  <2>1. /\ Len(frontier) \in Nat \ {0} /\ DOMAIN frontier = 1..Len(frontier) /\ h = frontier[1]
        /\ t \in Seq(Nodes) /\ Len(t) = Len(frontier) - 1 /\ \A i \in 1..Len(t) : t[i] = frontier[i + 1]
    BY <1>2, <1>3, HeadTailProperties, LenProperties, EmptySeq
  <2> HIDE DEF t
  <2>2. /\ t \o order \in Seq(Nodes) /\ Len(t \o order) = Len(t) + Len(order)
        /\ \A i \in 1..(Len(t) + Len(order)) : (t \o order)[i] = IF i <= Len(t) THEN t[i] ELSE order[i - Len(t)]
    <3>1. t \in Seq(Nodes) /\ order \in Seq(Nodes)
      BY <1>6, <2>1
    <3> QED
      BY <3>1, ConcatProperties
  <2>3. DOMAIN (t \o order) = 1..Len(t \o order)
    BY <2>2, LenProperties
  <2>4. q = t \o order
    BY DEF t
  <2> HIDE DEF q
  <2>5. QED
    BY <2>1, <2>2, <2>3, <2>4
<1>8. frontier' = q
  BY <1>1
<1> HIDE DEF q
<1>9. h \in DOMAIN prev /\ \A i \in 1..Len(frontier) : frontier[i] \in DOMAIN prev
  <2>1. \A i \in 1..Len(frontier) : frontier[i] \in DOMAIN prev
    BY <1>3, <1>7 DEF Queued
  <2>2. 1 \in 1..Len(frontier)
    BY <1>7
  <2>3. QED
    BY <1>7, <2>1, <2>2
<1> HIDE DEF h
<1>10. \A j \in 1..Len(q) : \/ q[j] \in new /\ j > Len(frontier) - 1
                            \/ j + 1 \in 1..Len(frontier) /\ q[j] = frontier[j + 1]
  <2> TAKE j \in 1..Len(q)
  <2>1. CASE j <= Len(frontier) - 1
    BY <1>7, <2>1
  <2>2. CASE j > Len(frontier) - 1
    <3>1. j - (Len(frontier) - 1) \in 1..Len(order) /\ q[j] = order[j - (Len(frontier) - 1)]
      BY <1>6, <1>7, <2>2
    <3>2. QED
      BY <1>6, <2>2, <3>1
  <2>3. QED
    BY <1>7, <2>1, <2>2
<1> DEFINE lower == [d \in DOMAIN prev \cup new |-> IF d \in new THEN depth[h] + 1 ELSE depth[d]]
<1>11. PICK deeper :
          /\ DOMAIN prev' = DOMAIN prev \cup new /\ new \cap DOMAIN prev = {}
          /\ deeper \in [DOMAIN prev' -> Nat]
          /\ \A d \in new : deeper[d] = depth[h] + 1 /\ prev'[d] = via[d]
          /\ \A d \in DOMAIN prev : deeper[d] = depth[d] /\ depth[d] \in Nat /\ prev'[d] = prev[d]
  <2>1. /\ DOMAIN prev' = DOMAIN prev \cup new /\ new \cap DOMAIN prev = {}
        /\ lower \in [DOMAIN prev' -> Nat]
        /\ \A d \in new : lower[d] = depth[h] + 1 /\ prev'[d] = via[d]
        /\ \A d \in DOMAIN prev : lower[d] = depth[d] /\ depth[d] \in Nat /\ prev'[d] = prev[d]
    BY <1>1, <1>4, <1>9 DEF new
  <2> HIDE DEF lower
  <2> QED
    BY <2>1
<1>12. \A d : Crossings(d)' = Crossings(d) /\ Neighbours(d)' = Neighbours(d)
  BY <1>2 DEF Neighbours, Crossings
<1>13. Tree(deeper)'
  <2>1. start \in DOMAIN prev' /\ deeper[start] = 0 /\ prev'[start] = NoEnd
    BY <1>4, <1>11 DEF Tree
  <2>2. ASSUME NEW d \in DOMAIN prev' \ {start}
        PROVE  \E n \in DOMAIN prev' : /\ prev'[d] \in Crossings(n) /\ prev'[d][2].dev = d
                                       /\ deeper[d] = deeper[n] + 1
    <3>1. CASE d \in new
      <4>1. prev'[d] \in Crossings(h) /\ prev'[d][2].dev = d /\ deeper[d] = deeper[h] + 1
        BY <1>1, <1>9, <1>11, <3>1 DEF h
      <4>2. QED
        BY <1>9, <1>11, <4>1
    <3>2. CASE d \in DOMAIN prev
      <4>1. PICK n \in DOMAIN prev : prev[d] \in Crossings(n) /\ prev[d][2].dev = d /\ depth[d] = depth[n] + 1
        BY <1>4, <2>2, <3>2 DEF Tree
      <4>2. QED
        BY <1>11, <3>2, <4>1
    <3>3. QED
      BY <1>11, <2>2, <3>1, <3>2
  <2>3. QED
    <3>1. \A n : Crossings(n)' = Crossings(n)
      BY <1>12
    <3>2. \A d \in DOMAIN prev' \ {start'} : \E n \in DOMAIN prev' :
            prev'[d] \in Crossings(n)' /\ prev'[d][2].dev = d /\ deeper[d] = deeper[n] + 1
      BY <1>2, <2>2, <3>1
    <3>3. QED
      BY <1>2, <2>1, <3>2 DEF Tree
<1>14. \A i, j \in 1..Len(frontier) : i <= j =>
         depth[frontier[i]] <= depth[frontier[j]] /\ depth[frontier[j]] <= depth[frontier[i]] + 1
  BY <1>4, <1>7 DEF Layers
<1>15. \A j \in 1..Len(q) : deeper[q[j]] \in Nat /\ depth[h] <= deeper[q[j]] /\ deeper[q[j]] <= depth[h] + 1
  <2> TAKE j \in 1..Len(q)
  <2>0. depth[h] \in Nat /\ 1 \in 1..Len(frontier) /\ h = frontier[1]
    BY <1>7, <1>9, <1>11
  <2>1. CASE q[j] \in new
    BY <1>11, <2>0, <2>1
  <2>2. CASE j + 1 \in 1..Len(frontier) /\ q[j] = frontier[j + 1]
    <3>1. 1 <= j + 1
      OBVIOUS
    <3>2. depth[h] <= depth[frontier[j + 1]] /\ depth[frontier[j + 1]] <= depth[h] + 1
      BY <1>14, <2>0, <2>2, <3>1
    <3>3. QED
      BY <1>9, <1>11, <2>2, <3>2
  <2>3. QED
    BY <1>10, <2>1, <2>2
<1>16. ASSUME NEW i \in 1..Len(q), NEW j \in 1..Len(q), i <= j
       PROVE  deeper[q[i]] <= deeper[q[j]] /\ deeper[q[j]] <= deeper[q[i]] + 1
  <2>0. Len(frontier) \in Nat /\ Len(q) \in Nat /\ depth[h] \in Nat
    BY <1>6, <1>7, <1>9, <1>11
  <2>1. CASE q[j] \in new
    <3>1. deeper[q[j]] = depth[h] + 1 /\ deeper[q[i]] \in Nat /\ depth[h] <= deeper[q[i]] /\ deeper[q[i]] <= depth[h] + 1
      BY <1>11, <1>15, <2>1
    <3>2. QED
      BY <2>0, <3>1
  <2>2. CASE j + 1 \in 1..Len(frontier) /\ q[j] = frontier[j + 1]
    <3>1. ~(i > Len(frontier) - 1) /\ i + 1 <= j + 1
      BY <1>16, <2>0, <2>2
    <3>2. i + 1 \in 1..Len(frontier) /\ q[i] = frontier[i + 1]
      BY <1>10, <3>1
    <3>3. /\ depth[frontier[i + 1]] <= depth[frontier[j + 1]]
          /\ depth[frontier[j + 1]] <= depth[frontier[i + 1]] + 1
      BY <1>14, <2>2, <3>1, <3>2
    <3>4. deeper[q[i]] = depth[frontier[i + 1]] /\ deeper[q[j]] = depth[frontier[j + 1]]
      BY <1>9, <1>11, <2>2, <3>2
    <3>5. QED
      BY <3>3, <3>4
  <2>3. QED
    BY <1>10, <2>1, <2>2
<1>17. ASSUME NEW v \in Visited'
       PROVE  /\ v \in DOMAIN prev /\ deeper[v] = depth[v] /\ depth[v] \in Nat /\ depth[v] <= depth[h]
              /\ \A e \in Neighbours(v) : deeper[e] <= depth[v] + 1
  <2>1. v \in DOMAIN prev' /\ \A j \in 1..Len(q) : v # q[j]
    BY <1>7, <1>8, <1>17 DEF Visited, Queued
  <2>2. v \notin new
    <3> SUFFICES ASSUME v \in new PROVE FALSE
      OBVIOUS
    <3>1. PICK i \in 1..Len(order) : order[i] = v
      BY <1>5, ArrangementIsSeq
    <3>2. i + (Len(frontier) - 1) \in 1..Len(q) /\ ~(i + (Len(frontier) - 1) <= Len(frontier) - 1)
          /\ (i + (Len(frontier) - 1)) - (Len(frontier) - 1) = i
      BY <1>6, <1>7
    <3>3. q[i + (Len(frontier) - 1)] = order[i]
      BY <1>7, <3>2
    <3>4. QED
      BY <2>1, <3>1, <3>2, <3>3
  <2>3. v \in DOMAIN prev /\ deeper[v] = depth[v] /\ depth[v] \in Nat /\ depth[h] \in Nat
    BY <1>9, <1>11, <2>1, <2>2
  <2>4. v = h \/ v \in Visited
    <3> SUFFICES ASSUME v \in Queued PROVE v = h
      BY <2>3 DEF Visited
    <3>1. PICK i \in 1..Len(frontier) : v = frontier[i]
      BY <1>7 DEF Queued
    <3>2. CASE i = 1
      BY <1>7, <3>1, <3>2
    <3>3. CASE i # 1
      <4>1. i - 1 \in 1..Len(q) /\ i - 1 <= Len(frontier) - 1 /\ (i - 1) + 1 = i
        BY <1>6, <1>7, <3>3
      <4>2. q[i - 1] = frontier[i]
        BY <1>7, <4>1
      <4>3. QED
        BY <2>1, <3>1, <4>1, <4>2
    <3>4. QED
      BY <3>2, <3>3
  <2>5. CASE v = h
    <3>1. ASSUME NEW e \in Neighbours(h) PROVE deeper[e] <= depth[h] + 1
      <4>1. CASE e \in new
        BY <1>11, <2>3, <4>1
      <4>2. CASE e \in DOMAIN prev
        <5>0. deeper[e] = depth[e] /\ depth[e] \in Nat
          BY <1>11, <4>2
        <5>1. CASE e \in Queued
          <6>1. PICK i \in 1..Len(frontier) : e = frontier[i]
            BY <1>7, <5>1 DEF Queued
          <6>2. 1 \in 1..Len(frontier) /\ 1 <= i
            BY <1>7
          <6>3. depth[e] <= depth[h] + 1
            BY <1>7, <1>14, <6>1, <6>2
          <6>4. QED
            BY <5>0, <6>3
        <5>2. CASE e \notin Queued
          <6>1. e \in Visited /\ 1 \in DOMAIN frontier
            BY <1>7, <4>2, <5>2 DEF Visited
          <6>2. depth[e] <= depth[h]
            BY <1>4, <1>7, <6>1 DEF Layers
          <6>3. QED
            BY <2>3, <5>0, <6>2
        <5>3. QED
          BY <5>1, <5>2
      <4>3. QED
        BY <3>1, <4>1, <4>2 DEF new, h
    <3>2. QED
      BY <2>3, <2>5, <3>1
  <2>6. CASE v \in Visited
    <3>1. depth[v] <= depth[h]
      <4>1. 1 \in DOMAIN frontier
        BY <1>7
      <4>2. QED
        BY <1>4, <1>7, <2>6, <4>1 DEF Layers
    <3>2. \A e \in Neighbours(v) : e \in DOMAIN prev /\ depth[e] <= depth[v] + 1
      BY <1>3, <1>4, <2>6 DEF Layers
    <3>3. QED
      BY <1>11, <2>3, <3>1, <3>2
  <2>7. QED
    BY <2>4, <2>5, <2>6
<1>18. Layers(deeper)'
  <2>1. DOMAIN frontier' = 1..Len(q)
    BY <1>7, <1>8
  <2>2. \A i, j \in DOMAIN frontier' : i <= j =>
          deeper[frontier'[i]] <= deeper[frontier'[j]] /\ deeper[frontier'[j]] <= deeper[frontier'[i]] + 1
    BY <1>8, <1>16, <2>1
  <2>3. ASSUME NEW v \in Visited'
        PROVE  /\ \A i \in DOMAIN frontier' : deeper[v] <= deeper[frontier'[i]]
               /\ \A e \in Neighbours(v) : deeper[e] <= deeper[v] + 1
    <3>1. depth[h] \in Nat
      BY <1>9, <1>11
    <3>2. ASSUME NEW i \in 1..Len(q) PROVE deeper[v] <= deeper[q[i]]
      <4>1. deeper[v] \in Nat /\ deeper[v] <= depth[h]
        BY <1>17
      <4>2. deeper[q[i]] \in Nat /\ depth[h] <= deeper[q[i]]
        BY <1>15
      <4>3. QED
        BY <3>1, <4>1, <4>2
    <3>3. QED
      BY <1>8, <1>17, <2>1, <3>2
  <2>4. QED
    <3>1. \A v \in Visited' : /\ \A i \in DOMAIN frontier' : deeper[v] <= deeper[frontier'[i]]
                             /\ \A e \in Neighbours(v)' : deeper[e] <= deeper[v] + 1
      BY <1>12, <2>3
    <3>2. QED
      BY <2>2, <3>1 DEF Layers
<1>19. SearchInv'
  BY VisitKeeps DEF PathInv
<1>20. QED
  BY <1>2, <1>3, <1>11, <1>13, <1>18, <1>19 DEF PathInv, ShortestPath

(* No chain is shorter than the depth of the first in the queue. *)
LEMMA NoShortcut ==
  ASSUME SearchInv, at = "search", NEW depth \in [DOMAIN prev -> Nat], Tree(depth), Layers(depth),
         Len(frontier) # 0, goal = frontier[1], NEW n \in 1..depth[goal]
  PROVE  ~Chain(n, start, goal)
<1>1. /\ frontier \in Seq(Nodes) /\ Len(frontier) \in Nat \ {0} /\ DOMAIN frontier = 1..Len(frontier)
      /\ Queued \subseteq DOMAIN prev /\ goal \in DOMAIN prev /\ depth[goal] \in Nat
      /\ \A v \in Visited : Neighbours(v) \subseteq DOMAIN prev
  <2>1. frontier \in Seq(Nodes) /\ Queued \subseteq DOMAIN prev /\ \A v \in Visited : Neighbours(v) \subseteq DOMAIN prev
    BY DEF SearchInv
  <2>2. Len(frontier) \in Nat \ {0} /\ DOMAIN frontier = 1..Len(frontier)
    BY <2>1, LenProperties
  <2>3. goal \in DOMAIN prev
    BY <2>1, <2>2 DEF Queued
  <2>4. QED
    BY <2>1, <2>2, <2>3
<1> SUFFICES ASSUME Chain(n, start, goal) PROVE FALSE
  OBVIOUS
<1>2. PICK p \in [1..n -> Nodes] : p[1] = start /\ p[n] = goal /\ \A i \in 1..(n - 1) : Linked(p[i], p[i + 1])
  BY DEF Chain
<1>3. n \in Nat \ {0} /\ n <= depth[goal]
  BY <1>1
<1> DEFINE Near(i) == p[i] \in DOMAIN prev /\ depth[p[i]] <= i - 1
           far == {i \in 1..n : ~Near(i)}
<1>4. Near(1)
  BY <1>2 DEF Tree
<1>5. ASSUME NEW i \in 1..(n - 1), Near(i) PROVE Near(i + 1)
  <2>1. p[i] \in DOMAIN prev /\ depth[p[i]] \in Nat /\ depth[p[i]] <= i - 1 /\ i < n
    BY <1>3, <1>5
  <2>2. p[i] \in Visited
    <3> SUFFICES ASSUME p[i] \in Queued PROVE FALSE
      BY <2>1 DEF Visited
    <3>1. PICK j \in 1..Len(frontier) : p[i] = frontier[j]
      BY <1>1 DEF Queued
    <3>2. 1 \in DOMAIN frontier /\ j \in DOMAIN frontier /\ 1 <= j
      BY <1>1
    <3>3. depth[goal] <= depth[p[i]]
      BY <3>1, <3>2 DEF Layers
    <3>4. QED
      BY <1>1, <1>3, <2>1, <3>3
  <2>3. p[i + 1] \in Neighbours(p[i])
    <3>1. PICK l \in edges : {l.a.dev, l.b.dev} = {p[i], p[i + 1]}
      BY <1>2 DEF Linked
    <3>2. (l.a.dev = p[i] /\ l.b.dev = p[i + 1]) \/ (l.a.dev = p[i + 1] /\ l.b.dev = p[i])
      BY <3>1
    <3>3. QED
      BY <3>2, LinksAreCrossings
  <2>4. p[i + 1] \in DOMAIN prev /\ depth[p[i + 1]] <= depth[p[i]] + 1
    BY <1>1, <2>2, <2>3 DEF Layers
  <2>5. depth[p[i + 1]] \in Nat
    BY <2>4
  <2>6. QED
    BY <2>1, <2>4, <2>5
<1>6. far = {}
  <2> SUFFICES ASSUME far # {} PROVE FALSE
    OBVIOUS
  <2>1. far \in SUBSET Nat
    OBVIOUS
  <2> HIDE DEF far
  <2>2. PICK m \in far : \A k \in far : m <= k
    BY <2>1, LeastNatural
  <2>3. m \in 1..n /\ ~Near(m)
    BY <2>2 DEF far
  <2> HIDE DEF Near
  <2>4. m # 1
    BY <1>4, <2>3
  <2>5. m - 1 \in 1..(n - 1) /\ m - 1 \in 1..n /\ ~(m <= m - 1) /\ (m - 1) + 1 = m
    BY <1>3, <2>3, <2>4
  <2>6. Near(m - 1)
    BY <2>2, <2>5 DEF far
  <2>7. QED
    BY <1>5, <2>3, <2>5, <2>6
<1>7. Near(n)
  BY <1>3, <1>6
<1>8. QED
  BY <1>1, <1>2, <1>3, <1>7

LEMMA ArriveKeeps ==
  ASSUME PathInv, Arrive
  PROVE  PathInv'
<1>1. /\ at = "search" /\ frontier # <<>> /\ Head(frontier) = goal /\ at' = "walk"
      /\ UNCHANGED <<edges, start, goal, frontier, prev, cursor, hops>>
  BY DEF Arrive, question
<1>2. PICK depth \in [DOMAIN prev -> Nat] : Tree(depth) /\ Layers(depth)
  BY <1>1 DEF PathInv
<1>3. /\ SearchInv /\ hops = <<>> /\ cursor = goal /\ frontier \in Seq(Nodes) /\ Queued \subseteq DOMAIN prev
  BY <1>1 DEF PathInv, SearchInv
<1>4. Len(frontier) \in Nat \ {0} /\ DOMAIN frontier = 1..Len(frontier) /\ goal = frontier[1]
  BY <1>1, <1>3, LenProperties, EmptySeq, HeadTailProperties
<1>5. goal \in DOMAIN prev
  BY <1>3, <1>4 DEF Queued
<1>6. \A n \in 1..depth[goal] : ~Chain(n, start, goal)
  BY <1>1, <1>2, <1>3, <1>4, NoShortcut
<1>7. Len(hops) = 0 /\ hops = [i \in 1..Len(hops) |-> hops[i]] /\ depth[goal] - depth[cursor] = 0
  BY <1>2, <1>3, <1>5
<1>8. Trail'
  BY <1>1, <1>3, <1>7 DEF Trail
<1>9. Tree(depth)'
  BY <1>1, <1>2 DEF Tree, Crossings
<1>10. \A n : Chain(n, start, goal)' <=> Chain(n, start, goal)
  BY <1>1 DEF Chain, Linked
<1>11. SearchInv'
  BY <1>1, <1>3 DEF SearchInv
<1>12. QED
  BY <1>1, <1>2, <1>3, <1>5, <1>6, <1>7, <1>8, <1>9, <1>10, <1>11 DEF PathInv, ShortestPath

LEMMA Prepended ==
  ASSUME NEW l, Len(l) \in Nat, l = [i \in 1..Len(l) |-> l[i]], NEW h
  PROVE  LET q == <<h>> \o l
         IN  /\ Len(q) = Len(l) + 1 /\ q = [i \in 1..Len(q) |-> q[i]] /\ q[1] = h
             /\ \A i \in 1..Len(l) : q[i + 1] = l[i]
<1> DEFINE V == {l[i] : i \in 1..Len(l)} \cup {h}
           o == <<h>>
           q == o \o l
<1>1. l \in Seq(V) /\ o \in Seq(V) /\ Len(o) = 1 /\ o[1] = h
  OBVIOUS
<1> HIDE DEF V, o
<1>2. /\ o \o l \in Seq(V) /\ Len(o \o l) = Len(o) + Len(l)
      /\ \A i \in 1..(Len(o) + Len(l)) : (o \o l)[i] = IF i <= Len(o) THEN o[i] ELSE l[i - Len(o)]
  BY <1>1, ConcatProperties
<1>3. q \in Seq(V) /\ q = [i \in 1..Len(q) |-> q[i]]
  BY <1>2, LenProperties
<1>4. Len(q) = Len(l) + 1 /\ q[1] = h
  BY <1>1, <1>2
<1>5. ASSUME NEW i \in 1..Len(l) PROVE q[i + 1] = l[i]
  <2>1. i + 1 \in 1..(Len(o) + Len(l)) /\ ~(i + 1 <= Len(o)) /\ (i + 1) - Len(o) = i
    BY <1>1
  <2>2. QED
    BY <1>2, <2>1
<1>6. QED
  BY <1>3, <1>4, <1>5 DEF o

(* Each step of the walk back goes one up. *)
LEMMA WalkKeeps ==
  ASSUME PathInv, WalkBack
  PROVE  PathInv'
<1>1. at = "walk" /\ UNCHANGED <<edges, start, goal, frontier, prev>>
  BY DEF WalkBack, question
<1>2. goal \in DOMAIN prev /\ cursor \in DOMAIN prev /\ Trail /\ SearchInv /\ edges \in Networks
  BY <1>1 DEF PathInv, SearchInv
<1>3. PICK depth \in [DOMAIN prev -> Nat] :
        /\ Tree(depth) /\ Len(hops) = depth[goal] - depth[cursor]
        /\ \A n \in 1..depth[goal] : ~Chain(n, start, goal)
  BY <1>1 DEF PathInv
<1>4. \A n : Chain(n, start, goal)' <=> Chain(n, start, goal)
  BY <1>1 DEF Chain, Linked
<1>5. \A d, e : Enters(d, e)' <=> Enters(d, e)
  BY <1>1 DEF Enters
<1>6. SearchInv' /\ at' # "search"
  BY <1>1, <1>2 DEF WalkBack, SearchInv
<1>7. /\ Len(hops) \in Nat /\ hops = [i \in 1..Len(hops) |-> hops[i]] /\ (Len(hops) = 0 => cursor = goal)
      /\ Len(hops) # 0 => hops[Len(hops)].dev = goal /\ Enters(cursor, hops[1])
      /\ \A i \in 1..(Len(hops) - 1) : Enters(hops[i].dev, hops[i + 1])
  BY <1>2 DEF Trail
(* A hop at the cursor leads on to the hops there are. *)
<1>8. ASSUME NEW h, h.dev = cursor, hops' = <<h>> \o hops
      PROVE  /\ Len(hops') = Len(hops) + 1 /\ hops' = [i \in 1..Len(hops') |-> hops'[i]] /\ hops'[1] = h
             /\ hops'[Len(hops')].dev = goal
             /\ \A i \in 1..(Len(hops') - 1) : Enters(hops'[i].dev, hops'[i + 1])
  <2>1. /\ Len(hops') = Len(hops) + 1 /\ hops' = [i \in 1..Len(hops') |-> hops'[i]] /\ hops'[1] = h
        /\ \A i \in 1..Len(hops) : hops'[i + 1] = hops[i]
    BY <1>7, <1>8, Prepended
  <2>2. hops'[Len(hops')].dev = goal
    <3>1. CASE Len(hops) = 0
      BY <1>7, <1>8, <2>1, <3>1
    <3>2. CASE Len(hops) # 0
      <4>1. Len(hops) \in 1..Len(hops)
        BY <1>7, <3>2
      <4>2. QED
        BY <1>7, <2>1, <3>2, <4>1
    <3>3. QED
      BY <3>1, <3>2
  <2>3. ASSUME NEW i \in 1..Len(hops) PROVE Enters(hops'[i].dev, hops'[i + 1])
    <3>1. hops'[i + 1] = hops[i]
      BY <2>1
    <3>2. CASE i = 1
      BY <1>7, <1>8, <2>1, <3>1, <3>2
    <3>3. CASE i # 1
      <4>1. i - 1 \in 1..(Len(hops) - 1) /\ i - 1 \in 1..Len(hops) /\ (i - 1) + 1 = i
        BY <1>7, <3>3
      <4>2. hops'[i] = hops[i - 1]
        BY <2>1, <4>1
      <4>3. QED
        BY <1>7, <3>1, <4>1, <4>2
    <3>4. QED
      BY <3>2, <3>3
  <2>4. Len(hops') - 1 = Len(hops)
    BY <1>7, <2>1
  <2>5. QED
    BY <2>1, <2>2, <2>3, <2>4
<1>9. ASSUME NEW d \in DOMAIN prev \ {start}
      PROVE  \E n \in DOMAIN prev : /\ prev[d] # NoEnd /\ prev[d][1].dev = n /\ depth[d] = depth[n] + 1
                                    /\ prev[d][2] = [dev |-> d, port |-> prev[d][2].port]
                                    /\ Enters(n, prev[d][2])
  <2>1. PICK n \in DOMAIN prev : prev[d] \in Crossings(n) /\ prev[d][2].dev = d /\ depth[d] = depth[n] + 1
    BY <1>3 DEF Tree
  <2>2. PICK l \in edges : \/ l.a.dev = n /\ prev[d] = <<l.a, l.b>>
                           \/ l.b.dev = n /\ prev[d] = <<l.b, l.a>>
    BY <2>1 DEF Crossings
  <2>3. /\ \A e \in {l.a, l.b} : e = [dev |-> e.dev, port |-> e.port]
        /\ NoEnd \notin {<<l.a, l.b>>, <<l.b, l.a>>}
    BY <1>2, PathAssumption
  <2>4. CASE l.a.dev = n /\ prev[d] = <<l.a, l.b>>
    <3>1. prev[d][1] = l.a /\ prev[d][2] = l.b /\ prev[d] # NoEnd
      BY <2>3, <2>4
    <3>2. Enters(n, prev[d][2])
      BY <2>4, <3>1 DEF Enters
    <3>3. prev[d][2] = [dev |-> d, port |-> prev[d][2].port]
      BY <2>1, <2>3, <3>1
    <3>4. QED
      BY <2>1, <2>4, <3>1, <3>2, <3>3
  <2>5. CASE l.b.dev = n /\ prev[d] = <<l.b, l.a>>
    <3>1. prev[d][1] = l.b /\ prev[d][2] = l.a /\ prev[d] # NoEnd
      BY <2>3, <2>5
    <3>2. Enters(n, prev[d][2])
      BY <2>5, <3>1 DEF Enters
    <3>3. prev[d][2] = [dev |-> d, port |-> prev[d][2].port]
      BY <2>1, <2>3, <3>1
    <3>4. QED
      BY <2>1, <2>5, <3>1, <3>2, <3>3
  <2>6. QED
    BY <2>2, <2>4, <2>5
<1>10. CASE cursor = start
  <2>1. prev[cursor] = NoEnd /\ depth[cursor] = 0 /\ depth[goal] \in Nat
    BY <1>2, <1>3, <1>10 DEF Tree
  <2> DEFINE h == [dev |-> cursor, port |-> NoEnd]
  <2>2. hops' = <<h>> \o hops /\ at' = "found"
    BY <2>1 DEF WalkBack
  <2>3. h.dev = cursor
    OBVIOUS
  <2> HIDE DEF h
  <2>4. /\ Len(hops') = Len(hops) + 1 /\ hops'[1] = h /\ hops'[Len(hops')].dev = goal
        /\ \A i \in 1..(Len(hops') - 1) : Enters(hops'[i].dev, hops'[i + 1])
    BY <1>8, <2>2, <2>3
  <2>5. Len(hops') - 1 = depth[goal]
    <3>1. Len(hops) = depth[goal] - depth[cursor]
      BY <1>3
    <3>2. QED
      BY <1>7, <2>1, <2>4, <3>1
  <2>6. ShortestPath'
    BY <1>1, <1>3, <1>4, <1>5, <1>10, <2>4, <2>5 DEF ShortestPath, h
  <2>7. QED
    BY <1>6, <2>2, <2>6 DEF PathInv
<1>11. CASE cursor # start
  <2>1. PICK n \in DOMAIN prev : /\ prev[cursor] # NoEnd /\ prev[cursor][1].dev = n /\ depth[cursor] = depth[n] + 1
                                 /\ prev[cursor][2] = [dev |-> cursor, port |-> prev[cursor][2].port]
                                 /\ Enters(n, prev[cursor][2])
    BY <1>2, <1>9, <1>11
  <2> DEFINE h == [dev |-> cursor, port |-> prev[cursor][2].port]
  <2>2. hops' = <<h>> \o hops /\ at' = "walk" /\ cursor' = n
    BY <1>1, <2>1 DEF WalkBack
  <2>3. h.dev = cursor /\ Enters(n, h)
    BY <2>1
  <2> HIDE DEF h
  <2>4. /\ Len(hops') = Len(hops) + 1 /\ hops' = [i \in 1..Len(hops') |-> hops'[i]] /\ hops'[1] = h
        /\ hops'[Len(hops')].dev = goal
        /\ \A i \in 1..(Len(hops') - 1) : Enters(hops'[i].dev, hops'[i + 1])
    BY <1>8, <2>2, <2>3
  <2>5. Trail'
    <3>1. Len(hops') \in Nat /\ Len(hops') # 0
      BY <1>7, <2>4
    <3>2. QED
      BY <1>1, <1>5, <2>2, <2>3, <2>4, <3>1 DEF Trail
  <2>6. Len(hops') = depth[goal] - depth[n]
    <3>1. depth[goal] \in Nat /\ depth[n] \in Nat /\ depth[cursor] = depth[n] + 1
      BY <1>2, <2>1
    <3>2. QED
      BY <1>3, <1>7, <2>4, <3>1
  <2>7. Tree(depth)'
    BY <1>1, <1>3 DEF Tree, Crossings
  <2>8. \A m \in 1..depth[goal] : ~Chain(m, start, goal)'
    BY <1>3, <1>4
  <2>9. /\ goal' \in DOMAIN prev' /\ cursor' \in DOMAIN prev' /\ depth \in [DOMAIN prev' -> Nat]
        /\ goal' = goal /\ Len(hops') = depth[goal'] - depth[cursor']
        /\ \A m \in 1..depth[goal'] : ~Chain(m, start, goal)'
    BY <1>1, <1>2, <1>3, <2>1, <2>2, <2>6, <2>8
  <2>10. ShortestPath'
    BY <2>2 DEF ShortestPath
  <2>11. QED
    BY <1>6, <2>2, <2>5, <2>7, <2>9, <2>10 DEF PathInv
<1>12. QED
  BY <1>10, <1>11

(* The path that is found leads from the start to the goal over links and   *)
(* no chain of links is shorter, whatever the order in which the tables are *)
(* read (CablePathResolver.resolve, _path_to_core).                         *)
THEOREM PathsAreShortest == PathSpec => []ShortestPath
<1>1. PathInv /\ [PathNext]_pathVars => PathInv'
  <2> SUFFICES ASSUME PathInv, [PathNext]_pathVars PROVE PathInv'
    OBVIOUS
  <2>1. CASE Visit
    BY <2>1, VisitKeepsLayers
  <2>2. CASE Arrive
    BY <2>2, ArriveKeeps
  <2>3. CASE NotFound
    <3>1. at' = "none" /\ SearchInv'
      BY <2>3, NotFoundKeeps DEF NotFound, PathInv
    <3> QED
      BY <3>1 DEF PathInv, ShortestPath
  <2>4. CASE WalkBack
    BY <2>4, WalkKeeps
  <2>5. CASE UNCHANGED pathVars
    <3>1. /\ edges' = edges /\ start' = start /\ goal' = goal /\ frontier' = frontier /\ prev' = prev
          /\ cursor' = cursor /\ hops' = hops /\ at' = at
      BY <2>5 DEF pathVars
    <3>2. ASSUME NEW depth PROVE (Tree(depth)' <=> Tree(depth)) /\ (Layers(depth)' <=> Layers(depth))
      BY <3>1 DEF Tree, Layers, Visited, Queued, Neighbours, Crossings
    <3>3. SearchInv'
      BY <3>1 DEF PathInv, SearchInv, Queued, Visited, Neighbours, Crossings
    <3>4. \A n : Chain(n, start, goal)' <=> Chain(n, start, goal)
      BY <3>1 DEF Chain, Linked
    <3>5. (Trail' <=> Trail) /\ (ShortestPath' <=> ShortestPath)
      BY <3>1, <3>4 DEF Trail, ShortestPath, Enters
    <3>6. at = "search" => \E depth \in [DOMAIN prev' -> Nat] : Tree(depth)' /\ Layers(depth)'
      BY <3>1, <3>2 DEF PathInv
    <3>7. at = "walk" => \E depth \in [DOMAIN prev' -> Nat] :
            /\ Tree(depth)' /\ Len(hops') = depth[goal'] - depth[cursor']
            /\ \A n \in 1..depth[goal'] : ~Chain(n, start, goal)'
      BY <3>1, <3>2, <3>4 DEF PathInv
    <3> QED
      BY <3>1, <3>3, <3>5, <3>6, <3>7 DEF PathInv
  <2>6. QED
    BY <2>1, <2>2, <2>3, <2>4, <2>5 DEF PathNext
<1>2. PathInv => ShortestPath
  BY DEF PathInv
<1>3. QED
  BY <1>1, <1>2, PathInit1, PTL DEF PathSpec

-----------------------------------------------------------------------------
(* Roles: what detection and edits keep of each other's columns, whatever   *)
(* Detect returns.                                                          *)

Columns == {"role", "conf", "source", "note"}
IsRow(r) == /\ DOMAIN r = Columns /\ r = [c \in Columns |-> r[c]]
            /\ r.source = "auto" \/ r.source = "manual"

(* A detector only holds copies that say "auto"; an edit leaves the source  *)
(* of its copy or makes it "manual".                                        *)
Held(h) == \A d \in DOMAIN h : d \in RoleDevices /\ IsRow(h[d]) /\ h[d].source = "auto"
Edit(e) == /\ e.dev \in RoleDevices /\ IsRow(e.was) /\ IsRow(e.want)
           /\ e.want.source = e.was.source \/ e.want.source = "manual"

RoleInv ==
  /\ DOMAIN row = RoleDevices /\ row = [d \in RoleDevices |-> row[d]]
  /\ DOMAIN noted = RoleDevices /\ noted = [d \in RoleDevices |-> noted[d]]
  /\ DOMAIN detector = Detectors /\ detector = [s \in Detectors |-> detector[s]]
  /\ DOMAIN editor = Editors /\ editor = [e \in Editors |-> editor[e]]
  /\ \A d \in RoleDevices : IsRow(row[d])
  /\ \A s \in Detectors : detector[s] # NoRow => Held(detector[s])
  /\ \A e \in Editors : editor[e] # NoRow => Edit(editor[e])

-----------------------------------------------------------------------------
LEMMA FlushedColumns ==
  ASSUME NEW now, NEW was, NEW want, IsRow(now), IsRow(was), IsRow(want)
  PROVE  LET new == Flushed(now, was, want)
         IN  /\ IsRow(new)
             /\ new.source = IF want.source # was.source THEN want.source ELSE now.source
             /\ new.note = IF want.note # was.note THEN want.note ELSE now.note
BY DEF Flushed, IsRow, Columns

(* What detection makes of its copy, and edits of theirs. *)
Detected(was, role, conf) == [was EXCEPT !.role = role, !.conf = conf, !.source = "auto"]
Overridden(was, role) == [was EXCEPT !.role = role, !.conf = Certain, !.source = "manual"]
Noted(was, note) == [was EXCEPT !.note = note]

LEMMA DetectedColumns ==
  ASSUME NEW was, IsRow(was), was.source = "auto", NEW role, NEW conf
  PROVE  /\ IsRow(Detected(was, role, conf))
         /\ Detected(was, role, conf).source = was.source
         /\ Detected(was, role, conf).note = was.note
BY DEF Detected, IsRow, Columns

LEMMA OverriddenColumns ==
  ASSUME NEW was, IsRow(was), NEW role
  PROVE  IsRow(Overridden(was, role)) /\ Overridden(was, role).source = "manual"
BY DEF Overridden, IsRow, Columns

LEMMA NotedColumns ==
  ASSUME NEW was, IsRow(was), NEW note
  PROVE  IsRow(Noted(was, note)) /\ Noted(was, note).source = was.source
BY DEF Noted, IsRow, Columns

LEMMA RoleInitHolds == RoleInit => RoleInv /\ MetadataKept
<1>1. IsRow(NewRow) /\ NewRow.note = "none" BY DEF IsRow, NewRow, Columns
<1> QED BY <1>1 DEF RoleInit, RoleInv, MetadataKept

(* Each step keeps the invariant; what it does to a row is that the source  *)
(* stays or becomes "manual", and that the note is what was last noted.     *)
LEMMA RoleStep ==
  ASSUME RoleInv, [RoleNext]_roleVars
  PROVE  /\ RoleInv'
         /\ \A d \in RoleDevices : row[d].source = "manual" => row'[d].source = "manual"
         /\ MetadataKept => MetadataKept'
<1> USE DEF RoleInv
<1> DEFINE Goal == /\ RoleInv'
                   /\ \A d \in RoleDevices : row[d].source = "manual" => row'[d].source = "manual"
                   /\ MetadataKept => MetadataKept'
<1>1. ASSUME NEW s \in Detectors, LoadDevices(s) PROVE Goal
  <2>1. PICK ds \in {{d} : d \in RoleDevices} \cup {RoleDevices} :
          detector' = [detector EXCEPT ![s] = [d \in {e \in ds : row[e].source # "manual"} |-> row[d]]]
    BY <1>1 DEF LoadDevices, Detectable
  <2>2. \A d \in ds : d \in RoleDevices /\ IsRow(row[d]) BY <2>1
  <2>3. detector'[s] = [d \in {e \in ds : row[e].source # "manual"} |-> row[d]] BY <2>1
  <2>4. Held(detector'[s])
    <3> SUFFICES ASSUME NEW d \in DOMAIN detector'[s]
                 PROVE  d \in RoleDevices /\ IsRow(detector'[s][d]) /\ detector'[s][d].source = "auto"
      BY DEF Held
    <3>1. d \in ds /\ row[d].source # "manual" /\ detector'[s][d] = row[d] BY <2>3
    <3>2. d \in RoleDevices /\ IsRow(row[d]) BY <2>2, <3>1
    <3> QED BY <3>1, <3>2 DEF IsRow
  <2>5. detector' = [t \in Detectors |-> detector'[t]] /\ DOMAIN detector' = Detectors
        /\ \A t \in Detectors \ {s} : detector'[t] = detector[t]
    BY <2>1
  <2>6. UNCHANGED <<row, situation, noted, editor>>
    BY <1>1 DEF LoadDevices
  <2>7. \A t \in Detectors : detector'[t] # NoRow => Held(detector'[t])
    BY <2>4, <2>5
  <2>8. RoleInv'
    BY <2>5, <2>6, <2>7
  <2> QED BY <2>6, <2>8 DEF MetadataKept
<1>2. ASSUME NEW s \in Detectors, DetectAndPersist(s) PROVE Goal
  <2>1. PICK d \in DOMAIN detector[s] :
          /\ row' = [row EXCEPT ![d] = Flushed(@, detector[s][d],
                      [detector[s][d] EXCEPT !.role = Detect(situation[d]).role,
                         !.conf = Detect(situation[d]).conf, !.source = "auto"])]
          /\ detector' = [detector EXCEPT ![s] = [e \in DOMAIN @ \ {d} |-> @[e]]]
    BY <1>2 DEF DetectAndPersist
  <2>2. Held(detector[s]) /\ Held(detector'[s]) BY <1>2, <2>1 DEF DetectAndPersist, Held
  <2>3. IsRow(row'[d]) /\ row'[d].source = row[d].source /\ row'[d].note = row[d].note
    <3>1. d \in RoleDevices /\ IsRow(detector[s][d]) /\ detector[s][d].source = "auto"
      BY <2>2 DEF Held
    <3> DEFINE was == detector[s][d]
               want == Detected(was, Detect(situation[d]).role, Detect(situation[d]).conf)
    <3>2. row'[d] = Flushed(row[d], was, want) BY <2>1, <3>1 DEF Detected
    <3>3. IsRow(want) /\ want.source = was.source /\ want.note = was.note
      BY <3>1, DetectedColumns
    <3>4. IsRow(was) /\ IsRow(row[d]) BY <3>1
    <3> HIDE DEF want, was
    <3> QED BY <3>2, <3>3, <3>4, FlushedColumns
  <2>4. \A e \in RoleDevices \ {d} : row'[e] = row[e] BY <2>1
  <2>5. UNCHANGED <<situation, noted, editor>>
    BY <1>2 DEF DetectAndPersist
  <2>6. /\ row' = [e \in RoleDevices |-> row'[e]] /\ DOMAIN row' = RoleDevices
        /\ detector' = [t \in Detectors |-> detector'[t]] /\ DOMAIN detector' = Detectors
        /\ \A t \in Detectors \ {s} : detector'[t] = detector[t]
    BY <2>1
  <2>7. \A e \in RoleDevices : IsRow(row'[e]) /\ row'[e].source = row[e].source /\ row'[e].note = row[e].note
    BY <2>3, <2>4
  <2>8. \A t \in Detectors : detector'[t] # NoRow => Held(detector'[t])
    BY <2>2, <2>6
  <2>9. RoleInv'
    BY <2>5, <2>6, <2>7, <2>8
  <2> QED BY <2>5, <2>7, <2>9 DEF MetadataKept
<1>3. ASSUME NEW s \in Detectors, DetectionEnds(s) PROVE Goal
  BY <1>3 DEF DetectionEnds, MetadataKept
<1>4. ASSUME NEW e \in Editors, LoadForEdit(e) PROVE Goal
  <2>1. PICK d \in RoleDevices :
          \/ \E r \in ManualRoles : editor' = [editor EXCEPT ![e] =
               [dev |-> d, was |-> row[d], want |-> Overridden(row[d], r)]]
          \/ \E n \in Notes : editor' = [editor EXCEPT ![e] =
               [dev |-> d, was |-> row[d], want |-> Noted(row[d], n)]]
    BY <1>4 DEF LoadForEdit, Overridden, Noted
  <2>2. PICK want : /\ editor' = [editor EXCEPT ![e] = [dev |-> d, was |-> row[d], want |-> want]]
                    /\ IsRow(want) /\ (want.source = row[d].source \/ want.source = "manual")
    BY <2>1, OverriddenColumns, NotedColumns
  <2>3. editor'[e] = [dev |-> d, was |-> row[d], want |-> want] BY <2>2
  <2>4. Edit(editor'[e]) BY <2>2, <2>3 DEF Edit
  <2>5. \A f \in Editors \ {e} : editor'[f] = editor[f] BY <2>2
  <2>6. DOMAIN editor' = Editors /\ editor' = [f \in Editors |-> editor'[f]] BY <2>2
  <2> QED BY <1>4, <2>4, <2>5, <2>6 DEF LoadForEdit, MetadataKept
<1>5. ASSUME NEW e \in Editors, CommitEdit(e) PROVE Goal
  <2> DEFINE d == editor[e].dev
             new == Flushed(row[d], editor[e].was, editor[e].want)
  <2>1. Edit(editor[e]) /\ d \in RoleDevices BY <1>5 DEF CommitEdit, Edit
  <2>2. /\ row' = [row EXCEPT ![d] = new]
        /\ noted' = [noted EXCEPT ![d] = IF editor[e].want.note # editor[e].was.note
                                         THEN editor[e].want.note ELSE @]
    BY <1>5 DEF CommitEdit
  <2>3. /\ IsRow(new) /\ (row[d].source = "manual" => new.source = "manual")
        /\ new.note = IF editor[e].want.note # editor[e].was.note
                      THEN editor[e].want.note ELSE row[d].note
    BY <2>1, FlushedColumns DEF Edit
  <2>4. row'[d] = new /\ \A c \in RoleDevices \ {d} : row'[c] = row[c] /\ noted'[c] = noted[c]
    BY <2>1, <2>2
  <2>5. DOMAIN row' = RoleDevices /\ row' = [c \in RoleDevices |-> row'[c]] BY <2>2
  <2>6. DOMAIN noted' = RoleDevices /\ noted' = [c \in RoleDevices |-> noted'[c]] BY <2>2
  <2>7. noted'[d] = IF editor[e].want.note # editor[e].was.note THEN editor[e].want.note ELSE noted[d]
    BY <2>1, <2>2
  <2>8. RoleInv'
    <3>1. editor' = [editor EXCEPT ![e] = NoRow] /\ detector' = detector BY <1>5 DEF CommitEdit
    <3> HIDE DEF d, new
    <3>2. ASSUME NEW c \in RoleDevices PROVE IsRow(row'[c])
      <4>1. CASE c = d BY <4>1, <2>3, <2>4
      <4>2. CASE c # d BY <4>2, <2>4
      <4> QED BY <4>1, <4>2
    <3>3. DOMAIN editor' = Editors /\ editor' = [f \in Editors |-> editor'[f]] BY <3>1
    <3>4. \A f \in Editors : editor'[f] # NoRow => editor'[f] = editor[f] BY <3>1
    <3> QED BY <2>5, <2>6, <3>1, <3>2, <3>3, <3>4
  <2>9. MetadataKept => MetadataKept' BY <2>1, <2>3, <2>4, <2>7 DEF MetadataKept
  <2> QED BY <2>1, <2>3, <2>4, <2>8, <2>9
<1>6. ASSUME NEW d \in RoleDevices, Rediscovered(d) PROVE Goal
  BY <1>6 DEF Rediscovered, MetadataKept
<1>7. CASE UNCHANGED roleVars BY <1>7 DEF roleVars, MetadataKept
<1> QED BY <1>1, <1>2, <1>3, <1>4, <1>5, <1>6, <1>7 DEF RoleNext

-----------------------------------------------------------------------------
(* A device that an operator marked manual stays so, however detectors that *)
(* loaded it before are interleaved.                                        *)
THEOREM ManualRolesStick == RoleSpec => ManualSticks
<1>1. RoleInv /\ [RoleNext]_roleVars => RoleInv' BY RoleStep
<1>2. RoleInv /\ [RoleNext]_roleVars =>
        [\A d \in RoleDevices : row[d].source = "manual" => row'[d].source = "manual"]_roleVars
  BY RoleStep
<1> QED BY <1>1, <1>2, RoleInitHolds, PTL DEF RoleSpec, ManualSticks

(* The metadata of a device is what was last saved for it. *)
THEOREM MetadataIsKept == RoleSpec => []MetadataKept
<1>1. RoleInv /\ MetadataKept /\ [RoleNext]_roleVars => (RoleInv /\ MetadataKept)' BY RoleStep
<1> QED BY <1>1, RoleInitHolds, PTL DEF RoleSpec

-----------------------------------------------------------------------------
(* Health: each reading has a level that follows it, and the worst counts.  *)

HealthInv ==
  /\ oper \in [Sides -> {"up", "unknown", "down"}]
  /\ duplex \in [Sides -> {"full", "half", NoReading}]
  /\ counters = [s \in Sides |-> counters[s]]
  /\ \A s \in Sides : counters[s] # NoReading =>
       /\ counters[s] = [errors |-> counters[s].errors, drops |-> counters[s].drops]
       /\ counters[s].errors \in Nat /\ counters[s].drops \in Nat
  /\ gauges \in [Gauges -> Int \cup {NoReading}]

(* What getting worse means of each reading. *)
CountsGrow == \A s \in Sides : counters[s] # NoReading =>
  /\ counters'[s] # NoReading
  /\ counters'[s].errors >= counters[s].errors /\ counters'[s].drops >= counters[s].drops
Worse ==
  /\ \A s \in Sides : oper[s] = "down" => oper'[s] = "down"
  /\ \A s \in Sides : oper'[s] = "unknown" => oper[s] = "unknown"
  /\ \A s, t \in Sides : NoReading \notin {duplex[s], duplex[t]} /\ duplex[s] # duplex[t] =>
       NoReading \notin {duplex'[s], duplex'[t]} /\ duplex'[s] # duplex'[t]
  /\ CountsGrow
  /\ \A g \in Gauges : gauges[g] # NoReading =>
       /\ gauges'[g] # NoReading
       /\ IF g \in {"rxPower", "txPower"} THEN gauges'[g] <= gauges[g] ELSE gauges'[g] >= gauges[g]

LEMMA HighIsMonotonic ==
  ASSUME NEW v \in Int, NEW w \in Int, v <= w, NEW warn \in Int, NEW crit \in Int, warn <= crit
  PROVE  High(v, warn, crit) <= High(w, warn, crit)
BY DEF High

LEMMA HighIsLevel ==
  ASSUME NEW v, NEW warn, NEW crit
  PROVE  High(v, warn, crit) \in 0..2
BY DEF High

LEMMA GaugeLevelFollows ==
  ASSUME HealthInv, HealthInv', Worse, NEW g \in Gauges
  PROVE  GaugeLevel(g) \in 0..2 /\ GaugeLevel(g)' \in 0..2 /\ GaugeLevel(g) <= GaugeLevel(g)'
<1>1. gauges[g] \in Int \cup {NoReading} /\ gauges'[g] \in Int \cup {NoReading}
  BY DEF HealthInv
<1>2. gauges[g] # NoReading =>
        /\ gauges'[g] # NoReading
        /\ IF g \in {"rxPower", "txPower"} THEN gauges'[g] <= gauges[g] ELSE gauges'[g] >= gauges[g]
  BY DEF Worse
<1>3. QED
  BY <1>1, <1>2 DEF GaugeLevel, Low, High, Gauges

LEMMA CountedFollows ==
  ASSUME HealthInv, HealthInv', Worse, NEW field \in {"errors", "drops"}
  PROVE  Counted(field) \in Nat /\ Counted(field)' \in Nat /\ Counted(field) <= Counted(field)'
<1>1. ASSUME NEW s \in Sides
      PROVE  Count(s, field) \in Nat /\ Count(s, field)' \in Nat /\ Count(s, field) <= Count(s, field)'
  <2>1. counters[s] # NoReading => counters[s].errors \in Nat /\ counters[s].drops \in Nat
    BY DEF HealthInv
  <2>2. counters'[s] # NoReading => counters'[s].errors \in Nat /\ counters'[s].drops \in Nat
    BY DEF HealthInv
  <2>3. counters[s] # NoReading =>
          /\ counters'[s] # NoReading
          /\ counters'[s].errors >= counters[s].errors /\ counters'[s].drops >= counters[s].drops
    BY DEF Worse, CountsGrow
  <2>4. QED
    BY <2>1, <2>2, <2>3 DEF Count
<1>2. "a" \in Sides /\ "b" \in Sides
  BY DEF Sides
<1>3. QED
  BY <1>1, <1>2 DEF Counted

(* Of two sets of levels, the one that has for each of the other's one that *)
(* is no lower has a worst that is no lower.                                *)
LEMMA WorstFollows ==
  ASSUME NEW A, NEW B, A \subseteq 0..2, B \subseteq 0..2, A # {},
         \A n \in A : \E m \in B : n <= m
  PROVE  LET worst == CHOOSE w \in A : \A n \in A : n <= w
             later == CHOOSE w \in B : \A n \in B : n <= w
         IN  worst \in 0..2 /\ later \in 0..2 /\ worst <= later
<1>1. \E w \in A : \A n \in A : n <= w
  <2>1. CASE 2 \in A BY <2>1
  <2>2. CASE 2 \notin A /\ 1 \in A BY <2>2
  <2>3. CASE 2 \notin A /\ 1 \notin A
    <3>1. \A n \in A : n = 0 BY <2>3
    <3>2. PICK n \in A : TRUE OBVIOUS
    <3>3. QED BY <3>1, <3>2
  <2>4. QED BY <2>1, <2>2, <2>3
<1>2. \E w \in B : \A n \in B : n <= w
  <2>1. CASE 2 \in B BY <2>1
  <2>2. CASE 2 \notin B /\ 1 \in B BY <2>2
  <2>3. CASE 2 \notin B /\ 1 \notin B
    <3>1. \A n \in B : n = 0 BY <2>3
    <3>2. PICK n \in B : TRUE OBVIOUS
    <3>3. QED BY <3>1, <3>2
  <2>4. QED BY <2>1, <2>2, <2>3
<1> DEFINE worst == CHOOSE w \in A : \A n \in A : n <= w
           later == CHOOSE w \in B : \A n \in B : n <= w
<1>3. worst \in A /\ \A n \in A : n <= worst
  BY <1>1
<1>4. later \in B /\ \A n \in B : n <= later
  BY <1>2
<1> HIDE DEF worst, later
<1>5. PICK m \in B : worst <= m
  BY <1>3
<1>6. worst \in 0..2 /\ later \in 0..2 /\ m \in 0..2 /\ m <= later
  BY <1>3, <1>4, <1>5
<1>7. worst <= later
  BY <1>5, <1>6
<1>8. QED
  BY <1>6, <1>7 DEF worst, later

LEMMA LevelFollows ==
  ASSUME HealthInv, HealthInv', Worse
  PROVE  Level \in 0..2 /\ Level' \in 0..2 /\ Level <= Level'
<1> DEFINE D == IF \E s \in Sides : oper[s] = "down" THEN 2 ELSE 0
           M == IF \E s, t \in Sides : NoReading \notin {duplex[s], duplex[t]} /\ duplex[s] # duplex[t]
                THEN 1 ELSE 0
           E == High(Counted("errors"), 50, 500)
           P == High(Counted("drops"), 100, 1000)
<1>1. D \in 0..2 /\ D' \in 0..2 /\ D <= D'
  BY DEF Worse
<1>2. M \in 0..2 /\ M' \in 0..2 /\ M <= M'
  BY DEF Worse
<1>3. E \in 0..2 /\ E' \in 0..2 /\ E <= E'
  BY CountedFollows DEF High
<1>4. P \in 0..2 /\ P' \in 0..2 /\ P <= P'
  BY CountedFollows DEF High
<1>5. StateLevels = {D, M, E, P} /\ StateLevels' = {D', M', E', P'}
  BY DEF StateLevels
<1> HIDE DEF D, M, E, P
<1>6. /\ Levels = {GaugeLevel(g) : g \in Gauges} \cup StateLevels
      /\ Levels' = {GaugeLevel(g)' : g \in Gauges} \cup StateLevels'
  BY DEF Levels
<1>7. Levels \subseteq 0..2 /\ Levels' \subseteq 0..2 /\ Levels # {}
  BY <1>1, <1>2, <1>3, <1>4, <1>5, <1>6, GaugeLevelFollows
<1>8. ASSUME NEW n \in Levels PROVE \E m \in Levels' : n <= m
  <2>1. CASE n \in StateLevels
    BY <2>1, <1>1, <1>2, <1>3, <1>4, <1>5, <1>6
  <2>2. CASE \E g \in Gauges : n = GaugeLevel(g)
    BY <2>2, <1>6, GaugeLevelFollows
  <2>3. QED
    BY <1>6, <2>1, <2>2
<1>9. Level = (CHOOSE w \in Levels : \A n \in Levels : n <= w)
  BY DEF Level
<1>10. Level' = (CHOOSE w \in Levels' : \A n \in Levels' : n <= w)
  BY DEF Level
<1>11. QED
  BY <1>7, <1>8, <1>9, <1>10, WorstFollows

LEMMA HealthStep ==
  ASSUME HealthInv, HealthNext
  PROVE  HealthInv' /\ Worse
<1>1. CASE GoesDown
  <2>1. PICK s \in Sides : oper' = [oper EXCEPT ![s] = "down"]
    BY <1>1 DEF GoesDown
  <2>2. UNCHANGED <<duplex, counters, gauges>>
    BY <1>1 DEF GoesDown
  <2>3. QED
    BY <2>1, <2>2 DEF HealthInv, Worse, CountsGrow, Gauges
<1>2. CASE DuplexChanges
  <2>1. PICK s \in Sides, t \in Sides : s # t /\ duplex[t] = "full" /\ duplex' = [duplex EXCEPT ![s] = "half"]
    BY <1>2 DEF DuplexChanges
  <2>2. UNCHANGED <<oper, counters, gauges>>
    BY <1>2 DEF DuplexChanges
  <2>3. \A r \in Sides : r = s \/ r = t
    BY <2>1 DEF Sides
  <2>4. duplex'[s] = "half" /\ duplex'[t] = "full" /\ NoReading \notin {"full", "half"}
    BY <2>1, HealthAssumption DEF HealthInv
  <2>5. QED
    BY <2>1, <2>2, <2>3, <2>4 DEF HealthInv, Worse, CountsGrow
<1>3. CASE CountersGrow
  <2>1. PICK s \in Sides, e \in Errors, d \in Drops :
          /\ counters[s] # NoReading => e >= counters[s].errors /\ d >= counters[s].drops
          /\ counters' = [counters EXCEPT ![s] = [errors |-> e, drops |-> d]]
    BY <1>3 DEF CountersGrow
  <2>2. UNCHANGED <<oper, duplex, gauges>> /\ e \in Nat /\ d \in Nat
    BY <1>3, HealthAssumption DEF CountersGrow
  <2>3. /\ counters'[s] = [errors |-> e, drops |-> d]
        /\ \A t \in Sides \ {s} : counters'[t] = counters[t]
        /\ counters' = [t \in Sides |-> counters'[t]]
    BY <2>1 DEF HealthInv
  <2>4. counters'[s].errors = e /\ counters'[s].drops = d
    BY <2>3
  <2>5. HealthInv'
    BY <2>2, <2>3, <2>4 DEF HealthInv
  <2>6. CountsGrow
    <3> SUFFICES ASSUME NEW t \in Sides, counters[t] # NoReading
                 PROVE  /\ counters'[t] # NoReading
                        /\ counters'[t].errors >= counters[t].errors
                        /\ counters'[t].drops >= counters[t].drops
      BY DEF CountsGrow
    <3>1. CASE t = s
      BY <2>1, <2>2, <2>3, <2>4, <3>1, HealthAssumption
    <3>2. CASE t # s
      BY <2>3, <3>2 DEF HealthInv
    <3>3. QED
      BY <3>1, <3>2
  <2>7. QED
    BY <2>2, <2>5, <2>6 DEF HealthInv, Worse
<1>4. CASE GaugeWorsens
  <2>1. PICK g \in Gauges, v \in Int :
          /\ gauges' = [gauges EXCEPT ![g] = v]
          /\ gauges[g] # NoReading => IF g \in {"rxPower", "txPower"} THEN v <= gauges[g] ELSE v >= gauges[g]
    <3>1. PICK g \in Gauges :
            \/ /\ g \in {"rxUtil", "txUtil"}
               /\ \E v \in Percents : (gauges[g] # NoReading => v >= gauges[g]) /\ gauges' = [gauges EXCEPT ![g] = v]
            \/ /\ g \in {"rxPower", "txPower"}
               /\ \E v \in Powers : (gauges[g] # NoReading => v <= gauges[g]) /\ gauges' = [gauges EXCEPT ![g] = v]
            \/ /\ g = "temperature"
               /\ \E v \in Degrees : (gauges[g] # NoReading => v >= gauges[g]) /\ gauges' = [gauges EXCEPT ![g] = v]
      BY <1>4 DEF GaugeWorsens
    <3>2. Percents \subseteq Int /\ Degrees \subseteq Int /\ Powers \subseteq Int
      BY HealthAssumption
    <3>3. QED
      BY <3>1, <3>2
  <2>2. UNCHANGED <<oper, duplex, counters>> /\ v # NoReading
    BY <1>4, HealthAssumption DEF GaugeWorsens
  <2>3. QED
    BY <2>1, <2>2 DEF HealthInv, Worse, CountsGrow
<1>5. QED
  BY <1>1, <1>2, <1>3, <1>4 DEF HealthNext

(* A link whose readings get worse never looks healthier, whichever of them *)
(* it is and whatever the thresholds say of the others                      *)
(* (LinkHealthScorer.score).                                                *)
THEOREM HealthFollows == HealthSpec => HealthNeverImproves
<1>1. HealthInit => HealthInv
  BY DEF HealthInit, HealthInv, Gauges
<1>2. HealthInv /\ [HealthNext]_healthVars => HealthInv'
  <2>1. CASE UNCHANGED healthVars
    BY <2>1 DEF healthVars, HealthInv
  <2>2. QED
    BY <2>1, HealthStep
<1>3. HealthInv /\ HealthInv' /\ [HealthNext]_healthVars => [Severity[Status'] >= Severity[Status]]_healthVars
  <2> SUFFICES ASSUME HealthInv, HealthInv', HealthNext PROVE Severity[Status'] >= Severity[Status]
    BY DEF healthVars
  <2>1. Level \in 0..2 /\ Level' \in 0..2 /\ Level <= Level' /\ Worse
    BY HealthStep, LevelFollows
  <2> DEFINE named == <<"healthy", "warning", "critical">>
  <2>2. /\ Severity["unknown"] = 0 /\ Severity["healthy"] = 1 /\ Severity["warning"] = 2 /\ Severity["critical"] = 3
        /\ named[1] = "healthy" /\ named[2] = "warning" /\ named[3] = "critical"
    BY DEF Severity
  <2>3. \A n \in 0..2 : Severity[named[n + 1]] = n + 1
    BY <2>2
  <2> DEFINE silent == \A s \in Sides : counters[s] = NoReading /\ oper[s] = "unknown"
  <2>4. silent' => silent
    BY <2>1 DEF Worse, CountsGrow
  <2>5. /\ Status = IF Level = 0 /\ silent THEN "unknown" ELSE named[Level + 1]
        /\ Status' = IF Level' = 0 /\ silent' THEN "unknown" ELSE named[Level' + 1]
    BY DEF Status
  <2> HIDE DEF named, silent
  <2>6. Severity[Status] = IF Level = 0 /\ silent THEN 0 ELSE Level + 1
    BY <2>1, <2>2, <2>3, <2>5
  <2>7. Severity[Status'] = IF Level' = 0 /\ silent' THEN 0 ELSE Level' + 1
    BY <2>1, <2>2, <2>3, <2>5
  <2>8. CASE Level' = 0 /\ silent'
    <3>1. Level = 0 /\ silent
      BY <2>1, <2>4, <2>8
    <3>2. QED
      BY <2>6, <2>7, <2>8, <3>1
  <2>9. CASE ~(Level' = 0 /\ silent')
    <3>1. Severity[Status'] = Level' + 1
      BY <2>7, <2>9
    <3>2. Severity[Status] = 0 \/ Severity[Status] = Level + 1
      BY <2>6
    <3>3. QED
      BY <2>1, <3>1, <3>2
  <2>10. QED
    BY <2>8, <2>9
<1>4. QED
  BY <1>1, <1>2, <1>3, PTL DEF HealthSpec, HealthNeverImproves

-----------------------------------------------------------------------------
(* Snapshots: applying a difference.                                        *)

DiffInv == \E l \in Maps(diff.left), r \in Maps(diff.right) :
  /\ diff.added = Without(r, l) /\ diff.removed = Without(l, r)
  /\ diff.changed = ChangesOf(l, r)

(* When no two items share a key, the map of the items is all of them. *)
LEMMA KeyedIsAll ==
  ASSUME NEW p, Keyed(p), NEW m \in Maps(p)
  PROVE  m = Items(p)
BY DEF Keyed, Maps

LEMMA Rebuilt ==
  ASSUME NEW p, NEW q, Keyed(p), Keyed(q)
  PROVE  LET L == Items(p)
             R == Items(q)
             C == ChangesOf(L, R)
         IN  R = (L \ (Without(L, R) \cup {c[1] : c \in C})) \cup Without(R, L) \cup {c[2] : c \in C}
<1> DEFINE L == Items(p)
           R == Items(q)
           C == ChangesOf(L, R)
<1>1. /\ \A i, j \in L : KeyOf(i) = KeyOf(j) => i = j
      /\ \A i, j \in R : KeyOf(i) = KeyOf(j) => i = j
  BY DEF Keyed
<1> HIDE DEF L, R
<1>2. ASSUME NEW i \in L, NEW j \in R, KeyOf(i) = KeyOf(j), i # j
      PROVE  i \in {c[1] : c \in C} /\ j \in {c[2] : c \in C}
  <2>1. <<i, j>> \in C /\ <<i, j>>[1] = i /\ <<i, j>>[2] = j
    BY <1>2 DEF ChangesOf
  <2>2. QED
    BY <2>1
<1>3. \A c \in C : c[1] \in L /\ c[2] \in R /\ KeyOf(c[1]) = KeyOf(c[2]) /\ c[1] # c[2]
  BY DEF ChangesOf
<1> HIDE DEF C
<1>4. ASSUME NEW j \in R
      PROVE  j \in (L \ (Without(L, R) \cup {c[1] : c \in C})) \cup Without(R, L) \cup {c[2] : c \in C}
  <2>1. CASE \A i \in L : KeyOf(i) # KeyOf(j)
    BY <2>1 DEF Without
  <2>2. ASSUME NEW i \in L, KeyOf(i) = KeyOf(j), i # j PROVE j \in {c[2] : c \in C}
    BY <1>2, <2>2
  <2>3. CASE j \in L
    <3>1. j \notin Without(L, R)
      BY <2>3 DEF Without
    <3>2. j \notin {c[1] : c \in C}
      BY <1>1, <1>3
    <3>3. QED
      BY <2>3, <3>1, <3>2
  <2>4. QED
    BY <2>1, <2>2, <2>3
<1>5. ASSUME NEW i \in L \ (Without(L, R) \cup {c[1] : c \in C}) PROVE i \in R
  <2>1. PICK j \in R : KeyOf(i) = KeyOf(j)
    BY DEF Without
  <2>2. QED
    BY <1>2, <2>1
<1>6. Without(R, L) \subseteq R /\ {c[2] : c \in C} \subseteq R
  BY <1>3 DEF Without
<1>7. R = (L \ (Without(L, R) \cup {c[1] : c \in C})) \cup Without(R, L) \cup {c[2] : c \in C}
  BY <1>4, <1>5, <1>6
<1>8. QED
  BY <1>7 DEF L, R, C

(* Whatever two snapshots say, and in whatever state of other sessions they *)
(* were taken, nothing is missing from their comparison                     *)
(* (SnapshotComparer.compare).                                              *)
THEOREM DiffsRebuild == SnapSpec => []DiffRebuilds
<1>1. SnapInit => DiffInv
  <2> SUFFICES ASSUME SnapInit PROVE DiffInv
    OBVIOUS
  <2>1. diff = NoDiff
    BY DEF SnapInit
  <2>2. Items(diff.left) = {} /\ Items(diff.right) = {}
    BY <2>1 DEF NoDiff, NotTaking, Items
  <2>3. {} \in Maps(diff.left) /\ {} \in Maps(diff.right)
    BY <2>2 DEF Maps
  <2>4. Without({}, {}) = {} /\ ChangesOf({}, {}) = {}
    BY DEF Without, ChangesOf
  <2>5. QED
    BY <2>1, <2>3, <2>4 DEF DiffInv, NoDiff
<1>2. DiffInv /\ [SnapNext]_snapVars => DiffInv'
  <2> SUFFICES ASSUME DiffInv, [SnapNext]_snapVars PROVE DiffInv'
    OBVIOUS
  <2>1. CASE Compare
    <3>1. PICK a \in DOMAIN stored, b \in DOMAIN stored :
            \E l \in Maps(stored[a]), r \in Maps(stored[b]) :
              diff' = [left |-> stored[a], right |-> stored[b], added |-> Without(r, l),
                       removed |-> Without(l, r), changed |-> ChangesOf(l, r)]
      BY <2>1 DEF Compare
    <3>2. PICK l \in Maps(stored[a]), r \in Maps(stored[b]) :
            diff' = [left |-> stored[a], right |-> stored[b], added |-> Without(r, l),
                     removed |-> Without(l, r), changed |-> ChangesOf(l, r)]
      BY <3>1
    <3>3. /\ diff'.left = stored[a] /\ diff'.right = stored[b] /\ diff'.added = Without(r, l)
          /\ diff'.removed = Without(l, r) /\ diff'.changed = ChangesOf(l, r)
      BY <3>2
    <3>4. l \in Maps(diff'.left) /\ r \in Maps(diff'.right)
      BY <3>3
    <3>5. QED
      BY <3>3, <3>4 DEF DiffInv
  <2>2. CASE ~Compare
    <3>1. diff' = diff
      BY <2>2 DEF SnapNext, DeviceChanges, LinkChanges, Changes, TakeDevices, TakeLinks, TakeInterfaces,
                  StoreSnapshot, snapVars
    <3>2. QED
      BY <3>1 DEF DiffInv
  <2>3. QED
    BY <2>1, <2>2
<1>3. DiffInv => DiffRebuilds
  <2> SUFFICES ASSUME DiffInv, Keyed(diff.left), Keyed(diff.right)
               PROVE  Items(diff.right) =
                        (Items(diff.left) \ (diff.removed \cup {c[1] : c \in diff.changed}))
                        \cup diff.added \cup {c[2] : c \in diff.changed}
    BY DEF DiffRebuilds
  <2>1. PICK l \in Maps(diff.left), r \in Maps(diff.right) :
          /\ diff.added = Without(r, l) /\ diff.removed = Without(l, r)
          /\ diff.changed = ChangesOf(l, r)
    BY DEF DiffInv
  <2>2. l = Items(diff.left) /\ r = Items(diff.right)
    BY KeyedIsAll
  <2>3. QED
    BY <2>1, <2>2, Rebuilt
<1>4. QED
  BY <1>1, <1>2, <1>3, PTL DEF SnapSpec

-----------------------------------------------------------------------------
(* Drawings: what a request has read, statement by statement.               *)

Progress(order) ==
  \/ view.todo = order /\ DOMAIN view.seen = {}
  \/ view.todo = <<order[2], order[3]>> /\ DOMAIN view.seen = {order[1]}
  \/ view.todo = <<order[3]>> /\ DOMAIN view.seen = {order[1], order[2]}
  \/ view.todo = <<>> /\ DOMAIN view.seen = {order[1], order[2], order[3]}

(* Devices are never deleted, so that those of the interfaces read are      *)
(* among the devices read later.                                            *)
Named(seen) ==
  /\ "ports" \in DOMAIN seen => \A p \in seen.ports : PortOf[p] \in Devices
  /\ {"ports", "devices"} \subseteq DOMAIN seen => \A p \in seen.ports : PortOf[p] \in DOMAIN seen.devices

ViewInv ==
  /\ IsFiniteSet(Devices) /\ Devices \subseteq Nat /\ IsFiniteSet(cables)
  /\ \A p \in ports : PortOf[p] \in Devices
  /\ view = [kind |-> view.kind, todo |-> view.todo, seen |-> view.seen]
  /\ "devices" \in DOMAIN view.seen => /\ IsFiniteSet(DOMAIN view.seen.devices)
                                       /\ DOMAIN view.seen.devices \subseteq Nat
  /\ "cables" \in DOMAIN view.seen => IsFiniteSet(view.seen.cables)
  /\ view.kind = "cable-map" => Progress(<<"cables", "ports", "devices">>) /\ Named(view.seen)
  /\ view.kind \in {"graph", "layout"} => Progress(<<"devices", "cables", "ports">>)

-----------------------------------------------------------------------------
LEMMA CommitsKeepViews ==
  ASSUME ViewInv, UNCHANGED view, IsFiniteSet(Devices'), Devices' \subseteq Nat, IsFiniteSet(cables'),
         Devices \subseteq Devices', \A p \in ports' : PortOf[p] \in Devices'
  PROVE  ViewInv'
BY DEF ViewInv, Progress, Named

LEMMA FoundKeepsViews ==
  ASSUME ViewInv, LinkFound
  PROVE  ViewInv'
<1>1. PICK c \in Cables \ cables :
        /\ cables' = cables \cup {c} /\ ports' = ports \cup {c[1], c[2]}
        /\ Devices' = Devices \cup {PortOf[c[1]], PortOf[c[2]]}
  BY DEF LinkFound, Devices
<1>2. PortOf[c[1]] \in Nat /\ PortOf[c[2]] \in Nat
  BY ViewAssumption
<1>3. IsFiniteSet(Devices') /\ IsFiniteSet(cables')
  <2>1. IsFiniteSet(Devices \cup {PortOf[c[1]]})
    BY FS_AddElement DEF ViewInv
  <2>2. IsFiniteSet((Devices \cup {PortOf[c[1]]}) \cup {PortOf[c[2]]})
    BY <2>1, FS_AddElement
  <2>3. Devices' = (Devices \cup {PortOf[c[1]]}) \cup {PortOf[c[2]]}
    BY <1>1
  <2>4. IsFiniteSet(cables \cup {c})
    BY FS_AddElement DEF ViewInv
  <2>5. QED
    BY <1>1, <2>2, <2>3, <2>4
<1>4. view' = view
  BY DEF LinkFound, Commits
<1>5. QED
  BY <1>1, <1>2, <1>3, <1>4, CommitsKeepViews DEF ViewInv

LEMMA ReadKeepsViews ==
  ASSUME ViewInv, ReadTable
  PROVE  ViewInv'
<1>1. PICK name : name = Head(view.todo)
  OBVIOUS
<1>2. PICK seen : seen = [n \in DOMAIN view.seen \cup {name} |-> IF n = name THEN Table(n) ELSE view.seen[n]]
  OBVIOUS
<1>3. /\ view.todo # <<>> /\ UNCHANGED <<known, ports, cables>>
      /\ view' = [view EXCEPT !.todo = Tail(@), !.seen = seen]
  BY <1>1, <1>2 DEF ReadTable
<1>4. /\ view'.kind = view.kind /\ view'.todo = Tail(view.todo) /\ view'.seen = seen
      /\ view' = [kind |-> view'.kind, todo |-> view'.todo, seen |-> view'.seen]
  BY <1>3 DEF ViewInv
<1>5. /\ DOMAIN seen = DOMAIN view.seen \cup {name}
      /\ seen[name] = Table(name)
      /\ \A n \in DOMAIN view.seen \ {name} : seen[n] = view.seen[n]
  BY <1>2
<1>6. /\ "devices" \in DOMAIN seen => /\ IsFiniteSet(DOMAIN seen.devices)
                                      /\ DOMAIN seen.devices \subseteq Nat
      /\ "cables" \in DOMAIN seen => IsFiniteSet(seen.cables)
  <2>1. /\ name = "devices" => seen.devices = known
        /\ name = "cables" => seen.cables = cables
    BY <1>5 DEF Table
  <2>2. QED
    BY <1>5, <2>1 DEF ViewInv, Devices
<1>7. ASSUME view.kind = "cable-map"
      PROVE  Progress(<<"cables", "ports", "devices">>)' /\ Named(seen)
  <2>1. Progress(<<"cables", "ports", "devices">>) /\ Named(view.seen)
    BY <1>7 DEF ViewInv
  <2>2. CASE view.todo = <<"cables", "ports", "devices">> /\ DOMAIN view.seen = {}
    <3>1. name = "cables" /\ Tail(view.todo) = <<"ports", "devices">>
      BY <1>1, <2>2
    <3>2. QED
      BY <1>4, <1>5, <2>2, <3>1 DEF Progress, Named
  <2>3. CASE view.todo = <<"ports", "devices">> /\ DOMAIN view.seen = {"cables"}
    <3>1. name = "ports" /\ Tail(view.todo) = <<"devices">> /\ seen.ports = ports
      BY <1>1, <1>5, <2>3 DEF Table
    <3>2. Named(seen)
      BY <1>5, <2>3, <3>1 DEF Named, ViewInv
    <3>3. QED
      BY <1>4, <1>5, <2>3, <3>1, <3>2 DEF Progress
  <2>4. CASE view.todo = <<"devices">> /\ DOMAIN view.seen = {"cables", "ports"}
    <3>1. name = "devices" /\ Tail(view.todo) = <<>> /\ seen.devices = known
      BY <1>1, <1>5, <2>4 DEF Table
    <3>2. Named(seen)
      BY <1>5, <2>1, <2>4, <3>1 DEF Named, Devices
    <3>3. QED
      BY <1>4, <1>5, <2>4, <3>1, <3>2 DEF Progress
  <2>5. QED
    BY <1>3, <2>1, <2>2, <2>3, <2>4 DEF Progress
<1>8. ASSUME view.kind \in {"graph", "layout"}
      PROVE  Progress(<<"devices", "cables", "ports">>)'
  <2>1. Progress(<<"devices", "cables", "ports">>)
    BY <1>8 DEF ViewInv
  <2>2. CASE view.todo = <<"devices", "cables", "ports">> /\ DOMAIN view.seen = {}
    <3>1. name = "devices" /\ Tail(view.todo) = <<"cables", "ports">>
      BY <1>1, <2>2
    <3>2. QED
      BY <1>4, <1>5, <2>2, <3>1 DEF Progress
  <2>3. CASE view.todo = <<"cables", "ports">> /\ DOMAIN view.seen = {"devices"}
    <3>1. name = "cables" /\ Tail(view.todo) = <<"ports">>
      BY <1>1, <2>3
    <3>2. QED
      BY <1>4, <1>5, <2>3, <3>1 DEF Progress
  <2>4. CASE view.todo = <<"ports">> /\ DOMAIN view.seen = {"devices", "cables"}
    <3>1. name = "ports" /\ Tail(view.todo) = <<>>
      BY <1>1, <2>4
    <3>2. QED
      BY <1>4, <1>5, <2>4, <3>1 DEF Progress
  <2>5. QED
    BY <1>3, <2>1, <2>2, <2>3, <2>4 DEF Progress
<1>9. Named(seen) => Named(view.seen)'
  BY <1>3, <1>4 DEF Named, Devices
<1>10. QED
  BY <1>3, <1>4, <1>6, <1>7, <1>8, <1>9 DEF ViewInv, Devices

LEMMA ViewStep ==
  ASSUME ViewInv, [ViewNext]_viewVars
  PROVE  ViewInv'
<1>1. CASE LinkFound
  BY <1>1, FoundKeepsViews
<1>2. CASE PortsReplaced
  <2>1. ports' \subseteq ports /\ cables' \subseteq cables /\ known' = known /\ view' = view
    BY <1>2 DEF PortsReplaced, Commits
  <2>2. IsFiniteSet(cables')
    BY <2>1, FS_Subset DEF ViewInv
  <2>3. QED
    BY <2>1, <2>2, CommitsKeepViews DEF ViewInv, Devices
<1>3. CASE RoleChanged
  <2>1. Devices' = Devices /\ ports' = ports /\ cables' = cables /\ view' = view
    BY <1>3 DEF RoleChanged, Commits, Devices
  <2>2. QED
    BY <2>1, CommitsKeepViews DEF ViewInv
<1>4. CASE ReadTable
  BY <1>4, ReadKeepsViews
<1>5. ASSUME NEW kind \in Views, Ask(kind) PROVE ViewInv'
  <2>1. view' = [kind |-> kind, todo |-> Reads(kind), seen |-> <<>>] /\ UNCHANGED <<known, ports, cables>>
    BY <1>5 DEF Ask
  <2>2. view'.kind = kind /\ view'.todo = Reads(kind) /\ DOMAIN view'.seen = {}
    BY <2>1
  <2>3. /\ kind = "cable-map" => Progress(<<"cables", "ports", "devices">>)'
        /\ kind \in {"graph", "layout"} => Progress(<<"devices", "cables", "ports">>)'
    BY <2>2 DEF Progress, Reads
  <2>4. Named(view.seen)'
    BY <2>2 DEF Named
  <2>5. QED
    BY <2>1, <2>2, <2>3, <2>4 DEF ViewInv, Devices
<1>6. CASE UNCHANGED viewVars
  BY <1>6 DEF viewVars, ViewInv, Progress, Named, Devices
<1>7. QED
  BY <1>1, <1>2, <1>3, <1>4, <1>5, <1>6 DEF ViewNext

LEMMA ViewInitHolds == ViewInit => ViewInv
<1> SUFFICES ASSUME ViewInit PROVE ViewInv
  OBVIOUS
<1>1. Devices = {} /\ ports = {} /\ cables = {} /\ IsFiniteSet({})
  BY FS_EmptySet DEF ViewInit, Devices
<1>2. view = [kind |-> "none", todo |-> <<>>, seen |-> <<>>] /\ DOMAIN view.seen = {}
  BY DEF ViewInit
<1>3. QED
  BY <1>1, <1>2 DEF ViewInv

(* The cable map reads links and interfaces before devices, and so knows    *)
(* the device at each end of a path (cable_map).                            *)
THEOREM CablesHaveEnds == ViewSpec => []CableEndsNamed
<1>1. ViewInv /\ [ViewNext]_viewVars => ViewInv'
  BY ViewStep
<1>2. ViewInv => CableEndsNamed
  BY DEF ViewInv, CableEndsNamed, Answered, Progress, Named, Edges, Drawn
<1>3. QED
  BY <1>1, <1>2, ViewInitHolds, PTL DEF ViewSpec

(* Below n there are fewer than below a later member, and fewer than all. *)
LEMMA BelowGrows ==
  ASSUME NEW S, IsFiniteSet(S), S \subseteq Nat, NEW d \in S, NEW e \in S, d < e
  PROVE  Cardinality({n \in S : n < d}) < Cardinality({n \in S : n < e})
<1> DEFINE D == {n \in S : n < d}
           E == {n \in S : n < e}
<1>1. D \subseteq E /\ d \in E /\ d \notin D /\ E \subseteq S
  <2>1. \A n \in S : n \in Nat
    OBVIOUS
  <2>2. D \subseteq E
    <3> SUFFICES ASSUME NEW n \in S, n < d PROVE n < e
      OBVIOUS
    <3>1. n \in Nat /\ d \in Nat /\ e \in Nat
      BY <2>1
    <3>2. QED
      BY <3>1
  <2>3. d \in E /\ d \notin D
    BY <2>1
  <2>4. QED
    BY <2>2, <2>3
<1> HIDE DEF D, E
<1>2. IsFiniteSet(E) /\ IsFiniteSet(D) /\ Cardinality(D) <= Cardinality(E)
  BY <1>1, FS_Subset
<1>3. Cardinality(D) # Cardinality(E)
  <2>1. Cardinality(E) = Cardinality(D) => E = D
    BY <1>1, <1>2, FS_Subset
  <2>2. QED
    BY <1>1, <2>1
<1>4. Cardinality(D) \in Nat /\ Cardinality(E) \in Nat
  BY <1>2, FS_CardinalityType
<1>5. Cardinality(D) < Cardinality(E)
  BY <1>2, <1>3, <1>4
<1>6. QED
  BY <1>5 DEF D, E

LEMMA BelowIsFewer ==
  ASSUME NEW S, IsFiniteSet(S), S \subseteq Nat, NEW d \in S
  PROVE  Cardinality({n \in S : n < d}) < Cardinality(S)
<1> DEFINE D == {n \in S : n < d}
<1>1. D \subseteq S /\ d \notin D
  OBVIOUS
<1> HIDE DEF D
<1>2. IsFiniteSet(D) /\ Cardinality(D) <= Cardinality(S)
  BY <1>1, FS_Subset
<1>3. Cardinality(D) # Cardinality(S)
  <2>1. Cardinality(S) = Cardinality(D) => S = D
    BY <1>1, FS_Subset
  <2>2. QED
    BY <1>1, <2>1
<1>4. Cardinality(D) \in Nat /\ Cardinality(S) \in Nat
  BY <1>2, FS_CardinalityType
<1>5. Cardinality(D) < Cardinality(S)
  BY <1>2, <1>3, <1>4
<1>6. QED
  BY <1>5 DEF D

(* Two finite sets with at most one member between them. *)
LEMMA AtMostOne ==
  ASSUME NEW A, NEW B, IsFiniteSet(A), IsFiniteSet(B), Cardinality(A) + Cardinality(B) <= 1,
         NEW x \in A \cup B, NEW y \in A \cup B
  PROVE  x = y
<1>1. \A S : IsFiniteSet(S) => Cardinality(S) \in Nat
  BY FS_CardinalityType
<1>2. \A S : IsFiniteSet(S) => (Cardinality(S) = 0 <=> S = {})
  BY FS_EmptySet
<1>3. \A S : IsFiniteSet(S) => (Cardinality(S) = 1 <=> \E z : S = {z})
  BY FS_Singleton
<1>4. \/ A = {}
      \/ B = {}
  <2> SUFFICES ASSUME Cardinality(A) # 0, Cardinality(B) # 0 PROVE FALSE
    BY <1>2
  <2>1. Cardinality(A) \in Nat /\ Cardinality(B) \in Nat
    BY <1>1
  <2>2. QED
    BY <2>1
<1>5. ASSUME NEW S, IsFiniteSet(S), Cardinality(S) <= 1, x \in S, y \in S PROVE x = y
  <2>1. Cardinality(S) \in Nat /\ Cardinality(S) # 0
    BY <1>1, <1>2, <1>5
  <2>2. Cardinality(S) = 1
    BY <1>5, <2>1
  <2>3. PICK z : S = {z}
    BY <1>3, <1>5, <2>2
  <2>4. QED
    BY <1>5, <2>3
<1>6. Cardinality(A) \in Nat /\ Cardinality(B) \in Nat
  BY <1>1
<1>7. CASE A = {}
  <2>1. Cardinality(B) <= 1
    BY <1>6
  <2>2. QED
    BY <1>5, <1>7, <2>1
<1>8. CASE B = {}
  <2>1. Cardinality(A) <= 1
    BY <1>6
  <2>2. QED
    BY <1>5, <1>8, <2>1
<1>9. QED
  BY <1>4, <1>7, <1>8

(* The layout puts every device on a place of its own, for any number of    *)
(* devices and links, and collapses none that joins others                  *)
(* (TopologyLayoutService.layout).                                          *)
LEMMA LayoutIsRight == ViewInv => LayoutPlacesEach
<1> SUFFICES ASSUME ViewInv, Answered("graph") \/ Answered("layout"), NEW d \in Drawn
             PROVE  /\ Layout[d].column < Layout[d].columns
                    /\ \A e \in Drawn \ {d} : Layout[e].rank = Layout[d].rank =>
                         Layout[e].column # Layout[d].column /\ Layout[e].columns = Layout[d].columns
                    /\ Layout[d].cluster = "collapse" =>
                         \A c1, c2 \in Edges : d \in {PortOf[c1[1]], PortOf[c1[2]]}
                                            /\ d \in {PortOf[c2[1]], PortOf[c2[2]]} => c1 = c2
  BY DEF LayoutPlacesEach
<1>1. DOMAIN view.seen = {"devices", "cables", "ports"}
  <2>1. view.todo = <<>> /\ Progress(<<"devices", "cables", "ports">>)
    BY DEF ViewInv, Answered
  <2>2. QED
    BY <2>1 DEF Progress
<1>2. IsFiniteSet(Drawn) /\ Drawn \subseteq Nat /\ IsFiniteSet(view.seen.cables)
  BY <1>1 DEF ViewInv, Drawn
<1>3. IsFiniteSet(Edges)
  <2>1. Edges \subseteq view.seen.cables
    BY DEF Edges
  <2>2. QED
    BY <1>2, <2>1, FS_Subset
<1> DEFINE A(f) == {c \in Edges : PortOf[c[1]] = f}
           B(f) == {c \in Edges : PortOf[c[2]] = f}
           Degree(f) == Cardinality(A(f)) + Cardinality(B(f))
<1>4. ASSUME NEW f \in Drawn
      PROVE  /\ Layout[f].rank = Rank(f) /\ Layout[f].column = Cardinality({e \in Row(f) : e < f})
             /\ Layout[f].columns = Cardinality(Row(f))
             /\ Layout[f].cluster = "collapse" => Degree(f) <= 1
  <2>1. Layout[f] =
          [rank |-> Rank(f), column |-> Cardinality({e \in Row(f) : e < f}),
           columns |-> Cardinality(Row(f)), degree |-> Degree(f),
           cluster |-> IF Degree(f) <= 1 /\ Rank(f) >= 5 THEN "collapse" ELSE "expand"]
    BY DEF Layout
  <2> HIDE DEF Degree
  <2>2. Layout[f].cluster = IF Degree(f) <= 1 /\ Rank(f) >= 5 THEN "collapse" ELSE "expand"
    BY <2>1
  <2>3. QED
    BY <2>1, <2>2
<1>5. ASSUME NEW f \in Drawn
      PROVE  f \in Row(f) /\ IsFiniteSet(Row(f)) /\ Row(f) \subseteq Nat
  <2>1. Row(f) \subseteq Drawn /\ f \in Row(f)
    BY DEF Row
  <2>2. QED
    BY <1>2, <2>1, FS_Subset
<1>6. Layout[d].column < Layout[d].columns
  BY <1>4, <1>5, BelowIsFewer
<1>7. ASSUME NEW e \in Drawn \ {d}, Layout[e].rank = Layout[d].rank
      PROVE  Layout[e].column # Layout[d].column /\ Layout[e].columns = Layout[d].columns
  <2>1. Row(e) = Row(d) /\ e \in Row(d)
    BY <1>4, <1>7 DEF Row
  <2>2. PICK S : S = Row(d)
    OBVIOUS
  <2>3. IsFiniteSet(S) /\ S \subseteq Nat /\ d \in S /\ e \in S
    BY <1>5, <2>1, <2>2
  <2>4. /\ Cardinality({n \in S : n < d}) \in Nat /\ Cardinality({n \in S : n < e}) \in Nat
    <3>1. {n \in S : n < d} \subseteq S /\ {n \in S : n < e} \subseteq S
      OBVIOUS
    <3>2. QED
      BY <2>3, <3>1, FS_Subset, FS_CardinalityType
  <2>5. Cardinality({n \in S : n < d}) # Cardinality({n \in S : n < e})
    <3>1. d < e \/ e < d
      BY <1>7, <2>3
    <3>2. CASE d < e
      <4>1. Cardinality({n \in S : n < d}) < Cardinality({n \in S : n < e})
        BY <2>3, <3>2, BelowGrows
      <4>2. QED
        BY <2>4, <4>1
    <3>3. CASE e < d
      <4>1. Cardinality({n \in S : n < e}) < Cardinality({n \in S : n < d})
        BY <2>3, <3>3, BelowGrows
      <4>2. QED
        BY <2>4, <4>1
    <3>4. QED
      BY <3>1, <3>2, <3>3
  <2>6. QED
    BY <1>4, <2>1, <2>2, <2>5
<1>8. ASSUME Layout[d].cluster = "collapse", NEW c1 \in Edges, NEW c2 \in Edges,
             d \in {PortOf[c1[1]], PortOf[c1[2]]}, d \in {PortOf[c2[1]], PortOf[c2[2]]}
      PROVE  c1 = c2
  <2>1. Degree(d) <= 1
    BY <1>4, <1>8
  <2>2. A(d) \subseteq Edges /\ B(d) \subseteq Edges /\ c1 \in A(d) \cup B(d) /\ c2 \in A(d) \cup B(d)
    BY <1>8
  <2>3. IsFiniteSet(A(d)) /\ IsFiniteSet(B(d))
    BY <1>3, <2>2, FS_Subset
  <2> HIDE DEF A, B
  <2>4. QED
    BY <2>1, <2>2, <2>3, AtMostOne
<1>9. QED
  BY <1>6, <1>7, <1>8

(* Whatever discovery commits between the statements of a request, the      *)
(* drawing it answers with is a layout of the devices it has read.          *)
THEOREM LayoutsPlaceEach == ViewSpec => []LayoutPlacesEach
<1>1. ViewInv /\ [ViewNext]_viewVars => ViewInv'
  BY ViewStep
<1>2. QED
  BY <1>1, LayoutIsRight, ViewInitHolds, PTL DEF ViewSpec

-----------------------------------------------------------------------------
(* The trace of an endpoint: what each statement leaves possible.           *)

(* No row of table t that was there all along has the MAC address asked     *)
(* for, or the name.                                                        *)
NoMac(t) == \A r \in staying : r.table = t => r.mac # trace.q
NoName(t) == \A r \in staying : r.table = t => r.name # trace.q

(* What is known when nothing has been found yet. *)
Cleared ==
  /\ trace.at \in {"arp", "devices", "interfaces", "names", "ipam", "not found", "failed"} => NoMac("fdb")
  /\ trace.at \in {"devices", "interfaces", "names", "ipam", "not found", "failed"} => NoMac("arp")
  /\ trace.at \in {"interfaces", "names", "ipam", "not found", "failed"} => NoMac("device")
  /\ trace.at \in {"names", "ipam", "not found", "failed"} => NoMac("interface")
  /\ trace.at \in {"ipam", "not found", "failed"} => NoName("device")
  /\ trace.at \in {"not found", "failed"} => NoName("ipam")

Grounded == \E r \in EndpointRows : /\ r.dev = trace.connected /\ r.mac = trace.mac
                                    /\ r.port = trace.port /\ r.vlan = trace.vlan

TraceInv ==
  /\ staying \subseteq rows /\ rows \subseteq EndpointRows
  /\ DOMAIN trace = {"q", "at", "sources", "mac", "connected", "port", "vlan", "endpoint"}
  /\ trace.at \in {"none", "fdb", "arp", "devices", "interfaces", "names", "ipam", "ipam fdb",
                   "found", "not found", "failed"}
  /\ trace.at # "none" => trace.q \in TraceMacs \cup TraceAddresses \cup TraceHosts
  /\ trace.at \in {"fdb", "arp", "devices", "interfaces"} => trace.mac = trace.q /\ trace.q \in TraceMacs
  /\ trace.at \in {"none", "fdb", "names", "ipam", "not found", "failed"} => trace.sources = {}
  /\ trace.at = "ipam fdb" => trace.connected = Nothing /\ trace.sources # {}
  /\ trace.sources = {} => trace.connected = Nothing
  /\ trace.connected = Nothing => trace.vlan = Nothing
  /\ trace.connected # Nothing => Grounded
  /\ trace.sources = {} /\ Readable => Cleared

-----------------------------------------------------------------------------
(* With the whole table in reach, a hit that is there is found. *)
LEMMA HitIsFound ==
  ASSUME NEW t, rows \subseteq EndpointRows, NEW limit \in Nat, Cardinality(RowsOf(t)) <= limit,
         NEW hits \in SUBSET In(t), Nothing \in FirstHit(In(t), hits, limit)
  PROVE  hits = {}
<1>1. In(t) \subseteq RowsOf(t) /\ RowsOf(t) \subseteq EndpointRows
  BY DEF In, RowsOf
<1> DEFINE all == In(t)
           n == Cardinality(all)
<1>2. IsFiniteSet(RowsOf(t)) /\ IsFiniteSet(all) /\ n <= Cardinality(RowsOf(t))
  <2>1. IsFiniteSet(RowsOf(t))
    BY <1>1, TraceAssumption, FS_Subset
  <2>2. QED
    BY <1>1, <2>1, FS_Subset
<1>3. Nothing \notin hits
  BY TraceAssumption DEF In
<1>4. Cardinality(all \ hits) >= SmallerOf(limit, n)
  BY <1>3 DEF FirstHit
<1> HIDE DEF all
<1>5. n \in Nat /\ Cardinality(RowsOf(t)) \in Nat /\ Cardinality(all \ hits) \in Nat
  <2>1. all \ hits \subseteq all
    OBVIOUS
  <2>2. IsFiniteSet(all \ hits)
    BY <1>2, <2>1, FS_Subset
  <2>3. QED
    BY <1>2, <2>2, FS_CardinalityType
<1>6. SmallerOf(limit, n) = n
  <2> HIDE DEF n
  <2>1. n <= limit
    BY <1>2, <1>5
  <2>2. QED
    BY <1>5, <2>1 DEF SmallerOf
<1>7. Cardinality(all \ hits) = Cardinality(all)
  <2>1. Cardinality(all \ hits) <= Cardinality(all)
    BY <1>2, FS_Subset
  <2>2. QED
    BY <1>4, <1>5, <1>6, <2>1
<1>8. all \ hits = all
  BY <1>2, <1>7, FS_Subset
<1>9. QED
  BY <1>8 DEF all

(* A hit is one of the rows with the MAC address. *)
LEMMA HitHasMac ==
  ASSUME rows \subseteq EndpointRows, NEW t, NEW limit, NEW r \in FirstHit(In(t), OfMac(t), limit), r # Nothing
  PROVE  r \in EndpointRows /\ r.table = t /\ r.mac = trace.mac
BY DEF FirstHit, OfMac, In

LEMMA NoHitNoMac ==
  ASSUME TraceInv, NEW t, NEW limit \in Nat, Cardinality(RowsOf(t)) <= limit,
         Nothing \in FirstHit(In(t), OfMac(t), limit), trace.mac = trace.q, trace.q \in TraceMacs
  PROVE  NoMac(t)
<1>1. OfMac(t) = {}
  <2>1. OfMac(t) \subseteq In(t)
    BY DEF OfMac
  <2>2. QED
    BY <2>1, HitIsFound DEF TraceInv
<1>2. trace.q # Nothing
  BY TraceAssumption
<1>3. QED
  BY <1>1, <1>2 DEF NoMac, OfMac, In, TraceInv

LEMMA ReadFdbKeeps ==
  ASSUME TraceInv, ReadFdb
  PROVE  TraceInv'
<1>1. /\ trace.at = "fdb" /\ trace.mac = trace.q /\ trace.q \in TraceMacs /\ trace.sources = {}
      /\ trace.connected = Nothing /\ trace.vlan = Nothing /\ UNCHANGED <<rows, staying>>
  BY DEF ReadFdb, TraceReads, TraceInv
<1>2. PICK r \in FirstHit(In("fdb"), OfMac("fdb"), FdbLimit) :
        trace' = IF r = Nothing THEN [trace EXCEPT !.at = "arp"]
                 ELSE [Connects(trace, r) EXCEPT !.at = "arp", !.sources = {"fdb"}]
  BY DEF ReadFdb
<1>3. CASE r = Nothing
  <2>1. Readable => NoMac("fdb")
    BY <1>1, <1>2, <1>3, NoHitNoMac, TraceAssumption DEF Readable
  <2>2. trace' = [trace EXCEPT !.at = "arp"]
    BY <1>2, <1>3
  <2>3. trace'.at = "arp" /\ trace'.q = trace.q /\ trace'.mac = trace.mac /\ trace'.sources = {}
        /\ trace'.connected = Nothing /\ trace'.vlan = Nothing /\ DOMAIN trace' = DOMAIN trace
    BY <1>1, <2>2 DEF TraceInv
  <2>4. Readable => Cleared'
    BY <1>1, <2>1, <2>3 DEF Cleared, NoMac
  <2>5. QED
    BY <1>1, <2>3, <2>4 DEF TraceInv
<1>4. CASE r # Nothing
  <2>1. r \in EndpointRows /\ r.table = "fdb" /\ r.mac = trace.mac /\ r.dev # Nothing
    <3>1. rows \subseteq EndpointRows
      BY DEF TraceInv
    <3>2. r \in EndpointRows /\ r.table = "fdb" /\ r.mac = trace.mac
      BY <1>4, <3>1, HitHasMac
    <3>3. QED
      BY <3>2, ColumnsAssumption
  <2>2. trace' = [[trace EXCEPT !.connected = r.dev, !.port = r.port, !.vlan = r.vlan]
                    EXCEPT !.at = "arp", !.sources = {"fdb"}]
    BY <1>2, <1>4 DEF Connects
  <2>3. /\ trace'.at = "arp" /\ trace'.q = trace.q /\ trace'.mac = trace.mac /\ trace'.sources # {}
        /\ trace'.connected = r.dev /\ trace'.port = r.port /\ trace'.vlan = r.vlan
        /\ DOMAIN trace' = DOMAIN trace
    BY <2>2 DEF TraceInv
  <2>4. Grounded'
    BY <2>1, <2>3 DEF Grounded
  <2>5. QED
    BY <1>1, <2>1, <2>3, <2>4 DEF TraceInv
<1>5. QED
  BY <1>3, <1>4

LEMMA ReadArpKeeps ==
  ASSUME TraceInv, ReadArp
  PROVE  TraceInv'
<1>1. /\ trace.at = "arp" /\ trace.mac = trace.q /\ trace.q \in TraceMacs
      /\ UNCHANGED <<rows, staying>>
  BY DEF ReadArp, TraceReads, TraceInv
<1>2. PICK r \in FirstHit(In("arp"), OfMac("arp"), FdbLimit) :
        trace' = IF r = Nothing THEN [trace EXCEPT !.at = "devices"]
                 ELSE [ArpFound(trace, r) EXCEPT !.at = "devices", !.sources = @ \cup {"arp"}]
  BY DEF ReadArp
<1>3. CASE r = Nothing
  <2>1. Readable => NoMac("arp")
    BY <1>1, <1>2, <1>3, NoHitNoMac, TraceAssumption DEF Readable
  <2>2. trace' = [trace EXCEPT !.at = "devices"]
    BY <1>2, <1>3
  <2>3. /\ trace'.at = "devices" /\ trace'.q = trace.q /\ trace'.mac = trace.mac
        /\ trace'.sources = trace.sources /\ trace'.connected = trace.connected
        /\ trace'.port = trace.port /\ trace'.vlan = trace.vlan /\ DOMAIN trace' = DOMAIN trace
    BY <2>2 DEF TraceInv
  <2>4. trace.sources = {} /\ Readable => Cleared'
    BY <1>1, <2>1, <2>3 DEF Cleared, NoMac, TraceInv
  <2>5. trace.connected # Nothing => Grounded'
    BY <2>3 DEF TraceInv, Grounded
  <2>6. QED
    BY <1>1, <2>3, <2>4, <2>5 DEF TraceInv
<1>4. CASE r # Nothing
  <2>1. r \in EndpointRows /\ r.mac = trace.mac /\ r.dev # Nothing /\ r.vlan = Nothing
    <3>1. rows \subseteq EndpointRows
      BY DEF TraceInv
    <3>2. r \in EndpointRows /\ r.table = "arp" /\ r.mac = trace.mac
      BY <1>4, <3>1, HitHasMac
    <3>3. QED
      BY <3>2, ColumnsAssumption
  <2>2. trace' = [ArpFound(trace, r) EXCEPT !.at = "devices", !.sources = @ \cup {"arp"}]
    BY <1>2, <1>4
  <2>3. /\ trace'.at = "devices" /\ trace'.q = trace.q /\ trace'.mac = trace.mac /\ trace'.sources # {}
        /\ trace'.vlan = trace.vlan /\ DOMAIN trace' = DOMAIN trace
        /\ IF trace.connected = Nothing THEN trace'.connected = r.dev /\ trace'.port = r.port
           ELSE trace'.connected = trace.connected /\ trace'.port = trace.port
    BY <2>2 DEF ArpFound, TraceInv
  <2>4. Grounded' /\ trace'.connected # Nothing
    <3>1. CASE trace.connected = Nothing
      BY <2>1, <2>3, <3>1 DEF Grounded, TraceInv
    <3>2. CASE trace.connected # Nothing
      BY <2>3, <3>2 DEF Grounded, TraceInv
    <3>3. QED
      BY <3>1, <3>2
  <2>5. QED
    BY <1>1, <2>3, <2>4 DEF TraceInv
<1>5. QED
  BY <1>3, <1>4

(* The later statements leave the switch and port as they are, or find the  *)
(* endpoint without them.                                                   *)
LEMMA ReadDevicesKeeps ==
  ASSUME TraceInv, ReadDeviceMacs
  PROVE  TraceInv'
<1>1. /\ trace.at = "devices" /\ trace.mac = trace.q /\ trace.q \in TraceMacs
      /\ UNCHANGED <<rows, staying>>
  BY DEF ReadDeviceMacs, TraceReads, TraceInv
<1>2. trace' \in IF OfMac("device") = {} THEN {[trace EXCEPT !.at = "interfaces"]}
                 ELSE {[trace EXCEPT !.at = "found", !.endpoint = r.dev,
                          !.sources = @ \cup {"device"}] : r \in OfMac("device")}
  BY DEF ReadDeviceMacs
<1>3. /\ trace'.q = trace.q /\ trace'.mac = trace.mac /\ trace'.connected = trace.connected
      /\ trace'.port = trace.port /\ trace'.vlan = trace.vlan /\ DOMAIN trace' = DOMAIN trace
      /\ \/ trace'.at = "found" /\ trace'.sources # {}
         \/ trace'.at = "interfaces" /\ trace'.sources = trace.sources /\ OfMac("device") = {}
  <2>1. CASE OfMac("device") = {}
    <3>1. trace' = [trace EXCEPT !.at = "interfaces"]
      BY <1>2, <2>1
    <3>2. QED
      BY <2>1, <3>1 DEF TraceInv
  <2>2. CASE OfMac("device") # {}
    <3>1. PICK r \in OfMac("device") :
            trace' = [trace EXCEPT !.at = "found", !.endpoint = r.dev, !.sources = @ \cup {"device"}]
      BY <1>2, <2>2
    <3>2. QED
      BY <3>1 DEF TraceInv
  <2>3. QED
    BY <2>1, <2>2
<1>4. trace.connected # Nothing => Grounded'
  BY <1>3 DEF TraceInv, Grounded
<1>5. OfMac("device") = {} => NoMac("device")
  <2>1. trace.q # Nothing
    BY <1>1, TraceAssumption
  <2>2. QED
    BY <1>1, <2>1 DEF OfMac, In, NoMac, TraceInv
<1>6. trace'.sources = {} /\ Readable => Cleared'
  BY <1>1, <1>3, <1>5 DEF Cleared, NoMac, TraceInv
<1>7. QED
  BY <1>1, <1>3, <1>4, <1>6 DEF TraceInv

LEMMA ReadInterfacesKeeps ==
  ASSUME TraceInv, ReadInterfaces
  PROVE  TraceInv'
<1>1. /\ trace.at = "interfaces" /\ trace.mac = trace.q /\ trace.q \in TraceMacs
      /\ UNCHANGED <<rows, staying>>
  BY DEF ReadInterfaces, TraceReads, TraceInv
<1>2. PICK r \in FirstHit(In("interface"), OfMac("interface"), IfaceLimit) :
        trace' = IF r = Nothing THEN Missing(trace, "names")
                 ELSE [trace EXCEPT !.at = "found", !.endpoint = r.dev, !.sources = @ \cup {"interface"}]
  BY DEF ReadInterfaces
<1>3. /\ trace'.q = trace.q /\ trace'.mac = trace.mac /\ trace'.connected = trace.connected
      /\ trace'.port = trace.port /\ trace'.vlan = trace.vlan /\ DOMAIN trace' = DOMAIN trace
      /\ \/ trace'.at = "found" /\ trace'.sources # {}
         \/ trace'.at = "names" /\ trace'.sources = {} /\ trace.sources = {} /\ r = Nothing
  BY <1>2 DEF TraceInv, Missing
<1>4. trace.connected # Nothing => Grounded'
  BY <1>3 DEF TraceInv, Grounded
<1>5. r = Nothing /\ Readable => NoMac("interface")
  BY <1>1, <1>2, NoHitNoMac, TraceAssumption DEF Readable
<1>6. trace'.sources = {} /\ Readable => Cleared'
  BY <1>1, <1>3, <1>5 DEF Cleared, NoMac, TraceInv
<1>7. QED
  BY <1>1, <1>3, <1>4, <1>6 DEF TraceInv

LEMMA ReadNamesKeeps ==
  ASSUME TraceInv, ReadNames
  PROVE  TraceInv'
<1> DEFINE named == {r \in In("device") : r.name = trace.q}
<1>1. /\ trace.at = "names" /\ trace.sources = {} /\ trace.connected = Nothing /\ trace.vlan = Nothing
      /\ UNCHANGED <<rows, staying>>
  BY DEF ReadNames, TraceReads, TraceInv
<1>2. trace' \in IF named = {} THEN {[trace EXCEPT !.at = "ipam"]}
                 ELSE {[trace EXCEPT !.at = "found", !.endpoint = r.dev, !.mac = r.mac,
                          !.sources = {"device"}] : r \in named}
  BY DEF ReadNames
<1>3. named = {} => NoName("device")
  BY DEF In, NoName, TraceInv
<1> HIDE DEF named
<1>4. /\ trace'.q = trace.q /\ trace'.connected = Nothing /\ trace'.vlan = Nothing
      /\ DOMAIN trace' = DOMAIN trace
      /\ \/ trace'.at = "found" /\ trace'.sources # {}
         \/ trace'.at = "ipam" /\ trace'.sources = {} /\ named = {}
  <2>1. CASE named = {}
    <3>1. trace' = [trace EXCEPT !.at = "ipam"]
      BY <1>2, <2>1
    <3>2. QED
      BY <1>1, <2>1, <3>1 DEF TraceInv
  <2>2. CASE named # {}
    <3>1. PICK r \in named :
            trace' = [trace EXCEPT !.at = "found", !.endpoint = r.dev, !.mac = r.mac, !.sources = {"device"}]
      BY <1>2, <2>2
    <3>2. QED
      BY <1>1, <3>1 DEF TraceInv
  <2>3. QED
    BY <2>1, <2>2
<1>5. trace'.sources = {} /\ Readable => Cleared'
  BY <1>1, <1>3, <1>4 DEF Cleared, NoMac, NoName, TraceInv
<1>6. QED
  BY <1>1, <1>4, <1>5 DEF TraceInv

LEMMA ReadIpamKeeps ==
  ASSUME TraceInv, ReadIpam
  PROVE  TraceInv'
<1> DEFINE named == {r \in In("ipam") : r.name = trace.q}
<1>1. /\ trace.at = "ipam" /\ trace.sources = {} /\ trace.connected = Nothing /\ trace.vlan = Nothing
      /\ UNCHANGED <<rows, staying>>
  BY DEF ReadIpam, TraceReads, TraceInv
<1>2. trace' \in IF trace.q \notin TraceAddresses THEN {[trace EXCEPT !.at = "failed"]}
                 ELSE IF named = {} THEN {[trace EXCEPT !.at = "not found"]}
                 ELSE {[trace EXCEPT !.at = IF r.mac = Nothing THEN "found" ELSE "ipam fdb",
                          !.endpoint = r.dev, !.mac = r.mac, !.sources = {"ipam"}] : r \in named}
  BY DEF ReadIpam
<1>3. named = {} \/ trace.q \notin TraceAddresses => NoName("ipam")
  <2>1. named = {} => NoName("ipam")
    BY DEF In, NoName, TraceInv
  <2>2. trace.q \in TraceMacs \cup TraceAddresses \cup TraceHosts
    BY <1>1 DEF TraceInv
  <2>3. \A r \in staying : r.table = "ipam" => r.name \notin TraceMacs \cup (TraceHosts \ TraceAddresses)
    BY ColumnsAssumption DEF TraceInv
  <2>4. trace.q \notin TraceAddresses => NoName("ipam")
    BY <2>2, <2>3 DEF NoName
  <2>5. QED
    BY <2>1, <2>4
<1> HIDE DEF named
<1>4. /\ trace'.q = trace.q /\ trace'.connected = Nothing /\ trace'.vlan = Nothing
      /\ DOMAIN trace' = DOMAIN trace
      /\ \/ trace'.at \in {"found", "ipam fdb"} /\ trace'.sources # {}
         \/ /\ trace'.at \in {"not found", "failed"} /\ trace'.sources = {}
            /\ named = {} \/ trace.q \notin TraceAddresses
  <2>1. CASE named = {} \/ trace.q \notin TraceAddresses
    <3>1. PICK step \in {"not found", "failed"} : trace' = [trace EXCEPT !.at = step]
      BY <1>2, <2>1
    <3>2. QED
      BY <1>1, <2>1, <3>1 DEF TraceInv
  <2>2. CASE ~(named = {} \/ trace.q \notin TraceAddresses)
    <3>1. PICK r \in named :
            trace' = [trace EXCEPT !.at = IF r.mac = Nothing THEN "found" ELSE "ipam fdb",
                        !.endpoint = r.dev, !.mac = r.mac, !.sources = {"ipam"}]
      BY <1>2, <2>2
    <3>2. QED
      BY <1>1, <3>1 DEF TraceInv
  <2>3. QED
    BY <2>1, <2>2
<1>5. trace'.sources = {} /\ Readable => Cleared'
  BY <1>1, <1>3, <1>4 DEF Cleared, NoMac, NoName, TraceInv
<1>6. QED
  BY <1>1, <1>4, <1>5 DEF TraceInv

LEMMA ReadIpamFdbKeeps ==
  ASSUME TraceInv, ReadIpamFdb, trace.sources # {}
  PROVE  TraceInv'
<1>1. trace.at = "ipam fdb" /\ trace.connected = Nothing /\ trace.vlan = Nothing /\ UNCHANGED <<rows, staying>>
  BY DEF ReadIpamFdb, TraceReads, TraceInv
<1>2. PICK r \in FirstHit(In("fdb"), OfMac("fdb"), IpamFdbLimit) :
        trace' = IF r = Nothing THEN [trace EXCEPT !.at = "found"]
                 ELSE [Connects(trace, r) EXCEPT !.at = "found", !.sources = @ \cup {"fdb"}]
  BY DEF ReadIpamFdb
<1>3. CASE r = Nothing
  <2>1. trace' = [trace EXCEPT !.at = "found"]
    BY <1>2, <1>3
  <2>2. /\ trace'.at = "found" /\ trace'.q = trace.q /\ trace'.sources # {} /\ trace'.connected = Nothing
        /\ trace'.vlan = Nothing /\ DOMAIN trace' = DOMAIN trace
    BY <1>1, <2>1 DEF TraceInv
  <2>3. QED
    BY <1>1, <2>2 DEF TraceInv
<1>4. CASE r # Nothing
  <2>1. r \in EndpointRows /\ r.mac = trace.mac /\ r.dev # Nothing
    <3>1. r \in EndpointRows /\ r.table = "fdb" /\ r.mac = trace.mac
      <4>1. rows \subseteq EndpointRows
        BY DEF TraceInv
      <4>2. QED
        BY <1>4, <4>1, HitHasMac
    <3>2. QED
      BY <3>1, ColumnsAssumption
  <2>2. trace' = [[trace EXCEPT !.connected = r.dev, !.port = r.port, !.vlan = r.vlan]
                    EXCEPT !.at = "found", !.sources = @ \cup {"fdb"}]
    BY <1>2, <1>4 DEF Connects
  <2>3. /\ trace'.at = "found" /\ trace'.q = trace.q /\ trace'.mac = trace.mac /\ trace'.sources # {}
        /\ trace'.connected = r.dev /\ trace'.port = r.port /\ trace'.vlan = r.vlan
        /\ DOMAIN trace' = DOMAIN trace
    BY <2>2 DEF TraceInv
  <2>4. Grounded'
    BY <2>1, <2>3 DEF Grounded
  <2>5. QED
    BY <1>1, <2>1, <2>3, <2>4 DEF TraceInv
<1>5. QED
  BY <1>3, <1>4

LEMMA TraceStep ==
  ASSUME TraceInv, [TraceNext]_traceVars
  PROVE  TraceInv'
<1>1. CASE Asks
  <2>1. PICK q \in TraceMacs \cup TraceAddresses \cup TraceHosts :
          trace' = [Fresh EXCEPT !.q = q, !.at = IF q \in TraceMacs THEN "fdb" ELSE "names",
                      !.mac = IF q \in TraceMacs THEN q ELSE Nothing]
    BY <1>1 DEF Asks
  <2>2. /\ trace'.q = q /\ trace'.at = (IF q \in TraceMacs THEN "fdb" ELSE "names")
        /\ trace'.mac = (IF q \in TraceMacs THEN q ELSE Nothing)
        /\ trace'.sources = {} /\ trace'.connected = Nothing /\ trace'.vlan = Nothing
        /\ DOMAIN trace' = {"q", "at", "sources", "mac", "connected", "port", "vlan", "endpoint"}
    BY <2>1 DEF Fresh
  <2>3. staying' = rows /\ rows' = rows
    BY <1>1 DEF Asks
  <2>4. q \notin TraceMacs => \A r \in staying' : r.mac # q
    BY <2>1, <2>3, ColumnsAssumption DEF TraceInv
  <2>5. Cleared'
    BY <2>2, <2>4 DEF Cleared, NoMac
  <2>6. QED
    BY <2>2, <2>3, <2>5 DEF TraceInv
<1>2. CASE ReadIpamFdb
  <2>1. trace.sources # {}
    BY <1>2 DEF ReadIpamFdb, TraceReads, TraceInv
  <2>2. QED
    BY <1>2, <2>1, ReadIpamFdbKeeps
<1>3. CASE TablesReplaced
  <2>1. rows' \subseteq EndpointRows /\ staying' \subseteq rows' /\ staying' \subseteq staying /\ trace' = trace
    <3>1. PICK d \in {r.dev : r \in EndpointRows}, new \in SUBSET EndpointRows :
            rows' = {r \in rows : r.dev # d \/ r.table = "ipam"} \cup new
      BY <1>3 DEF TablesReplaced
    <3>2. QED
      BY <1>3, <3>1 DEF TablesReplaced, TraceInv
  <2>2. Cleared => Cleared'
    BY <2>1 DEF Cleared, NoMac, NoName
  <2>3. Grounded => Grounded'
    BY <2>1 DEF Grounded
  <2>4. QED
    BY <2>1, <2>2, <2>3 DEF TraceInv
<1>4. CASE UNCHANGED traceVars
  BY <1>4 DEF traceVars, TraceInv, Cleared, NoMac, NoName, Grounded
<1>5. QED
  BY <1>1, <1>2, <1>3, <1>4, ReadFdbKeeps, ReadArpKeeps, ReadDevicesKeeps, ReadInterfacesKeeps,
     ReadNamesKeeps, ReadIpamKeeps DEF TraceNext

(* The switch, port and VLAN of an answer are of one row about its MAC      *)
(* address, and nothing that was there all along is missed, for tables of   *)
(* any content and whatever discovery replaces meanwhile (trace_mac).       *)
THEOREM TracesAreGrounded == TraceSpec => []TraceIsGrounded
<1>1. TraceInit => TraceInv
  <2> SUFFICES ASSUME TraceInit PROVE TraceInv
    OBVIOUS
  <2>1. rows \subseteq EndpointRows /\ staying = {} /\ trace = Fresh
    BY DEF TraceInit
  <2>2. /\ trace.at = "none" /\ trace.sources = {} /\ trace.connected = Nothing /\ trace.vlan = Nothing
        /\ DOMAIN trace = {"q", "at", "sources", "mac", "connected", "port", "vlan", "endpoint"}
    BY <2>1 DEF Fresh
  <2>3. QED
    BY <2>1, <2>2 DEF TraceInv, Cleared
<1>2. TraceInv /\ [TraceNext]_traceVars => TraceInv'
  BY TraceStep
<1>3. TraceInv => TraceIsGrounded
  <2> SUFFICES ASSUME TraceInv PROVE TraceIsGrounded
    OBVIOUS
  <2>1. trace.at = "found" /\ trace.connected # Nothing => Grounded
    BY DEF TraceInv
  <2>2. ASSUME trace.at \in {"not found", "failed"}, Readable, NEW r \in staying PROVE ~Mentions(r, trace.q)
    <3>1. Cleared
      BY <2>2 DEF TraceInv
    <3>2. r.table \in {"fdb", "arp", "device", "interface", "ipam"}
      BY ColumnsAssumption DEF TraceInv
    <3>3. QED
      BY <2>2, <3>1, <3>2 DEF Cleared, NoMac, NoName, Mentions
  <2>3. QED
    BY <2>1, <2>2 DEF TraceIsGrounded, Grounded
<1>4. QED
  BY <1>1, <1>2, <1>3, PTL DEF TraceSpec
=============================================================================
