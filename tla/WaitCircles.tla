----------------------------- MODULE WaitCircles -----------------------------
(* Transactions that wait for each other's row locks.  PostgreSQL looks for *)
(* a circle of waits and cancels one of its members, which is all that can  *)
(* help when no transaction is free to go on: then there is one.            *)
EXTENDS FiniteSetTheorems, WellFoundedInduction, TLAPS

(* Every member waits for a member, and no two for the same. *)
Circle(C, next) == /\ C # {}
                   /\ \A x \in C : next[x] \in C
                   /\ \A y \in C : \E x \in C : next[x] = y
                   /\ \A x, y \in C : next[x] = next[y] => x = y

(* Every set of naturals that is not empty has a least member. *)
LEMMA LeastOf ==
  ASSUME NEW S \in SUBSET Nat, S # {}
  PROVE  \E m \in S : \A k \in S : m <= k
<1> DEFINE R == {ss \in Nat \X Nat : ss[1] < ss[2]}
<1>1. R = OpToRel(<, Nat)
  BY DEF OpToRel
<1>2. IsWellFoundedOn(R, Nat)
  BY <1>1, NatLessThanWellFounded
<1>3. PICK m \in S : \A k \in S : <<k, m>> \notin R
  <2> HIDE DEF R
  <2> QED BY <1>2, WFMin
<1>4. \A k \in S : ~(k < m)
  BY <1>3
<1> QED
  BY <1>4

(* Where everyone waits there is a circle: a least set that nobody in it    *)
(* waits out of.                                                            *)
THEOREM CircleExists ==
  ASSUME NEW S, IsFiniteSet(S), S # {}, NEW next \in [S -> S]
  PROVE  \E C \in SUBSET S : Circle(C, next)
<1> DEFINE Closed == {C \in SUBSET S : C # {} /\ \A x \in C : next[x] \in C}
           sizes == {Cardinality(C) : C \in Closed}
<1>1. sizes \in SUBSET Nat /\ sizes # {}
  <2>1. \A C \in Closed : Cardinality(C) \in Nat
    BY FS_Subset, FS_CardinalityType
  <2>2. S \in Closed
    OBVIOUS
  <2> QED BY <2>1, <2>2
<1>2. PICK m \in sizes : \A k \in sizes : m <= k
  <2> HIDE DEF sizes
  <2> QED BY <1>1, LeastOf
<1>3. PICK C \in Closed : \A B \in Closed : Cardinality(C) <= Cardinality(B)
  BY <1>2
<1> DEFINE onto == {next[x] : x \in C}
<1>4. onto \in Closed /\ onto \in SUBSET C
  BY <1>3
<1>5. IsFiniteSet(C) /\ Cardinality(C) \in Nat
  BY <1>3, FS_Subset, FS_CardinalityType
<1>6. onto = C
  <2>1. Cardinality(C) <= Cardinality(onto)
    BY <1>3, <1>4
  <2>2. Cardinality(onto) <= Cardinality(C) /\ IsFiniteSet(onto)
    BY <1>4, <1>5, FS_Subset
  <2>3. Cardinality(onto) \in Nat
    BY <2>2, FS_CardinalityType
  <2>4. Cardinality(C) = Cardinality(onto)
    BY <1>5, <2>1, <2>2, <2>3
  <2> HIDE DEF onto
  <2> QED BY <1>4, <1>5, <2>4, FS_Subset
<1> DEFINE f == [x \in C |-> next[x]]
<1>7. f \in Surjection(C, C)
  BY <1>3, <1>6 DEF Surjection
<1>8. f \in Injection(C, C)
  BY <1>5, <1>7, FS_SurjSameCardinalityImpliesInj
<1>9. \A x, y \in C : next[x] = next[y] => x = y
  BY <1>8 DEF Injection, IsInjective
<1> QED BY <1>3, <1>6, <1>9 DEF Circle
=============================================================================
