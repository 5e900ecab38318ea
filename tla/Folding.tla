------------------------------ MODULE Folding -------------------------------
(***************************************************************************)
(* What a fold over a finite set ends in, for any operator that its steps  *)
(* apply.                                                                  *)
(*                                                                         *)
(* The induction of the library takes a predicate as a parameter; here it  *)
(* is over a set of naturals, the sizes for which the claim fails, and its *)
(* least member.                                                           *)
(***************************************************************************)
EXTENDS FiniteSetsExt, FiniteSetTheorems, WellFoundedInduction, TLAPS

CONSTANT Op(_,_)

(* A set of naturals has a least member: the well-foundedness of <, applied *)
(* to a set and so free of operator parameters.                             *)
LEMMA LeastNatural ==
  ASSUME NEW T \in SUBSET Nat, T # {}
  PROVE  \E n \in T : \A m \in T : n <= m
<1> DEFINE R == OpToRel(<, Nat)
<1>1. IsWellFoundedOn(R, Nat)
  BY NatLessThanWellFounded
<1>2. \A m, n \in Nat : m < n => <<m, n>> \in R
  BY DEF OpToRel
<1> HIDE DEF R
<1>3. \E n \in T : \A m \in T : <<m, n>> \notin R
  BY <1>1, WFMin
<1>4. PICK n \in T : \A m \in T : <<m, n>> \notin R
  BY <1>3
<1>5. \A m \in T : m \in Nat /\ n \in Nat /\ ~(m < n)
  BY <1>2, <1>4
<1>6. \A m \in T : n <= m
  BY <1>5
<1> QED BY <1>6

(* The member a fold takes next from a set, and what the function it        *)
(* computes satisfies on the sets D.                                        *)
Picked(s) == CHOOSE x \in s : TRUE
Solves(g, base, D) == g = [s \in D |-> IF s = {} THEN base ELSE Op(Picked(s), g[s \ {Picked(s)}])]

(* What is picked from a set is of it.                                      *)
LEMMA PickedIn == ASSUME NEW s, s # {} PROVE Picked(s) \in s
BY DEF Picked

(* The recursion of a fold over the subsets of a finite set has a solution: *)
(* the smallest size for which it had none would have one.                  *)
LEMMA Solution ==
  ASSUME NEW S, IsFiniteSet(S), NEW base
  PROVE  \E g : Solves(g, base, SUBSET S)
<1> DEFINE L(n) == {s \in SUBSET S : Cardinality(s) <= n}
           T == {n \in Nat : ~ \E g : Solves(g, base, L(n))}
<1>1. \A s \in SUBSET S : /\ IsFiniteSet(s) /\ Cardinality(s) \in Nat 
                          /\ (Cardinality(s) = 0 <=> s = {})
                          /\ Cardinality(s) <= Cardinality(S)
  BY FS_Subset, FS_CardinalityType, FS_EmptySet
<1>2. \A s \in SUBSET S : s # {} => s \ {Picked(s)} \in SUBSET S /\ Cardinality(s \ {Picked(s)}) = Cardinality(s) - 1
  BY <1>1, FS_RemoveElement, PickedIn
<1>3. T = {}
  <2> SUFFICES ASSUME T # {} PROVE FALSE
    OBVIOUS
  <2>1. PICK n \in T : \A m \in T : n <= m
    <3> HIDE DEF L
    <3> QED BY LeastNatural
  <2>2. n # 0
    <3> SUFFICES ASSUME n = 0 PROVE FALSE
      OBVIOUS
    <3>1. L(0) = {{}}
      BY <1>1, FS_EmptySet
    <3> DEFINE g == [s \in {{}} |-> base]
    <3>2. g[{}] = base
      OBVIOUS
    <3>3. Solves(g, base, {{}})
      BY DEF Solves
    <3> QED BY <2>1, <3>1, <3>3
  <2>3. n - 1 \in Nat /\ n \in Nat
    BY <2>1, <2>2
  <2>4. PICK h : Solves(h, base, L(n - 1))
    <3>1. n - 1 \notin T
      <4> HIDE DEF T
      <4> QED BY <2>1, <2>3
    <3> QED BY <2>3, <3>1
  <2> DEFINE g == [s \in L(n) |-> IF s = {} THEN base ELSE Op(Picked(s), h[s \ {Picked(s)}])]
  <2>5. \A s \in L(n - 1) : s \in L(n) /\ g[s] = h[s]
    <3>1. \A s \in L(n - 1) : s \in L(n)
      BY <2>3, <1>1
    <3>2. \A s \in L(n - 1) : h[s] = IF s = {} THEN base ELSE Op(Picked(s), h[s \ {Picked(s)}])
      <4> HIDE DEF L
      <4> QED BY <2>4 DEF Solves
    <3> HIDE DEF L
    <3> QED BY <3>1, <3>2
  <2>6. \A s \in L(n) : s # {} => s \ {Picked(s)} \in L(n - 1)
    BY <1>1, <1>2, <2>3
  <2>7. Solves(g, base, L(n))
    <3> HIDE DEF L
    <3> QED BY <2>5, <2>6 DEF Solves
  <2> HIDE DEF g
  <2> QED BY <2>1, <2>7
<1>4. L(Cardinality(S)) = SUBSET S
  BY <1>1
<1>5. Cardinality(S) \in Nat
  BY FS_CardinalityType
<1>6. Cardinality(S) \notin T
  BY <1>3
<1>7. \E g : Solves(g, base, L(Cardinality(S)))
  <2> HIDE DEF L
  <2> QED BY <1>5, <1>6
<1> HIDE DEF L
<1> QED BY <1>4, <1>7

(* FoldSet is that solution at the whole set.                               *)
LEMMA FoldUnfolds ==
  ASSUME NEW S, IsFiniteSet(S), NEW base
  PROVE  \E g : Solves(g, base, SUBSET S) /\ FoldSet(Op, base, S) = g[S]
<1> DEFINE it == CHOOSE iter : iter = [s \in SUBSET S |-> IF s = {} THEN base ELSE Op(CHOOSE x \in s : TRUE, iter[s \ {CHOOSE x \in s : TRUE}])]
<1>1. FoldSet(Op, base, S) = it[S]
  BY DEF FoldSet, MapThenFoldSet
<1> DEFINE eq(h) == h = [s \in SUBSET S |-> IF s = {} THEN base ELSE Op(CHOOSE x \in s : TRUE, h[s \ {CHOOSE x \in s : TRUE}])]
<1>2. \E h : eq(h)
  <2>1. PICK h : Solves(h, base, SUBSET S)
    BY Solution
  <2> QED BY <2>1 DEF Solves, Picked
<1>3. eq(it)
  <2>1. it = CHOOSE h : eq(h)
    OBVIOUS
  <2> HIDE DEF eq, it
  <2> QED BY <1>2, <2>1
<1>4. Solves(it, base, SUBSET S)
  BY <1>3 DEF Solves, Picked
<1> HIDE DEF it
<1> QED BY <1>1, <1>4

(* A fold whose every step stays in J, whose step at h reaches K and whose  *)
(* steps from K stay in K, ends in K.                                       *)
THEOREM FoldMeets ==
  ASSUME NEW S, IsFiniteSet(S), NEW J, NEW K \in SUBSET J, NEW base \in J, NEW h \in S,
         \A x \in S, r \in J : Op(x, r) \in J,
         \A r \in J : Op(h, r) \in K,
         \A x \in S, r \in K : Op(x, r) \in K
  PROVE  FoldSet(Op, base, S) \in K
<1>1. PICK g : Solves(g, base, SUBSET S) /\ FoldSet(Op, base, S) = g[S]
  BY FoldUnfolds
<1>2. \A s \in SUBSET S : g[s] = IF s = {} THEN base ELSE Op(Picked(s), g[s \ {Picked(s)}])
  BY <1>1 DEF Solves
<1>3. \A s \in SUBSET S : s # {} => /\ Picked(s) \in S /\ s \ {Picked(s)} \in SUBSET S
                                    /\ Cardinality(s) \in Nat
                                    /\ Cardinality(s \ {Picked(s)}) \in Nat
                                    /\ Cardinality(s \ {Picked(s)}) < Cardinality(s)
  <2> SUFFICES ASSUME NEW s \in SUBSET S, s # {}
               PROVE  /\ Picked(s) \in S /\ s \ {Picked(s)} \in SUBSET S
                      /\ Cardinality(s) \in Nat
                      /\ Cardinality(s \ {Picked(s)}) \in Nat
                      /\ Cardinality(s \ {Picked(s)}) < Cardinality(s)
    OBVIOUS
  <2>1. Picked(s) \in s
    BY PickedIn
  <2>2. IsFiniteSet(s) /\ IsFiniteSet(s \ {Picked(s)})
    BY FS_Subset
  <2>3. Cardinality(s \ {Picked(s)}) = Cardinality(s) - 1
    BY <2>1, <2>2, FS_RemoveElement
  <2>4. Cardinality(s) \in Nat /\ Cardinality(s \ {Picked(s)}) \in Nat
    BY <2>2, FS_CardinalityType
  <2> QED BY <2>1, <2>3, <2>4
<1>4. \A s \in SUBSET S : g[s] \in J /\ (h \in s => g[s] \in K)
  <2> DEFINE Good(s) == g[s] \in J /\ (h \in s => g[s] \in K)
             T == {n \in Nat : \E s \in SUBSET S : Cardinality(s) = n /\ ~Good(s)}
  <2>1. ASSUME T # {} PROVE FALSE
    <3>1. PICK n \in T : \A m \in T : n <= m
      <4> HIDE DEF Good
      <4> QED BY <2>1, LeastNatural
    <3>2. PICK s \in SUBSET S : Cardinality(s) = n /\ ~Good(s)
      BY <3>1
    <3>3. s # {}
      BY <1>2, <3>2
    <3> DEFINE t == s \ {Picked(s)}
    <3>4. t \in SUBSET S /\ Cardinality(t) \in Nat /\ Cardinality(t) < n /\ n \in Nat
      BY <1>3, <3>2, <3>3
    <3>5. Good(t)
      <4>1. Cardinality(t) \notin T
        <5> HIDE DEF T, t
        <5>1. \A m \in T : m \in Nat
          BY DEF T
        <5> QED BY <3>1, <3>4, <5>1
      <4> HIDE DEF Good
      <4> QED BY <3>4, <4>1
    <3>6. g[s] = Op(Picked(s), g[t]) /\ Picked(s) \in S
      BY <1>2, <1>3, <3>3
    <3>7. CASE Picked(s) = h
      BY <3>2, <3>5, <3>6, <3>7
    <3>8. CASE Picked(s) # h
      <4>1. h \in s => h \in t
        BY <3>8
      <4> QED BY <3>2, <3>5, <3>6, <4>1
    <3> QED BY <3>7, <3>8
  <2>2. \A s \in SUBSET S : Cardinality(s) \in Nat
    BY FS_Subset, FS_CardinalityType
  <2>3. \A s \in SUBSET S : Good(s)
    <3> HIDE DEF Good
    <3> QED BY <2>1, <2>2
  <2> QED BY <2>3
<1> QED BY <1>1, <1>4

(* A fold whose every step stays in J ends in J.                            *)
THEOREM FoldKeeps ==
  ASSUME NEW S, IsFiniteSet(S), NEW J, NEW base \in J,
         \A x \in S, r \in J : Op(x, r) \in J
  PROVE  FoldSet(Op, base, S) \in J
<1>1. CASE S = {}
  <2>1. PICK g : Solves(g, base, SUBSET S) /\ FoldSet(Op, base, S) = g[S]
    BY FoldUnfolds
  <2> QED BY <1>1, <2>1 DEF Solves
<1>2. CASE S # {}
  <2>1. PICK h : h \in S
    BY <1>2
  <2>2. \A r \in J : Op(h, r) \in J
    BY <2>1
  <2> QED BY <2>1, <2>2, FoldMeets
<1> QED BY <1>1, <1>2
=============================================================================
