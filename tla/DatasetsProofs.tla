---------------------------- MODULE DatasetsProofs ----------------------------
(***************************************************************************)
(* What holds of every dataset that is built, whatever the samples, the    *)
(* relation of likeness and the permutations of the seed:                  *)
(*   - the trees of the union-find forest are the components of the edges  *)
(*     that were united, in any order: no link is lost and none invented   *)
(*     (Components), so that split units are the components of the         *)
(*     samples that look alike or share a design;                          *)
(*   - how units and families are dealt out leaves something to train on,  *)
(*     to validate and to test.                                            *)
(* Roots and folds are recursive functions; what they compute is proved by *)
(* induction, with the set of the numbers for which it holds.              *)
(***************************************************************************)
EXTENDS Datasets, FiniteSetTheorems, NaturalsInduction, WellFoundedInduction, TLAPS

(* Induction over the naturals, with the set of those that have a property. *)
LEMMA Inductively ==
  ASSUME NEW G, 0 \in G, \A k \in Nat : k \in G => k + 1 \in G
  PROVE  Nat \subseteq G
<1> SUFFICES ASSUME Nat \ G # {} PROVE FALSE
  OBVIOUS
<1>1. IsWellFoundedOn(OpToRel(<, Nat), Nat)
  BY NatLessThanWellFounded
<1>2. PICK n \in Nat \ G : \A m \in Nat \ G : ~(m < n)
  <2>1. PICK n \in Nat \ G : \A m \in Nat \ G : <<m, n>> \notin OpToRel(<, Nat)
    BY <1>1, WFMin
  <2> QED
    BY <2>1 DEF OpToRel
<1>3. n # 0 /\ n - 1 \in Nat /\ n - 1 < n
  BY <1>2
<1>4. n - 1 \in G
  BY <1>2, <1>3
<1> QED
  BY <1>2, <1>3, <1>4

(* A finite set of numbers that is not empty has a greatest and a smallest *)
(* element.                                                                *)
LEMMA Greatest ==
  ASSUME NEW S \in SUBSET Nat, IsFiniteSet(S), S # {}
  PROVE  \E x \in S : \A y \in S : y <= x
<1> DEFINE G == { k \in Nat : \A T \in SUBSET Nat : IsFiniteSet(T) /\ Cardinality(T) = k + 1 => \E x \in T : \A y \in T : y <= x }
<1>1. 0 \in G
  <2> SUFFICES ASSUME NEW T \in SUBSET Nat, IsFiniteSet(T), Cardinality(T) = 1
               PROVE  \E x \in T : \A y \in T : y <= x
    OBVIOUS
  <2>1. PICK x : T = {x}
    BY FS_Singleton
  <2> QED BY <2>1
<1>2. ASSUME NEW k \in Nat, k \in G PROVE k + 1 \in G
  <2> SUFFICES ASSUME NEW T \in SUBSET Nat, IsFiniteSet(T), Cardinality(T) = (k + 1) + 1
               PROVE  \E x \in T : \A y \in T : y <= x
    OBVIOUS
  <2>1. T # {}
    BY FS_EmptySet
  <2>2. PICK z \in T : TRUE
    BY <2>1
  <2>3. PICK U : U = T \ {z}
    OBVIOUS
  <2>4. IsFiniteSet(U) /\ Cardinality(U) = k + 1 /\ U \in SUBSET Nat
    BY <2>2, <2>3, FS_RemoveElement
  <2>5. PICK x \in U : \A y \in U : y <= x
    BY <1>2, <2>4
  <2>6. x \in Nat /\ z \in Nat /\ x \in T
    BY <2>2, <2>3, <2>4
  <2>7. CASE z <= x
    <3>1. \A y \in T : y <= x
      BY <2>3, <2>5, <2>7
    <3> QED BY <2>6, <3>1
  <2>8. CASE x < z
    <3>1. ASSUME NEW y \in T PROVE y <= z
      <4>1. CASE y = z
        BY <2>6, <4>1
      <4>2. CASE y # z
        <5>1. y \in U /\ y \in Nat
          BY <2>3, <2>4, <4>2
        <5>2. y <= x
          BY <2>5, <5>1
        <5> QED BY <2>6, <2>8, <5>1, <5>2
      <4> QED BY <4>1, <4>2
    <3> QED BY <2>2, <3>1
  <2> QED BY <2>6, <2>7, <2>8
<1>3. Nat \subseteq G
  <2> HIDE DEF G
  <2> QED BY <1>1, <1>2, Inductively
<1>4. PICK k \in Nat : Cardinality(S) = k + 1
  <2>1. Cardinality(S) \in Nat /\ Cardinality(S) # 0
    BY FS_CardinalityType, FS_EmptySet
  <2>2. Cardinality(S) - 1 \in Nat /\ Cardinality(S) = (Cardinality(S) - 1) + 1
    BY <2>1
  <2> QED BY <2>2
<1> QED BY <1>3, <1>4

LEMMA MinIsSmallest ==
  ASSUME NEW S \in SUBSET Nat, S # {}
  PROVE  Min(S) \in S
<1>1. IsWellFoundedOn(OpToRel(<, Nat), Nat)
  BY NatLessThanWellFounded
<1>2. PICK x \in S : \A y \in S : <<y, x>> \notin OpToRel(<, Nat)
  BY <1>1, WFMin
<1>3. ASSUME NEW y \in S PROVE x <= y
  <2>1. x \in Nat /\ y \in Nat
    OBVIOUS
  <2>2. ~(y < x)
    BY <1>2, <2>1 DEF OpToRel
  <2> QED BY <2>1, <2>2
<1>4. \E z \in S : \A y \in S : z <= y
  BY <1>3
<1> QED
  BY <1>4, Zenon DEF Min

--------------------------------------------------------------------------------
(* Union-find: trees whose parents are not greater than their children.    *)

Forest(D, p) == p \in [D -> D] /\ \A x \in D : p[x] <= x
RootStep(p, r, y) == IF p[y] = y THEN y ELSE r[p[y]]
IsRoots(p, r, S) == r = [ y \in S |-> RootStep(p, r, y) ]

LEMMA RootIsChosen ==
  ASSUME NEW p, NEW x
  PROVE  Root(p, x) = (CHOOSE r : IsRoots(p, r, DOMAIN p))[x]
BY Zenon DEF Root, IsRoots, RootStep

LEMMA RootsExist ==
  ASSUME NEW D \in SUBSET Nat, IsFiniteSet(D), NEW p, Forest(D, p)
  PROVE  \E r : IsRoots(p, r, D)
<1> DEFINE Low(k) == { y \in D : y < k }
           G == { k \in Nat : \E r : IsRoots(p, r, Low(k)) }
<1>1. 0 \in G
  <2>1. Low(0) = {}
    <3>1. ASSUME NEW y \in D PROVE ~(y < 0)
      <4>1. y \in Nat
        OBVIOUS
      <4> QED BY <4>1
    <3> QED BY <3>1
  <2>2. PICK r : r = [ y \in {} |-> y ]
    OBVIOUS
  <2>3. IsRoots(p, r, {})
    BY <2>2 DEF IsRoots
  <2> HIDE DEF Low
  <2> QED BY <2>1, <2>3
<1>2. ASSUME NEW k \in Nat, k \in G PROVE k + 1 \in G
  <2>1. PICK r : IsRoots(p, r, Low(k))
    BY <1>2
  <2>2. PICK h : h = [ y \in Low(k + 1) |-> RootStep(p, r, y) ]
    OBVIOUS
  <2>3. \A y \in Low(k) : y \in Low(k + 1) /\ h[y] = r[y]
    <3>1. \A y \in Low(k) : y \in Low(k + 1)
      OBVIOUS
    <3> HIDE DEF Low
    <3> QED BY <2>1, <2>2, <3>1 DEF IsRoots
  <2>4. ASSUME NEW y \in Low(k + 1) PROVE RootStep(p, r, y) = RootStep(p, h, y)
    <3>1. p[y] # y => p[y] \in Low(k)
      <4>1. y \in D /\ y < k + 1 /\ p[y] \in D /\ p[y] <= y
        BY DEF Forest
      <4>2. p[y] \in Nat /\ y \in Nat
        BY <4>1
      <4> QED BY <4>1, <4>2
    <3> HIDE DEF Low
    <3> QED BY <2>3, <3>1 DEF RootStep
  <2>5. IsRoots(p, h, Low(k + 1))
    <3> HIDE DEF Low
    <3> QED BY <2>2, <2>4 DEF IsRoots
  <2> HIDE DEF Low
  <2> QED BY <2>5
<1>3. Nat \subseteq G
  <2> HIDE DEF G
  <2> QED BY <1>1, <1>2, Inductively
<1>4. PICK k \in Nat : Low(k) = D
  <2>1. CASE D = {}
    BY <2>1
  <2>2. CASE D # {}
    <3>1. PICK x \in D : \A y \in D : y <= x
      BY <2>2, Greatest
    <3>2. x \in Nat /\ x + 1 \in Nat
      BY <3>1
    <3>3. \A y \in D : y < x + 1
      <4> TAKE y \in D
      <4>1. y \in Nat /\ y <= x
        BY <3>1
      <4> QED BY <3>2, <4>1
    <3> QED BY <3>2, <3>3
  <2> QED BY <2>1, <2>2
<1> HIDE DEF Low
<1> QED BY <1>3, <1>4

LEMMA RootUnfolds ==
  ASSUME NEW D \in SUBSET Nat, IsFiniteSet(D), NEW p, Forest(D, p), NEW x \in D
  PROVE  Root(p, x) = IF p[x] = x THEN x ELSE Root(p, p[x])
<1>1. DOMAIN p = D
  BY DEF Forest
<1>2. PICK r : IsRoots(p, r, D) /\ r = CHOOSE q : IsRoots(p, q, D)
  BY RootsExist
<1>3. \A y : Root(p, y) = r[y]
  BY <1>1, <1>2, RootIsChosen
<1>4. r[x] = RootStep(p, r, x)
  BY <1>2 DEF IsRoots
<1> QED BY <1>3, <1>4 DEF RootStep

(* A root is its own parent, and not greater than what it is the root of.  *)
IsRoot(D, p, r) == r \in D /\ p[r] = r /\ Root(p, r) = r

LEMMA RootIsRoot ==
  ASSUME NEW D \in SUBSET Nat, IsFiniteSet(D), NEW p, Forest(D, p)
  PROVE  \A x \in D : IsRoot(D, p, Root(p, x)) /\ Root(p, x) <= x
<1> DEFINE G == { k \in Nat : \A x \in D : x <= k => IsRoot(D, p, Root(p, x)) /\ Root(p, x) <= x }
<1>1. ASSUME NEW x \in D, p[x] = x PROVE IsRoot(D, p, Root(p, x)) /\ Root(p, x) <= x
  <2>1. Root(p, x) = x /\ x \in Nat
    BY <1>1, RootUnfolds
  <2> QED BY <1>1, <2>1 DEF IsRoot
<1>2. 0 \in G
  <2> SUFFICES ASSUME NEW x \in D, x <= 0 PROVE p[x] = x
    BY <1>1
  <2>1. x \in Nat /\ p[x] \in Nat /\ p[x] <= x
    BY DEF Forest
  <2> QED BY <2>1
<1>3. ASSUME NEW k \in Nat, k \in G PROVE k + 1 \in G
  <2> SUFFICES ASSUME NEW x \in D, x <= k + 1, p[x] # x PROVE IsRoot(D, p, Root(p, x)) /\ Root(p, x) <= x
    BY <1>1
  <2>1. x \in Nat /\ p[x] \in D /\ p[x] \in Nat /\ p[x] <= x
    BY DEF Forest
  <2>2. p[x] <= k
    BY <2>1
  <2>3. IsRoot(D, p, Root(p, p[x])) /\ Root(p, p[x]) <= p[x]
    BY <1>3, <2>1, <2>2
  <2>4. Root(p, x) = Root(p, p[x])
    BY RootUnfolds
  <2>5. Root(p, p[x]) \in Nat
    BY <2>3 DEF IsRoot
  <2> QED BY <2>1, <2>3, <2>4, <2>5
<1>4. Nat \subseteq G
  <2> HIDE DEF G
  <2> QED BY <1>2, <1>3, Inductively
<1> TAKE x \in D
<1>5. x \in Nat /\ x <= x
  OBVIOUS
<1> QED BY <1>4, <1>5

(* A union joins the trees of its arguments and no others.                 *)
LEMMA UniteRoots ==
  ASSUME NEW D \in SUBSET Nat, IsFiniteSet(D), NEW p, Forest(D, p), NEW a \in D, NEW b \in D,
         NEW q, q = Unite(p, a, b)
  PROVE  /\ Forest(D, q)
         /\ \A x \in D : Root(q, x) = IF Root(p, x) \in {Root(p, a), Root(p, b)}
                                      THEN Lesser(Root(p, a), Root(p, b)) ELSE Root(p, x)
<1>1. PICK ra, rb : ra = Root(p, a) /\ rb = Root(p, b)
  OBVIOUS
<1>2. IsRoot(D, p, ra) /\ IsRoot(D, p, rb)
  BY <1>1, RootIsRoot
<1>3. ra \in Nat /\ rb \in Nat /\ ra \in D /\ rb \in D
  BY <1>2 DEF IsRoot
<1>4. CASE ra = rb
  <2>1. q = p
    BY <1>1, <1>4 DEF Unite
  <2>2. Lesser(ra, rb) = ra
    BY <1>4 DEF Lesser
  <2> QED BY <1>1, <1>4, <2>1, <2>2
<1>5. CASE ra # rb
  <2>1. PICK lo, hi : lo = Lesser(ra, rb) /\ hi = Greater(ra, rb)
    OBVIOUS
  <2>2. lo \in Nat /\ hi \in Nat /\ lo < hi /\ {lo, hi} = {ra, rb}
    <3>1. CASE ra < rb
      BY <1>3, <2>1, <3>1 DEF Lesser, Greater
    <3>2. CASE ~(ra < rb)
      BY <1>3, <1>5, <2>1, <3>2 DEF Lesser, Greater
    <3> QED BY <3>1, <3>2
  <2>3. IsRoot(D, p, lo) /\ IsRoot(D, p, hi)
    BY <1>2, <2>2
  <2>4. q = [p EXCEPT ![hi] = lo]
    BY <1>1, <1>5, <2>1 DEF Unite
  <2>5. /\ q \in [D -> D] /\ q[hi] = lo
        /\ \A x \in D : x # hi => q[x] = p[x]
    BY <2>3, <2>4 DEF Forest, IsRoot
  <2>6. Forest(D, q)
    <3>1. ASSUME NEW x \in D PROVE q[x] <= x
      BY <2>2, <2>5 DEF Forest
    <3> QED BY <2>5, <3>1 DEF Forest
  <2> DEFINE R(x) == IF Root(p, x) \in {ra, rb} THEN lo ELSE Root(p, x)
             G == { k \in Nat : \A x \in D : x <= k => Root(q, x) = R(x) }
  <2>7. ASSUME NEW x \in D, q[x] = x PROVE Root(q, x) = R(x)
    <3>1. x # hi
      BY <2>2, <2>5, <2>7
    <3>2. p[x] = x /\ Root(q, x) = x
      BY <2>5, <2>6, <2>7, <3>1, RootUnfolds
    <3>3. Root(p, x) = x
      BY <3>2, RootUnfolds
    <3>4. x \in {ra, rb} => x = lo
      BY <2>2, <3>1
    <3> QED BY <3>2, <3>3, <3>4
  <2>8. ASSUME NEW x \in D, q[x] # x, Root(q, q[x]) = R(q[x]) PROVE Root(q, x) = R(x)
    <3>1. Root(q, x) = Root(q, q[x])
      BY <2>6, <2>8, RootUnfolds
    <3>2. CASE x = hi
      <4>1. Root(p, lo) = lo /\ Root(p, hi) = hi
        BY <2>3 DEF IsRoot
      <4>2. R(lo) = lo /\ R(hi) = lo
        BY <2>2, <4>1
      <4> HIDE DEF R
      <4> QED BY <2>5, <2>8, <3>1, <3>2, <4>2
    <3>3. CASE x # hi
      <4>1. q[x] = p[x] /\ p[x] # x
        BY <2>5, <2>8, <3>3
      <4>2. Root(p, x) = Root(p, p[x])
        BY <4>1, RootUnfolds
      <4> QED BY <2>8, <3>1, <4>1, <4>2
    <3> QED BY <3>2, <3>3
  <2>9. 0 \in G
    <3> SUFFICES ASSUME NEW x \in D, x <= 0 PROVE q[x] = x
      BY <2>7
    <3>1. x \in Nat /\ q[x] \in Nat /\ q[x] <= x
      BY <2>6 DEF Forest
    <3> QED BY <3>1
  <2>10. ASSUME NEW k \in Nat, k \in G PROVE k + 1 \in G
    <3> SUFFICES ASSUME NEW x \in D, x <= k + 1, q[x] # x PROVE Root(q, x) = R(x)
      BY <2>7
    <3>1. x \in Nat /\ q[x] \in D /\ q[x] \in Nat /\ q[x] <= x
      BY <2>6 DEF Forest
    <3>2. q[x] <= k
      BY <3>1
    <3>3. Root(q, q[x]) = R(q[x])
      BY <2>10, <3>1, <3>2
    <3> QED BY <2>8, <3>3
  <2>11. Nat \subseteq G
    <3> HIDE DEF G
    <3> QED BY <2>9, <2>10, Inductively
  <2>12. ASSUME NEW x \in D PROVE Root(q, x) = R(x)
    <3>1. x \in Nat /\ x <= x
      OBVIOUS
    <3> QED BY <2>11, <3>1
  <2> QED BY <1>1, <2>1, <2>6, <2>12
<1> QED BY <1>4, <1>5

--------------------------------------------------------------------------------
(* The pairs of a set are united one after the other.                      *)

Ends(of, e) == <<of[e[1]], of[e[2]]>>
AllStep(p, of, g, s) ==
  IF s = {} THEN p
  ELSE Unite(g[s \ {LastPair(s)}], Ends(of, LastPair(s))[1], Ends(of, LastPair(s))[2])
IsAll(p, of, g, S) == g = [ s \in SUBSET S |-> AllStep(p, of, g, s) ]

LEMMA UniteAllIsChosen ==
  ASSUME NEW p, NEW S, NEW of
  PROVE  UniteAll(p, S, of) = (CHOOSE g : IsAll(p, of, g, S))[S]
BY Zenon DEF UniteAll, MapThenFoldSet, IsAll, AllStep, Ends

LEMMA LastPairIsIn ==
  ASSUME NEW S \in SUBSET (Nat \X Nat), IsFiniteSet(S), S # {}
  PROVE  LastPair(S) \in S
<1>1. PICK firsts : firsts = { e[1] : e \in S }
  OBVIOUS
<1>2. firsts \in SUBSET Nat /\ firsts # {} /\ IsFiniteSet(firsts)
  <2>1. PICK f : f = [ e \in S |-> e[1] ]
    OBVIOUS
  <2>2. f \in Surjection(S, firsts)
    BY <1>1, <2>1 DEF Surjection
  <2>3. IsFiniteSet(firsts)
    BY <2>2, FS_Surjection
  <2> QED BY <1>1, <2>3
<1>3. PICK x \in firsts : \A y \in firsts : y <= x
  BY <1>2, Greatest
<1>4. PICK T : T = { e \in S : e[1] = x }
  OBVIOUS
<1>5. PICK seconds : seconds = { e[2] : e \in T }
  OBVIOUS
<1>6. seconds \in SUBSET Nat /\ seconds # {} /\ IsFiniteSet(seconds)
  <2>1. PICK f : f = [ e \in T |-> e[2] ]
    OBVIOUS
  <2>2. f \in Surjection(T, seconds)
    BY <1>5, <2>1 DEF Surjection
  <2>3. IsFiniteSet(T)
    BY <1>4, FS_Subset
  <2>4. IsFiniteSet(seconds)
    BY <2>2, <2>3, FS_Surjection
  <2>5. T # {} /\ T \subseteq Nat \X Nat
    BY <1>1, <1>3, <1>4
  <2> QED BY <1>5, <2>4, <2>5
<1>7. PICK z \in seconds : \A y \in seconds : y <= z
  BY <1>6, Greatest
<1>8. PICK e \in S : e[1] = x /\ e[2] = z
  BY <1>4, <1>5, <1>7
<1>9. ASSUME NEW d \in S PROVE d[1] < e[1] \/ (d[1] = e[1] /\ d[2] <= e[2])
  <2>1. d[1] \in Nat /\ x \in Nat /\ d[1] <= x
    BY <1>1, <1>2, <1>3
  <2>2. CASE d[1] = x
    <3>1. d[2] <= z
      BY <1>4, <1>5, <1>7, <2>2
    <3> QED BY <1>8, <2>2, <3>1
  <2>3. CASE d[1] # x
    BY <1>8, <2>1, <2>3
  <2> QED BY <2>2, <2>3
<1>10. \E c \in S : \A d \in S : d[1] < c[1] \/ (d[1] = c[1] /\ d[2] <= c[2])
  BY <1>9
<1> QED BY Zenon, <1>10 DEF LastPair

LEMMA UniteAllExists ==
  ASSUME NEW S \in SUBSET (Nat \X Nat), IsFiniteSet(S), NEW p, NEW of
  PROVE  \E g : IsAll(p, of, g, S)
<1> DEFINE Small(k) == { s \in SUBSET S : Cardinality(s) <= k }
           Good(g, k) == g = [ s \in Small(k) |-> AllStep(p, of, g, s) ]
           G == { k \in Nat : \E g : Good(g, k) }
<1>1. \A s \in SUBSET S : IsFiniteSet(s) /\ Cardinality(s) \in Nat
  BY FS_Subset, FS_CardinalityType
<1>2. 0 \in G
  <2>1. PICK g : g = [ s \in Small(0) |-> p ]
    OBVIOUS
  <2>2. \A s \in Small(0) : s = {}
    BY <1>1, FS_EmptySet
  <2>3. \A s \in Small(0) : AllStep(p, of, g, s) = p
    BY <2>2 DEF AllStep
  <2>4. Good(g, 0)
    <3> HIDE DEF Small
    <3> QED BY <2>1, <2>3
  <2> HIDE DEF Good
  <2> QED BY <2>4
<1>3. ASSUME NEW k \in Nat, k \in G PROVE k + 1 \in G
  <2>1. PICK g : Good(g, k)
    BY <1>3
  <2>2. PICK h : h = [ s \in Small(k + 1) |-> AllStep(p, of, g, s) ]
    OBVIOUS
  <2>3. \A s \in Small(k) : s \in Small(k + 1) /\ h[s] = g[s]
    <3>1. \A s \in Small(k) : s \in Small(k + 1)
      BY <1>1
    <3> HIDE DEF Small
    <3> QED BY <2>1, <2>2, <3>1
  <2>4. ASSUME NEW s \in Small(k + 1), s # {} PROVE s \ {LastPair(s)} \in Small(k)
    <3>1. s \in SUBSET S /\ Cardinality(s) <= k + 1
      BY <2>4
    <3>2. LastPair(s) \in s
      <4>1. s \in SUBSET (Nat \X Nat)
        BY <3>1
      <4> QED BY <1>1, <2>4, <3>1, <4>1, LastPairIsIn
    <3>3. Cardinality(s \ {LastPair(s)}) = Cardinality(s) - 1
      BY <1>1, <3>1, <3>2, FS_RemoveElement
    <3> QED BY <1>1, <3>1, <3>3
  <2>5. \A s \in Small(k + 1) : AllStep(p, of, g, s) = AllStep(p, of, h, s)
    <3> HIDE DEF Small
    <3> QED BY <2>3, <2>4 DEF AllStep
  <2>6. Good(h, k + 1)
    <3> HIDE DEF Small
    <3> QED BY <2>2, <2>5
  <2> HIDE DEF Good
  <2> QED BY <2>6
<1>4. Nat \subseteq G
  <2> HIDE DEF G
  <2> QED BY <1>2, <1>3, Inductively
<1>5. PICK k \in Nat : k = Cardinality(S)
  BY FS_CardinalityType
<1>6. Small(k) = SUBSET S
  <2>1. \A s \in SUBSET S : Cardinality(s) <= k
    BY <1>5, FS_Subset
  <2> QED BY <2>1
<1>7. PICK g : Good(g, k)
  BY <1>4
<1> QED BY <1>6, <1>7 DEF IsAll

(* What union-find is for: the trees are the components of the edges.      *)
Same(p, x, y) == Root(p, x) = Root(p, y)
Whole(C, E) == \A e \in E : e[1] \in C <=> e[2] \in C   \* no edge leaves C
Components(D, p, E) ==
  /\ Forest(D, p)
  /\ \A e \in E : Same(p, e[1], e[2])
  /\ \A x, y \in D, C \in SUBSET D : Same(p, x, y) /\ Whole(C, E) => (x \in C <=> y \in C)

LEMMA NothingUnited ==
  ASSUME NEW D \in SUBSET Nat, IsFiniteSet(D)
  PROVE  Components(D, [ x \in D |-> x ], {})
<1>1. PICK p : p = [ x \in D |-> x ]
  OBVIOUS
<1>2. Forest(D, p)
  <2>1. \A x \in D : x <= x
    OBVIOUS
  <2> QED BY <1>1, <2>1 DEF Forest
<1>3. \A x \in D : Root(p, x) = x
  BY <1>1, <1>2, RootUnfolds
<1> QED BY <1>1, <1>2, <1>3 DEF Components, Same

LEMMA OneUnited ==
  ASSUME NEW D \in SUBSET Nat, IsFiniteSet(D), NEW p, NEW E, E \subseteq D \X D, Components(D, p, E),
         NEW a \in D, NEW b \in D, NEW q, q = Unite(p, a, b)
  PROVE  Components(D, q, E \cup {<<a, b>>})
<1>1. Forest(D, p)
  BY DEF Components
<1>2. PICK ra, rb, lo : ra = Root(p, a) /\ rb = Root(p, b) /\ lo = Lesser(ra, rb)
  OBVIOUS
<1>3. /\ Forest(D, q)
      /\ \A x \in D : Root(q, x) = IF Root(p, x) \in {ra, rb} THEN lo ELSE Root(p, x)
  BY <1>1, <1>2, UniteRoots
<1>4. lo \in {ra, rb}
  BY <1>2 DEF Lesser
<1>5. \A e \in E \cup {<<a, b>>} : Same(q, e[1], e[2])
  <2>1. Same(q, a, b)
    BY <1>2, <1>3 DEF Same
  <2>2. ASSUME NEW e \in E PROVE Same(q, e[1], e[2])
    <3>1. e[1] \in D /\ e[2] \in D /\ Root(p, e[1]) = Root(p, e[2])
      BY DEF Components, Same
    <3> QED BY <1>3, <3>1 DEF Same
  <2> QED BY <2>1, <2>2
<1>6. ASSUME NEW x \in D, NEW y \in D, NEW C \in SUBSET D, Same(q, x, y), Whole(C, E \cup {<<a, b>>})
      PROVE  x \in C <=> y \in C
  <2>1. Whole(C, E) /\ (a \in C <=> b \in C)
    <3>1. <<a, b>>[1] \in C <=> <<a, b>>[2] \in C
      BY <1>6 DEF Whole
    <3>2. Whole(C, E)
      BY <1>6 DEF Whole
    <3> QED BY <3>1, <3>2
  <2>2. \A z, w \in D : Root(p, z) = Root(p, w) => (z \in C <=> w \in C)
    BY <2>1 DEF Components, Same
  <2>3. CASE Root(p, x) = Root(p, y)
    BY <2>2, <2>3
  <2>4. CASE Root(p, x) # Root(p, y)
    <3>1. Root(p, x) \in {ra, rb} /\ Root(p, y) \in {ra, rb}
      BY <1>3, <1>4, <1>6, <2>4 DEF Same
    <3>2. x \in C <=> a \in C
      BY <1>2, <2>1, <2>2, <3>1
    <3>3. y \in C <=> a \in C
      BY <1>2, <2>1, <2>2, <3>1
    <3> QED BY <3>2, <3>3
  <2> QED BY <2>3, <2>4
<1> QED BY <1>3, <1>5, <1>6 DEF Components

EdgesOf(of, S) == { Ends(of, e) : e \in S }

LEMMA AllUnited ==
  ASSUME NEW S \in SUBSET (Nat \X Nat), IsFiniteSet(S), NEW D \in SUBSET Nat, IsFiniteSet(D),
         NEW of, \A e \in S : of[e[1]] \in D /\ of[e[2]] \in D
  PROVE  Components(D, UniteAll([ x \in D |-> x ], S, of), EdgesOf(of, S))
<1>1. PICK p : p = [ x \in D |-> x ]
  OBVIOUS
<1>2. PICK g : IsAll(p, of, g, S) /\ UniteAll(p, S, of) = g[S]
  BY UniteAllExists, UniteAllIsChosen
<1> DEFINE G == { k \in Nat : \A s \in SUBSET S : Cardinality(s) = k => Components(D, g[s], EdgesOf(of, s)) }
<1>3. \A s \in SUBSET S : IsFiniteSet(s) /\ Cardinality(s) \in Nat
  BY FS_Subset, FS_CardinalityType
<1>4. \A s \in SUBSET S : g[s] = AllStep(p, of, g, s)
  BY <1>2 DEF IsAll
<1>5. 0 \in G
  <2> SUFFICES ASSUME NEW s \in SUBSET S, Cardinality(s) = 0 PROVE Components(D, g[s], EdgesOf(of, s))
    OBVIOUS
  <2>1. s = {}
    BY <1>3, FS_EmptySet
  <2>2. g[s] = p /\ EdgesOf(of, s) = {}
    BY <1>4, <2>1 DEF AllStep, EdgesOf
  <2> QED BY <1>1, <2>2, NothingUnited
<1>6. ASSUME NEW k \in Nat, k \in G PROVE k + 1 \in G
  <2> SUFFICES ASSUME NEW s \in SUBSET S, Cardinality(s) = k + 1 PROVE Components(D, g[s], EdgesOf(of, s))
    OBVIOUS
  <2>1. s # {}
    BY FS_EmptySet
  <2>2. PICK e : e = LastPair(s)
    OBVIOUS
  <2>3. e \in s
    <3>1. s \in SUBSET (Nat \X Nat)
      OBVIOUS
    <3> QED BY <1>3, <2>1, <2>2, <3>1, LastPairIsIn
  <2>4. PICK t : t = s \ {e}
    OBVIOUS
  <2>5. t \in SUBSET S /\ Cardinality(t) = k /\ s = t \cup {e}
    <3>1. Cardinality(t) = Cardinality(s) - 1
      BY <1>3, <2>3, <2>4, FS_RemoveElement
    <3>2. Cardinality(t) = k
      BY <3>1
    <3>3. t \in SUBSET S /\ s = t \cup {e}
      BY <2>3, <2>4
    <3> QED BY <3>2, <3>3
  <2>6. Components(D, g[t], EdgesOf(of, t))
    BY <1>6, <2>5
  <2>7. PICK a \in D, b \in D : Ends(of, e) = <<a, b>>
    BY <2>3 DEF Ends
  <2>8. g[s] = Unite(g[t], a, b)
    BY <1>4, <2>1, <2>2, <2>4, <2>7 DEF AllStep
  <2>9. EdgesOf(of, s) = EdgesOf(of, t) \cup {<<a, b>>}
    BY <2>5, <2>7 DEF EdgesOf
  <2>10. EdgesOf(of, t) \subseteq D \X D
    BY <2>5 DEF Ends, EdgesOf
  <2> QED BY <2>6, <2>8, <2>9, <2>10, OneUnited
<1>7. Nat \subseteq G
  <2> HIDE DEF G
  <2> QED BY <1>5, <1>6, Inductively
<1>8. Components(D, g[S], EdgesOf(of, S))
  BY <1>3, <1>7
<1> QED BY <1>1, <1>2, <1>8

--------------------------------------------------------------------------------
(* What each phase leaves for the next ones.                               *)

Given ==
  /\ mode \in {"group", "family"} /\ usable \subseteq Sample
  /\ groupOf \in [Sample -> Group] /\ familyOf \in [Group -> Family]
  /\ near \subseteq Pairs
  /\ included \subseteq Sample
  /\ phase \in {"select", "cluster", "unify", "assign", "done"}

Self == [x \in included |-> x]
Alike == { e \in near : e[1] \in included /\ e[2] \in included }
Forest1 == UniteAll(Self, Alike, Self)
ClustersMade == clusters = { c \in { ClusterOf(Forest1, r) : r \in included } : Cardinality(c) > 1 }
UnionMade == groupUf = UniteAll([g \in Group |-> g], Joins, groupOf)
GroupsAssigned ==
  \E order \in SetToSeqs(Families), unitOrder \in UnitOrders :
    splitOf = [s \in included |->
      LET f == FamilyOfUnit(Unit(s))
      IN  Place(Index(order, f), Index(unitOrder[f], Unit(s)), Len(unitOrder[f]))]
FamiliesAssigned ==
  \E order \in SetToSeqs(Families) :
    splitOf = [s \in included |-> SplitOfFamily(order, FamilyOfSample(s))]

DatasetInv ==
  /\ Given
  /\ phase \in {"select", "cluster"} => clusters = {}
  /\ phase \in {"select", "cluster", "unify"} => groupUf = [g \in Group |-> g]
  /\ phase # "done" => splitOf = <<>>
  /\ phase \in {"unify", "assign", "done"} => ClustersMade
  /\ phase \in {"assign", "done"} => UnionMade
  /\ phase = "done" /\ mode = "group" => GroupsAssigned
  /\ phase = "done" /\ mode = "family" => FamiliesAssigned

LEMMA DatasetInit == Init => DatasetInv
<1> SUFFICES ASSUME Init PROVE DatasetInv
  OBVIOUS
<1>1. PICK i \in Inputs : /\ mode = i.mode /\ usable = i.usable /\ near = i.near
                          /\ groupOf = i.groupOf /\ familyOf = i.familyOf
  BY DEF Init
<1>2. i \in Input
  BY DatasetAssumption
<1>3. /\ mode \in {"group", "family"} /\ usable \subseteq Sample
      /\ groupOf \in [Sample -> Group] /\ familyOf \in [Group -> Family] /\ near \subseteq Pairs
  BY <1>1, <1>2 DEF Input
<1> QED BY <1>3 DEF Init, DatasetInv, Given

LEMMA DatasetStep == DatasetInv /\ [Next]_vars => DatasetInv'
<1> SUFFICES ASSUME DatasetInv, [Next]_vars PROVE DatasetInv'
  OBVIOUS
<1>1. CASE Select
  BY <1>1 DEF Select, inputs, DatasetInv, Given
<1>2. CASE Cluster
  <2>1. /\ phase = "cluster" /\ phase' = "unify" /\ UNCHANGED <<inputs, included, groupUf, splitOf>>
        /\ clusters' = { c \in { ClusterOf(Forest1, r) : r \in included } : Cardinality(c) > 1 }
    BY <1>2 DEF Cluster, Forest1, Self, Alike
  <2>2. included' = included /\ near' = near
    BY <2>1 DEF inputs
  <2>3. Forest1' = Forest1
    BY <2>2 DEF Forest1, Self, Alike
  <2>4. ClustersMade'
    BY <2>1, <2>2, <2>3 DEF ClustersMade, ClusterOf
  <2>5. Given'
    BY <2>1 DEF DatasetInv, Given, inputs
  <2> QED BY <2>1, <2>4, <2>5 DEF DatasetInv
<1>3. ASSUME UNCHANGED <<inputs, included, clusters>>, ClustersMade PROVE ClustersMade' /\ Joins' = Joins
  <2>1. included' = included /\ near' = near /\ clusters' = clusters
    BY <1>3 DEF inputs
  <2>2. Forest1' = Forest1
    BY <2>1 DEF Forest1, Self, Alike
  <2> QED BY <1>3, <2>1, <2>2 DEF ClustersMade, ClusterOf, Joins
<1>4. CASE Unify
  <2>1. /\ phase = "unify" /\ phase' = "assign" /\ UNCHANGED <<inputs, included, clusters, splitOf>>
        /\ groupUf' = UniteAll(groupUf, Joins, groupOf)
    BY <1>4 DEF Unify
  <2>2. ClustersMade' /\ Joins' = Joins
    BY <1>3, <2>1 DEF DatasetInv
  <2>3. groupOf' = groupOf /\ groupUf = [g \in Group |-> g]
    BY <2>1 DEF inputs, DatasetInv
  <2>4. UnionMade'
    BY <2>1, <2>2, <2>3 DEF UnionMade
  <2>5. Given'
    BY <2>1 DEF DatasetInv, Given, inputs
  <2> QED BY <2>1, <2>2, <2>4, <2>5 DEF DatasetInv
<1>5. ASSUME UNCHANGED <<inputs, included, clusters, groupUf>>, phase \in {"assign", "done"}
      PROVE  ClustersMade' /\ UnionMade'
  <2>1. ClustersMade' /\ Joins' = Joins
    BY <1>3, <1>5 DEF DatasetInv
  <2>2. groupOf' = groupOf /\ groupUf' = groupUf
    BY <1>5 DEF inputs
  <2>3. UnionMade
    BY <1>5 DEF DatasetInv
  <2> QED BY <2>1, <2>2, <2>3 DEF UnionMade
<1>6. ASSUME UNCHANGED <<inputs, included, groupUf>>
      PROVE  /\ Families' = Families /\ UnitOrders' = UnitOrders
             /\ \A s : Unit(s)' = Unit(s) /\ FamilyOfSample(s)' = FamilyOfSample(s)
             /\ \A u : FamilyOfUnit(u)' = FamilyOfUnit(u)
  <2>1. mode' = mode /\ groupOf' = groupOf /\ familyOf' = familyOf /\ included' = included /\ groupUf' = groupUf
    BY <1>6 DEF inputs
  <2>2. \A s : Unit(s)' = Unit(s) /\ FamilyOfSample(s)' = FamilyOfSample(s)
    BY <2>1 DEF Unit, FamilyOfSample
  <2>3. \A u : FamilyOfUnit(u)' = FamilyOfUnit(u)
    BY <2>1 DEF FamilyOfUnit, Unit, FamilyOfSample
  <2>4. Units' = Units
    BY <2>1 DEF Units, Unit, FamilyOfSample
  <2>5. Families' = Families
    BY <2>3, <2>4 DEF Families
  <2>6. \A f : UnitsOf(f)' = UnitsOf(f)
    BY <2>3, <2>4 DEF UnitsOf
  <2>7. UnitOrders' = UnitOrders
    BY <2>5, <2>6 DEF UnitOrders
  <2> QED BY <2>2, <2>3, <2>5, <2>7
<1>7. CASE AssignGroups
  <2>1. /\ phase = "assign" /\ phase' = "done" /\ mode = "group" /\ UNCHANGED <<inputs, included, clusters, groupUf>>
    BY <1>7 DEF AssignGroups
  <2>2. PICK order \in SetToSeqs(Families), unitOrder \in UnitOrders :
          splitOf' = [s \in included |->
            LET f == FamilyOfUnit(Unit(s))
            IN  Place(Index(order, f), Index(unitOrder[f], Unit(s)), Len(unitOrder[f]))]
    BY <1>7 DEF AssignGroups
  <2>3. GroupsAssigned'
    <3>1. included' = included
      BY <2>1
    <3> QED BY <1>6, <2>1, <2>2, <3>1 DEF GroupsAssigned
  <2>4. Given' /\ mode' = mode
    BY <2>1 DEF DatasetInv, Given, inputs
  <2> QED BY <1>5, <2>1, <2>3, <2>4 DEF DatasetInv
<1>8. CASE AssignFamilies
  <2>1. /\ phase = "assign" /\ phase' = "done" /\ mode = "family" /\ UNCHANGED <<inputs, included, clusters, groupUf>>
    BY <1>8 DEF AssignFamilies
  <2>2. PICK order \in SetToSeqs(Families) :
          splitOf' = [s \in included |-> SplitOfFamily(order, FamilyOfSample(s))]
    BY <1>8 DEF AssignFamilies
  <2>3. FamiliesAssigned'
    <3>1. included' = included
      BY <2>1
    <3> QED BY <1>6, <2>1, <2>2, <3>1 DEF FamiliesAssigned
  <2>4. Given' /\ mode' = mode
    BY <2>1 DEF DatasetInv, Given, inputs
  <2> QED BY <1>5, <2>1, <2>3, <2>4 DEF DatasetInv
<1>9. CASE UNCHANGED vars
  <2>1. phase' = phase /\ mode' = mode /\ included' = included /\ groupUf' = groupUf /\ splitOf' = splitOf
    BY <1>9 DEF vars, inputs
  <2>2. UNCHANGED <<inputs, included, clusters, groupUf>>
    BY <1>9 DEF vars
  <2>3. GroupsAssigned => GroupsAssigned'
    BY <1>6, <2>1, <2>2 DEF GroupsAssigned
  <2>4. FamiliesAssigned => FamiliesAssigned'
    BY <1>6, <2>1, <2>2 DEF FamiliesAssigned
  <2>5. Given'
    BY <2>1, <2>2 DEF DatasetInv, Given, inputs
  <2>6. ClustersMade => ClustersMade'
    BY <1>3, <2>2
  <2> QED BY <1>5, <2>1, <2>2, <2>3, <2>4, <2>5, <2>6 DEF DatasetInv
<1> QED BY <1>1, <1>2, <1>4, <1>7, <1>8, <1>9 DEF Next

--------------------------------------------------------------------------------
(* Split units are components.                                             *)

Alone(c, C) == \A x, y \in c : x \in C <=> y \in C   \* C does not divide c
Unpaired(C) == \A e \in Alike : e[1] \in C <=> e[2] \in C

LEMMA IncludedFinite ==
  ASSUME Given
  PROVE  /\ included \in SUBSET Nat /\ IsFiniteSet(included)
         /\ Group \in SUBSET Nat /\ IsFiniteSet(Group)
         /\ \A s \in included : groupOf[s] \in Group
<1>1. included \subseteq Sample /\ groupOf \in [Sample -> Group]
  BY DEF Given
<1> QED BY <1>1, DatasetAssumption, FS_Subset

(* A cluster is a component of the samples that look alike.                *)
LEMMA ClustersAreComponents ==
  ASSUME Given, ClustersMade
  PROVE  /\ \A c \in clusters : c \subseteq included /\ c # {} /\ Min(c) \in c
         /\ \A e \in Alike : \E c \in clusters : e[1] \in c /\ e[2] \in c
         /\ \A c \in clusters, C \in SUBSET included : Unpaired(C) => Alone(c, C)
<1>1. included \in SUBSET Nat /\ IsFiniteSet(included)
  BY IncludedFinite
<1>2. PICK f : f = Forest1
  OBVIOUS
<1>3. Alike \subseteq included \X included /\ \A e \in Alike : e[1] < e[2]
  BY DEF Alike, Given, Pairs
<1>4. IsFiniteSet(Alike) /\ Alike \in SUBSET (Nat \X Nat)
  <2>1. IsFiniteSet(included \X included)
    BY <1>1, FS_Product
  <2> QED BY <1>1, <1>3, <2>1, FS_Subset
<1>5. \A e \in Alike : Ends(Self, e) = e
  BY <1>3 DEF Ends, Self
<1>6. EdgesOf(Self, Alike) = Alike
  BY <1>5 DEF EdgesOf
<1>7. Components(included, f, Alike)
  <2>1. \A e \in Alike : Self[e[1]] \in included /\ Self[e[2]] \in included
    BY <1>3 DEF Self
  <2>2. Components(included, UniteAll([ x \in included |-> x ], Alike, Self), EdgesOf(Self, Alike))
    BY <1>1, <1>4, <2>1, AllUnited
  <2>3. UniteAll([ x \in included |-> x ], Alike, Self) = f
    BY <1>2 DEF Forest1, Self
  <2> QED BY <1>6, <2>2, <2>3
<1>8. clusters = { c \in { ClusterOf(f, r) : r \in included } : Cardinality(c) > 1 }
  BY <1>2 DEF ClustersMade
<1>9. ASSUME NEW c \in clusters
      PROVE  /\ c \subseteq included /\ c # {} /\ Min(c) \in c
             /\ \A x, y \in c : Same(f, x, y)
  <2>1. PICK r \in included : c = { x \in included : Root(f, x) = r }
    BY <1>8 DEF ClusterOf
  <2>2. c # {}
    <3>1. Cardinality(c) > 1
      BY <1>8
    <3>2. Cardinality({}) = 0
      BY FS_EmptySet
    <3> QED BY <3>1, <3>2
  <2>3. c \in SUBSET Nat
    BY <1>1, <2>1
  <2>4. Min(c) \in c
    BY <2>2, <2>3, MinIsSmallest
  <2> QED BY <2>1, <2>2, <2>4 DEF Same
<1>10. ASSUME NEW e \in Alike PROVE \E c \in clusters : e[1] \in c /\ e[2] \in c
  <2>1. e[1] \in included /\ e[2] \in included /\ e[1] < e[2]
    BY <1>3
  <2>2. PICK r : r = Root(f, e[1])
    OBVIOUS
  <2>3. r \in included /\ Root(f, e[2]) = r
    <3>1. IsRoot(included, f, r)
      BY <1>1, <1>7, <2>1, <2>2, RootIsRoot DEF Components
    <3> QED BY <1>7, <2>2, <3>1 DEF Components, Same, IsRoot
  <2>4. PICK c : c = ClusterOf(f, r)
    OBVIOUS
  <2>5. e[1] \in c /\ e[2] \in c /\ c \subseteq included
    BY <2>1, <2>2, <2>3, <2>4 DEF ClusterOf
  <2>6. Cardinality(c) > 1
    <3>1. IsFiniteSet(c)
      BY <1>1, <2>5, FS_Subset
    <3>2. e[1] # e[2]
      <4>1. e[1] \in Nat /\ e[2] \in Nat
        BY <1>1, <2>1
      <4> QED BY <2>1, <4>1
    <3>3. Cardinality({e[1]} \cup {e[2]}) = 2
      <4>1. IsFiniteSet({e[1]}) /\ Cardinality({e[1]}) = 1
        BY FS_Singleton
      <4>2. Cardinality({e[1]} \cup {e[2]}) = Cardinality({e[1]}) + 1
        BY <3>2, <4>1, FS_AddElement
      <4> QED BY <4>1, <4>2
    <3>4. Cardinality({e[1]} \cup {e[2]}) <= Cardinality(c)
      BY <2>5, <3>1, FS_Subset
    <3>5. Cardinality(c) \in Nat
      BY <3>1, FS_CardinalityType
    <3> QED BY <3>3, <3>4, <3>5
  <2> QED BY <1>8, <2>3, <2>4, <2>5, <2>6
<1>11. ASSUME NEW c \in clusters, NEW C \in SUBSET included, Unpaired(C) PROVE Alone(c, C)
  <2>1. Whole(C, Alike)
    BY <1>11 DEF Whole, Unpaired
  <2>2. \A x, y \in included : Same(f, x, y) => (x \in C <=> y \in C)
    BY <1>7, <2>1 DEF Components
  <2> QED BY <1>9, <2>2 DEF Alone
<1> QED BY <1>9, <1>10, <1>11

(* The groups joined are those of the samples of a cluster.                *)
LEMMA GroupsAreComponents ==
  ASSUME Given, ClustersMade, UnionMade
  PROVE  Components(Group, groupUf, EdgesOf(groupOf, Joins)) /\ Joins \subseteq included \X included
<1>1. included \in SUBSET Nat /\ IsFiniteSet(included) /\ Group \in SUBSET Nat /\ IsFiniteSet(Group)
  BY IncludedFinite
<1>2. Joins \subseteq included \X included
  <2> SUFFICES ASSUME NEW e \in Joins PROVE e \in included \X included
    OBVIOUS
  <2>1. PICK c \in clusters : \E x \in c \ {Min(c)} : e = <<Min(c), x>>
    BY DEF Joins
  <2>2. c \subseteq included /\ Min(c) \in c
    BY ClustersAreComponents
  <2> QED BY <2>1, <2>2
<1>3. IsFiniteSet(Joins) /\ Joins \in SUBSET (Nat \X Nat)
  <2>1. IsFiniteSet(included \X included)
    BY <1>1, FS_Product
  <2> QED BY <1>1, <1>2, <2>1, FS_Subset
<1>4. \A e \in Joins : groupOf[e[1]] \in Group /\ groupOf[e[2]] \in Group
  BY <1>2, IncludedFinite
<1>5. Components(Group, UniteAll([ g \in Group |-> g ], Joins, groupOf), EdgesOf(groupOf, Joins))
  BY <1>1, <1>3, <1>4, AllUnited
<1> QED BY <1>2, <1>5 DEF UnionMade

LEMMA UnitsLink ==
  ASSUME Given, ClustersMade, UnionMade, mode = "group", NEW s \in included, NEW t \in included
  PROVE  Unit(s) = Unit(t) <=> Linked(s, t)
<1>1. \A x \in included : Unit(x) = Root(groupUf, groupOf[x]) /\ groupOf[x] \in Group
  BY IncludedFinite DEF Unit
<1>2. Components(Group, groupUf, EdgesOf(groupOf, Joins)) /\ Joins \subseteq included \X included
  BY GroupsAreComponents
<1>3. \A x, y \in included : LookAlike(x, y) <=> <<x, y>> \in Alike \/ <<y, x>> \in Alike
  BY DEF LookAlike, Alike
<1>4. ASSUME Unit(s) = Unit(t) PROVE Linked(s, t)
  <2> SUFFICES ASSUME NEW C \in SUBSET included, s \in C,
                      \A x \in C, y \in included : Joined(x, y) => y \in C
               PROVE  t \in C
    BY DEF Linked
  <2>1. PICK H : H = { groupOf[x] : x \in C }
    OBVIOUS
  <2>2. \A x \in included : groupOf[x] \in H <=> x \in C
    BY <2>1 DEF Joined
  <2>3. Unpaired(C)
    <3> SUFFICES ASSUME NEW e \in Alike PROVE e[1] \in C <=> e[2] \in C
      BY DEF Unpaired
    <3>1. e \in near /\ e[1] \in included /\ e[2] \in included /\ e = <<e[1], e[2]>>
      BY DEF Alike, Given, Pairs
    <3>2. Joined(e[1], e[2]) /\ Joined(e[2], e[1])
      BY <3>1 DEF Joined, LookAlike
    <3> QED BY <3>1, <3>2
  <2>4. Whole(H, EdgesOf(groupOf, Joins))
    <3> SUFFICES ASSUME NEW e \in Joins PROVE groupOf[e[1]] \in H <=> groupOf[e[2]] \in H
      BY DEF Whole, EdgesOf, Ends
    <3>1. PICK c \in clusters : \E x \in c \ {Min(c)} : e = <<Min(c), x>>
      BY DEF Joins
    <3>2. Min(c) \in c /\ c \subseteq included /\ Alone(c, C)
      BY <2>3, ClustersAreComponents
    <3>3. e[1] \in c /\ e[2] \in c
      BY <3>1, <3>2
    <3>4. e[1] \in C <=> e[2] \in C
      BY <3>2, <3>3 DEF Alone
    <3> QED BY <2>2, <3>2, <3>3, <3>4
  <2>5. H \in SUBSET Group
    BY <1>1, <2>1
  <2>6. Same(groupUf, groupOf[s], groupOf[t])
    BY <1>1, <1>4 DEF Same
  <2>7. groupOf[s] \in H <=> groupOf[t] \in H
    BY <1>1, <1>2, <2>4, <2>5, <2>6 DEF Components
  <2> QED BY <2>2, <2>7
<1>5. ASSUME Linked(s, t) PROVE Unit(s) = Unit(t)
  <2>1. PICK C : C = { x \in included : Unit(x) = Unit(s) }
    OBVIOUS
  <2>2. \A c \in clusters : \A x \in c : Unit(x) = Unit(Min(c))
    <3> SUFFICES ASSUME NEW c \in clusters, NEW x \in c, x # Min(c) PROVE Unit(x) = Unit(Min(c))
      OBVIOUS
    <3>1. <<Min(c), x>> \in Joins
      BY DEF Joins
    <3>2. Ends(groupOf, <<Min(c), x>>) \in EdgesOf(groupOf, Joins)
      BY <3>1 DEF EdgesOf
    <3>3. Ends(groupOf, <<Min(c), x>>)[1] = groupOf[Min(c)] /\ Ends(groupOf, <<Min(c), x>>)[2] = groupOf[x]
      BY DEF Ends
    <3>4. Root(groupUf, groupOf[Min(c)]) = Root(groupUf, groupOf[x])
      BY <1>2, <3>2, <3>3 DEF Components, Same
    <3>5. Min(c) \in included /\ x \in included
      BY <1>2, <3>1
    <3> QED BY <1>1, <3>4, <3>5
  <2>3. ASSUME NEW e \in Alike PROVE Unit(e[1]) = Unit(e[2])
    <3>1. PICK c \in clusters : e[1] \in c /\ e[2] \in c
      BY ClustersAreComponents
    <3> QED BY <2>2, <3>1
  <2>4. ASSUME NEW x \in C, NEW y \in included, Joined(x, y) PROVE y \in C
    <3>1. x \in included /\ Unit(x) = Unit(s)
      BY <2>1
    <3>2. CASE groupOf[x] = groupOf[y]
      BY <1>1, <2>1, <3>1, <3>2
    <3>3. CASE <<x, y>> \in Alike
      <4>1. <<x, y>>[1] = x /\ <<x, y>>[2] = y
        OBVIOUS
      <4>2. Unit(x) = Unit(y)
        BY <2>3, <3>3, <4>1
      <4> QED BY <2>1, <3>1, <4>2
    <3>4. CASE <<y, x>> \in Alike
      <4>1. <<y, x>>[1] = y /\ <<y, x>>[2] = x
        OBVIOUS
      <4>2. Unit(x) = Unit(y)
        BY <2>3, <3>4, <4>1
      <4> QED BY <2>1, <3>1, <4>2
    <3> QED BY <1>3, <2>4, <3>1, <3>2, <3>3, <3>4 DEF Joined
  <2>5. C \in SUBSET included /\ s \in C
    BY <2>1
  <2>6. t \in C
    BY <1>5, <2>4, <2>5 DEF Linked
  <2> QED BY <2>1, <2>6
<1> QED BY <1>4, <1>5

LEMMA DoneUnits == DatasetInv => UnitsAreComponents
<1> SUFFICES ASSUME DatasetInv, phase = "done", mode = "group", NEW s \in included, NEW t \in included
             PROVE  /\ Unit(s) = Unit(t) <=> Linked(s, t)
                    /\ Unit(s) = Unit(t) => splitOf[s] = splitOf[t]
  BY DEF UnitsAreComponents
<1>1. Unit(s) = Unit(t) <=> Linked(s, t)
  BY UnitsLink DEF DatasetInv
<1>2. GroupsAssigned
  BY DEF DatasetInv
<1>3. Unit(s) = Unit(t) => splitOf[s] = splitOf[t]
  BY <1>2 DEF GroupsAssigned
<1> QED BY <1>1, <1>3

(* Near-duplicate designs are one split unit, and it is the component of   *)
(* the designs that look alike: for every corpus and every relation of     *)
(* likeness.                                                               *)
THEOREM ComponentUnits == Spec => []UnitsAreComponents
  BY DatasetInit, DatasetStep, DoneUnits, PTL DEF Spec

--------------------------------------------------------------------------------
(* Dealing out: an order of a set is a numbering of it.                    *)

LEMMA OrdersNumber ==
  ASSUME NEW S, IsFiniteSet(S), NEW n, n = Cardinality(S), NEW q \in SetToSeqs(S)
  PROVE  /\ n \in Nat /\ Len(q) = n
         /\ \A x \in S : Index(q, x) \in 1..n /\ q[Index(q, x)] = x
         /\ \A i \in 1..n : q[i] \in S /\ Index(q, q[i]) = i
<1>1. n \in Nat /\ IsFiniteSet(1..n) /\ Cardinality(1..n) = n
  BY FS_CardinalityType, FS_Interval
<1>2. q \in [1..n -> S] /\ \A i, j \in 1..n : i # j => q[i] # q[j]
  BY DEF SetToSeqs
<1>3. Len(q) = n
  BY <1>1, <1>2
<1>4. q \in Injection(1..n, S)
  <2>1. DOMAIN q = 1..n
    BY <1>2
  <2>2. \A i, j \in 1..n : q[i] = q[j] => i = j
    BY <1>2
  <2>3. IsInjective(q)
    BY Zenon, <2>1, <2>2 DEF IsInjective
  <2> QED BY <1>2, <2>3 DEF Injection
<1>5. q \in Surjection(1..n, S)
  BY <1>1, <1>4, FS_Injection
<1>6. ASSUME NEW x \in S PROVE Index(q, x) \in 1..n /\ q[Index(q, x)] = x
  <2>1. \E i \in 1..Len(q) : q[i] = x
    BY <1>3, <1>5 DEF Surjection
  <2>2. Index(q, x) \in 1..Len(q) /\ q[Index(q, x)] = x
    BY Zenon, <2>1 DEF Index
  <2> QED BY <1>3, <2>2
<1>7. ASSUME NEW i \in 1..n PROVE q[i] \in S /\ Index(q, q[i]) = i
  BY <1>2, <1>6
<1> QED BY <1>1, <1>3, <1>6, <1>7

LEMMA UnitsFinite ==
  ASSUME Given
  PROVE  /\ IsFiniteSet(Units) /\ IsFiniteSet(Families)
         /\ \A f : IsFiniteSet(UnitsOf(f))
         /\ \A s \in included : Unit(s) \in Units /\ FamilyOfUnit(Unit(s)) \in Families
<1>1. IsFiniteSet(included)
  BY IncludedFinite
<1>2. PICK h : h = [ s \in included |-> Unit(s) ]
  OBVIOUS
<1>3. h \in Surjection(included, Units)
  BY <1>2 DEF Surjection, Units
<1>4. IsFiniteSet(Units)
  BY <1>1, <1>3, FS_Surjection
<1>5. PICK k : k = [ u \in Units |-> FamilyOfUnit(u) ]
  OBVIOUS
<1>6. k \in Surjection(Units, Families)
  BY <1>5 DEF Surjection, Families
<1>7. IsFiniteSet(Families)
  BY <1>4, <1>6, FS_Surjection
<1>8. \A f : IsFiniteSet(UnitsOf(f))
  BY <1>4, FS_Subset DEF UnitsOf
<1> QED BY <1>4, <1>7, <1>8 DEF Units, Families

(* Of the places of a family's units one is for training, and no two of    *)
(* them are for the same held-out split.                                   *)
LEMMA PlaceTrains ==
  ASSUME NEW n \in Nat, n > 0, NEW k
  PROVE  \E j \in 1..n : Place(k, j, n) = "train"
<1>1. CASE n = 1
  <2>1. 1 \in 1..n /\ Place(k, 1, n) = "train"
    BY <1>1 DEF Place
  <2> QED BY <2>1
<1>2. CASE n = 2
  <2>1. 2 \in 1..n /\ Place(k, 2, n) = "train"
    BY <1>2 DEF Place
  <2> QED BY <2>1
<1>3. CASE n > 2
  <2>1. 3 \in 1..n /\ Place(k, 3, n) = "train"
    BY <1>3 DEF Place
  <2> QED BY <2>1
<1> QED BY <1>1, <1>2, <1>3

LEMMA PlacesDiffer ==
  ASSUME NEW n \in Nat, NEW k \in Nat, NEW i \in 1..n, NEW j \in 1..n,
         Place(k, i, n) = Place(k, j, n), Place(k, i, n) # "train"
  PROVE  i = j
<1>1. (i = 1 \/ i = 2) /\ (j = 1 \/ j = 2)
  BY DEF Place
<1>2. SUFFICES ASSUME i # j PROVE FALSE
  OBVIOUS
<1>3. CASE k % 2 = 1
  BY <1>1, <1>2, <1>3 DEF Place
<1>4. CASE k % 2 # 1
  BY <1>1, <1>2, <1>4 DEF Place
<1> QED BY <1>3, <1>4

LEMMA DoneFamilies == DatasetInv => EveryFamilyIsTrained
<1> SUFFICES ASSUME DatasetInv, phase = "done", mode = "group", NEW f \in Families
             PROVE  /\ \E s \in included : FamilyOfUnit(Unit(s)) = f /\ splitOf[s] = "train"
                    /\ \A s, t \in included :
                         FamilyOfUnit(Unit(s)) = f /\ FamilyOfUnit(Unit(t)) = f /\ splitOf[s] = splitOf[t]
                           /\ splitOf[s] # "train" => Unit(s) = Unit(t)
  BY DEF EveryFamilyIsTrained
<1>1. Given
  BY DEF DatasetInv
<1>2. PICK order \in SetToSeqs(Families), unitOrder \in UnitOrders :
        splitOf = [s \in included |->
          LET g == FamilyOfUnit(Unit(s))
          IN  Place(Index(order, g), Index(unitOrder[g], Unit(s)), Len(unitOrder[g]))]
  BY DEF DatasetInv, GroupsAssigned
<1>3. PICK q : q = unitOrder[f] /\ q \in SetToSeqs(UnitsOf(f))
  BY <1>2 DEF UnitOrders
<1>4. PICK n : n = Cardinality(UnitsOf(f))
  OBVIOUS
<1>5. /\ n \in Nat /\ Len(q) = n
      /\ \A u \in UnitsOf(f) : Index(q, u) \in 1..n /\ q[Index(q, u)] = u
      /\ \A i \in 1..n : q[i] \in UnitsOf(f) /\ Index(q, q[i]) = i
  BY <1>1, <1>3, <1>4, UnitsFinite, OrdersNumber
<1>6. PICK k \in Nat : k = Index(order, f)
  <2>1. Index(order, f) \in 1..Cardinality(Families)
    BY <1>1, <1>2, UnitsFinite, OrdersNumber
  <2>2. Cardinality(Families) \in Nat
    BY <1>1, UnitsFinite, FS_CardinalityType
  <2> QED BY <2>1, <2>2
<1>7. n > 0
  <2>1. PICK u \in Units : FamilyOfUnit(u) = f
    BY DEF Families
  <2>2. u \in UnitsOf(f)
    BY <2>1 DEF UnitsOf
  <2>3. Index(q, u) \in 1..n
    BY <1>5, <2>2
  <2> QED BY <1>5, <2>3
<1>8. \A s \in included : FamilyOfUnit(Unit(s)) = f =>
        splitOf[s] = Place(k, Index(q, Unit(s)), n) /\ Unit(s) \in UnitsOf(f)
  BY <1>1, <1>2, <1>3, <1>5, <1>6, UnitsFinite DEF UnitsOf
<1>9. \E s \in included : FamilyOfUnit(Unit(s)) = f /\ splitOf[s] = "train"
  <2>1. PICK j \in 1..n : Place(k, j, n) = "train"
    BY <1>5, <1>7, PlaceTrains
  <2>2. q[j] \in UnitsOf(f) /\ Index(q, q[j]) = j
    BY <1>5
  <2>3. PICK s \in included : Unit(s) = q[j] /\ FamilyOfUnit(q[j]) = f
    BY <2>2 DEF UnitsOf, Units
  <2> QED BY <1>8, <2>1, <2>2, <2>3
<1>10. ASSUME NEW s \in included, NEW t \in included, FamilyOfUnit(Unit(s)) = f, FamilyOfUnit(Unit(t)) = f,
              splitOf[s] = splitOf[t], splitOf[s] # "train"
       PROVE  Unit(s) = Unit(t)
  <2>1. PICK i \in 1..n, j \in 1..n : i = Index(q, Unit(s)) /\ j = Index(q, Unit(t)) /\ q[i] = Unit(s) /\ q[j] = Unit(t)
    BY <1>5, <1>8, <1>10
  <2>2. Place(k, i, n) = Place(k, j, n) /\ Place(k, i, n) # "train"
    BY <1>8, <1>10, <2>1
  <2>3. i = j
    BY <1>5, <2>2, PlacesDiffer
  <2> QED BY <2>1, <2>3
<1> QED BY <1>9, <1>10

(* In group mode every family keeps a unit to train on and holds out at    *)
(* most one for val and one for test, in whatever order units are dealt.   *)
THEOREM TrainedFamilies == Spec => []EveryFamilyIsTrained
  BY DatasetInit, DatasetStep, DoneFamilies, PTL DEF Spec

(* In family mode a family is the family of its samples.                   *)
LEMMA FamiliesOfSamples ==
  ASSUME Given, mode = "family"
  PROVE  Families = { FamilyOfSample(s) : s \in included }
<1>1. \A s \in included : Unit(s) = FamilyOfSample(s)
  BY DEF Unit
<1>2. ASSUME NEW u \in Units PROVE FamilyOfUnit(u) = u
  <2>1. PICK members : members = { s \in included : Unit(s) = u }
    OBVIOUS
  <2>2. members # {}
    BY <2>1 DEF Units
  <2>3. members \in SUBSET Nat /\ IsFiniteSet(members)
    BY <2>1, IncludedFinite, FS_Subset
  <2>4. \E s \in members : \A t \in members : t <= s
    BY <2>2, <2>3, Greatest
  <2>5. PICK s : s = (CHOOSE m \in members : \A t \in members : t <= m) /\ s \in members
    BY <2>4
  <2>6. FamilyOfUnit(u) = FamilyOfSample(s)
    BY <2>1, <2>5 DEF FamilyOfUnit
  <2> QED BY <1>1, <2>1, <2>5, <2>6
<1>3. Units = { FamilyOfSample(s) : s \in included }
  BY <1>1 DEF Units
<1> QED BY <1>2, <1>3 DEF Families

(* Two held-out blocks of families leave something to train on.            *)
LEMMA HeldFits ==
  ASSUME NEW n \in Nat, n > 0
  PROVE  Held(n) \in Nat /\ Held(n) >= 1 /\ Held(n) <= n /\ (n >= 3 => 2 * Held(n) < n)
<1>1. PICK k \in Nat, r \in 0..5 : n = 6 * k + r /\ k = n \div 6 /\ r = n % 6
  <2>1. n = 6 * (n \div 6) + (n % 6)
    OBVIOUS
  <2>2. n \div 6 \in Nat
    OBVIOUS
  <2>3. n % 6 \in 0..5
    OBVIOUS
  <2> QED BY <2>1, <2>2, <2>3
<1>2. PICK h \in Nat : h = RoundSixth(n) /\ (h = k \/ (h = k + 1 /\ r >= 3))
  BY <1>1 DEF RoundSixth
<1>3. Held(n) = IF 1 < h THEN h ELSE 1
  BY <1>2 DEF Held, Greater
<1> QED BY <1>1, <1>2, <1>3

LEMMA DoneSplits == DatasetInv => NoSplitIsEmpty
<1> SUFFICES ASSUME DatasetInv, phase = "done", mode = "family", included # {},
                    NEW filled, filled = { splitOf[s] : s \in included }
             PROVE  "test" \in filled /\ (Cardinality(Families) >= 3 => filled = Split)
  BY DEF NoSplitIsEmpty
<1>1. Given
  BY DEF DatasetInv
<1>2. PICK order \in SetToSeqs(Families) :
        splitOf = [s \in included |-> SplitOfFamily(order, FamilyOfSample(s))]
  BY DEF DatasetInv, FamiliesAssigned
<1>3. PICK n : n = Cardinality(Families)
  OBVIOUS
<1>4. /\ n \in Nat /\ Len(order) = n
      /\ \A f \in Families : Index(order, f) \in 1..n /\ order[Index(order, f)] = f
      /\ \A i \in 1..n : order[i] \in Families /\ Index(order, order[i]) = i
  BY <1>1, <1>2, <1>3, UnitsFinite, OrdersNumber
<1>5. Families = { FamilyOfSample(s) : s \in included }
  BY <1>1, FamiliesOfSamples
<1>6. n > 0
  <2>1. PICK f : f \in Families
    BY <1>5
  <2>2. Index(order, f) \in 1..n
    BY <1>4, <2>1
  <2> QED BY <1>4, <2>2
<1>7. PICK h \in Nat : h = Held(n) /\ h >= 1 /\ h <= n /\ (n >= 3 => 2 * h < n)
  BY <1>4, <1>6, HeldFits
<1>8. ASSUME NEW i \in 1..n
      PROVE  (IF i <= h THEN "test" ELSE IF i <= 2 * h THEN "val" ELSE "train") \in filled
  <2>1. PICK s \in included : FamilyOfSample(s) = order[i]
    BY <1>4, <1>5
  <2>2. SplitOfFamily(order, order[i]) = IF i <= h THEN "test" ELSE IF i <= 2 * h THEN "val" ELSE "train"
    <3>1. Index(order, order[i]) = i
      BY <1>4
    <3> QED BY <1>4, <1>7, <3>1 DEF SplitOfFamily
  <2>3. splitOf[s] = SplitOfFamily(order, order[i])
    BY <1>2, <2>1
  <2> QED BY <2>1, <2>2, <2>3
<1>9. "test" \in filled
  <2>1. 1 \in 1..n /\ 1 <= h
    BY <1>4, <1>6, <1>7
  <2> QED BY <1>8, <2>1
<1>10. ASSUME n >= 3 PROVE filled = Split
  <2>1. h + 1 \in 1..n /\ ~(h + 1 <= h) /\ h + 1 <= 2 * h
    BY <1>4, <1>7, <1>10
  <2>2. "val" \in filled
    BY <1>8, <2>1
  <2>3. n \in 1..n /\ ~(n <= h) /\ ~(n <= 2 * h)
    BY <1>4, <1>6, <1>7, <1>10
  <2>4. "train" \in filled
    BY <1>8, <2>3
  <2>5. filled \subseteq Split
    <3>1. \A f : SplitOfFamily(order, f) \in Split
      BY DEF SplitOfFamily, Split
    <3> QED BY <1>2, <3>1
  <2> QED BY <1>9, <2>2, <2>4, <2>5 DEF Split
<1> QED BY <1>3, <1>9, <1>10

(* Family mode leaves no split empty that could be filled, for any number  *)
(* of families and any permutation of them.                                *)
THEOREM FilledSplits == Spec => []NoSplitIsEmpty
  BY DatasetInit, DatasetStep, DoneSplits, PTL DEF Spec
--------------------------------------------------------------------------------
(* Types.                                                                  *)

LEMMA DatasetTyped == DatasetInv => TypeOK
<1> SUFFICES ASSUME DatasetInv PROVE TypeOK
  OBVIOUS
<1>1. Given
  BY DEF DatasetInv
<1>2. clusters \subseteq SUBSET Sample
  <2>1. CASE clusters = {}
    BY <2>1
  <2>2. CASE ClustersMade
    BY <1>1, <2>2, ClustersAreComponents DEF Given
  <2> QED BY <1>1, <2>1, <2>2 DEF DatasetInv, Given
<1>3. groupUf \in [Group -> Group]
  <2>1. CASE groupUf = [g \in Group |-> g]
    BY <2>1
  <2>2. CASE ClustersMade /\ UnionMade
    BY <1>1, <2>2, GroupsAreComponents DEF Components, Forest
  <2> QED BY <1>1, <2>1, <2>2 DEF DatasetInv, Given
<1>4. splitOf \in [included -> Split] \cup {<<>>}
  <2>1. CASE phase # "done"
    BY <2>1 DEF DatasetInv
  <2>2. CASE GroupsAssigned
    <3>1. \A k, j, n : Place(k, j, n) \in Split
      BY DEF Place, Split
    <3> QED BY <2>2, <3>1 DEF GroupsAssigned
  <2>3. CASE FamiliesAssigned
    <3>1. \A order, f : SplitOfFamily(order, f) \in Split
      BY DEF SplitOfFamily, Split
    <3> QED BY <2>3, <3>1 DEF FamiliesAssigned
  <2> QED BY <1>1, <2>1, <2>2, <2>3 DEF DatasetInv, Given
<1> QED BY <1>1, <1>2, <1>3, <1>4 DEF TypeOK, Given

(* Every variable of a build has its type, whatever the corpus.            *)
THEOREM DatasetTypes == Spec => []TypeOK
  BY DatasetInit, DatasetStep, DatasetTyped, PTL DEF Spec
================================================================================
