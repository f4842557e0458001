---------------------------- MODULE RecognizerProofs ---------------------------
(***************************************************************************)
(* What holds of the recognizer's rules and of the output checks, for      *)
(* every shape: each rule proposes features of known types, each with some *)
(* faces of the shape, so that everything keeps its type and no output     *)
(* check on ids, ranges, adjacency, masks or assignment can fail.          *)
(*                                                                         *)
(* The rules are folds over sequences (work lists, candidate lists).  That *)
(* a fold exists as the recursive function its definition chooses, and     *)
(* that it stays where its steps stay, is proved once (FoldExists,         *)
(* FoldStays) and used for each rule.                                      *)
(***************************************************************************)
EXTENDS ExtractionProofs

--------------------------------------------------------------------------------
(* Folds over sequences.                                                   *)

LEMMA MaxIsLargest ==
  ASSUME NEW n \in Nat, NEW s \in SUBSET (1..n), s # {}
  PROVE  Max(s) \in s /\ \A y \in s : Max(s) >= y
<1> DEFINE Down == { m \in Nat : n - m \in s }
<1>1. PICK x \in s : TRUE
  OBVIOUS
<1>2. n - x \in Down
  <2>1. x \in 1..n
    OBVIOUS
  <2> QED BY <2>1
<1>3. PICK m \in Down : \A k \in Down : ~(k < m)
  <2>1. IsWellFoundedOn(OpToRel(<, Nat), Nat)
    BY NatLessThanWellFounded
  <2>2. Down \subseteq Nat /\ Down # {}
    BY <1>2
  <2> HIDE DEF Down
  <2>3. PICK m \in Down : \A k \in Down : <<k, m>> \notin OpToRel(<, Nat)
    BY <2>1, <2>2, WFMin
  <2> QED
    BY <2>2, <2>3 DEF OpToRel
<1>4. n - m \in s /\ \A y \in s : n - m >= y
  <2>1. ASSUME NEW y \in s PROVE n - m >= y
    <3>1. y \in 1..n
      OBVIOUS
    <3>2. n - y \in Down
      BY <3>1
    <3> QED BY <1>3, <3>1, <3>2
  <2> QED BY <1>3, <2>1
<1> HIDE DEF Down
<1> QED
  BY <1>4, Zenon DEF Max

LEMMA SubsetsAreSmall ==
  ASSUME NEW n \in Nat
  PROVE  /\ IsFiniteSet(1..n) /\ Cardinality(1..n) = n
         /\ \A s \in SUBSET (1..n) : IsFiniteSet(s) /\ Cardinality(s) \in Nat /\ Cardinality(s) <= n
<1>1. IsFiniteSet(1..n) /\ Cardinality(1..n) = n
  BY FS_Interval
<1>2. \A s \in SUBSET (1..n) : IsFiniteSet(s) /\ Cardinality(s) <= n
  BY <1>1, FS_Subset
<1> QED BY <1>1, <1>2, FS_CardinalityType

FoldStep(step, base, g, s) ==
  IF s = {} THEN base ELSE step[<<g[s \ {Max(s)}], Max(s)>>]
IsFold(step, base, g, S) == g = [ s \in SUBSET S |-> FoldStep(step, base, g, s) ]

(* A fold whose steps stay in a set U exists as a recursive function.      *)
LEMMA FoldExists ==
  ASSUME NEW n \in Nat, NEW U, NEW base \in U, NEW step \in [ U \X (1..n) -> U ]
  PROVE  \E g : IsFold(step, base, g, 1..n) /\ \A s \in SUBSET (1..n) : g[s] \in U
<1> DEFINE S == 1..n
           Small(k) == { s \in SUBSET S : Cardinality(s) <= k }
           Good(g, k) == /\ g = [ s \in Small(k) |-> FoldStep(step, base, g, s) ]
                         /\ \A s \in Small(k) : g[s] \in U
           G == { k \in Nat : \E g : Good(g, k) }
<1>1. /\ IsFiniteSet(S) /\ Cardinality(S) = n
      /\ \A s \in SUBSET S : IsFiniteSet(s) /\ Cardinality(s) \in Nat /\ Cardinality(s) <= n
  BY SubsetsAreSmall
<1>2. 0 \in G
  <2>1. \A s \in Small(0) : s = {}
    BY <1>1, FS_EmptySet
  <2>2. PICK g : g = [ s \in Small(0) |-> base ]
    OBVIOUS
  <2>3. Good(g, 0)
    BY <2>1, <2>2 DEF FoldStep
  <2> QED BY <2>3
<1>3. ASSUME NEW k \in Nat, k \in G PROVE k + 1 \in G
  <2>1. PICK g : Good(g, k)
    BY <1>3
  <2>2. PICK h : h = [ s \in Small(k + 1) |-> FoldStep(step, base, g, s) ]
    OBVIOUS
  <2>3. \A s \in Small(k) : s \in Small(k + 1) /\ h[s] = g[s] /\ g[s] \in U
    <3>1. \A s \in Small(k) : s \in Small(k + 1)
      BY <1>1
    <3>2. \A s \in Small(k) : h[s] = FoldStep(step, base, g, s) /\ g[s] = FoldStep(step, base, g, s) /\ g[s] \in U
      BY <2>1, <2>2, <3>1
    <3> QED BY <3>1, <3>2
  <2>4. ASSUME NEW s \in Small(k + 1), s # {}
        PROVE  Max(s) \in 1..n /\ s \ {Max(s)} \in Small(k)
    <3>1. Max(s) \in s
      BY <2>4, MaxIsLargest
    <3>2. Cardinality(s \ {Max(s)}) = Cardinality(s) - 1
      BY <1>1, <3>1, FS_RemoveElement
    <3>3. Cardinality(s) \in Nat /\ Cardinality(s) <= k + 1
      BY <1>1
    <3>4. Cardinality(s \ {Max(s)}) <= k
      BY <3>2, <3>3
    <3> QED BY <3>1, <3>4
  <2>5. \A s \in Small(k + 1) : FoldStep(step, base, g, s) = FoldStep(step, base, h, s)
    BY <2>3, <2>4 DEF FoldStep
  <2>6. \A s \in Small(k + 1) : FoldStep(step, base, g, s) \in U
    BY <2>3, <2>4 DEF FoldStep
  <2>7. h = [ s \in Small(k + 1) |-> FoldStep(step, base, h, s) ]
    BY <2>2, <2>5
  <2>8. \A s \in Small(k + 1) : h[s] \in U
    BY <2>2, <2>6
  <2>9. \E f : Good(f, k + 1)
    <3> WITNESS h
    <3> QED BY <2>7, <2>8
  <2> HIDE DEF Good
  <2> QED BY <2>9
<1> HIDE DEF G
<1>4. n \in G
  BY <1>2, <1>3, Inductively
<1>5. Small(n) = SUBSET S
  BY <1>1
<1> QED
  BY <1>4, <1>5 DEF G, IsFold

(* What a fold's steps preserve holds of its result.                       *)
LEMMA FoldStays ==
  ASSUME NEW n \in Nat, NEW U, NEW g, g[{}] \in U,
         \A s \in SUBSET (1..n) : s # {} /\ g[s \ {Max(s)}] \in U => g[s] \in U
  PROVE  g[1..n] \in U
<1> DEFINE S == 1..n
           G == { k \in Nat : \A s \in SUBSET S : Cardinality(s) = k => g[s] \in U }
<1>1. /\ IsFiniteSet(S) /\ Cardinality(S) = n
      /\ \A s \in SUBSET S : IsFiniteSet(s) /\ Cardinality(s) \in Nat
  BY SubsetsAreSmall
<1>2. 0 \in G
  BY <1>1, FS_EmptySet
<1>3. ASSUME NEW k \in Nat, k \in G PROVE k + 1 \in G
  <2> SUFFICES ASSUME NEW s \in SUBSET S, Cardinality(s) = k + 1 PROVE g[s] \in U
    OBVIOUS
  <2>1. s # {}
    <3>1. Cardinality({}) = 0
      BY FS_EmptySet
    <3> QED BY <3>1
  <2>2. Max(s) \in s
    BY <2>1, MaxIsLargest
  <2>3. Cardinality(s \ {Max(s)}) = k
    BY <1>1, <2>2, FS_RemoveElement
  <2>4. g[s \ {Max(s)}] \in U
    BY <1>3, <2>3
  <2> QED BY <2>1, <2>4
<1> HIDE DEF G
<1>4. n \in G
  BY <1>2, <1>3, Inductively
<1> QED
  BY <1>1, <1>4 DEF G

Grow(next, found) == found \cup UNION { next[x] : x \in found }
ReachStep(start, next, g, s) == IF s = {} THEN start ELSE Grow(next, g[s \ {Max(s)}])
IsReach(start, next, g, S) == g = [ s \in SUBSET S |-> ReachStep(start, next, g, s) ]

LEMMA ReachedIsChosen ==
  ASSUME NEW start, NEW next
  PROVE  Reached(start, next) = (CHOOSE g : IsReach(start, next, g, DOMAIN faces))[DOMAIN faces]
BY Zenon DEF Reached, FoldLeft, MapThenFoldSet, IsReach, ReachStep, Grow

(* A work list stays where every step stays.                               *)
LEMMA ReachedWithin ==
  ASSUME NEW n \in Nat, DOMAIN faces = 1..n, NEW W, NEW start \in SUBSET W, NEW next,
         \A x \in W : next[x] \subseteq W
  PROVE  start \subseteq Reached(start, next) /\ Reached(start, next) \subseteq W
<1> DEFINE U == { u \in SUBSET W : start \subseteq u }
<1>1. \A u \in U : Grow(next, u) \in U
  BY DEF Grow
<1>2. start \in U
  OBVIOUS
<1>3. \E g : IsReach(start, next, g, 1..n)
  <2>1. PICK step : step = [ p \in U \X (1..n) |-> Grow(next, p[1]) ]
    OBVIOUS
  <2>2. step \in [ U \X (1..n) -> U ]
    BY <1>1, <2>1
  <2> HIDE DEF U
  <2>3. PICK g : IsFold(step, start, g, 1..n) /\ \A s \in SUBSET (1..n) : g[s] \in U
    BY <1>2, <2>2, FoldExists
  <2>4. ASSUME NEW s \in SUBSET (1..n)
        PROVE  FoldStep(step, start, g, s) = ReachStep(start, next, g, s)
    <3>1. CASE s = {}
      BY <3>1 DEF FoldStep, ReachStep
    <3>2. CASE s # {}
      <4>1. Max(s) \in 1..n /\ s \ {Max(s)} \in SUBSET (1..n)
        BY <3>2, MaxIsLargest
      <4>2. <<g[s \ {Max(s)}], Max(s)>> \in U \X (1..n)
        BY <2>3, <4>1
      <4>3. step[<<g[s \ {Max(s)}], Max(s)>>] = Grow(next, g[s \ {Max(s)}])
        BY <2>1, <4>2
      <4> QED BY <3>2, <4>3 DEF FoldStep, ReachStep
    <3> QED BY <3>1, <3>2
  <2> QED
    BY <2>3, <2>4 DEF IsFold, IsReach
<1>4. PICK g : IsReach(start, next, g, 1..n) /\ Reached(start, next) = g[1..n]
  BY <1>3, ReachedIsChosen
<1>5. g[{}] \in U
  BY <1>2, <1>4 DEF IsReach, ReachStep
<1>6. \A s \in SUBSET (1..n) : s # {} /\ g[s \ {Max(s)}] \in U => g[s] \in U
  BY <1>1, <1>4 DEF IsReach, ReachStep
<1> HIDE DEF U
<1>7. g[1..n] \in U
  BY <1>5, <1>6, FoldStays
<1> QED
  BY <1>4, <1>7 DEF U

LEMMA MinIsSmallest ==
  ASSUME NEW S \in SUBSET Nat, S # {}
  PROVE  Min(S) \in S /\ \A y \in S : Min(S) <= y
<1>1. IsWellFoundedOn(OpToRel(<, Nat), Nat)
  BY NatLessThanWellFounded
<1>2. PICK x \in S : \A y \in S : <<y, x>> \notin OpToRel(<, Nat)
  BY <1>1, WFMin
<1>3. ASSUME NEW y \in S PROVE x <= y
  <2>1. x \in Nat /\ y \in Nat
    OBVIOUS
  <2>2. ~(y < x)
    BY <1>2, <2>1 DEF OpToRel
  <2> QED BY <2>1, <2>2
<1>4. \E z \in S : \A y \in S : z <= y
  BY <1>3
<1> QED
  BY <1>4, Zenon DEF Min

(* The k-th smallest number of a finite set exists.                        *)
LEMMA RanksCover ==
  ASSUME NEW K \in SUBSET Nat, IsFiniteSet(K), NEW k \in 1..Cardinality(K)
  PROVE  \E m \in K : Cardinality({ x \in K : x < m }) = k - 1
<1> DEFINE Below(m) == { x \in K : x < m }
           rank == [ m \in K |-> Cardinality(Below(m)) ]
           n == Cardinality(K)
           N == 0..n - 1
<1>1. n \in Nat
  BY FS_CardinalityType
<1>2. \A m \in K : IsFiniteSet(Below(m)) /\ Cardinality(Below(m)) \in Nat
  BY FS_Subset, FS_CardinalityType
<1>3. \A m \in K : rank[m] \in N
  <2> TAKE m \in K
  <2>1. IsFiniteSet(K \ {m}) /\ Cardinality(K \ {m}) = n - 1
    BY FS_RemoveElement
  <2>2. Below(m) \in SUBSET (K \ {m})
    OBVIOUS
  <2>3. Cardinality(Below(m)) <= n - 1
    BY <2>1, <2>2, FS_Subset
  <2> QED BY <1>1, <1>2, <2>3
<1>4. ASSUME NEW a \in K, NEW b \in K, a < b PROVE rank[a] < rank[b]
  <2>1. Below(a) \in SUBSET Below(b) /\ a \in Below(b) /\ a \notin Below(a)
    <3>1. a \in Nat /\ b \in Nat
      OBVIOUS
    <3>2. ASSUME NEW x \in K, x < a PROVE x < b
      <4>1. x \in Nat
        OBVIOUS
      <4> QED BY <1>4, <3>1, <3>2, <4>1
    <3>3. Below(a) \subseteq Below(b)
      BY <3>2
    <3> QED BY <1>4, <3>1, <3>3
  <2>2. Below(a) \in SUBSET (Below(b) \ {a})
    BY <2>1
  <2>3. IsFiniteSet(Below(b) \ {a}) /\ Cardinality(Below(b) \ {a}) = Cardinality(Below(b)) - 1
    BY <1>2, <2>1, FS_RemoveElement
  <2>4. Cardinality(Below(a)) <= Cardinality(Below(b)) - 1
    BY <2>2, <2>3, FS_Subset
  <2> HIDE DEF Below
  <2> QED BY <1>2, <2>4
<1>5. rank \in Injection(K, N)
  <2>1. rank \in [ K -> N ]
    BY <1>3
  <2>2. \A a, b \in K : rank[a] = rank[b] => a = b
    <3> SUFFICES ASSUME NEW a \in K, NEW b \in K, a # b PROVE rank[a] # rank[b]
      OBVIOUS
    <3>1. a < b \/ b < a
      OBVIOUS
    <3>2. rank[a] < rank[b] \/ rank[b] < rank[a]
      BY <1>4, <3>1
    <3>3. rank[a] \in Int /\ rank[b] \in Int
      BY <1>3
    <3> HIDE DEF rank
    <3> QED BY <3>2, <3>3
  <2> HIDE DEF rank, N
  <2> QED BY <2>1, <2>2 DEF Injection, IsInjective
<1>6. IsFiniteSet(N) /\ Cardinality(N) = n
  <2>1. CASE n = 0
    <3>1. N = {}
      BY <2>1
    <3> QED BY <2>1, <3>1, FS_EmptySet
  <2>2. CASE n # 0
    <3> HIDE DEF n
    <3> QED BY <1>1, <2>2, FS_Interval
  <2> QED BY <2>1, <2>2
<1>7. rank \in Surjection(K, N)
  <2> HIDE DEF rank, N
  <2> QED BY <1>5, <1>6, FS_Injection
<1>8. k - 1 \in N
  BY <1>1
<1>9. \E m \in K : rank[m] = k - 1
  <2> HIDE DEF rank, N
  <2> QED BY <1>7, <1>8 DEF Surjection
<1> QED
  BY <1>9

LEMMA OrderedByTyped ==
  ASSUME NEW S, IsFiniteSet(S), NEW key, \A x \in S : key[x] \in Nat,
         NEW o, o = OrderedBy(S, key)
  PROVE  /\ \E n \in Nat : DOMAIN o = 1..n
         /\ \A k \in DOMAIN o : o[k] \in S
<1> DEFINE K == { key[x] : x \in S }
<1>1. IsFiniteSet(K)
  <2>1. PICK f : f = [ x \in S |-> key[x] ]
    OBVIOUS
  <2>2. f \in Surjection(S, K)
    BY <2>1 DEF Surjection
  <2> HIDE DEF K
  <2> QED BY <2>2, FS_Surjection
<1>2. K \in SUBSET Nat /\ Cardinality(K) \in Nat
  BY <1>1, FS_CardinalityType
<1>3. o = [ k \in 1..Cardinality(K) |-> CHOOSE x \in S : Cardinality({ m \in K : m < key[x] }) = k - 1 ]
  BY DEF OrderedBy
<1>4. ASSUME NEW k \in 1..Cardinality(K) PROVE o[k] \in S
  <2> HIDE DEF K
  <2>1. PICK y \in K : Cardinality({ m \in K : m < y }) = k - 1
    BY <1>1, <1>2, RanksCover
  <2>2. PICK x \in S : key[x] = y
    BY DEF K
  <2>3. \E z \in S : Cardinality({ m \in K : m < key[z] }) = k - 1
    BY <2>1, <2>2
  <2>4. o[k] = CHOOSE z \in S : Cardinality({ m \in K : m < key[z] }) = k - 1
    BY <1>3
  <2> QED BY <2>3, <2>4
<1> QED
  BY <1>2, <1>3, <1>4

--------------------------------------------------------------------------------
(* What the rules propose: features of faces of the shape.                 *)

Feats == [ type : FeatureType, faces : (SUBSET Face) \ {{}}, sure : BOOLEAN ]
BoreShaped(b) == b \in SUBSET Face /\ b # {} /\ \A g \in b : g \in Bored /\ SameBore(g, g)

LEMMA FeatureTyped ==
  ASSUME NEW type \in FeatureType, NEW S \in SUBSET Face, S # {}, NEW sure \in BOOLEAN
  PROVE  Feature(type, S, sure) \in Feats /\ Feature(type, S, sure).faces = S
  BY DEF Feature, Feats

LEMMA BoresTyped ==
  ASSUME WellFormed(faces, edges)
  PROVE  \A b \in Bores : BoreShaped(b)
<1>1. PICK n \in Nat : Face = 1..n
  BY DEF WellFormed, Face
<1> SUFFICES ASSUME NEW f \in Bored, NEW b \in Connected({ g \in Bored : SameBore(f, g) })
             PROVE  BoreShaped(b)
  BY DEF Bores
<1>2. PICK S : S = { g \in Bored : SameBore(f, g) }
  OBVIOUS
<1>3. PICK h \in S : b = Reached({h}, [ g \in S |-> faces[g].adj \cap S ])
  BY <1>2 DEF Connected
<1>4. PICK next : next = [ g \in S |-> faces[g].adj \cap S ]
  OBVIOUS
<1>5. \A x \in S : next[x] \subseteq S
  BY <1>4
<1>6. {h} \subseteq b /\ b \subseteq S
  BY <1>1, <1>3, <1>4, <1>5, ReachedWithin DEF Face
<1>7. \A g \in S : g \in Bored /\ SameBore(g, g)
  BY <1>2 DEF SameBore, SameAxis, Parallel
<1>8. S \subseteq Face
  BY <1>2 DEF Bored
<1> QED BY <1>6, <1>7, <1>8 DEF BoreShaped

EndTyped(e) == e.bore \in segments /\ e.faces \subseteq Face /\ e.to \subseteq segments

LEMMA EndsTyped ==
  ASSUME WellFormed(faces, edges), NEW b \in segments, \A c \in segments : BoreShaped(c),
         NEW e \in Ends(b)
  PROVE  EndTyped(e)
<1>1. PICK n \in Nat : Face = 1..n
  BY DEF WellFormed, Face
<1>2. PICK r \in RimEdges(b) : e = End(b, edges[r].pos)
  BY DEF Ends
<1>3. b \in SUBSET Face /\ b # {}
  BY DEF BoreShaped
<1>4. \A x \in RimEdges(b) : x \in DOMAIN edges /\ edges[x].faces \ b # {}
  BY <1>3 DEF RimEdges, WellFormed, Face
<1>5. PICK pos : pos = edges[r].pos
  OBVIOUS
<1>6. PICK nb : nb = { Min(edges[x].faces \ b) : x \in { y \in RimEdges(b) : edges[y].pos = pos } }
  OBVIOUS
<1>7. nb \subseteq Face
  <2>1. ASSUME NEW x \in RimEdges(b) PROVE Min(edges[x].faces \ b) \in Face
    <3>1. edges[x].faces \ b \in SUBSET Face /\ edges[x].faces \ b # {}
      BY <1>4 DEF WellFormed, Face
    <3>2. edges[x].faces \ b \in SUBSET Nat
      BY <1>1, <3>1
    <3>3. Min(edges[x].faces \ b) \in edges[x].faces \ b
      BY <3>1, <3>2, MinIsSmallest
    <3> QED BY <3>1, <3>3
  <2> QED BY <1>6, <2>1
<1>8. FloorOf(b, nb) \subseteq Face
  <2>1. PICK next : next = [ f \in Face |-> faces[f].adj \ b ]
    OBVIOUS
  <2>2. \A x \in Face : next[x] \subseteq Face
    BY <2>1 DEF WellFormed, Face
  <2>3. Reached(nb \ b, next) \subseteq Face
    BY <1>1, <1>7, <2>2, ReachedWithin DEF Face
  <2> QED BY <2>1, <2>3 DEF FloorOf
<1>9. StepFrom(b, nb).faces \subseteq Face /\ StepFrom(b, nb).to \subseteq segments
  <2>1. PICK walls : walls = UNION (segments \ {b})
    OBVIOUS
  <2>2. PICK next : next = [ f \in Face |-> IF f \in walls THEN {} ELSE faces[f].adj \ b ]
    OBVIOUS
  <2>3. \A x \in Face : next[x] \subseteq Face
    BY <2>2 DEF WellFormed, Face
  <2>4. Reached(nb \ b, next) \subseteq Face
    BY <1>1, <1>7, <2>3, ReachedWithin DEF Face
  <2>5. /\ StepFrom(b, nb).faces = Reached(nb \ b, next) \ walls
        /\ StepFrom(b, nb).to = { o \in segments \ {b} : o \cap Reached(nb \ b, next) # {} }
    BY <2>1, <2>2 DEF StepFrom
  <2> QED BY <2>4, <2>5
<1>10. e.bore = b /\ \/ e.faces = {} /\ e.to = {}
                     \/ e.faces = StepFrom(b, nb).faces /\ e.to = StepFrom(b, nb).to
                     \/ e.faces = FloorOf(b, nb) /\ e.to = {}
  BY <1>2, <1>5, <1>6 DEF End
<1> QED BY <1>8, <1>9, <1>10 DEF EndTyped

LEMMA StacksTyped ==
  ASSUME WellFormed(faces, edges), NEW s \in Stacks
  PROVE  s \subseteq segments /\ s # {}
<1>1. PICK n \in Nat : Face = 1..n
  BY DEF WellFormed, Face
<1>2. PICK next : next = [ c \in segments |-> { d \in segments : Stacked(c, d) } ]
  OBVIOUS
<1>3. PICK b \in segments : s = Reached({b}, next)
  BY <1>2 DEF Stacks
<1>4. \A c \in segments : next[c] \subseteq segments
  BY <1>2
<1>5. {b} \subseteq s /\ s \subseteq segments
  BY <1>1, <1>3, <1>4, ReachedWithin DEF Face
<1> QED BY <1>5

LEMMA HoleTyped ==
  ASSUME NEW s, s \subseteq segments, s # {}, \A c \in segments : BoreShaped(c),
         \A e \in segmentEnds : EndTyped(e)
  PROVE  Hole(s).feature \in Feats
<1>1. UNION s \subseteq Face /\ UNION s # {}
  BY DEF BoreShaped
<1>2. PICK ends : ends = { e \in segmentEnds : e.bore \in s }
  OBVIOUS
<1>3. PICK linking : linking = { e \in ends : e.kind = "step" /\ e.to \subseteq s }
  OBVIOUS
<1>4. PICK extra : extra = UNION { e.faces : e \in linking }
  OBVIOUS
<1>5. PICK terminal : terminal = Terminal(ends, linking, extra)
  OBVIOUS
<1>6. PICK floor : floor = UNION { e.faces : e \in { x \in terminal : x.kind = "floor" } }
  OBVIOUS
<1>7. linking \subseteq segmentEnds /\ terminal \subseteq segmentEnds
  BY <1>2, <1>3, <1>5 DEF Terminal
<1>8. extra \subseteq Face /\ floor \subseteq Face
  BY <1>4, <1>6, <1>7 DEF EndTyped
<1>9. PICK all : all = (UNION s) \cup extra \cup floor
  OBVIOUS
<1>10. \E type \in { "through_hole", "blind_hole", "cylindrical_hole_wall" } :
         Hole(s).feature = Feature(type, all, type # "cylindrical_hole_wall")
  BY <1>2, <1>3, <1>4, <1>5, <1>6, <1>9 DEF Hole
<1>11. all \in SUBSET Face /\ all # {}
  BY <1>1, <1>8, <1>9
<1>12. PICK type \in { "through_hole", "blind_hole", "cylindrical_hole_wall" } :
          Hole(s).feature = Feature(type, all, type # "cylindrical_hole_wall")
  BY <1>10
<1>13. type \in FeatureType /\ (type # "cylindrical_hole_wall") \in BOOLEAN
  BY DEF FeatureType
<1> QED BY <1>11, <1>12, <1>13, FeatureTyped

LEMMA BoreKeyTyped ==
  ASSUME WellFormed(faces, edges), NEW b, BoreShaped(b)
  PROVE  BoreKey(b) \in Nat
<1>1. PICK n \in Nat : Face = 1..n
  BY DEF WellFormed, Face
<1>2. Len(faces) \in Nat
  BY <1>1 DEF Face
<1>3. b \in SUBSET Nat /\ b # {}
  BY <1>1 DEF BoreShaped
<1>4. Min(b) \in b
  BY <1>3, MinIsSmallest
<1>5. PICK group : group = { g \in Bored : SameBore(Min(b), g) }
  OBVIOUS
<1>6. Min(b) \in group /\ group \subseteq Face
  BY <1>4, <1>5 DEF BoreShaped, Bored
<1>7. group \in SUBSET Nat /\ group # {}
  BY <1>1, <1>6
<1>8. PICK x, y \in Nat : x = Min(group) /\ y = Min(b)
  BY <1>3, <1>4, <1>7, MinIsSmallest
<1>9. BoreKey(b) = x * (Len(faces) + 1) + y
  BY <1>5, <1>8 DEF BoreKey
<1>10. \A k \in Nat : x * (k + 1) + y \in Nat
  OBVIOUS
<1> QED BY <1>2, <1>9, <1>10

(* Merge takes the holes one after the other.                              *)
MergeStep(holes, acc, i) ==
  IF i \in acc.merged THEN acc
  ELSE LET more == { j \in i + 1..Len(holes) : Interrupted(holes[i], holes[j]) }
           all == UNION { holes[j].feature.faces : j \in more \cup {i} }
       IN  [ out |-> Append(acc.out, [ holes[i].feature EXCEPT !.faces = all ]),
             merged |-> acc.merged \cup more ]
NoHoles == [ out |-> <<>>, merged |-> {} ]
MergeFrom(holes, g, s) ==
  IF s = {} THEN NoHoles
  ELSE MergeStep(holes, g[s \ {Max(s)}], [ i \in DOMAIN holes |-> i ][Max(s)])
IsMerge(holes, g, D) == g = [ s \in SUBSET D |-> MergeFrom(holes, g, s) ]

LEMMA MergeIsChosen ==
  ASSUME NEW holes, NEW D, D = DOMAIN [ i \in DOMAIN holes |-> i ]
  PROVE  Merge(holes) = (CHOOSE g : IsMerge(holes, g, D))[D].out
BY Zenon DEF Merge, FoldLeft, MapThenFoldSet, IsMerge, MergeFrom, MergeStep, NoHoles

LEMMA MergeTyped ==
  ASSUME NEW holes, NEW n \in Nat, DOMAIN holes = 1..n, \A i \in 1..n : holes[i].feature \in Feats
  PROVE  Merge(holes) \in Seq(Feats)
<1> DEFINE U == [ out : Seq(Feats), merged : SUBSET Nat ]
<1>1. Len(holes) = n
  OBVIOUS
<1>2. NoHoles \in U
  BY DEF NoHoles
<1>3. ASSUME NEW acc \in U, NEW i \in 1..n PROVE MergeStep(holes, acc, i) \in U
  <2>1. CASE i \in acc.merged
    BY <2>1 DEF MergeStep
  <2>2. CASE i \notin acc.merged
    <3>1. PICK more : more = { j \in i + 1..Len(holes) : Interrupted(holes[i], holes[j]) }
      OBVIOUS
    <3>2. PICK all : all = UNION { holes[j].feature.faces : j \in more \cup {i} }
      OBVIOUS
    <3>3. more \subseteq 1..n
      BY <1>1, <3>1
    <3>4. all \in (SUBSET Face) \ {{}}
      <4>1. \A j \in 1..n : holes[j].feature.faces \in (SUBSET Face) \ {{}}
        BY DEF Feats
      <4>2. \A j \in more \cup {i} : j \in 1..n
        BY <3>3
      <4> QED BY <3>2, <4>1, <4>2
    <3>5. PICK feature : feature = [ holes[i].feature EXCEPT !.faces = all ]
      OBVIOUS
    <3>6. feature \in Feats
      BY <3>4, <3>5 DEF Feats
    <3>7. Append(acc.out, feature) \in Seq(Feats)
      <4>1. acc.out \in Seq(Feats)
        OBVIOUS
      <4> QED BY <3>6, <4>1, AppendProperties
    <3>8. acc.merged \cup more \in SUBSET Nat
      <4>1. acc.merged \in SUBSET Nat /\ 1..n \subseteq Nat
        OBVIOUS
      <4>2. more \subseteq Nat
        BY <3>3, <4>1
      <4> HIDE DEF U
      <4> QED BY <4>1, <4>2
    <3>9. MergeStep(holes, acc, i) = [ out |-> Append(acc.out, feature), merged |-> acc.merged \cup more ]
      BY <2>2, <3>1, <3>2, <3>5 DEF MergeStep
    <3> QED BY <3>7, <3>8, <3>9
  <2> QED BY <2>1, <2>2
<1>4. DOMAIN [ i \in DOMAIN holes |-> i ] = 1..n /\ \A i \in 1..n : [ j \in DOMAIN holes |-> j ][i] = i
  OBVIOUS
<1> HIDE DEF U
<1>5. \A s \in SUBSET (1..n) : s # {} => Max(s) \in 1..n /\ s \ {Max(s)} \in SUBSET (1..n)
  BY MaxIsLargest
<1>6. \E g : IsMerge(holes, g, 1..n)
  <2>1. PICK step : step = [ p \in U \X (1..n) |-> MergeStep(holes, p[1], p[2]) ]
    OBVIOUS
  <2>2. step \in [ U \X (1..n) -> U ]
    BY <1>3, <2>1
  <2>3. PICK g : IsFold(step, NoHoles, g, 1..n) /\ \A s \in SUBSET (1..n) : g[s] \in U
    BY <1>2, <2>2, FoldExists
  <2>4. ASSUME NEW s \in SUBSET (1..n)
        PROVE  FoldStep(step, NoHoles, g, s) = MergeFrom(holes, g, s)
    <3>1. CASE s = {}
      BY <3>1 DEF FoldStep, MergeFrom
    <3>2. CASE s # {}
      <4>1. <<g[s \ {Max(s)}], Max(s)>> \in U \X (1..n)
        BY <1>5, <2>3, <3>2
      <4>2. step[<<g[s \ {Max(s)}], Max(s)>>] = MergeStep(holes, g[s \ {Max(s)}], Max(s))
        BY <2>1, <4>1
      <4>3. [ i \in DOMAIN holes |-> i ][Max(s)] = Max(s)
        BY <1>4, <1>5, <3>2
      <4> QED BY <3>2, <4>2, <4>3 DEF FoldStep, MergeFrom
    <3> QED BY <3>1, <3>2
  <2> QED
    BY <2>3, <2>4 DEF IsFold, IsMerge
<1>7. PICK g : IsMerge(holes, g, 1..n) /\ Merge(holes) = g[1..n].out
  BY <1>4, <1>6, MergeIsChosen
<1>8. g[{}] \in U
  BY <1>2, <1>7 DEF IsMerge, MergeFrom
<1>9. ASSUME NEW s \in SUBSET (1..n), s # {}, g[s \ {Max(s)}] \in U PROVE g[s] \in U
  <2>1. Max(s) \in 1..n /\ [ i \in DOMAIN holes |-> i ][Max(s)] = Max(s)
    BY <1>4, <1>5, <1>9
  <2>2. MergeStep(holes, g[s \ {Max(s)}], Max(s)) \in U
    BY <1>3, <1>9, <2>1
  <2>3. g[s] = MergeFrom(holes, g, s)
    BY <1>7 DEF IsMerge
  <2> QED BY <1>9, <2>1, <2>2, <2>3 DEF MergeFrom
<1>10. g[1..n] \in U
  BY <1>8, <1>9, FoldStays
<1> QED
  BY <1>7, <1>10 DEF U

LEMMA HolesTyped ==
  ASSUME WellFormed(faces, edges), \A c \in segments : BoreShaped(c),
         \A e \in segmentEnds : EndTyped(e)
  PROVE  Holes \in Seq(Feats)
<1>1. PICK n \in Nat : Face = 1..n
  BY DEF WellFormed, Face
<1>2. IsFiniteSet(Stacks)
  <2>1. IsFiniteSet(SUBSET Face)
    <3>1. IsFiniteSet(Face)
      BY <1>1, FS_Interval
    <3> QED BY <3>1, FS_SUBSET
  <2>2. segments \in SUBSET SUBSET Face
    BY DEF BoreShaped
  <2>3. IsFiniteSet(SUBSET segments)
    BY <2>1, <2>2, FS_Subset, FS_SUBSET
  <2>4. Stacks \in SUBSET SUBSET segments
    BY StacksTyped
  <2> QED BY <2>3, <2>4, FS_Subset
<1>3. PICK key : key = [ s \in Stacks |-> Min({ BoreKey(b) : b \in s }) ]
  OBVIOUS
<1>4. ASSUME NEW s \in Stacks PROVE key[s] \in Nat
  <2>1. PICK K : K = { BoreKey(b) : b \in s }
    OBVIOUS
  <2>2. s \subseteq segments /\ s # {}
    BY StacksTyped
  <2>3. K \in SUBSET Nat /\ K # {}
    BY <2>1, <2>2, BoreKeyTyped
  <2>4. Min(K) \in K
    BY <2>3, MinIsSmallest
  <2> QED BY <1>3, <2>1, <2>3, <2>4
<1>5. PICK o : o = OrderedBy(Stacks, key)
  OBVIOUS
<1>6. PICK m \in Nat : DOMAIN o = 1..m /\ \A k \in 1..m : o[k] \in Stacks
  BY <1>2, <1>4, <1>5, OrderedByTyped
<1>7. PICK holes : holes = [ i \in DOMAIN o |-> Hole(o[i]) ]
  OBVIOUS
<1>8. DOMAIN holes = 1..m
  BY <1>6, <1>7
<1>9. ASSUME NEW i \in 1..m PROVE holes[i].feature \in Feats
  <2>1. o[i] \in Stacks
    BY <1>6
  <2>2. o[i] \subseteq segments /\ o[i] # {}
    BY <2>1, StacksTyped
  <2>3. Hole(o[i]).feature \in Feats
    BY <2>2, HoleTyped
  <2> QED BY <1>6, <1>7, <2>3
<1>10. Merge(holes) \in Seq(Feats)
  BY <1>8, <1>9, MergeTyped
<1>11. Holes = Merge(holes)
  BY <1>3, <1>5, <1>7 DEF Holes
<1> QED BY <1>10, <1>11

LEMMA OrderedTyped ==
  ASSUME WellFormed(faces, edges), NEW S \in SUBSET Face
  PROVE  \E n \in Nat : DOMAIN Ordered(S) = 1..n /\ \A k \in 1..n : Ordered(S)[k] \in S
<1>1. PICK n \in Nat : Face = 1..n
  BY DEF WellFormed, Face
<1>2. IsFiniteSet(S)
  <2>1. IsFiniteSet(Face)
    BY <1>1, FS_Interval
  <2> QED BY <2>1, FS_Subset
<1>3. PICK key : key = [ f \in S |-> f ]
  OBVIOUS
<1>4. \A x \in S : key[x] \in Nat
  BY <1>1, <1>3
<1>5. Ordered(S) = OrderedBy(S, key)
  BY <1>3 DEF Ordered
<1> QED BY <1>2, <1>4, <1>5, OrderedByTyped

StadiumStep(out, p) ==
  IF /\ p[1] < p[2]
     /\ {p[1], p[2]} \cap UNION { out[i].faces : i \in DOMAIN out } = {}
     /\ faces[p[1]].radius = faces[p[2]].radius /\ Parallel(p[1], p[2])
     /\ Cardinality(StadiumWalls(p[1], p[2])) = 2
  THEN Append(out, Stadium(p[1], p[2])) ELSE out
StadiumFrom(pairs, g, s) == IF s = {} THEN <<>> ELSE StadiumStep(g[s \ {Max(s)}], pairs[Max(s)])
IsStadiums(pairs, g, D) == g = [ s \in SUBSET D |-> StadiumFrom(pairs, g, s) ]
HalfPairs ==
  [ k \in 1..Len(Ordered(Halves)) * Len(Ordered(Halves)) |->
      <<Ordered(Halves)[(k - 1) \div Len(Ordered(Halves)) + 1],
        Ordered(Halves)[((k - 1) % Len(Ordered(Halves))) + 1]>> ]

LEMMA StadiumsIsChosen ==
  Stadiums = (CHOOSE g : IsStadiums(HalfPairs, g, DOMAIN HalfPairs))[DOMAIN HalfPairs]
BY Zenon DEF Stadiums, FoldLeft, MapThenFoldSet, IsStadiums, StadiumFrom, StadiumStep, HalfPairs

SlotStep(used, out, f) ==
  IF f \in used \cup UNION { out[i].faces : i \in DOMAIN out } \/ OpenSlot(f).faces = {}
  THEN out ELSE Append(out, OpenSlot(f))
SlotFrom(used, fs, g, s) == IF s = {} THEN <<>> ELSE SlotStep(used, g[s \ {Max(s)}], fs[Max(s)])
IsSlots(used, fs, g, D) == g = [ s \in SUBSET D |-> SlotFrom(used, fs, g, s) ]
FreePlanes == Ordered({ f \in Free : Type(f, {"plane"}) })

LEMMA OpenSlotsIsChosen ==
  ASSUME NEW used
  PROVE  OpenSlots(used) = (CHOOSE g : IsSlots(used, FreePlanes, g, DOMAIN FreePlanes))[DOMAIN FreePlanes]
BY Zenon DEF OpenSlots, FoldLeft, MapThenFoldSet, IsSlots, SlotFrom, SlotStep, FreePlanes

LEMMA PairIndex ==
  ASSUME NEW n \in Nat, NEW k \in 1..n * n
  PROVE  (k - 1) \div n + 1 \in 1..n /\ ((k - 1) % n) + 1 \in 1..n
<1>1. n > 0
  <2>1. CASE n = 0
    BY <2>1
  <2> QED BY <2>1
<1>2. n * n \in Nat
  OBVIOUS
<1>3. PICK i \in Nat : i = k - 1
  BY <1>2
<1>4. i < n * n
  BY <1>2, <1>3
<1>5. i \div n \in Nat /\ i % n \in 0..n - 1 /\ n * (i \div n) <= i
  BY <1>1
<1>6. PICK q \in Nat : q = i \div n
  BY <1>5
<1>7. ASSUME q >= n PROVE FALSE
  <2>1. n * q >= n * n
    <3>1. PICK d \in Nat : q = n + d
      <4>1. q - n \in Nat /\ q = n + (q - n)
        BY <1>7
      <4> QED BY <4>1
    <3>2. n * (n + d) = n * n + n * d /\ n * d \in Nat
      OBVIOUS
    <3> QED BY <1>2, <3>1, <3>2
  <2>2. n * q \in Nat /\ n * q <= i
    BY <1>5, <1>6
  <2> QED BY <1>2, <1>4, <2>1, <2>2
<1> QED BY <1>1, <1>3, <1>5, <1>6, <1>7

StadiumPair(p) == p[1] \in Halves /\ p[2] \in Halves

LEMMA HalfPairsTyped ==
  ASSUME WellFormed(faces, edges)
  PROVE  \E m \in Nat : DOMAIN HalfPairs = 1..m /\ \A k \in 1..m : StadiumPair(HalfPairs[k])
<1>1. Halves \in SUBSET Face
  BY DEF Halves, Free
<1>2. PICK halves : halves = Ordered(Halves)
  OBVIOUS
<1>3. PICK n \in Nat : DOMAIN halves = 1..n /\ \A k \in 1..n : halves[k] \in Halves
  BY <1>1, <1>2, OrderedTyped
<1>4. Len(halves) = n
  BY <1>3
<1>5. HalfPairs = [ k \in 1..n * n |-> <<halves[(k - 1) \div n + 1], halves[((k - 1) % n) + 1]>> ]
  BY <1>2, <1>4 DEF HalfPairs
<1>6. n * n \in Nat
  OBVIOUS
<1>7. ASSUME NEW k \in 1..n * n PROVE StadiumPair(HalfPairs[k])
  <2>1. PICK i \in 1..n, j \in 1..n : i = (k - 1) \div n + 1 /\ j = ((k - 1) % n) + 1
    BY PairIndex
  <2>2. HalfPairs[k] = <<halves[i], halves[j]>>
    BY <1>5, <2>1
  <2> QED BY <1>3, <2>2 DEF StadiumPair
<1> QED BY <1>5, <1>6, <1>7

LEMMA StadiumTyped ==
  ASSUME NEW a \in Halves, NEW b \in Halves
  PROVE  Stadium(a, b) \in Feats
<1>1. a \in Face /\ b \in Face
  BY DEF Halves, Free
<1>2. StadiumWalls(a, b) \subseteq Face
  BY DEF StadiumWalls, Free
<1>3. PICK walls : walls = StadiumWalls(a, b)
  OBVIOUS
<1>4. PICK ids : ids = {a, b} \cup walls
  OBVIOUS
<1>5. PICK floor : floor = { f \in Free \ ids : /\ Type(f, {"plane"}) /\ {a, b} \subseteq faces[f].adj
                                                /\ AllBetween(f, a, "concave") }
  OBVIOUS
<1>6. PICK sure \in BOOLEAN : sure = \E v, w \in walls : Opposed(v, w) /\ Gap(v, w) = 2 * faces[a].radius
  OBVIOUS
<1>7. Stadium(a, b) = Feature("slot", ids \cup floor, sure)
  BY <1>3, <1>4, <1>5, <1>6 DEF Stadium
<1>8. ids \cup floor \in SUBSET Face /\ ids \cup floor # {}
  BY <1>1, <1>2, <1>3, <1>4, <1>5 DEF Free
<1> QED BY <1>7, <1>8, FeatureTyped DEF FeatureType

LEMMA StadiumsTyped ==
  ASSUME WellFormed(faces, edges)
  PROVE  Stadiums \in Seq(Feats)
<1> DEFINE U == Seq(Feats)
<1>1. PICK n \in Nat : DOMAIN HalfPairs = 1..n /\ \A k \in 1..n : StadiumPair(HalfPairs[k])
  BY HalfPairsTyped
<1>2. <<>> \in U
  OBVIOUS
<1>3. ASSUME NEW out \in U, NEW i \in 1..n PROVE StadiumStep(out, HalfPairs[i]) \in U
  <2>1. Stadium(HalfPairs[i][1], HalfPairs[i][2]) \in Feats
    BY <1>1, StadiumTyped DEF StadiumPair
  <2>2. Append(out, Stadium(HalfPairs[i][1], HalfPairs[i][2])) \in U
    BY <2>1, AppendProperties
  <2> QED BY <2>2 DEF StadiumStep
<1> HIDE DEF U
<1>4. \A s \in SUBSET (1..n) : s # {} => Max(s) \in 1..n /\ s \ {Max(s)} \in SUBSET (1..n)
  BY MaxIsLargest
<1>5. \E g : IsStadiums(HalfPairs, g, 1..n)
  <2>1. PICK step : step = [ p \in U \X (1..n) |-> StadiumStep(p[1], HalfPairs[p[2]]) ]
    OBVIOUS
  <2>2. step \in [ U \X (1..n) -> U ]
    BY <1>3, <2>1
  <2>3. PICK g : IsFold(step, <<>>, g, 1..n) /\ \A s \in SUBSET (1..n) : g[s] \in U
    BY <1>2, <2>2, FoldExists
  <2>4. ASSUME NEW s \in SUBSET (1..n)
        PROVE  FoldStep(step, <<>>, g, s) = StadiumFrom(HalfPairs, g, s)
    <3>1. CASE s = {}
      BY <3>1 DEF FoldStep, StadiumFrom
    <3>2. CASE s # {}
      <4>1. <<g[s \ {Max(s)}], Max(s)>> \in U \X (1..n)
        BY <1>4, <2>3, <3>2
      <4>2. step[<<g[s \ {Max(s)}], Max(s)>>] = StadiumStep(g[s \ {Max(s)}], HalfPairs[Max(s)])
        BY <2>1, <4>1
      <4> QED BY <3>2, <4>2 DEF FoldStep, StadiumFrom
    <3> QED BY <3>1, <3>2
  <2> QED
    BY <2>3, <2>4 DEF IsFold, IsStadiums
<1>6. PICK g : IsStadiums(HalfPairs, g, 1..n) /\ Stadiums = g[1..n]
  BY <1>1, <1>5, StadiumsIsChosen
<1>7. g[{}] \in U
  BY <1>2, <1>6 DEF IsStadiums, StadiumFrom
<1>8. ASSUME NEW s \in SUBSET (1..n), s # {}, g[s \ {Max(s)}] \in U PROVE g[s] \in U
  <2>1. StadiumStep(g[s \ {Max(s)}], HalfPairs[Max(s)]) \in U
    BY <1>3, <1>4, <1>8
  <2>2. g[s] = StadiumFrom(HalfPairs, g, s)
    BY <1>6 DEF IsStadiums
  <2> QED BY <1>8, <2>1, <2>2 DEF StadiumFrom
<1>9. g[1..n] \in U
  BY <1>7, <1>8, FoldStays
<1> QED
  BY <1>6, <1>9 DEF U

LEMMA OpenSlotTyped ==
  ASSUME WellFormed(faces, edges), NEW f \in Face, OpenSlot(f).faces # {}
  PROVE  OpenSlot(f) \in Feats
<1>1. PICK walls : walls = DirectWalls(f) \cup UNION { BlendWalls(f, b) : b \in Blends(f) }
  OBVIOUS
<1>2. walls \subseteq Face
  <2>1. DirectWalls(f) \subseteq Face
    BY DEF DirectWalls, WellFormed, Face
  <2>2. Blends(f) \subseteq Face
    BY DEF Blends, WellFormed, Face
  <2>3. \A b \in Blends(f) : BlendWalls(f, b) \subseteq Face
    BY <2>2 DEF BlendWalls, WellFormed, Face
  <2> QED BY <1>1, <2>1, <2>3
<1>3. OpenSlot(f) = Feature("slot", walls \cup {f}, TRUE) \/ OpenSlot(f) = Feature("slot", {}, FALSE)
  BY <1>1 DEF OpenSlot
<1>4. OpenSlot(f) = Feature("slot", walls \cup {f}, TRUE)
  BY <1>3 DEF Feature
<1> QED BY <1>2, <1>4, FeatureTyped DEF FeatureType

LEMMA OpenSlotsTyped ==
  ASSUME WellFormed(faces, edges), NEW used
  PROVE  OpenSlots(used) \in Seq(Feats)
<1> DEFINE U == Seq(Feats)
<1>0. { f \in Free : Type(f, {"plane"}) } \in SUBSET Face
  BY DEF Free
<1>1. PICK n \in Nat : DOMAIN FreePlanes = 1..n /\ \A k \in 1..n : FreePlanes[k] \in Face
  BY <1>0, OrderedTyped DEF FreePlanes
<1>2. <<>> \in U
  OBVIOUS
<1>3. ASSUME NEW out \in U, NEW i \in 1..n PROVE SlotStep(used, out, FreePlanes[i]) \in U
  <2>1. CASE OpenSlot(FreePlanes[i]).faces = {}
    BY <2>1 DEF SlotStep
  <2>2. CASE OpenSlot(FreePlanes[i]).faces # {}
    <3>1. OpenSlot(FreePlanes[i]) \in Feats
      BY <1>1, <2>2, OpenSlotTyped
    <3>2. Append(out, OpenSlot(FreePlanes[i])) \in U
      BY <3>1, AppendProperties
    <3> QED BY <3>2 DEF SlotStep
  <2> QED BY <2>1, <2>2
<1> HIDE DEF U
<1>4. \A s \in SUBSET (1..n) : s # {} => Max(s) \in 1..n /\ s \ {Max(s)} \in SUBSET (1..n)
  BY MaxIsLargest
<1>5. \E g : IsSlots(used, FreePlanes, g, 1..n)
  <2>1. PICK step : step = [ p \in U \X (1..n) |-> SlotStep(used, p[1], FreePlanes[p[2]]) ]
    OBVIOUS
  <2>2. step \in [ U \X (1..n) -> U ]
    BY <1>3, <2>1
  <2>3. PICK g : IsFold(step, <<>>, g, 1..n) /\ \A s \in SUBSET (1..n) : g[s] \in U
    BY <1>2, <2>2, FoldExists
  <2>4. ASSUME NEW s \in SUBSET (1..n)
        PROVE  FoldStep(step, <<>>, g, s) = SlotFrom(used, FreePlanes, g, s)
    <3>1. CASE s = {}
      BY <3>1 DEF FoldStep, SlotFrom
    <3>2. CASE s # {}
      <4>1. <<g[s \ {Max(s)}], Max(s)>> \in U \X (1..n)
        BY <1>4, <2>3, <3>2
      <4>2. step[<<g[s \ {Max(s)}], Max(s)>>] = SlotStep(used, g[s \ {Max(s)}], FreePlanes[Max(s)])
        BY <2>1, <4>1
      <4> QED BY <3>2, <4>2 DEF FoldStep, SlotFrom
    <3> QED BY <3>1, <3>2
  <2> QED
    BY <2>3, <2>4 DEF IsFold, IsSlots
<1>6. PICK g : IsSlots(used, FreePlanes, g, 1..n) /\ OpenSlots(used) = g[1..n]
  BY <1>1, <1>5, OpenSlotsIsChosen
<1>7. g[{}] \in U
  BY <1>2, <1>6 DEF IsSlots, SlotFrom
<1>8. ASSUME NEW s \in SUBSET (1..n), s # {}, g[s \ {Max(s)}] \in U PROVE g[s] \in U
  <2>1. SlotStep(used, g[s \ {Max(s)}], FreePlanes[Max(s)]) \in U
    BY <1>3, <1>4, <1>8
  <2>2. g[s] = SlotFrom(used, FreePlanes, g, s)
    BY <1>6 DEF IsSlots
  <2> QED BY <1>8, <2>1, <2>2 DEF SlotFrom
<1>9. g[1..n] \in U
  BY <1>7, <1>8, FoldStays
<1> QED
  BY <1>6, <1>9 DEF U

LEMMA PocketTyped ==
  ASSUME WellFormed(faces, edges), NEW f \in Face
  PROVE  Pocket(f) \in Feats
<1>1. PICK n \in Nat : Face = 1..n
  BY DEF WellFormed, Face
<1>2. OuterWalls(f) \subseteq Face
  BY DEF OuterWalls, WellFormed, Face
<1>3. PICK next : next = [ w \in Face |-> { x \in faces[w].adj \cap Free :
                                              /\ x # f /\ Type(x, {"plane", "cylinder"})
                                              /\ AllBetween(w, x, "smooth") } ]
  OBVIOUS
<1>4. \A w \in Face : next[w] \subseteq Face
  BY <1>3 DEF Free
<1>5. Ring(f) \subseteq Face
  <2>1. Ring(f) = Reached(OuterWalls(f), next)
    BY <1>3 DEF Ring
  <2> QED BY <1>1, <1>2, <1>4, <2>1, ReachedWithin DEF Face
<1>6. PICK sure \in BOOLEAN :
        sure = \A w \in Ring(f) : \E e \in faces[w].edges : edges[e].convexity = "convex"
                                                            /\ f \notin edges[e].faces
  OBVIOUS
<1>7. Pocket(f) = Feature("pocket", Ring(f) \cup {f}, sure)
  BY <1>6 DEF Pocket
<1> QED BY <1>5, <1>7, FeatureTyped DEF FeatureType

LEMMA FilletTyped ==
  ASSUME NEW f \in Face
  PROVE  Fillet(f) \in Feats
<1>1. PICK smooth : smooth = (UNION { edges[e].faces : e \in { x \in faces[f].edges :
                                                                 edges[x].convexity = "smooth" } }) \ {f}
  OBVIOUS
<1>2. PICK sure \in BOOLEAN : sure = (Cardinality(smooth) >= 2 /\ faces[f].radius < SmallRadius)
  OBVIOUS
<1>3. Fillet(f) = Feature("fillet", {f}, sure)
  BY <1>1, <1>2 DEF Fillet
<1> QED BY <1>3, FeatureTyped DEF FeatureType

(* Whatever rule runs, it proposes features of known types, each with some *)
(* faces of the shape.                                                     *)
LEMMA CandidatesTyped ==
  ASSUME WellFormed(faces, edges), \A c \in segments : BoreShaped(c),
         \A e \in segmentEnds : EndTyped(e), NEW r
  PROVE  Candidates(r) \in Seq(Feats)
<1>1. CASE r = "holes"
  BY <1>1, HolesTyped DEF Candidates
<1>2. CASE r = "slots"
  <2>1. PICK stadiums : stadiums = Stadiums
    OBVIOUS
  <2>2. PICK used : used = UNION { stadiums[i].faces : i \in DOMAIN stadiums }
    OBVIOUS
  <2>3. Slots = stadiums \o OpenSlots(used)
    BY <2>1, <2>2 DEF Slots
  <2>4. stadiums \in Seq(Feats) /\ OpenSlots(used) \in Seq(Feats)
    BY <2>1, StadiumsTyped, OpenSlotsTyped
  <2>5. Slots \in Seq(Feats)
    BY <2>3, <2>4, ConcatProperties
  <2> QED BY <1>2, <2>5 DEF Candidates
<1>3. CASE r = "pockets"
  <2>1. PICK floors : floors = Ordered({ f \in Face : IsPocket(f) })
    OBVIOUS
  <2>2. { f \in Face : IsPocket(f) } \in SUBSET Face
    OBVIOUS
  <2>3. PICK n \in Nat : DOMAIN floors = 1..n /\ \A k \in 1..n : floors[k] \in Face
    BY <2>1, <2>2, OrderedTyped
  <2>4. Pockets = [ i \in 1..n |-> Pocket(floors[i]) ]
    BY <2>1, <2>3 DEF Pockets
  <2>5. \A i \in 1..n : Pocket(floors[i]) \in Feats
    BY <2>3, PocketTyped
  <2>6. Pockets \in Seq(Feats)
    BY <2>4, <2>5
  <2> QED BY <1>3, <2>6 DEF Candidates
<1>4. CASE r = "fillets"
  <2>1. PICK S : S = { f \in Free : IsBlend(f) /\ GroupSpan(f) <= 1 }
    OBVIOUS
  <2>2. S \in SUBSET Face
    BY <2>1 DEF Free
  <2>3. PICK blends : blends = Ordered(S)
    OBVIOUS
  <2>4. PICK n \in Nat : DOMAIN blends = 1..n /\ \A k \in 1..n : blends[k] \in Face
    BY <2>2, <2>3, OrderedTyped
  <2>5. Fillets = [ i \in 1..n |-> Fillet(blends[i]) ]
    BY <2>1, <2>3, <2>4 DEF Fillets
  <2>6. \A i \in 1..n : Fillet(blends[i]) \in Feats
    BY <2>4, FilletTyped
  <2>7. Fillets \in Seq(Feats)
    BY <2>5, <2>6
  <2> QED BY <1>4, <2>7 DEF Candidates
<1>5. CASE r \notin { "holes", "slots", "pockets", "fillets" }
  <2>1. Candidates(r) = <<>>
    BY <1>5 DEF Candidates
  <2> QED BY <2>1
<1> QED BY <1>1, <1>2, <1>3, <1>4, <1>5

--------------------------------------------------------------------------------
(* What the recognizer knows at any time.                                  *)

EarlyPhase == { "entities", "mesh", "points", "graph", "views" }

RulesInv ==
  /\ rule \in Rule
  /\ phase \in EarlyPhase => segments = {} /\ segmentEnds = {} /\ todo = <<>> /\ claimed = {} /\ features = {}
  /\ rule \in { "waiting", "segments" } => segmentEnds = {}
  /\ \A c \in segments : BoreShaped(c)
  /\ \A e \in segmentEnds : EndTyped(e)
  /\ todo \in Seq(Feats) /\ features \subseteq Feats
  /\ claimed \subseteq Face

LEMMA RulesInit == Init => RulesInv
  BY DEF Init, RulesInv, Rule

LEMMA RulesKept ==
  ASSUME RulesInv, UNCHANGED <<faces, edges, segments, segmentEnds, todo, claimed, features>>,
         rule' \in Rule,
         rule' \in { "waiting", "segments" } => rule \in { "waiting", "segments" },
         phase' \in EarlyPhase => phase \in EarlyPhase
  PROVE  RulesInv'
  BY DEF RulesInv, BoreShaped, EndTyped, Feats, Face, Bored, SameBore, SameAxis, Parallel, Type, Concave

LEMMA RulesRecognize ==
  ASSUME WellFormedInv, RulesInv, RecognizeFeatures
  PROVE  RulesInv'
<1>0. /\ phase = "features" /\ phase' \notin EarlyPhase /\ UNCHANGED <<faces, edges>>
      /\ WellFormed(faces, edges)
  BY DEF RecognizeFeatures, Recognize, FindSegments, ClassifyEnds, NextRule, Claim, ClaimRest, recordVars,
         WellFormedInv, EarlyPhase
<1>1. Face' = Face /\ Feats' = Feats
  BY <1>0 DEF Face, Feats
<1>2. \A c : BoreShaped(c)' <=> BoreShaped(c)
  BY <1>0 DEF BoreShaped, Face, Bored, SameBore, SameAxis, Parallel, Type, Concave
<1>3. CASE FindSegments
  <2>1. /\ rule = "segments" /\ rule' = "ends" /\ segments' = Bores
        /\ UNCHANGED <<segmentEnds, todo, claimed, features>>
    BY <1>3 DEF FindSegments
  <2>2. \A c \in segments' : BoreShaped(c)'
    BY <1>0, <1>2, <2>1, BoresTyped
  <2>3. segmentEnds' = {} /\ rule' \in Rule
    BY <2>1 DEF RulesInv, Rule
  <2> QED
    BY <1>0, <1>1, <2>1, <2>2, <2>3 DEF RulesInv
<1>4. CASE ClassifyEnds
  <2>1. /\ rule' = "stacks" /\ segmentEnds' = UNION { Ends(b) : b \in segments }
        /\ UNCHANGED <<segments, todo, claimed, features>>
    BY <1>4 DEF ClassifyEnds
  <2>2. \A e \in segmentEnds' : EndTyped(e)
    BY <1>0, <2>1, EndsTyped DEF RulesInv
  <2>3. \A e \in segmentEnds' : EndTyped(e)'
    BY <1>1, <2>1, <2>2 DEF EndTyped
  <2> QED
    BY <1>0, <1>1, <1>2, <2>1, <2>3 DEF RulesInv, Rule
<1>5. CASE NextRule \/ Claim \/ ClaimRest
  <2>0. UNCHANGED <<segments, segmentEnds>>
    BY <1>5 DEF NextRule, Claim, ClaimRest
  <2>1. \A c \in segments' : BoreShaped(c)'
    BY <1>2, <2>0 DEF RulesInv
  <2>2. \A e \in segmentEnds' : EndTyped(e)'
    BY <1>1, <2>0 DEF RulesInv, EndTyped
  <2>3. CASE NextRule
    <3>1. /\ rule \in DOMAIN RuleAfter /\ rule' = RuleAfter[rule] /\ todo' = Candidates(RuleAfter[rule])
          /\ UNCHANGED <<claimed, features>>
      BY <2>3 DEF NextRule
    <3>2. rule' \in Rule /\ rule' \notin { "waiting", "segments" }
      BY <3>1 DEF RuleAfter, Rule
    <3>3. todo' \in Seq(Feats)
      BY <1>0, <3>1, CandidatesTyped DEF RulesInv
    <3> QED
      BY <1>0, <1>1, <2>1, <2>2, <3>1, <3>2, <3>3 DEF RulesInv
  <2>4. CASE Claim
    <3>1. todo # <<>> /\ todo' = Tail(todo) /\ rule' = rule
      BY <2>4 DEF Claim
    <3>2. Head(todo) \in Feats /\ todo' \in Seq(Feats)
      BY <3>1, HeadTailProperties DEF RulesInv
    <3>3. claimed' \subseteq claimed \cup Head(todo).faces /\ features' \subseteq features \cup {Head(todo)}
      BY <2>4 DEF Claim
    <3>4. claimed' \subseteq Face /\ features' \subseteq Feats
      BY <3>2, <3>3 DEF RulesInv, Feats
    <3> QED
      BY <1>0, <1>1, <2>0, <2>1, <2>2, <3>1, <3>2, <3>4 DEF RulesInv
  <2>5. CASE ClaimRest
    <3>1. /\ rule' = "recognized" /\ features' = features \cup { Leftover(f) : f \in Free }
          /\ UNCHANGED <<todo, claimed>>
      BY <2>5 DEF ClaimRest
    <3>2. ASSUME NEW f \in Free PROVE Leftover(f) \in Feats
      <4>1. f \in Face
        BY DEF Free
      <4>2. Feature("planar_face", {f}, TRUE) \in Feats /\ Feature("unknown", {f}, FALSE) \in Feats
        BY <4>1, FeatureTyped DEF FeatureType
      <4> QED BY <4>2 DEF Leftover
    <3>3. features' \subseteq Feats
      BY <3>1, <3>2 DEF RulesInv
    <3> QED
      BY <1>0, <1>1, <2>1, <2>2, <3>1, <3>3 DEF RulesInv, Rule
  <2> QED BY <1>5, <2>3, <2>4, <2>5
<1> QED
  BY <1>3, <1>4, <1>5 DEF RecognizeFeatures, Recognize

--------------------------------------------------------------------------------
(* Arrays, in any phase: empty at first, then ids of faces.                *)

ArraysInv ==
  /\ phase \in Phase
  /\ phase = "entities" => /\ faces = <<>> /\ edges = <<>>
                           /\ mesh.tri = <<>> /\ cloud.ids = <<>> /\ graph.pairs = {}
                           /\ mask = [ p \in Pixel |-> 0 ] /\ DOMAIN lineage = {}
  /\ mesh.tri \in Seq(Face) /\ cloud.ids \in Seq(Face)
  /\ graph.pairs \subseteq Face \X Face
  /\ mask \in [ Pixel -> Face \cup {0} ]
  /\ DOMAIN lineage \in { {}, Face }

LEMMA ArraysInit == Init => ArraysInv
  BY DEF Init, ArraysInv, Phase

LEMMA SharedTyped ==
  ASSUME WellFormed(faces, edges)
  PROVE  /\ Shared \subseteq Face \X Face
         /\ \A p \in Shared : p[1] # p[2] /\ <<p[2], p[1]>> \in Shared
<1>1. \A e \in DOMAIN edges : edges[e].faces \subseteq Face
  BY DEF WellFormed, Face
<1>2. ASSUME NEW p \in Shared PROVE p \in Face \X Face /\ p[1] # p[2] /\ <<p[2], p[1]>> \in Shared
  <2>1. PICK e \in DOMAIN edges : p \in Pairs(edges[e].faces)
    BY DEF Shared
  <2>2. p \in edges[e].faces \X edges[e].faces /\ p[1] # p[2]
    BY <2>1 DEF Pairs
  <2>3. <<p[2], p[1]>> \in Pairs(edges[e].faces)
    BY <2>2 DEF Pairs
  <2>4. <<p[2], p[1]>> \in Shared
    BY <2>3 DEF Shared
  <2> QED BY <1>1, <2>2, <2>4
<1> QED BY <1>2

LEMMA OwnersTyped ==
  ASSUME NEW c, NEW n \in Nat, DOMAIN c = 1..n, \A i \in 1..n : c[i] \in Nat
  PROVE  Owners(c) \in Seq(1..n)
  BY OwnersOwn DEF OwnedUpTo

LEMMA MasksTyped ==
  ASSUME NEW n \in Nat, NEW tri \in Seq(1..n), NEW seen \in [ Pixel -> 0..Len(tri) ], NEW p \in Pixel
  PROVE  (IF seen[p] = 0 THEN 0 ELSE tri[seen[p]] % MaskIds) \in (1..n) \cup {0}
<1>1. CASE seen[p] = 0
  BY <1>1
<1>2. CASE seen[p] # 0
  <2>1. seen[p] \in 1..Len(tri)
    <3>1. seen[p] \in 0..Len(tri) /\ Len(tri) \in Nat
      OBVIOUS
    <3> QED BY <1>2, <3>1
  <2>2. PICK t \in 1..n : t = tri[seen[p]]
    BY <2>1
  <2>3. PICK m \in Nat \ {0} : m = MaskIds
    BY ExtractionAssumption
  <2>4. t % m \in Nat /\ t % m <= t
    <3>1. t \in Nat
      BY <2>2
    <3>2. t \div m \in Nat /\ t % m \in Nat /\ t = m * (t \div m) + (t % m)
      BY <2>3, <3>1
    <3>3. PICK q \in Nat, r \in Nat : q = t \div m /\ r = t % m /\ t = m * q + r
      BY <3>2
    <3>4. m * q \in Nat
      BY <2>3, <3>3
    <3> QED BY <3>1, <3>3, <3>4
  <2>5. t % m \in (1..n) \cup {0}
    <3>1. PICK r \in Nat : r = t % m
      BY <2>4
    <3> QED BY <2>4, <3>1
  <2> QED BY <1>2, <2>2, <2>3, <2>5
<1> QED BY <1>1, <1>2

LEMMA ArraysStep == WellFormedInv /\ StageInv /\ ArraysInv /\ [Next]_vars => ArraysInv'
<1> SUFFICES ASSUME WellFormedInv, StageInv, ArraysInv, [Next]_vars PROVE ArraysInv'
  OBVIOUS
<1>0. phase' \in Phase
  BY DEF Next, ExtractEntities, Tessellate, SamplePoints, BuildGraph, RenderViews, RecognizeFeatures,
         ValidateOutputs, WriteLineage, vars, ArraysInv, Phase
<1>1. CASE ExtractEntities
  <2>1. /\ phase = "entities" /\ phase' # "entities" /\ UNCHANGED <<mesh, cloud, graph, mask, lineage>>
    BY <1>1 DEF ExtractEntities, arrayVars
  <2>2. /\ mesh'.tri = <<>> /\ cloud'.ids = <<>> /\ graph'.pairs = {}
        /\ mask' = [ p \in Pixel |-> 0 ] /\ DOMAIN lineage' = {}
    BY <2>1 DEF ArraysInv
  <2> QED BY <1>0, <2>1, <2>2 DEF ArraysInv
<1>2. CASE Tessellate
  <2>1. /\ phase = "mesh" /\ phase' # "entities" /\ UNCHANGED <<faces, cloud, graph, mask, lineage>>
    BY <1>2 DEF Tessellate, recordVars
  <2>2. CASE UNCHANGED mesh
    BY <1>0, <2>1, <2>2 DEF ArraysInv, Face
  <2>3. CASE mesh' = [ tri |-> Owners(Triangles), range |-> Ranges(Triangles) ]
    <3>1. PICK n \in Nat : Face = 1..n
      BY <2>1 DEF WellFormedInv, WellFormed, Face
    <3>2. DOMAIN Triangles = 1..n /\ \A i \in 1..n : Triangles[i] \in Nat
      BY <2>1, <3>1 DEF Triangles, WellFormedInv, WellFormed, Face
    <3>3. mesh'.tri \in Seq(Face)
      BY <2>3, <3>1, <3>2, OwnersTyped
    <3>4. Face' = Face
      BY <2>1 DEF Face
    <3> QED BY <1>0, <2>1, <3>3, <3>4 DEF ArraysInv
  <2> QED BY <1>2, <2>2, <2>3 DEF Tessellate, Triangles
<1>3. CASE SamplePoints
  <2>1. /\ phase = "points" /\ phase' # "entities" /\ UNCHANGED <<faces, mesh, graph, mask, lineage>>
        /\ cloud' = [ ids |-> Owners(Allocate), range |-> Ranges(Allocate) ]
    BY <1>3 DEF SamplePoints, recordVars
  <2>2. PICK n \in Nat : Face = 1..n
    BY <2>1 DEF WellFormedInv, WellFormed, Face
  <2>3. DOMAIN Allocate = 1..n /\ \A i \in 1..n : Allocate[i] \in Nat
    BY <2>1, <2>2, AllocateMinimum DEF WellFormedInv
  <2>4. cloud'.ids \in Seq(Face)
    BY <2>1, <2>2, <2>3, OwnersTyped
  <2>5. Face' = Face
    BY <2>1 DEF Face
  <2> QED BY <1>0, <2>1, <2>4, <2>5 DEF ArraysInv
<1>4. CASE BuildGraph
  <2>1. /\ phase = "graph" /\ phase' # "entities" /\ UNCHANGED <<faces, mesh, cloud, mask, lineage>>
        /\ graph'.pairs = Shared
    BY <1>4 DEF BuildGraph, recordVars, Shared
  <2>2. Shared \subseteq Face \X Face
    BY <2>1, SharedTyped DEF WellFormedInv
  <2>3. Face' = Face
    BY <2>1 DEF Face
  <2> QED BY <1>0, <2>1, <2>2, <2>3 DEF ArraysInv
<1>5. CASE RenderViews
  <2>1. /\ phase = "views" /\ phase' # "entities" /\ UNCHANGED <<faces, mesh, cloud, graph, lineage>>
    BY <1>5 DEF RenderViews, recordVars
  <2>2. PICK seen \in [ Pixel -> 0..Len(mesh.tri) ] :
          mask' = [ p \in Pixel |-> IF seen[p] = 0 THEN 0 ELSE mesh.tri[seen[p]] % MaskIds ]
    BY <1>5 DEF RenderViews
  <2>3. PICK n \in Nat : Face = 1..n
    BY <2>1 DEF WellFormedInv, WellFormed, Face
  <2>4. mesh.tri \in Seq(1..n)
    BY <2>3 DEF ArraysInv
  <2>5. \A p \in Pixel : (IF seen[p] = 0 THEN 0 ELSE mesh.tri[seen[p]] % MaskIds) \in Face \cup {0}
    BY <2>3, <2>4, MasksTyped
  <2>6. mask' \in [ Pixel -> Face \cup {0} ]
    BY <2>2, <2>5
  <2>7. Face' = Face
    BY <2>1 DEF Face
  <2> QED BY <1>0, <2>1, <2>6, <2>7 DEF ArraysInv
<1>6. CASE RecognizeFeatures \/ ValidateOutputs \/ UNCHANGED vars
  <2>1. UNCHANGED <<faces, edges, mesh, cloud, graph, mask, lineage>> /\ (phase' = "entities" => phase = "entities")
    BY <1>6 DEF RecognizeFeatures, Recognize, FindSegments, ClassifyEnds, NextRule, Claim, ClaimRest,
                ValidateOutputs, vars, recordVars, arrayVars
  <2> QED BY <1>0, <2>1 DEF ArraysInv, Face
<1>7. CASE WriteLineage
  <2>1. UNCHANGED <<faces, mesh, cloud, graph, mask>> /\ phase' # "entities" /\ DOMAIN lineage' = Face
    BY <1>7 DEF WriteLineage, recordVars, arrayVars
  <2> QED BY <1>0, <2>1 DEF ArraysInv, Face
<1> QED BY <1>1, <1>2, <1>3, <1>4, <1>5, <1>6, <1>7 DEF Next

--------------------------------------------------------------------------------
(* The whole invariant, and what it implies.                               *)

LEMMA RulesStep == WellFormedInv /\ RulesInv /\ [Next]_vars => RulesInv'
<1> SUFFICES ASSUME WellFormedInv, RulesInv, [Next]_vars PROVE RulesInv'
  OBVIOUS
<1>1. CASE ExtractEntities
  <2>1. /\ phase = "entities" /\ UNCHANGED <<rule, segments, segmentEnds, todo, claimed, features>>
    BY <1>1 DEF ExtractEntities, ruleVars
  <2>2. segments = {} /\ segmentEnds = {} /\ todo = <<>> /\ claimed = {} /\ features = {} /\ rule \in Rule
    BY <2>1 DEF RulesInv, EarlyPhase
  <2>3. <<>> \in Seq(Feats')
    OBVIOUS
  <2> QED BY <2>1, <2>2, <2>3 DEF RulesInv
<1>2. CASE RenderViews
  <2>1. /\ UNCHANGED <<faces, segments, segmentEnds, todo, claimed, features>>
        /\ phase = "views" /\ phase' = "features" /\ rule' = "segments"
    BY <1>2 DEF RenderViews, recordVars
  <2>2. segments' = {} /\ segmentEnds' = {} /\ todo' = <<>> /\ claimed' = {} /\ features' = {}
    BY <2>1 DEF RulesInv, EarlyPhase
  <2>3. <<>> \in Seq(Feats')
    OBVIOUS
  <2> QED BY <2>1, <2>2, <2>3 DEF RulesInv, Rule
<1>3. CASE RecognizeFeatures
  BY <1>3, RulesRecognize
<1>4. CASE Tessellate \/ SamplePoints \/ BuildGraph \/ ValidateOutputs \/ WriteLineage \/ UNCHANGED vars
  <2>1. /\ UNCHANGED <<faces, edges, rule, segments, segmentEnds, todo, claimed, features>>
        /\ phase' \in EarlyPhase => phase \in EarlyPhase
    BY <1>4 DEF Tessellate, SamplePoints, BuildGraph, ValidateOutputs, WriteLineage, vars, recordVars, ruleVars,
                EarlyPhase
  <2>2. rule' \in Rule /\ (rule' \in { "waiting", "segments" } => rule \in { "waiting", "segments" })
    BY <2>1 DEF RulesInv
  <2> QED BY <2>1, <2>2, RulesKept
<1> QED BY <1>1, <1>2, <1>3, <1>4 DEF Next

ExtractionInv == RecordsInv /\ StageInv /\ PartitionInv /\ RulesInv /\ ArraysInv

LEMMA ExtractionInvInit == Init => ExtractionInv
  BY RecordsInit, StageInit, PartitionInit, RulesInit, ArraysInit DEF ExtractionInv

LEMMA ExtractionInvStep == ExtractionInv /\ [Next]_vars => ExtractionInv'
  BY RecordsStep, StageStep, PartitionStep, RulesStep, ArraysStep, RecordsAreWellFormed DEF ExtractionInv

LEMMA ExtractionTyped == ExtractionInv => TypeOK
<1> SUFFICES ASSUME RecordsInv, RulesInv, ArraysInv, WellFormedInv PROVE TypeOK
  BY RecordsAreWellFormed DEF ExtractionInv
<1>1. /\ \A f \in Face : /\ faces[f].adj \subseteq Face \ {f}
                         /\ faces[f].outer \subseteq faces[f].edges
                         /\ faces[f].edges \subseteq DOMAIN edges
      /\ \A e \in DOMAIN edges : edges[e].faces \subseteq Face
  <2>1. CASE phase = "entities"
    <3>1. Face = {} /\ DOMAIN edges = {}
      BY <2>1 DEF ArraysInv, Face
    <3> QED BY <3>1
  <2>2. CASE phase # "entities"
    BY <2>2 DEF WellFormedInv, WellFormed, Face, Meet
  <2> QED BY <2>1, <2>2
<1>2. segments \subseteq (SUBSET Face) \ {{}}
  BY DEF RulesInv, BoreShaped
<1>3. \A e \in segmentEnds : e.bore \in segments /\ e.faces \subseteq Face /\ e.to \subseteq segments
  BY DEF RulesInv, EndTyped
<1>4. ToSet(todo) \cup features \subseteq Feats
  BY DEF RulesInv, ToSet
<1>5. ToSet(mesh.tri) \subseteq Face /\ ToSet(cloud.ids) \subseteq Face
  BY DEF ArraysInv, ToSet
<1> QED
  BY <1>1, <1>2, <1>3, <1>4, <1>5 DEF TypeOK, Feats, RecordsInv, RulesInv, ArraysInv

LEMMA ChecksHold ==
  ASSUME ExtractionInv, phase = "features", rule = "recognized", NEW c \in Checks
  PROVE  Check(c)
<1>1. WellFormed(faces, edges)
  BY RecordsAreWellFormed DEF ExtractionInv, WellFormedInv
<1>2. PICK n \in Nat : Face = 1..n
  BY <1>1 DEF WellFormed, Face
<1>3. MeshMade /\ CloudMade /\ GraphMade
  BY DEF ExtractionInv, StageInv
<1>4. CASE c \in { "nodes", "in_range", "self_loops", "adjacency", "symmetric" }
  <2>1. graph.nodes = [ f \in Face |-> f ] /\ graph.pairs = Shared
    BY <1>3 DEF GraphMade
  <2>2. /\ Shared \subseteq Face \X Face
        /\ \A p \in Shared : p[1] # p[2] /\ <<p[2], p[1]>> \in Shared
    BY <1>1, SharedTyped
  <2> QED BY <1>4, <2>1, <2>2 DEF Check
<1>5. CASE c \in { "points", "triangles" }
  <2>1. ToSet(mesh.tri) \subseteq Face /\ ToSet(cloud.ids) \subseteq Face
    BY DEF ExtractionInv, ArraysInv, ToSet
  <2> QED BY <1>5, <2>1 DEF Check
<1>6. CASE c = "sampled"
  <2>1. ASSUME NEW f \in Face PROVE cloud.range[f][2] > 0
    <3>1. DOMAIN Allocate = Face /\ Allocate[f] \in Nat /\ Allocate[f] >= MinPoints
      BY <1>1, AllocateMinimum
    <3>2. cloud.range[f][2] = Allocate[f]
      BY <1>3, <3>1 DEF CloudMade, Ranges
    <3>3. MinPoints \in Nat /\ MinPoints > 0
      BY ExtractionAssumption
    <3> QED BY <3>1, <3>2, <3>3
  <2> QED BY <1>6, <2>1 DEF Check
<1>7. CASE c = "triangulated"
  <2>1. ASSUME NEW f \in Face PROVE mesh.range[f][2] > 0
    <3>1. faces[f].tris \in Nat /\ faces[f].tris >= MinTriangles
      BY <1>1, <1>3 DEF MeshMade, WellFormed, Face
    <3>2. mesh.range[f][2] = faces[f].tris
      BY <1>3 DEF MeshMade, Ranges, Triangles
    <3>3. MinTriangles \in Nat /\ MinTriangles > 0
      BY ExtractionAssumption
    <3> QED BY <3>1, <3>2, <3>3
  <2> QED BY <1>7, <2>1 DEF Check
<1>8. CASE c = "masks"
  <2>1. Len(faces) = n
    BY <1>2 DEF Face
  <2>2. \A p \in Pixel : mask[p] \in (1..n) \cup {0}
    BY <1>2 DEF ExtractionInv, ArraysInv
  <2>3. \A p \in Pixel : mask[p] <= n
    BY <2>2
  <2> QED BY <1>8, <2>1, <2>3 DEF Check
<1>9. CASE c = "assigned"
  <2>1. \A x \in features : x.faces \subseteq Face
    BY DEF ExtractionInv, RulesInv, Feats
  <2>2. \A f \in Face : \E x \in features : f \in x.faces
    BY DEF ExtractionInv, PartitionInv, EndInv, Covered
  <2> QED BY <1>9, <2>1, <2>2 DEF Check
<1> QED BY <1>4, <1>5, <1>6, <1>7, <1>8, <1>9 DEF Checks

FailuresInv == ExtractionInv /\ OnlyGenuineFailures

LEMMA FailuresStep == FailuresInv /\ [Next]_vars => FailuresInv'
<1> SUFFICES ASSUME ExtractionInv, OnlyGenuineFailures, [Next]_vars PROVE OnlyGenuineFailures'
  BY ExtractionInvStep DEF FailuresInv
<1>1. CASE Tessellate
  <2>1. UNCHANGED faces
    BY <1>1 DEF Tessellate, recordVars
  <2> QED BY <1>1, <2>1 DEF Tessellate, OnlyGenuineFailures, Face
<1>2. CASE ValidateOutputs
  <2>1. phase = "features" /\ rule = "recognized"
    BY <1>2 DEF ValidateOutputs
  <2>2. { c \in Checks : ~Check(c) } = {}
    BY <2>1, ChecksHold
  <2>3. failed' = {} \/ failed' = {"numeric"}
    BY <1>2, <2>2 DEF ValidateOutputs
  <2> QED BY <1>2, <2>3 DEF ValidateOutputs, OnlyGenuineFailures
<1>3. CASE ExtractEntities \/ SamplePoints \/ BuildGraph \/ RenderViews \/ RecognizeFeatures \/ WriteLineage
  <2>1. phase' # "failed"
    BY <1>3 DEF ExtractEntities, SamplePoints, BuildGraph, RenderViews, RecognizeFeatures, WriteLineage, Recognize,
                FindSegments, ClassifyEnds, NextRule, Claim, ClaimRest
  <2> QED BY <2>1 DEF OnlyGenuineFailures
<1>4. CASE UNCHANGED vars
  BY <1>4 DEF vars, recordVars, OnlyGenuineFailures, Face
<1> QED BY <1>1, <1>2, <1>3, <1>4 DEF Next

(* Types: records, arrays, features and lineage speak of existing faces,   *)
(* whatever the four rules propose (extract_child, recognizer.py).         *)
THEOREM ExtractionTypes == Spec => []TypeOK
<1> QED BY ExtractionInvInit, ExtractionInvStep, ExtractionTyped, PTL DEF Spec

(* The output checks on ids, ranges, adjacency, masks and assignment never *)
(* reject a sample: what extract_child makes passes them, for every shape  *)
(* and whatever the rules propose.                                         *)
THEOREM GenuineFailures == Spec => []OnlyGenuineFailures
<1>1. Init => FailuresInv
  BY ExtractionInvInit DEF FailuresInv, Init, OnlyGenuineFailures
<1>2. FailuresInv => OnlyGenuineFailures
  BY DEF FailuresInv
<1> QED BY <1>1, <1>2, FailuresStep, PTL DEF Spec
================================================================================
