---------------------------- MODULE ExtractionProofs ---------------------------
(***************************************************************************)
(* What holds of every extraction, whatever the shape, the kernel's order  *)
(* and the bounds:                                                         *)
(*   - every face belongs to exactly one feature, whatever the four rules  *)
(*     propose: that proof uses only how recognize claims candidates;      *)
(*   - canonical records do not depend on the kernel's order: positions    *)
(*     are a permutation, and the rank of a key when the keys differ;      *)
(*   - the links of a stored sample can be followed: ranges of points and  *)
(*     triangles tile their arrays, and every view of the sample is made   *)
(*     of the same records.                                                *)
(*   - the points of a sample are given out completely and in proportion   *)
(*     to the areas of the faces.                                          *)
(* Sums and flattened sequences are recursive functions in the community   *)
(* modules; what they compute is proved by induction over the length, with *)
(* the set of the lengths for which it holds (Inductively).                *)
(***************************************************************************)
EXTENDS Extraction, FiniteSetTheorems, SequenceTheorems, NaturalsInduction, WellFoundedInduction, TLAPS

AllClaimed == UNION { x.faces : x \in features }
Disjoint == \A x, y \in features : x # y => x.faces \cap y.faces = {}
Covered == \A f \in Face : \E x \in features : f \in x.faces

\* Recognition has not begun before the views are rendered.
WaitingInv ==
  phase \in { "entities", "mesh", "points", "graph", "views" } =>
    /\ rule = "waiting" /\ todo = <<>> /\ claimed = {} /\ features = {}

\* `claimed` is what the features have; nothing is claimed once recognition is over.
ClaimedInv == rule # "recognized" => claimed = AllClaimed
EndInv == rule = "recognized" => todo = <<>> /\ Covered

PartitionInv == WaitingInv /\ ClaimedInv /\ Disjoint /\ EndInv

LEMMA PartitionInit == Init => PartitionInv
  BY DEF Init, PartitionInv, WaitingInv, ClaimedInv, Disjoint, EndInv, AllClaimed

\* A step that claims no face and does not begin or end recognition keeps the invariant.
LEMMA Uninvolved ==
  ASSUME PartitionInv, UNCHANGED ruleVars, UNCHANGED faces,
         phase' \in { "entities", "mesh", "points", "graph", "views" } =>
           phase \in { "entities", "mesh", "points", "graph", "views" }
  PROVE  PartitionInv'
<1>1. WaitingInv'
  BY DEF PartitionInv, WaitingInv, ruleVars
<1>2. ClaimedInv'
  BY DEF PartitionInv, ClaimedInv, AllClaimed, ruleVars
<1>3. Disjoint'
  BY DEF PartitionInv, Disjoint, ruleVars
<1>4. EndInv'
  BY DEF PartitionInv, EndInv, Covered, Face, ruleVars
<1> QED BY <1>1, <1>2, <1>3, <1>4 DEF PartitionInv

\* Recognition: the next rule, a claim, the rest.
LEMMA RecognizeStep ==
  ASSUME PartitionInv, RecognizeFeatures
  PROVE  PartitionInv'
<1> phase = "features" /\ phase' = "features" /\ UNCHANGED faces
  BY DEF RecognizeFeatures, Recognize, FindSegments, ClassifyEnds, NextRule, Claim, ClaimRest, recordVars
<1>1. WaitingInv'
  BY DEF WaitingInv
<1>2. CASE NextRule
  <2>1. rule # "recognized" /\ rule' # "recognized" /\ UNCHANGED <<claimed, features>>
    BY <1>2 DEF NextRule, RuleAfter
  <2> QED
    BY <1>1, <2>1 DEF PartitionInv, ClaimedInv, Disjoint, EndInv, AllClaimed
<1>3. CASE Claim
  <2>1. rule # "recognized" /\ rule' = rule
    BY <1>3 DEF Claim, PartitionInv, EndInv
  <2>2. claimed = AllClaimed
    BY <2>1 DEF PartitionInv, ClaimedInv
  <2>3. CASE IsTaken(Head(todo))
    BY <1>1, <1>3, <2>1, <2>3 DEF Claim, PartitionInv, ClaimedInv, Disjoint, EndInv, AllClaimed
  <2>4. CASE ~IsTaken(Head(todo))
    <3> DEFINE new == Head(todo)
    <3>1. claimed' = claimed \cup new.faces /\ features' = features \cup {new}
      BY <1>3, <2>4 DEF Claim
    <3>2. new.faces \cap claimed = {}
      BY <2>4 DEF IsTaken
    <3> HIDE DEF new
    <3>3. claimed' = AllClaimed'
      BY <2>2, <3>1 DEF AllClaimed
    <3>4. Disjoint'
      BY <2>2, <3>1, <3>2 DEF Disjoint, AllClaimed, PartitionInv
    <3> QED
      BY <1>1, <2>1, <3>3, <3>4 DEF PartitionInv, ClaimedInv, EndInv
  <2> QED BY <2>3, <2>4
<1>4. CASE ClaimRest
  <2>1. /\ claimed = AllClaimed /\ todo' = <<>> /\ rule' = "recognized"
        /\ features' = features \cup { Leftover(f) : f \in Free }
    BY <1>4 DEF ClaimRest, PartitionInv, ClaimedInv
  <2>2. \A f \in Free : Leftover(f).faces = {f}
    BY DEF Leftover, Feature
  <2>3. Disjoint'
    <3> SUFFICES ASSUME NEW x \in features', NEW y \in features', x # y
                 PROVE  x.faces \cap y.faces = {}
      BY DEF Disjoint
    <3>1. \A z \in features : z.faces \cap Free = {}
      BY <2>1 DEF AllClaimed, Free
    <3>2. CASE x \in features /\ y \in features
      BY <3>2 DEF PartitionInv, Disjoint
    <3>3. CASE x \in features /\ y \notin features
      BY <2>1, <2>2, <3>1, <3>3
    <3>4. CASE x \notin features /\ y \in features
      BY <2>1, <2>2, <3>1, <3>4
    <3>5. CASE x \notin features /\ y \notin features
      BY <2>1, <2>2, <3>5
    <3> QED BY <3>2, <3>3, <3>4, <3>5
  <2>4. Covered'
    <3> SUFFICES ASSUME NEW f \in Face PROVE \E x \in features' : f \in x.faces
      BY DEF Covered, Face
    <3>1. CASE f \in claimed
      BY <2>1, <3>1 DEF AllClaimed
    <3>2. CASE f \notin claimed
      BY <2>1, <2>2, <3>2 DEF Free
    <3> QED BY <3>1, <3>2
  <2> QED
    BY <1>1, <2>1, <2>3, <2>4 DEF PartitionInv, ClaimedInv, EndInv
<1>5. CASE FindSegments \/ ClassifyEnds
  <2>1. rule # "recognized" /\ rule' # "recognized" /\ UNCHANGED <<claimed, features>>
    BY <1>5 DEF FindSegments, ClassifyEnds
  <2> QED
    BY <1>1, <2>1 DEF PartitionInv, ClaimedInv, Disjoint, EndInv, AllClaimed
<1> QED BY <1>2, <1>3, <1>4, <1>5 DEF RecognizeFeatures, Recognize

LEMMA PartitionStep == PartitionInv /\ [Next]_vars => PartitionInv'
<1> SUFFICES ASSUME PartitionInv, [Next]_vars PROVE PartitionInv'
  OBVIOUS
<1>1. CASE ExtractEntities
  \* The faces appear, and no rule has run.
  <2>1. phase = "entities" /\ phase' = "mesh" /\ UNCHANGED ruleVars
    BY <1>1 DEF ExtractEntities
  <2> QED
    BY <2>1 DEF PartitionInv, WaitingInv, ClaimedInv, Disjoint, EndInv, AllClaimed, ruleVars
<1>2. CASE Tessellate
  BY <1>2, Uninvolved DEF Tessellate, recordVars
<1>3. CASE SamplePoints
  BY <1>3, Uninvolved DEF SamplePoints, recordVars
<1>4. CASE BuildGraph
  BY <1>4, Uninvolved DEF BuildGraph, recordVars
<1>5. CASE RenderViews
  <2>1. phase = "views" /\ phase' = "features" /\ rule' = "segments" /\ UNCHANGED <<claimed, features>>
    BY <1>5 DEF RenderViews
  <2> QED
    BY <2>1 DEF PartitionInv, WaitingInv, ClaimedInv, Disjoint, EndInv, AllClaimed
<1>6. CASE RecognizeFeatures
  BY <1>6, RecognizeStep
<1>7. CASE ValidateOutputs
  <2>1. phase = "features" /\ phase' \in {"write", "failed"} /\ UNCHANGED <<faces, ruleVars>>
    BY <1>7 DEF ValidateOutputs, recordVars
  <2> QED BY <2>1, Uninvolved
<1>8. CASE WriteLineage
  BY <1>8, Uninvolved DEF WriteLineage, recordVars
<1>9. CASE UNCHANGED vars
  BY <1>9, Uninvolved DEF vars, recordVars
<1> QED
  BY <1>1, <1>2, <1>3, <1>4, <1>5, <1>6, <1>7, <1>8, <1>9 DEF Next

\* No face has two features at any time, and when recognition is over every face has one
\* (recognize, recognizer.py): for every part, every proposal of the rules and all constants.
THEOREM Partitioned == Spec => []FeaturesPartition
<1>1. PartitionInv => FeaturesPartition
  BY DEF PartitionInv, FeaturesPartition, Disjoint, EndInv, Covered
<1> QED BY PartitionInit, PartitionStep, <1>1, PTL DEF Spec

--------------------------------------------------------------------------------
(* Canonical positions.                                                    *)

(* A sequence of things with keys that can be compared.                    *)
Numbered(items) ==
  /\ \E n \in Nat : DOMAIN items = 1..n
  /\ \A i \in DOMAIN items : items[i].key \in Int

Before(items, i) ==
  { j \in DOMAIN items : \/ items[j].key < items[i].key
                         \/ items[j].key = items[i].key /\ j < i }

LEMMA BeforeFinite ==
  ASSUME NEW items, Numbered(items), NEW i \in DOMAIN items
  PROVE  /\ IsFiniteSet(Before(items, i)) /\ Cardinality(Before(items, i)) \in Nat
         /\ Positions(items)[i] = 1 + Cardinality(Before(items, i))
         /\ Positions(items)[i] \in DOMAIN items
<1> DEFINE D == DOMAIN items
<1>0. PICK n \in Nat : D = 1..n
  BY DEF Numbered
<1>1. IsFiniteSet(D) /\ Cardinality(D) = n
  BY <1>0, FS_Interval
<1>2. Before(items, i) \in SUBSET (D \ {i})
  BY DEF Before, Numbered
<1>3. IsFiniteSet(D \ {i}) /\ Cardinality(D \ {i}) = n - 1
  BY <1>1, FS_RemoveElement
<1>4. IsFiniteSet(Before(items, i)) /\ Cardinality(Before(items, i)) <= n - 1
  BY <1>2, <1>3, FS_Subset
<1>5. Cardinality(Before(items, i)) \in Nat
  BY <1>4, FS_CardinalityType
<1>6. Positions(items)[i] = 1 + Cardinality(Before(items, i))
  BY DEF Positions, Before
<1>. QED
  BY <1>0, <1>4, <1>5, <1>6

(* The order by key and then by listing is total, so that a thing that comes*)
(* before another has a smaller position.                                  *)
LEMMA PositionsGrow ==
  ASSUME NEW items, Numbered(items), NEW i \in DOMAIN items, NEW j \in DOMAIN items, i \in Before(items, j)
  PROVE  Positions(items)[i] < Positions(items)[j]
<1>1. Before(items, i) \cup {i} \subseteq Before(items, j)
  BY DEF Before, Numbered
<1>2. i \notin Before(items, i)
  BY DEF Before, Numbered
<1>3. Cardinality(Before(items, i) \cup {i}) = Cardinality(Before(items, i)) + 1
  BY <1>2, BeforeFinite, FS_AddElement
<1>4. Cardinality(Before(items, i) \cup {i}) <= Cardinality(Before(items, j))
  BY <1>1, BeforeFinite, FS_Subset
<1>. QED
  BY <1>3, <1>4, BeforeFinite

(* Canonical positions are a permutation: no two things share one, and none*)
(* is left out.                                                            *)
LEMMA PositionsPermute ==
  ASSUME NEW items, Numbered(items)
  PROVE  Positions(items) \in Bijection(DOMAIN items, DOMAIN items)
<1> DEFINE D == DOMAIN items
           P == Positions(items)
<1>1. P \in [D -> D]
  BY BeforeFinite DEF Positions
<1>2. ASSUME NEW i \in D, NEW j \in D, P[i] = P[j] PROVE i = j
  <2>0. P[i] \in Nat
    BY <1>1 DEF Numbered
  <2>1. i \notin Before(items, j) /\ j \notin Before(items, i)
    <3>1. ASSUME i \in Before(items, j) \/ j \in Before(items, i) PROVE FALSE
      <4>1. P[i] < P[j] \/ P[j] < P[i]
        BY <3>1, PositionsGrow
      <4>. QED
        BY <1>2, <2>0, <4>1
    <3>. QED
      BY <3>1
  <2>. QED
    BY <2>1 DEF Before, Numbered
<1> HIDE DEF P
<1>3. P \in Injection(D, D)
  BY <1>1, <1>2 DEF Injection, IsInjective
<1>4. IsFiniteSet(D)
  BY FS_Interval DEF Numbered
<1>5. P \in Surjection(D, D)
  BY <1>3, <1>4, FS_Injection
<1>. QED
  BY <1>3, <1>5 DEF Bijection, P

(* AtPosition undoes Positions.                                            *)
LEMMA AtPositionInverse ==
  ASSUME NEW items, Numbered(items)
  PROVE  /\ \A i \in DOMAIN items :
              /\ Positions(items)[i] \in DOMAIN items
              /\ AtPosition(Positions(items), Positions(items)[i]) = i
         /\ \A p \in DOMAIN items :
              /\ AtPosition(Positions(items), p) \in DOMAIN items
              /\ Positions(items)[AtPosition(Positions(items), p)] = p
<1> DEFINE D == DOMAIN items
<1>1. PICK P : P = Positions(items)
  OBVIOUS
<1>2. P \in [D -> D] /\ (\A i, j \in D : P[i] = P[j] => i = j) /\ (\A p \in D : \E i \in D : P[i] = p)
  BY <1>1, PositionsPermute DEF Bijection, Injection, Surjection, IsInjective
<1>3. ASSUME NEW p \in D PROVE AtPosition(P, p) \in D /\ P[AtPosition(P, p)] = p
  BY <1>2 DEF AtPosition
<1>4. ASSUME NEW i \in D PROVE AtPosition(P, P[i]) = i
  BY <1>2, <1>3
<1>. QED
  BY <1>1, <1>2, <1>3, <1>4

--------------------------------------------------------------------------------
(* The kernel's listing.                                                   *)

Place(order, f) == CHOOSE i \in DOMAIN order : order[i] = f

LEMMA PlaceInverse ==
  ASSUME NEW items, NEW order, IsListing(order, items)
  PROVE  /\ DOMAIN order = DOMAIN items
         /\ \A f \in DOMAIN items : Place(order, f) \in DOMAIN items /\ order[Place(order, f)] = f
         /\ \A i \in DOMAIN items : order[i] \in DOMAIN items /\ Place(order, order[i]) = i
<1> DEFINE D == DOMAIN items
<1>1. order \in [D -> D] /\ (\A i, j \in D : order[i] = order[j] => i = j)
      /\ (\A f \in D : \E i \in D : order[i] = f)
  BY DEF IsListing, Bijection, Injection, Surjection, IsInjective
<1>2. \A f \in D : Place(order, f) \in D /\ order[Place(order, f)] = f
  BY <1>1 DEF Place
<1>3. \A i \in D : Place(order, order[i]) = i
  BY <1>1, <1>2
<1>. QED
  BY <1>1, <1>2, <1>3

(* A listed face is the face of the shape that the kernel put there; a     *)
(* listed edge refers to faces by their places in the listing.             *)
LEMMA ListedFacts ==
  ASSUME NEW shape, NEW faceOrder, NEW edgeOrder, IsShape(shape),
         IsListing(faceOrder, shape.face), IsListing(edgeOrder, shape.edge),
         NEW listed, listed = Listed(shape, faceOrder, edgeOrder)
  PROVE  /\ Numbered(listed.face) /\ DOMAIN listed.face = DOMAIN shape.face
         /\ Numbered(listed.edge) /\ DOMAIN listed.edge = DOMAIN shape.edge
         /\ \A i \in DOMAIN shape.face : listed.face[i] = shape.face[faceOrder[i]]
         /\ \A j \in DOMAIN shape.edge :
              LET e == shape.edge[edgeOrder[j]]
              IN  /\ listed.edge[j].key = e.key
                  /\ EdgeFaces(listed, j) = { Place(faceOrder, f) : f \in ToSet(e.on) }
                  /\ listed.edge[j].outer = { Place(faceOrder, f) : f \in e.outer }
<1> DEFINE D == DOMAIN shape.face
           E == DOMAIN shape.edge
<1>1. /\ DOMAIN faceOrder = D /\ DOMAIN edgeOrder = E
      /\ \A i \in D : faceOrder[i] \in D
      /\ \A j \in E : edgeOrder[j] \in E
  BY PlaceInverse
<1>2. /\ Len(shape.face) \in Nat /\ D = 1..Len(shape.face)
      /\ Len(shape.edge) \in Nat /\ E = 1..Len(shape.edge)
      /\ \A f \in D : shape.face[f].key \in Int
      /\ \A e \in E : /\ {"key", "on", "outer"} \subseteq DOMAIN shape.edge[e]
                      /\ shape.edge[e].key \in Int
                      /\ ToSet(shape.edge[e].on) \subseteq D
                      /\ shape.edge[e].outer \subseteq ToSet(shape.edge[e].on)
  BY DEF IsShape
<1>3. PICK place : place = [ f \in D |-> Place(faceOrder, f) ]
  OBVIOUS
<1>4. /\ listed.face = [ i \in D |-> shape.face[faceOrder[i]] ]
      /\ listed.edge = [ j \in E |-> Placed(place, shape.edge[edgeOrder[j]]) ]
  <2>1. place = [ f \in DOMAIN shape.face |-> CHOOSE i \in DOMAIN faceOrder : faceOrder[i] = f ]
    BY <1>3 DEF Place
  <2>. QED
    BY <1>1, <2>1 DEF Listed
<1>5. Numbered(listed.face) /\ DOMAIN listed.face = D
  <2>1. DOMAIN listed.face = 1..Len(shape.face)
    BY <1>2, <1>4
  <2>. QED
    BY <1>1, <1>2, <1>4, <2>1 DEF Numbered
<1>6. ASSUME NEW j \in E, NEW e, e = shape.edge[edgeOrder[j]]
      PROVE  /\ listed.edge[j].key = e.key
             /\ EdgeFaces(listed, j) = { Place(faceOrder, f) : f \in ToSet(e.on) }
             /\ listed.edge[j].outer = { Place(faceOrder, f) : f \in e.outer }
  <2>1. {"key", "on", "outer"} \subseteq DOMAIN e /\ ToSet(e.on) \subseteq D /\ e.outer \subseteq D
    BY <1>1, <1>2, <1>6
  <2>2. PICK on, outer : on = [ k \in DOMAIN e.on |-> place[e.on[k]] ] /\ outer = { place[f] : f \in e.outer }
    OBVIOUS
  <2>3. listed.edge[j] = [e EXCEPT !.on = on, !.outer = outer]
    <3>1. listed.edge[j] = Placed(place, e)
      BY <1>4, <1>6
    <3>. QED
      BY <2>2, <3>1 DEF Placed
  <2>4. listed.edge[j].key = e.key /\ listed.edge[j].on = on /\ listed.edge[j].outer = outer
    BY <2>1, <2>3
  <2>5. ToSet(on) = { Place(faceOrder, f) : f \in ToSet(e.on) }
    BY <1>3, <2>1, <2>2 DEF ToSet
  <2>6. outer = { Place(faceOrder, f) : f \in e.outer }
    BY <1>3, <2>1, <2>2
  <2>. QED
    BY <2>4, <2>5, <2>6 DEF EdgeFaces
<1>7. Numbered(listed.edge) /\ DOMAIN listed.edge = E
  <2>1. DOMAIN listed.edge = 1..Len(shape.edge)
    BY <1>2, <1>4
  <2>2. ASSUME NEW j \in E PROVE listed.edge[j].key \in Int
    <3>1. PICK e : e = shape.edge[edgeOrder[j]]
      OBVIOUS
    <3>2. edgeOrder[j] \in E /\ e.key \in Int
      BY <1>1, <1>2, <3>1
    <3>3. listed.edge[j].key = e.key
      BY <1>6, <3>1
    <3>. QED
      BY <3>2, <3>3
  <2>. QED
    BY <1>2, <2>1, <2>2 DEF Numbered
<1>. QED
  BY <1>4, <1>5, <1>6, <1>7

(* Canonical positions and keys: when the keys differ, the position of a   *)
(* listed thing is the rank of its key, wherever it was listed.            *)
LEMMA RankIsPosition ==
  ASSUME NEW items, Numbered(items), Distinct(items), NEW order, IsListing(order, items),
         NEW listed, Numbered(listed), DOMAIN listed = DOMAIN items,
         \A i \in DOMAIN items : listed[i].key = items[order[i]].key,
         NEW i \in DOMAIN items
  PROVE  Positions(listed)[i] = Rank(items, order[i])
<1> DEFINE D == DOMAIN items
           C == { j \in D : listed[j].key <= listed[i].key }
           R == { f \in D : items[f].key <= items[order[i]].key }
           g == [ j \in C |-> order[j] ]
<1>1. /\ \A j \in D : order[j] \in D
      /\ \A j, k \in D : order[j] = order[k] => j = k
      /\ \A f \in D : \E j \in D : order[j] = f
  <2>1. \A f \in D : Place(order, f) \in D /\ order[Place(order, f)] = f
    BY PlaceInverse
  <2>2. \A j \in D : order[j] \in D /\ Place(order, order[j]) = j
    BY PlaceInverse
  <2>. QED
    BY <2>1, <2>2
<1>2. \A j \in D : listed[j].key \in Int /\ items[j].key \in Int
  BY DEF Numbered
<1>3. ASSUME NEW j \in D, listed[j].key = listed[i].key PROVE j = i
  <2>1. order[j] \in D /\ order[i] \in D /\ items[order[j]].key = items[order[i]].key
    BY <1>1, <1>3
  <2>2. order[j] = order[i]
    BY <2>1 DEF Distinct
  <2>. QED
    BY <1>1, <2>2
<1>4. C = Before(listed, i) \cup {i}
  BY <1>2, <1>3 DEF Before
<1>5. i \notin Before(listed, i)
  BY <1>2 DEF Before, Numbered
<1>6. IsFiniteSet(C) /\ Cardinality(C) = Positions(listed)[i]
  <2>1. IsFiniteSet(Before(listed, i)) /\ Cardinality(Before(listed, i)) \in Nat
        /\ Positions(listed)[i] = 1 + Cardinality(Before(listed, i))
    BY BeforeFinite
  <2>2. /\ IsFiniteSet(Before(listed, i) \cup {i})
        /\ Cardinality(Before(listed, i) \cup {i}) = Cardinality(Before(listed, i)) + 1
    BY <1>5, <2>1, FS_AddElement
  <2> HIDE DEF C
  <2>. QED
    BY <1>4, <2>1, <2>2
<1>7. g \in Bijection(C, R)
  <2>1. g \in [C -> R]
    BY <1>1
  <2>2. \A j, k \in C : g[j] = g[k] => j = k
    BY <1>1
  <2>3. ASSUME NEW f \in R PROVE \E j \in C : g[j] = f
    <3>1. PICK j \in D : order[j] = f
      BY <1>1
    <3>2. listed[j].key = items[f].key /\ listed[i].key = items[order[i]].key
      BY <3>1
    <3>. QED
      BY <3>1, <3>2
  <2>. QED
    BY <2>1, <2>2, <2>3 DEF Bijection, Injection, Surjection, IsInjective
<1>8. Cardinality(R) = Cardinality(C)
  <2>1. ExistsBijection(C, R)
    BY <1>7 DEF ExistsBijection
  <2> HIDE DEF C, R
  <2>. QED
    BY <1>6, <2>1, FS_Bijection
<1>. QED
  BY <1>6, <1>8 DEF Rank

--------------------------------------------------------------------------------
(* Records.                                                                *)

On(shape, e) == ToSet(shape.edge[e].on)
OnFace(shape, f) == { e \in DOMAIN shape.edge : f \in ToSet(shape.edge[e].on) }
Neighbours(shape, f) == (UNION { ToSet(shape.edge[e].on) : e \in OnFace(shape, f) }) \ {f}
Outer(shape, f) == { e \in DOMAIN shape.edge : f \in shape.edge[e].outer }

(* What a record says of the i-th listed face, and of face f of the shape.  *)
SaysOfListed(record, listed, i) ==
  /\ record.key = listed.face[i].key /\ record.area = listed.face[i].area
  /\ record.adj = Translated(Positions(listed.face), FaceAdj(listed, i))
  /\ record.edges = Translated(Positions(listed.edge), FaceEdges(listed, i))
  /\ record.outer = Translated(Positions(listed.edge),
                               { e \in DOMAIN listed.edge : i \in listed.edge[e].outer })
SaysOfShape(record, shape, f) ==
  /\ record.key = shape.face[f].key /\ record.area = shape.face[f].area
  /\ record.adj = { Rank(shape.face, g) : g \in Neighbours(shape, f) }
  /\ record.edges = { Rank(shape.edge, e) : e \in OnFace(shape, f) }
  /\ record.outer = { Rank(shape.edge, e) : e \in Outer(shape, f) }

LEMMA RecordAt ==
  ASSUME NEW listed, Numbered(listed.face), NEW i \in DOMAIN listed.face,
         NEW p, p = Positions(listed.face)[i], NEW record, record = FaceRecords(listed)[p]
  PROVE  p \in DOMAIN listed.face /\ SaysOfListed(record, listed, i)
<1>1. p \in DOMAIN listed.face /\ AtPosition(Positions(listed.face), p) = i
  BY AtPositionInverse
<1> QED
  BY <1>1 DEF FaceRecords, SaysOfListed

(* A face of the shape is found at the rank of its key, and its record     *)
(* refers to what it touches in the shape by the ranks of their keys.      *)
LEMMA RecordAtRank ==
  ASSUME NEW shape, NEW faceOrder, NEW edgeOrder, IsShape(shape),
         IsListing(faceOrder, shape.face), IsListing(edgeOrder, shape.edge),
         Distinct(shape.face), Distinct(shape.edge),
         NEW f \in DOMAIN shape.face, NEW record,
         record = FaceRecords(Listed(shape, faceOrder, edgeOrder))[Rank(shape.face, f)]
  PROVE  SaysOfShape(record, shape, f)
<1> DEFINE D == DOMAIN shape.face
           E == DOMAIN shape.edge
<1>1. PICK listed : listed = Listed(shape, faceOrder, edgeOrder)
  OBVIOUS
<1>2. PICK canonical, canonicalEdge :
        canonical = Positions(listed.face) /\ canonicalEdge = Positions(listed.edge)
  OBVIOUS
<1>3. /\ Numbered(listed.face) /\ DOMAIN listed.face = D
      /\ Numbered(listed.edge) /\ DOMAIN listed.edge = E
      /\ \A i \in D : listed.face[i] = shape.face[faceOrder[i]]
      /\ \A j \in E : /\ listed.edge[j].key = shape.edge[edgeOrder[j]].key
                      /\ EdgeFaces(listed, j) = { Place(faceOrder, g) : g \in On(shape, edgeOrder[j]) }
                      /\ listed.edge[j].outer = { Place(faceOrder, g) : g \in shape.edge[edgeOrder[j]].outer }
  BY <1>1, ListedFacts DEF On
<1>4. Numbered(shape.face) /\ Numbered(shape.edge) /\ \A e \in E : On(shape, e) \subseteq D /\ shape.edge[e].outer \subseteq On(shape, e)
  BY DEF IsShape, Numbered, On
<1>5. \A g \in D : Place(faceOrder, g) \in D /\ faceOrder[Place(faceOrder, g)] = g
  BY PlaceInverse
<1>6. /\ \A j \in E : edgeOrder[j] \in E
      /\ \A e \in E : \E j \in E : edgeOrder[j] = e
  BY PlaceInverse
<1>7. \A g \in D : canonical[Place(faceOrder, g)] = Rank(shape.face, g)
  <2> SUFFICES ASSUME NEW g \in D PROVE canonical[Place(faceOrder, g)] = Rank(shape.face, g)
    OBVIOUS
  <2>1. PICK i \in D : i = Place(faceOrder, g) /\ faceOrder[i] = g
    BY <1>5
  <2>2. canonical[i] = Rank(shape.face, faceOrder[i])
    BY <1>2, <1>3, <1>4, RankIsPosition
  <2>. QED
    BY <2>1, <2>2
<1>8. \A j \in E : canonicalEdge[j] = Rank(shape.edge, edgeOrder[j])
  BY <1>2, <1>3, <1>4, RankIsPosition
<1>9. record = FaceRecords(listed)[Rank(shape.face, f)]
  BY <1>1
<1>10. /\ record.key = shape.face[f].key /\ record.area = shape.face[f].area
       /\ record.adj = { canonical[x] : x \in FaceAdj(listed, Place(faceOrder, f)) }
       /\ record.edges = { canonicalEdge[j] : j \in FaceEdges(listed, Place(faceOrder, f)) }
       /\ record.outer = { canonicalEdge[j] : j \in { e \in E : Place(faceOrder, f) \in listed.edge[e].outer } }
  <2>1. PICK i \in D : i = Place(faceOrder, f) /\ faceOrder[i] = f
    BY <1>5
  <2>2. canonical[i] = Rank(shape.face, f)
    BY <1>7, <2>1
  <2>3. /\ record.key = listed.face[i].key /\ record.area = listed.face[i].area
        /\ record.adj = Translated(canonical, FaceAdj(listed, i))
        /\ record.edges = Translated(canonicalEdge, FaceEdges(listed, i))
        /\ record.outer = Translated(canonicalEdge, { e \in E : i \in listed.edge[e].outer })
    <3>1. PICK p : p = Rank(shape.face, f)
      OBVIOUS
    <3>2. /\ Numbered(listed.face) /\ i \in DOMAIN listed.face
          /\ p = Positions(listed.face)[i] /\ record = FaceRecords(listed)[p]
      BY <1>2, <1>3, <1>9, <2>2, <3>1
    <3>3. SaysOfListed(record, listed, i)
      BY <3>2, RecordAt
    <3>4. DOMAIN listed.edge = E
      BY <1>3
    <3>. QED
      BY <1>2, <3>3, <3>4 DEF SaysOfListed
  <2>4. listed.face[i] = shape.face[f]
    BY <1>3, <2>1
  <2>. QED
    BY <2>1, <2>3, <2>4 DEF Translated
<1>11. \A e \in E : \A S \in SUBSET D : Place(faceOrder, f) \in { Place(faceOrder, g) : g \in S } <=> f \in S
  BY <1>5
<1>12. FaceEdges(listed, Place(faceOrder, f)) = { j \in E : edgeOrder[j] \in OnFace(shape, f) }
  <2>1. \A j \in E : Place(faceOrder, f) \in EdgeFaces(listed, j) <=> f \in On(shape, edgeOrder[j])
    BY <1>3, <1>4, <1>6, <1>11
  <2>2. \A j \in E : edgeOrder[j] \in OnFace(shape, f) <=> f \in On(shape, edgeOrder[j])
    BY <1>6 DEF OnFace, On
  <2>. QED
    BY <1>3, <2>1, <2>2 DEF FaceEdges
<1>13. record.edges = { Rank(shape.edge, e) : e \in OnFace(shape, f) }
  <2>1. OnFace(shape, f) \subseteq E
    BY DEF OnFace
  <2>. QED
    BY <1>6, <1>8, <1>10, <1>12, <2>1
<1>14. record.outer = { Rank(shape.edge, e) : e \in Outer(shape, f) }
  <2>1. Outer(shape, f) \subseteq E
    BY DEF Outer
  <2>2. \A j \in E : Place(faceOrder, f) \in listed.edge[j].outer <=> edgeOrder[j] \in Outer(shape, f)
    <3>1. \A j \in E : Place(faceOrder, f) \in listed.edge[j].outer <=> f \in shape.edge[edgeOrder[j]].outer
      BY <1>3, <1>4, <1>6, <1>11
    <3>. QED
      BY <1>6, <3>1 DEF Outer
  <2>. QED
    BY <1>6, <1>8, <1>10, <2>1, <2>2
<1>15. FaceAdj(listed, Place(faceOrder, f)) = { Place(faceOrder, g) : g \in Neighbours(shape, f) }
  <2>1. \A g : g \in Neighbours(shape, f) <=> g # f /\ \E e \in OnFace(shape, f) : g \in On(shape, e)
    BY DEF Neighbours, On
  <2>2. OnFace(shape, f) \subseteq E /\ Neighbours(shape, f) \subseteq D
    BY <1>4, <2>1 DEF OnFace
  <2>3. \A i, x : x \in FaceAdj(listed, i) <=> x # i /\ \E j \in FaceEdges(listed, i) : x \in EdgeFaces(listed, j)
    BY DEF FaceAdj
  <2>4. ASSUME NEW x \in FaceAdj(listed, Place(faceOrder, f)) PROVE x \in { Place(faceOrder, g) : g \in Neighbours(shape, f) }
    <3>1. PICK j \in E : edgeOrder[j] \in OnFace(shape, f) /\ x \in EdgeFaces(listed, j) /\ x # Place(faceOrder, f)
      BY <1>12, <2>3, <2>4
    <3>2. PICK g \in On(shape, edgeOrder[j]) : x = Place(faceOrder, g)
      BY <1>3, <3>1
    <3>3. g \in Neighbours(shape, f)
      BY <2>1, <3>1, <3>2
    <3>. QED
      BY <3>2, <3>3
  <2>5. ASSUME NEW g \in Neighbours(shape, f) PROVE Place(faceOrder, g) \in FaceAdj(listed, Place(faceOrder, f))
    <3>1. PICK e \in OnFace(shape, f) : g \in On(shape, e) /\ g # f
      BY <2>1
    <3>2. PICK j \in E : edgeOrder[j] = e
      BY <1>6, <2>2
    <3>3. Place(faceOrder, g) \in EdgeFaces(listed, j) /\ j \in FaceEdges(listed, Place(faceOrder, f))
      BY <1>3, <1>12, <3>1, <3>2
    <3>4. Place(faceOrder, g) # Place(faceOrder, f)
      BY <1>5, <2>2, <3>1
    <3>. QED
      BY <2>3, <3>3, <3>4
  <2>. QED
    BY <2>4, <2>5
<1>16. record.adj = { Rank(shape.face, g) : g \in Neighbours(shape, f) }
  <2>1. Neighbours(shape, f) \subseteq D
    BY <1>4 DEF Neighbours, OnFace, On
  <2>. QED
    BY <1>7, <1>10, <1>15, <2>1
<1>. QED
  BY <1>10, <1>13, <1>14, <1>16 DEF SaysOfShape

--------------------------------------------------------------------------------
(* The stage.                                                              *)

Canonical(i) == Listed(i.shape, i.faceOrder, i.edgeOrder)

RecordsInv ==
  /\ input \in Inputs
  /\ phase # "entities" =>
       faces = FaceRecords(Canonical(input)) /\ edges = EdgeRecords(Canonical(input))

LEMMA RecordsInit == Init => RecordsInv
  BY DEF Init, RecordsInv

LEMMA RecordsStep == RecordsInv /\ [Next]_vars => RecordsInv'
<1> SUFFICES ASSUME RecordsInv, [Next]_vars PROVE RecordsInv'
  OBVIOUS
<1>1. CASE ExtractEntities
  BY <1>1 DEF ExtractEntities, RecordsInv, Canonical
<1>2. ASSUME UNCHANGED <<input, recordVars>>, phase = "entities" => phase' = "entities"
      PROVE  RecordsInv'
  <2>1. input' = input /\ faces' = faces /\ edges' = edges
    BY <1>2 DEF recordVars
  <2>2. Canonical(input)' = Canonical(input)
    BY <2>1 DEF Canonical
  <2> QED
    BY <1>2, <2>1, <2>2 DEF RecordsInv
<1>3. CASE Tessellate
  BY <1>2, <1>3 DEF Tessellate
<1>4. CASE SamplePoints
  BY <1>2, <1>4 DEF SamplePoints
<1>5. CASE BuildGraph
  BY <1>2, <1>5 DEF BuildGraph
<1>6. CASE RenderViews
  BY <1>2, <1>6 DEF RenderViews
<1>7. CASE RecognizeFeatures
  <2>1. UNCHANGED recordVars
    BY <1>7 DEF RecognizeFeatures, Recognize, FindSegments, ClassifyEnds, NextRule, Claim, ClaimRest
  <2> QED
    BY <1>2, <1>7, <2>1 DEF RecognizeFeatures
<1>8. CASE ValidateOutputs
  <2>1. phase # "entities" /\ UNCHANGED <<input, recordVars>>
    BY <1>8 DEF ValidateOutputs
  <2> QED BY <1>2, <2>1
<1>9. CASE WriteLineage
  BY <1>2, <1>9 DEF WriteLineage
<1>10. CASE UNCHANGED vars
  BY <1>2, <1>10 DEF vars
<1> QED
  BY <1>1, <1>3, <1>4, <1>5, <1>6, <1>7, <1>8, <1>9, <1>10 DEF Next

LEMMA RecordsFollowShape == RecordsInv => CanonicalRecords
<1> SUFFICES ASSUME RecordsInv, phase # "entities", Distinct(input.shape.face), Distinct(input.shape.edge),
                    NEW f \in DOMAIN input.shape.face, NEW at, at = faces[Rank(input.shape.face, f)]
             PROVE  SaysOfShape(at, input.shape, f)
  BY DEF CanonicalRecords, SaysOfShape, Neighbours, OnFace, Outer
<1>1. PICK shape, faceOrder, edgeOrder :
        shape = input.shape /\ faceOrder = input.faceOrder /\ edgeOrder = input.edgeOrder
  OBVIOUS
<1>2. IsShape(shape) /\ IsListing(faceOrder, shape.face) /\ IsListing(edgeOrder, shape.edge)
  BY <1>1, ExtractionAssumption DEF RecordsInv
<1>3. at = FaceRecords(Listed(shape, faceOrder, edgeOrder))[Rank(shape.face, f)]
  BY <1>1 DEF RecordsInv, Canonical
<1>4. Distinct(shape.face) /\ Distinct(shape.edge) /\ f \in DOMAIN shape.face
  BY <1>1
<1>5. SaysOfShape(at, shape, f)
  BY <1>2, <1>3, <1>4, RecordAtRank
<1> QED
  BY <1>1, <1>5

(* Whatever order the kernel lists faces and edges in, a face whose key    *)
(* differs from the others' is found at the rank of its key, and so is all *)
(* that its record refers to.                                              *)
THEOREM Canonically == Spec => []CanonicalRecords
  BY RecordsInit, RecordsStep, RecordsFollowShape, PTL DEF Spec

--------------------------------------------------------------------------------
(* Sums and flattened sequences.                                           *)

(* Induction, with a set in place of a predicate.                          *)
LEMMA Inductively ==
  ASSUME NEW G, 0 \in G, \A k \in Nat : k \in G => k + 1 \in G
  PROVE  Nat \subseteq G
<1> SUFFICES ASSUME Nat \ G # {} PROVE FALSE
  OBVIOUS
<1>1. IsWellFoundedOn(OpToRel(<, Nat), Nat)
  BY NatLessThanWellFounded
<1>2. PICK n \in Nat \ G : \A m \in Nat \ G : ~(m < n)
  <2>1. PICK n \in Nat \ G : \A m \in Nat \ G : <<m, n>> \notin OpToRel(<, Nat)
    BY <1>1, WFMin
  <2> QED
    BY <2>1 DEF OpToRel
<1>3. n # 0 /\ n - 1 \in Nat /\ n - 1 < n
  BY <1>2
<1>4. n - 1 \in G
  BY <1>2, <1>3
<1> QED
  BY <1>2, <1>3, <1>4

AnyOf(s) == CHOOSE x \in s : TRUE
SumStep(c, g, s) == IF s = {} THEN 0 ELSE c[AnyOf(s)] + g[s \ {AnyOf(s)}]
IsSum(c, g, S) == g = [ s \in SUBSET S |-> SumStep(c, g, s) ]

(* SumOf is a recursive function on the subsets of S; which element it     *)
(* takes next is a choice.                                                 *)
LEMMA SumIsChosen ==
  ASSUME NEW c, NEW S
  PROVE  SumOf(c, S) = (CHOOSE g : IsSum(c, g, S))[S]
BY Zenon DEF SumOf, MapThenSumSet, MapThenFoldSet, IsSum, SumStep, AnyOf

LEMMA SumExists ==
  ASSUME NEW c, NEW S, IsFiniteSet(S)
  PROVE  \E g : IsSum(c, g, S)
<1> DEFINE Small(k) == { s \in SUBSET S : Cardinality(s) <= k }
           IsSumTo(g, k) == g = [ s \in Small(k) |-> SumStep(c, g, s) ]
           G == { k \in Nat : \E g : IsSumTo(g, k) }
<1>1. \A s \in SUBSET S : IsFiniteSet(s) /\ Cardinality(s) \in Nat /\ Cardinality(s) <= Cardinality(S)
  BY FS_Subset, FS_CardinalityType
<1>2. 0 \in G
  <2>1. \A s \in Small(0) : s = {}
    BY <1>1, FS_EmptySet
  <2>2. PICK g : g = [ s \in Small(0) |-> 0 ]
    OBVIOUS
  <2>3. IsSumTo(g, 0)
    BY <2>1, <2>2 DEF SumStep
  <2> QED BY <2>3
<1>3. ASSUME NEW k \in Nat, k \in G PROVE k + 1 \in G
  <2>1. PICK g : IsSumTo(g, k)
    BY <1>3
  <2>2. PICK h : h = [ s \in Small(k + 1) |-> SumStep(c, g, s) ]
    OBVIOUS
  <2>3. \A s \in Small(k) : s \in Small(k + 1) /\ h[s] = g[s]
    BY <1>1, <2>1, <2>2
  <2>4. ASSUME NEW s \in Small(k + 1), s # {} PROVE s \ {AnyOf(s)} \in Small(k)
    <3>1. AnyOf(s) \in s
      BY <2>4 DEF AnyOf
    <3>2. Cardinality(s \ {AnyOf(s)}) = Cardinality(s) - 1
      BY <1>1, <3>1, FS_RemoveElement
    <3> QED BY <1>1, <3>2
  <2>5. \A s \in Small(k + 1) : SumStep(c, g, s) = SumStep(c, h, s)
    BY <2>3, <2>4 DEF SumStep
  <2>6. IsSumTo(h, k + 1)
    BY <2>2, <2>5
  <2> QED BY <2>6
<1> HIDE DEF G
<1>4. Cardinality(S) \in G
  BY <1>1, <1>2, <1>3, Inductively
<1>5. Small(Cardinality(S)) = SUBSET S
  BY <1>1
<1> QED
  BY <1>4, <1>5 DEF G, IsSum

Counts(c, S) == \A x \in S : c[x] \in Nat

(* A sum is a natural number, and it does not matter which element is      *)
(* taken first.                                                            *)
LEMMA SumRemoves ==
  ASSUME NEW c, NEW S, IsFiniteSet(S), Counts(c, S), NEW g, IsSum(c, g, S)
  PROVE  /\ g[{}] = 0
         /\ \A s \in SUBSET S : g[s] \in Nat /\ \A x \in s : g[s] = c[x] + g[s \ {x}]
<1> DEFINE Holds(s) == g[s] \in Nat /\ \A x \in s : g[s] = c[x] + g[s \ {x}]
           G == { k \in Nat : \A s \in SUBSET S : Cardinality(s) <= k => Holds(s) }
<1>1. \A s \in SUBSET S : IsFiniteSet(s) /\ Cardinality(s) \in Nat
  BY FS_Subset, FS_CardinalityType
<1>2. \A s \in SUBSET S : g[s] = SumStep(c, g, s)
  BY DEF IsSum
<1>3. g[{}] = 0
  BY <1>2 DEF SumStep
<1>4. \A s \in SUBSET S : s = {} => Holds(s)
  BY <1>3
<1>4a. 0 \in G
  <2>1. \A s \in SUBSET S : Cardinality(s) <= 0 => s = {}
    BY <1>1, FS_EmptySet
  <2> QED
    BY <1>4, <2>1
<1>5. ASSUME NEW k \in Nat, k \in G PROVE k + 1 \in G
  <2> SUFFICES ASSUME NEW s \in SUBSET S, Cardinality(s) <= k + 1, s # {} PROVE Holds(s)
    <3>1. \A s \in SUBSET S : Cardinality(s) <= k + 1 => Holds(s)
      BY <1>4
    <3> QED BY <3>1
  <2>1. PICK y \in s : y = AnyOf(s)
    BY DEF AnyOf
  <2>2. g[s] = c[y] + g[s \ {y}]
    BY <1>2, <2>1 DEF SumStep
  <2>3. ASSUME NEW x \in s PROVE s \ {x} \in SUBSET S /\ Cardinality(s \ {x}) <= k
    <3>1. Cardinality(s \ {x}) = Cardinality(s) - 1
      BY <1>1, FS_RemoveElement
    <3> QED
      BY <1>1, <3>1
  <2>4. ASSUME NEW x \in s PROVE Holds(s \ {x})
    BY <1>5, <2>3
  <2>5. c[y] \in Nat /\ g[s \ {y}] \in Nat /\ g[s] \in Nat
    <3>1. c[y] \in Nat
      BY DEF Counts
    <3>2. g[s \ {y}] \in Nat
      BY <2>4
    <3> QED
      BY <2>2, <3>1, <3>2
  <2>6. ASSUME NEW x \in s, x # y PROVE g[s] = c[x] + g[s \ {x}]
    <3>1. PICK t : t = s \ {x, y}
      OBVIOUS
    <3>2. (s \ {y}) \ {x} = t /\ (s \ {x}) \ {y} = t /\ x \in s \ {y} /\ y \in s \ {x}
      BY <2>6, <3>1
    <3>3. g[s \ {y}] = c[x] + g[t] /\ g[s \ {x}] = c[y] + g[t]
      BY <2>4, <3>2
    <3>4. Holds(t)
      <4>1. t \in SUBSET (s \ {y})
        BY <3>1
      <4>2. Cardinality(t) <= Cardinality(s \ {y})
        BY <1>1, <2>3, <4>1, FS_Subset
      <4> QED
        BY <1>1, <1>5, <2>3, <4>1, <4>2
    <3>5. c[x] \in Nat /\ g[t] \in Nat
      BY <3>4 DEF Counts
    <3> QED
      BY <2>2, <2>5, <3>3, <3>5
  <2> QED
    BY <2>2, <2>5, <2>6
<1>6. Nat \subseteq G
  <2> HIDE DEF G
  <2> QED BY <1>4a, <1>5, Inductively
<1> QED
  BY <1>1, <1>3, <1>6

(* Sums over a set and over a part of it agree on what is in both.         *)
LEMMA SumsAgree ==
  ASSUME NEW c, NEW S, IsFiniteSet(S), NEW T \in SUBSET S,
         NEW g, IsSum(c, g, S), NEW h, IsSum(c, h, T)
  PROVE  \A s \in SUBSET T : h[s] = g[s]
<1> DEFINE G == { k \in Nat : \A s \in SUBSET T : Cardinality(s) <= k => h[s] = g[s] }
<1>1. \A s \in SUBSET T : IsFiniteSet(s) /\ Cardinality(s) \in Nat
  BY FS_Subset, FS_CardinalityType
<1>2. \A s \in SUBSET T : g[s] = SumStep(c, g, s) /\ h[s] = SumStep(c, h, s)
  BY DEF IsSum
<1>3. \A s \in SUBSET T : s = {} => h[s] = g[s]
  BY <1>2 DEF SumStep
<1>4. 0 \in G
  <2>1. \A s \in SUBSET T : Cardinality(s) <= 0 => s = {}
    BY <1>1, FS_EmptySet
  <2> QED
    BY <1>3, <2>1
<1>5. ASSUME NEW k \in Nat, k \in G PROVE k + 1 \in G
  <2>1. ASSUME NEW s \in SUBSET T, Cardinality(s) <= k + 1, s # {} PROVE h[s] = g[s]
    <3>1. PICK y \in s : y = AnyOf(s)
      BY <2>1 DEF AnyOf
    <3>2. Cardinality(s \ {y}) = Cardinality(s) - 1
      BY <1>1, FS_RemoveElement
    <3>3. h[s \ {y}] = g[s \ {y}]
      BY <1>1, <1>5, <2>1, <3>2
    <3> QED
      BY <1>2, <2>1, <3>1, <3>3 DEF SumStep
  <2> QED
    BY <1>3, <2>1
<1>6. Nat \subseteq G
  <2> HIDE DEF G
  <2> QED BY <1>4, <1>5, Inductively
<1> QED
  BY <1>1, <1>6

LEMMA SumOfRemoves ==
  ASSUME NEW c, NEW S, IsFiniteSet(S), Counts(c, S)
  PROVE  /\ SumOf(c, S) \in Nat
         /\ S = {} => SumOf(c, S) = 0
         /\ \A x \in S : SumOf(c, S) = c[x] + SumOf(c, S \ {x})
<1>1. PICK g : IsSum(c, g, S) /\ SumOf(c, S) = g[S]
  BY SumIsChosen, SumExists
<1>2. SumOf(c, S) \in Nat /\ \A x \in S : SumOf(c, S) = c[x] + g[S \ {x}]
  BY <1>1, SumRemoves
<1>3. ASSUME NEW x \in S PROVE g[S \ {x}] = SumOf(c, S \ {x})
  <2>1. PICK T : T = S \ {x} /\ T \in SUBSET S
    OBVIOUS
  <2>2. IsFiniteSet(T)
    BY <2>1, FS_Subset
  <2>3. PICK h : IsSum(c, h, T) /\ SumOf(c, T) = h[T]
    BY <2>2, SumIsChosen, SumExists
  <2>4. \A s \in SUBSET T : h[s] = g[s]
    BY <1>1, <2>1, <2>3, SumsAgree
  <2> QED
    BY <2>1, <2>3, <2>4
<1> QED
  BY <1>1, <1>2, <1>3, SumRemoves

(* Sums of prefixes.                                                       *)
LEMMA SumOfPrefix ==
  ASSUME NEW c, NEW n \in Nat, \A i \in 1..n : c[i] \in Nat, NEW k \in 0..n
  PROVE  /\ SumOf(c, 1..k) \in Nat
         /\ k = 0 => SumOf(c, 1..k) = 0
         /\ k > 0 => SumOf(c, 1..k) = SumOf(c, 1..k - 1) + c[k]
<1>1. PICK S : S = 1..k
  OBVIOUS
<1>2. IsFiniteSet(S) /\ Counts(c, S)
  BY <1>1, FS_Interval DEF Counts
<1>3. k > 0 => k \in S /\ S \ {k} = 1..k - 1
  BY <1>1
<1>4. k = 0 => S = {}
  BY <1>1
<1>5. /\ SumOf(c, S) \in Nat
      /\ S = {} => SumOf(c, S) = 0
      /\ \A x \in S : SumOf(c, S) = c[x] + SumOf(c, S \ {x})
  BY <1>2, SumOfRemoves
<1>6. k > 0 => c[k] \in Nat /\ SumOf(c, 1..k - 1) \in Nat
  <2>1. ASSUME k > 0 PROVE SumOf(c, 1..k - 1) \in Nat
    <3>1. PICK T : T = 1..k - 1
      OBVIOUS
    <3>2. IsFiniteSet(T) /\ Counts(c, T)
      BY <2>1, <3>1, FS_Interval DEF Counts
    <3> QED
      BY <3>1, <3>2, SumOfRemoves
  <2> QED BY <2>1
<1> QED
  BY <1>1, <1>3, <1>4, <1>5, <1>6

LEMMA PrefixesGrow ==
  ASSUME NEW c, NEW n \in Nat, \A i \in 1..n : c[i] \in Nat
  PROVE  \A i, j \in 0..n : i <= j => SumOf(c, 1..i) <= SumOf(c, 1..j)
<1> DEFINE G == { k \in Nat : \A i, j \in 0..n : j = i + k => SumOf(c, 1..i) <= SumOf(c, 1..j) }
<1>1. \A k \in 0..n : SumOf(c, 1..k) \in Nat
  BY SumOfPrefix
<1>2. 0 \in G
  BY <1>1
<1>3. ASSUME NEW k \in Nat, k \in G PROVE k + 1 \in G
  <2> SUFFICES ASSUME NEW i \in 0..n, NEW j \in 0..n, j = i + (k + 1)
               PROVE  SumOf(c, 1..i) <= SumOf(c, 1..j)
    OBVIOUS
  <2>1. PICK m \in 0..n : m = j - 1 /\ m = i + k
    OBVIOUS
  <2>2. SumOf(c, 1..i) <= SumOf(c, 1..m)
    BY <1>3, <2>1
  <2>3. SumOf(c, 1..j) = SumOf(c, 1..m) + c[j] /\ c[j] \in Nat
    BY <2>1, SumOfPrefix
  <2> QED
    BY <1>1, <2>2, <2>3
<1>4. Nat \subseteq G
  <2> HIDE DEF G
  <2> QED BY <1>2, <1>3, Inductively
<1> SUFFICES ASSUME NEW i \in 0..n, NEW j \in 0..n, i <= j PROVE SumOf(c, 1..i) <= SumOf(c, 1..j)
  OBVIOUS
<1>5. PICK d \in Nat : j = i + d
  <2>1. j - i \in Nat /\ j = i + (j - i)
    OBVIOUS
  <2> QED BY <2>1
<1>6. d \in G
  BY <1>4, <1>5
<1> QED
  BY <1>5, <1>6

--------------------------------------------------------------------------------
(* Arrays in which every face owns a range.                                *)

Runs(c) == [ i \in DOMAIN c |-> [ k \in 1..c[i] |-> i ] ]
FlatStep(seqs, g, i) == IF i = 1 THEN seqs[i] ELSE g[i - 1] \o seqs[i]
IsFlat(seqs, g, k) == g = [ i \in 1..k |-> FlatStep(seqs, g, i) ]

LEMMA FlatIsChosen ==
  ASSUME NEW seqs, Len(seqs) # 0
  PROVE  FlattenSeq(seqs) = (CHOOSE g : IsFlat(seqs, g, Len(seqs)))[Len(seqs)]
BY Zenon DEF FlattenSeq, IsFlat, FlatStep

LEMMA FlatExists ==
  ASSUME NEW seqs, NEW n \in Nat
  PROVE  \E g : IsFlat(seqs, g, n)
<1> DEFINE G == { k \in Nat : \E g : IsFlat(seqs, g, k) }
<1>1. 0 \in G
  <2>1. PICK g : g = [ i \in 1..0 |-> seqs[i] ]
    OBVIOUS
  <2>2. IsFlat(seqs, g, 0)
    BY <2>1 DEF IsFlat
  <2> QED BY <2>2
<1>2. ASSUME NEW k \in Nat, k \in G PROVE k + 1 \in G
  <2>1. PICK g : IsFlat(seqs, g, k)
    BY <1>2
  <2>2. PICK h : h = [ i \in 1..k + 1 |-> FlatStep(seqs, g, i) ]
    OBVIOUS
  <2>3. \A i \in 1..k : h[i] = g[i]
    BY <2>1, <2>2 DEF IsFlat
  <2>4. \A i \in 1..k + 1 : FlatStep(seqs, g, i) = FlatStep(seqs, h, i)
    BY <2>3 DEF FlatStep
  <2>5. IsFlat(seqs, h, k + 1)
    BY <2>2, <2>4 DEF IsFlat
  <2> QED BY <2>5
<1> HIDE DEF G
<1>3. n \in G
  BY <1>1, <1>2, Inductively
<1> QED
  BY <1>3 DEF G

Sums(c, n) == [ k \in 0..n |-> SumOf(c, 1..k) ]

LEMMA SumsGrow ==
  ASSUME NEW c, NEW n \in Nat, \A i \in 1..n : c[i] \in Nat, NEW sum, sum = Sums(c, n)
  PROVE  /\ sum \in [0..n -> Nat] /\ sum[0] = 0
         /\ \A i \in 1..n : sum[i] = sum[i - 1] + c[i]
         /\ \A i, j \in 0..n : i <= j => sum[i] <= sum[j]
<1>1. \A k \in 0..n : sum[k] = SumOf(c, 1..k) /\ DOMAIN sum = 0..n
  BY DEF Sums
<1>2. \A k \in 0..n : sum[k] \in Nat
  BY <1>1, SumOfPrefix
<1>3. sum[0] = 0
  <2>1. PICK k \in 0..n : k = 0
    OBVIOUS
  <2>2. SumOf(c, 1..k) = 0
    BY <2>1, SumOfPrefix
  <2> QED
    BY <1>1, <2>1, <2>2
<1>4. ASSUME NEW i \in 1..n PROVE sum[i] = sum[i - 1] + c[i]
  <2>1. SumOf(c, 1..i) = SumOf(c, 1..i - 1) + c[i]
    BY SumOfPrefix
  <2> QED
    BY <1>1, <2>1
<1>5. \A i, j \in 0..n : i <= j => sum[i] <= sum[j]
  <2> SUFFICES ASSUME NEW i \in 0..n, NEW j \in 0..n, i <= j PROVE sum[i] <= sum[j]
    OBVIOUS
  <2>1. SumOf(c, 1..i) <= SumOf(c, 1..j)
    BY PrefixesGrow
  <2> QED
    BY <1>1, <2>1
<1> QED
  BY <1>2, <1>3, <1>4, <1>5 DEF Sums

(* o holds i exactly in the range of i, for the first k ranges.            *)
OwnedUpTo(sum, o, n, k) ==
  /\ o \in Seq(1..n) /\ Len(o) = sum[k]
  /\ \A j \in 1..Len(o), i \in 1..n : o[j] = i <=> sum[i - 1] < j /\ j <= sum[i]

LEMMA OwnersOwn ==
  ASSUME NEW c, NEW n \in Nat, DOMAIN c = 1..n, \A i \in 1..n : c[i] \in Nat
  PROVE  OwnedUpTo(Sums(c, n), Owners(c), n, n)
<1>1. PICK sum : sum = Sums(c, n)
  OBVIOUS
<1>2. /\ sum \in [0..n -> Nat] /\ sum[0] = 0
      /\ \A i \in 1..n : sum[i] = sum[i - 1] + c[i]
      /\ \A i, j \in 0..n : i <= j => sum[i] <= sum[j]
  BY <1>1, SumsGrow
<1>3. PICK seqs : seqs = Runs(c)
  OBVIOUS
<1>4. seqs \in Seq(Seq(1..n)) /\ Len(seqs) = n
  <2>1. \A i \in 1..n : [ k \in 1..c[i] |-> i ] \in Seq(1..n)
    OBVIOUS
  <2> QED
    BY <1>3, <2>1 DEF Runs
<1>5. \A i \in 1..n : seqs[i] \in Seq(1..n) /\ Len(seqs[i]) = c[i] /\ \A j \in 1..c[i] : seqs[i][j] = i
  BY <1>3 DEF Runs
<1>6. Owners(c) = FlattenSeq(seqs)
  BY <1>3 DEF Owners, Runs
<1>7. CASE n = 0
  <2>1. FlattenSeq(seqs) = seqs /\ seqs = <<>>
    BY <1>4, <1>7 DEF FlattenSeq
  <2> QED
    BY <1>1, <1>2, <1>6, <1>7, <2>1 DEF OwnedUpTo
<1>8. CASE n # 0
  <2>1. PICK g : IsFlat(seqs, g, n) /\ FlattenSeq(seqs) = g[n]
    BY <1>4, <1>8, FlatIsChosen, FlatExists
  <2> DEFINE G == { k \in Nat : \A m \in 1..n : m = k + 1 => OwnedUpTo(sum, g[m], n, m) }
  <2>2. 0 \in G
    <3>1. g[1] = seqs[1]
      BY <1>8, <2>1 DEF IsFlat, FlatStep
    <3>2. Len(g[1]) = sum[1]
      BY <1>2, <1>5, <1>8, <3>1
    <3>3. ASSUME NEW j \in 1..sum[1], NEW i \in 1..n PROVE g[1][j] = i <=> sum[i - 1] < j /\ j <= sum[i]
      <4>1. PICK p \in Nat, q \in Nat, u \in Nat : p = sum[i - 1] /\ q = sum[i] /\ u = sum[1]
        <5>1. i - 1 \in 0..n /\ i \in 0..n /\ 1 \in 0..n
          BY <1>8
        <5>2. sum[i - 1] \in Nat /\ sum[i] \in Nat /\ sum[1] \in Nat
          BY <1>2, <5>1
        <5> QED
          BY <5>2
      <4>2. j \in Nat /\ j >= 1 /\ j <= u /\ u = c[1] /\ 1 \in 1..n
        BY <1>2, <1>8, <4>1
      <4>3. g[1][j] = 1
        BY <1>5, <3>1, <4>1, <4>2
      <4>4. i # 1 => p >= u
        BY <1>2, <1>8, <4>1
      <4>5. i = 1 => p = 0 /\ q = u
        BY <1>2, <4>1
      <4> QED
        BY <4>1, <4>2, <4>3, <4>4, <4>5
    <3>4. OwnedUpTo(sum, g[1], n, 1)
      BY <1>5, <1>8, <3>1, <3>2, <3>3 DEF OwnedUpTo
    <3> QED
      BY <3>4
  <2>3. ASSUME NEW k \in Nat, k \in G PROVE k + 1 \in G
    <3> SUFFICES ASSUME NEW m \in 1..n, m = k + 2 PROVE OwnedUpTo(sum, g[m], n, m)
      OBVIOUS
    <3>1. PICK l \in 1..n : l = k + 1 /\ m = l + 1 /\ l = m - 1 /\ OwnedUpTo(sum, g[l], n, l)
      BY <2>3
    <3>2. g[m] = g[l] \o seqs[m]
      <4>1. g[m] = FlatStep(seqs, g, m)
        BY <2>1 DEF IsFlat
      <4>2. m # 1
        OBVIOUS
      <4>3. FlatStep(seqs, g, m) = g[m - 1] \o seqs[m]
        BY <4>2, Zenon DEF FlatStep
      <4> QED
        BY <3>1, <4>1, <4>3
    <3>3. PICK a, b : a = g[l] /\ b = seqs[m]
      OBVIOUS
    <3>4. /\ a \in Seq(1..n) /\ Len(a) = sum[l]
          /\ b \in Seq(1..n) /\ Len(b) = c[m] /\ \A j \in 1..c[m] : b[j] = m
      BY <1>5, <3>1, <3>3 DEF OwnedUpTo
    <3>5. PICK ab : ab = a \o b
      OBVIOUS
    <3>6. /\ ab \in Seq(1..n) /\ Len(ab) = Len(a) + Len(b)
          /\ \A j \in 1..Len(a) + Len(b) : ab[j] = IF j <= Len(a) THEN a[j] ELSE b[j - Len(a)]
      BY <3>4, <3>5, ConcatProperties
    <3>7. sum[m] = sum[l] + c[m] /\ sum[m] \in Nat /\ sum[l] \in Nat /\ c[m] \in Nat
      BY <1>2, <3>1
    <3>8. ASSUME NEW j \in 1..sum[m], NEW i \in 1..n
          PROVE  ab[j] = i <=> sum[i - 1] < j /\ j <= sum[i]
      <4>1. PICK p \in Nat, q \in Nat, u \in Nat, v \in Nat :
              p = sum[i - 1] /\ q = sum[i] /\ u = sum[l] /\ v = sum[m]
        <5>1. i - 1 \in 0..n /\ i \in 0..n
          OBVIOUS
        <5>2. sum[i - 1] \in Nat /\ sum[i] \in Nat
          BY <1>2, <5>1
        <5> QED
          BY <3>7, <5>2
      <4>2. j \in Nat /\ j >= 1 /\ j <= v /\ Len(a) = u /\ Len(b) = c[m] /\ v = u + c[m]
        BY <3>4, <3>7, <4>1
      <4>3. CASE j <= u
        <5>1. j \in 1..Len(a)
          BY <4>1, <4>2, <4>3
        <5>2. ab[j] = a[j]
          BY <3>6, <3>7, <4>2, <4>3
        <5>3. a[j] = i <=> sum[i - 1] < j /\ j <= sum[i]
          BY <3>1, <3>3, <5>1 DEF OwnedUpTo
        <5> QED
          BY <5>2, <5>3
      <4>4. CASE j > u
        <5>1. j - u \in 1..c[m] /\ j \in 1..Len(a) + Len(b) /\ ~(j <= Len(a))
          <6>1. PICK w \in Nat : w = c[m]
            BY <3>7
          <6>2. PICK d \in Nat : d = j - u
            BY <4>1, <4>2, <4>4
          <6>3. j <= u + w /\ j > u
            BY <4>2, <4>4, <6>1
          <6>4. d >= 1 /\ d <= w
            <7>1. j \in Nat
              BY <4>2
            <7> QED
              BY <6>2, <6>3, <7>1
          <6> QED
            BY <4>1, <4>2, <4>4, <6>1, <6>2, <6>4
        <5>2. ab[j] = b[j - u]
          BY <3>6, <4>2, <5>1
        <5>3. ab[j] = m
          BY <3>4, <5>1, <5>2
        <5>4. CASE i < m
          <6>1. q <= u
            BY <1>2, <3>1, <4>1, <5>4
          <6> QED
            BY <4>1, <4>2, <4>4, <5>3, <5>4, <6>1
        <5>5. CASE i > m
          <6>1. p >= v
            BY <1>2, <3>1, <4>1, <5>5
          <6> QED
            BY <4>1, <4>2, <4>4, <5>3, <5>5, <6>1
        <5>6. CASE i = m
          <6>1. p = u /\ q = v
            BY <3>1, <4>1, <5>6
          <6> QED
            BY <4>1, <4>2, <4>4, <5>3, <5>6, <6>1
        <5> QED
          BY <5>4, <5>5, <5>6
      <4> QED BY <4>1, <4>2, <4>3, <4>4
    <3> QED
      <4>1. g[m] = ab /\ Len(ab) = sum[m]
        BY <3>2, <3>3, <3>4, <3>5, <3>6, <3>7
      <4> QED
        BY <3>6, <3>8, <4>1 DEF OwnedUpTo
  <2>4. Nat \subseteq G
    <3> HIDE DEF G
    <3> QED BY <2>2, <2>3, Inductively
  <2>5. PICK k \in Nat : n = k + 1
    <3>1. n - 1 \in Nat /\ n = (n - 1) + 1
      BY <1>8
    <3> QED BY <3>1
  <2>6. OwnedUpTo(sum, g[n], n, n)
    BY <1>8, <2>4, <2>5
  <2> QED
    BY <1>1, <1>6, <2>1, <2>6
<1> QED BY <1>7, <1>8

--------------------------------------------------------------------------------
Tile(c, o, f) ==
  /\ Ranges(c)[f] = <<SumOf(c, 1..f - 1), c[f]>> /\ SumOf(c, 1..f - 1) \in Nat
  /\ Owned(o, f) = c[f]
  /\ c[f] > 0 => Slice(o, SumOf(c, 1..f - 1), SumOf(c, 1..f - 1) + c[f]) = {f}

(* Every element belongs to the range of the number it holds: the slice of *)
(* f holds f and nothing else does.                                        *)
LEMMA RangesTile ==
  ASSUME NEW c, NEW n \in Nat, DOMAIN c = 1..n, \A i \in 1..n : c[i] \in Nat,
         NEW o, o = Owners(c)
  PROVE  /\ ToSet(o) \subseteq 1..n
         /\ \A f \in 1..n : Tile(c, o, f)
<1>1. PICK sum : sum = Sums(c, n)
  OBVIOUS
<1>2. /\ sum \in [0..n -> Nat] /\ sum[0] = 0
      /\ \A i \in 1..n : sum[i] = sum[i - 1] + c[i]
      /\ \A i, j \in 0..n : i <= j => sum[i] <= sum[j]
  BY <1>1, SumsGrow
<1>3. /\ o \in Seq(1..n) /\ Len(o) = sum[n]
      /\ \A j \in 1..Len(o), i \in 1..n : o[j] = i <=> sum[i - 1] < j /\ j <= sum[i]
  <2>1. OwnedUpTo(Sums(c, n), Owners(c), n, n)
    BY OwnersOwn, Zenon
  <2>2. OwnedUpTo(sum, o, n, n)
    BY <1>1, <2>1, Zenon
  <2> QED
    BY <2>2, Zenon DEF OwnedUpTo
<1>4. ToSet(o) \subseteq 1..n
  BY <1>3 DEF ToSet
<1>5. ASSUME NEW f \in 1..n
      PROVE  Tile(c, o, f)
  <2>1. f - 1 \in 0..n /\ f \in 0..n /\ n \in 0..n
    OBVIOUS
  <2>2. PICK p \in Nat, q \in Nat, w \in Nat, l \in Nat :
          p = sum[f - 1] /\ q = sum[f] /\ w = c[f] /\ l = sum[n]
    <3>1. sum[f - 1] \in Nat /\ sum[f] \in Nat /\ sum[n] \in Nat
      BY <1>2, <2>1
    <3> QED BY <3>1
  <2>3. q = p + w /\ q <= l
    <3>1. sum[f] = sum[f - 1] + c[f]
      BY <1>2
    <3>2. sum[f] <= sum[n]
      BY <1>2, <2>1
    <3> QED BY <2>2, <3>1, <3>2
  <2>4. p = SumOf(c, 1..f - 1)
    BY <1>1, <2>1, <2>2 DEF Sums
  <2>5. DOMAIN o = 1..l
    BY <1>3, <2>2
  <2>6. \A j \in 1..l : o[j] = f <=> p < j /\ j <= q
    BY <1>3, <2>2
  <2>7. { j \in DOMAIN o : o[j] = f } = p + 1..q
    <3>1. p + 1..q \subseteq 1..l
      BY <2>3
    <3>2. \A j \in 1..l : j \in p + 1..q <=> p < j /\ j <= q
      OBVIOUS
    <3> QED
      BY <2>5, <2>6, <3>1, <3>2
  <2>8. Cardinality(p + 1..q) = w
    <3>1. w > 0 => Cardinality(p + 1..q) = q - (p + 1) + 1
      BY <2>3, FS_Interval
    <3>2. w = 0 => p + 1..q = {}
      BY <2>3
    <3> QED
      BY <2>3, <3>1, <3>2, FS_EmptySet
  <2>9. w > 0 => Slice(o, p, p + w) = {f}
    <3>1. w > 0 => p + 1 \in p + 1..q
      BY <2>3
    <3>2. \A j \in p + 1..q : o[j] = f
      BY <2>7
    <3> QED
      BY <2>3, <3>1, <3>2 DEF Slice
  <2>10. Owned(o, f) = w
    BY <2>7, <2>8 DEF Owned
  <2>11. Ranges(c)[f] = <<p, w>>
    BY <2>2, <2>4 DEF Ranges
  <2> QED
    BY <2>2, <2>4, <2>9, <2>10, <2>11 DEF Tile
<1> QED
  BY <1>4, <1>5

(* Records refer to each other: two faces are neighbours exactly if they   *)
(* are different faces of an edge.                                         *)
Meet(es, f, g) == g # f /\ \E e \in DOMAIN es : f \in es[e].faces /\ g \in es[e].faces
WellFormed(fs, es) ==
  /\ \E n \in Nat : DOMAIN fs = 1..n
  /\ \A f \in DOMAIN fs :
       /\ fs[f].tris \in Nat /\ fs[f].area \in Nat
       /\ fs[f].outer \subseteq fs[f].edges /\ fs[f].edges \subseteq DOMAIN es
       /\ fs[f].adj \subseteq DOMAIN fs
       /\ \A g \in DOMAIN fs : g \in fs[f].adj <=> Meet(es, f, g)
  /\ \E f \in DOMAIN fs : fs[f].area > 0
  /\ \A e \in DOMAIN es : es[e].faces \subseteq DOMAIN fs

LEMMA RecordsWellFormed ==
  ASSUME NEW shape, NEW faceOrder, NEW edgeOrder, IsShape(shape),
         IsListing(faceOrder, shape.face), IsListing(edgeOrder, shape.edge),
         NEW listed, listed = Listed(shape, faceOrder, edgeOrder)
  PROVE  WellFormed(FaceRecords(listed), EdgeRecords(listed))
<1> DEFINE D == DOMAIN shape.face
           E == DOMAIN shape.edge
<1>1. /\ Numbered(listed.face) /\ DOMAIN listed.face = D
      /\ Numbered(listed.edge) /\ DOMAIN listed.edge = E
      /\ \A i \in D : listed.face[i] = shape.face[faceOrder[i]]
      /\ \A j \in E : /\ EdgeFaces(listed, j) = { Place(faceOrder, g) : g \in On(shape, edgeOrder[j]) }
                      /\ listed.edge[j].outer = { Place(faceOrder, g) : g \in shape.edge[edgeOrder[j]].outer }
  BY ListedFacts DEF On
<1>2. /\ \A i \in D : faceOrder[i] \in D /\ Place(faceOrder, i) \in D
      /\ \A j \in E : edgeOrder[j] \in E
  BY PlaceInverse
<1>3. /\ \A i \in D : listed.face[i].tris \in Nat /\ listed.face[i].area \in Nat
      /\ \A j \in E : EdgeFaces(listed, j) \subseteq D /\ listed.edge[j].outer \subseteq EdgeFaces(listed, j)
  <2>1. \A i \in D : shape.face[i].tris \in Nat /\ shape.face[i].area \in Nat
    BY DEF IsShape
  <2>2. \A e \in E : On(shape, e) \subseteq D /\ shape.edge[e].outer \subseteq On(shape, e)
    BY DEF IsShape, On
  <2>3. \A i \in D : listed.face[i].tris \in Nat /\ listed.face[i].area \in Nat
    BY <1>1, <1>2, <2>1
  <2>4. ASSUME NEW j \in E PROVE EdgeFaces(listed, j) \subseteq D /\ listed.edge[j].outer \subseteq EdgeFaces(listed, j)
    <3>1. PICK e \in E : e = edgeOrder[j]
      BY <1>2
    <3>2. /\ EdgeFaces(listed, j) = { Place(faceOrder, g) : g \in On(shape, e) }
          /\ listed.edge[j].outer = { Place(faceOrder, g) : g \in shape.edge[e].outer }
      BY <1>1, <3>1
    <3> QED
      BY <1>2, <2>2, <3>2
  <2> QED
    BY <2>3, <2>4
<1>4. PICK C, CE : C = Positions(listed.face) /\ CE = Positions(listed.edge)
  OBVIOUS
<1>5. PICK at, atEdge : /\ at = [ p \in D |-> AtPosition(C, p) ]
                        /\ atEdge = [ p \in E |-> AtPosition(CE, p) ]
  OBVIOUS
<1>6. /\ \A i \in D : C[i] \in D /\ at[C[i]] = i /\ at[i] \in D /\ C[at[i]] = i
      /\ \A j \in E : CE[j] \in E /\ atEdge[CE[j]] = j /\ atEdge[j] \in E /\ CE[atEdge[j]] = j
  <2>1. \A i \in D : C[i] \in D /\ AtPosition(C, C[i]) = i /\ AtPosition(C, i) \in D /\ C[AtPosition(C, i)] = i
    BY <1>1, <1>4, AtPositionInverse
  <2>2. \A j \in E : CE[j] \in E /\ AtPosition(CE, CE[j]) = j /\ AtPosition(CE, j) \in E /\ CE[AtPosition(CE, j)] = j
    BY <1>1, <1>4, AtPositionInverse
  <2> QED
    BY <1>5, <2>1, <2>2
<1>7. PICK fs, es : fs = FaceRecords(listed) /\ es = EdgeRecords(listed)
  OBVIOUS
<1>8. DOMAIN fs = D /\ DOMAIN es = E
  BY <1>1, <1>7 DEF FaceRecords, EdgeRecords
<1>9. ASSUME NEW p \in D, NEW i, i = at[p]
      PROVE  /\ fs[p].tris = listed.face[i].tris /\ fs[p].area = listed.face[i].area
             /\ fs[p].adj = { C[x] : x \in FaceAdj(listed, i) }
             /\ fs[p].edges = { CE[j] : j \in FaceEdges(listed, i) }
             /\ fs[p].outer = { CE[j] : j \in { e \in E : i \in listed.edge[e].outer } }
  <2>1. i = AtPosition(Positions(listed.face), p) /\ p \in DOMAIN listed.face
    BY <1>1, <1>4, <1>5, <1>9
  <2>2. fs[p] =
          [ key |-> listed.face[i].key, area |-> listed.face[i].area, tris |-> listed.face[i].tris,
            type |-> listed.face[i].type, dir |-> listed.face[i].dir, sign |-> listed.face[i].sign,
            pos |-> listed.face[i].pos, line |-> listed.face[i].line, radius |-> listed.face[i].radius,
            side |-> listed.face[i].side, span |-> listed.face[i].span, listing |-> i,
            adj |-> Translated(C, FaceAdj(listed, i)),
            edges |-> Translated(CE, FaceEdges(listed, i)),
            outer |-> Translated(CE, { e \in DOMAIN listed.edge : i \in listed.edge[e].outer }) ]
    BY <1>4, <1>7, <2>1 DEF FaceRecords
  <2>3. /\ fs[p].tris = listed.face[i].tris /\ fs[p].area = listed.face[i].area
        /\ fs[p].adj = Translated(C, FaceAdj(listed, i))
        /\ fs[p].edges = Translated(CE, FaceEdges(listed, i))
        /\ fs[p].outer = Translated(CE, { e \in DOMAIN listed.edge : i \in listed.edge[e].outer })
    BY <2>2
  <2> QED
    BY <1>1, <2>3 DEF Translated
<1>10. \A e \in E : es[e].faces = { C[x] : x \in EdgeFaces(listed, atEdge[e]) }
  BY <1>1, <1>4, <1>5, <1>7 DEF EdgeRecords, Translated
<1>11. \A i : FaceEdges(listed, i) = { j \in E : i \in EdgeFaces(listed, j) }
  BY <1>1 DEF FaceEdges
<1>12. \A i, x : x \in FaceAdj(listed, i) <=> x # i /\ \E j \in FaceEdges(listed, i) : x \in EdgeFaces(listed, j)
  BY DEF FaceAdj
<1>13. \A e \in E : es[e].faces \subseteq D
  BY <1>3, <1>6, <1>10
<1>14. ASSUME NEW p \in D PROVE fs[p].outer \subseteq fs[p].edges /\ fs[p].edges \subseteq E
  <2>1. PICK i \in D : i = at[p]
    BY <1>6
  <2>2. /\ fs[p].edges = { CE[j] : j \in FaceEdges(listed, i) }
        /\ fs[p].outer = { CE[j] : j \in { e \in E : i \in listed.edge[e].outer } }
    BY <1>9, <2>1
  <2>3. { e \in E : i \in listed.edge[e].outer } \subseteq FaceEdges(listed, i) /\ FaceEdges(listed, i) \subseteq E
    BY <1>3, <1>11
  <2> QED
    BY <1>6, <2>2, <2>3
<1>15. ASSUME NEW p \in D
       PROVE  /\ FaceAdj(listed, at[p]) \subseteq D /\ fs[p].adj \subseteq D
              /\ fs[p].adj = { C[x] : x \in FaceAdj(listed, at[p]) }
  <2>1. PICK i \in D : i = at[p]
    BY <1>6
  <2>2. FaceAdj(listed, i) \subseteq D
    BY <1>3, <1>11, <1>12
  <2>3. fs[p].adj = { C[x] : x \in FaceAdj(listed, i) }
    BY <1>9, <2>1
  <2> QED
    BY <1>6, <2>1, <2>2, <2>3
<1>16. ASSUME NEW f \in D, NEW g \in D PROVE g \in fs[f].adj <=> Meet(es, f, g)
  <2>1. g \in fs[f].adj <=> at[g] \in FaceAdj(listed, at[f])
    <3>1. PICK S : S = FaceAdj(listed, at[f])
      OBVIOUS
    <3>2. S \subseteq D /\ fs[f].adj = { C[x] : x \in S }
      BY <1>15, <3>1
    <3>3. g \in fs[f].adj <=> at[g] \in S
      BY <1>6, <3>2
    <3> QED
      BY <3>1, <3>3
  <2>2. g # f <=> at[g] # at[f]
    BY <1>6
  <2>3. ASSUME NEW h \in D, NEW e \in E PROVE h \in es[e].faces <=> at[h] \in EdgeFaces(listed, atEdge[e])
    <3>1. PICK j \in E : j = atEdge[e]
      BY <1>6
    <3>2. EdgeFaces(listed, j) \subseteq D /\ es[e].faces = { C[x] : x \in EdgeFaces(listed, j) }
      BY <1>3, <1>10, <3>1
    <3> QED
      BY <1>6, <3>1, <3>2
  <2>4. Meet(es, f, g) <=> g # f /\ \E e \in E : /\ at[f] \in EdgeFaces(listed, atEdge[e])
                                                  /\ at[g] \in EdgeFaces(listed, atEdge[e])
    BY <1>8, <2>3 DEF Meet
  <2>5. (\E e \in E : at[f] \in EdgeFaces(listed, atEdge[e]) /\ at[g] \in EdgeFaces(listed, atEdge[e]))
        <=> (\E j \in E : at[f] \in EdgeFaces(listed, j) /\ at[g] \in EdgeFaces(listed, j))
    BY <1>6
  <2> QED
    BY <1>11, <1>12, <2>1, <2>2, <2>4, <2>5
<1>17. ASSUME NEW p \in D PROVE fs[p].tris \in Nat /\ fs[p].area \in Nat
  <2>1. PICK i \in D : i = at[p]
    BY <1>6
  <2>2. fs[p].tris = listed.face[i].tris /\ fs[p].area = listed.face[i].area
    BY <1>9, <2>1
  <2> QED
    BY <1>3, <2>2
<1>18. \E n \in Nat : DOMAIN fs = 1..n
  BY <1>8 DEF IsShape
<1>19. \E p \in D : fs[p].area > 0
  <2>1. PICK f \in D : shape.face[f].area > 0
    BY DEF IsShape
  <2>2. PICK i \in D : faceOrder[i] = f
    BY <2>1, PlaceInverse
  <2>3. PICK p \in D : at[p] = i
    BY <1>6
  <2>4. fs[p].area = shape.face[f].area
    BY <1>1, <1>9, <2>2, <2>3
  <2> QED BY <2>1, <2>4
<1> QED
  BY <1>7, <1>8, <1>13, <1>14, <1>15, <1>16, <1>17, <1>18, <1>19 DEF WellFormed

--------------------------------------------------------------------------------
(* What each phase leaves for the next ones.                               *)

Triangles == [ f \in Face |-> faces[f].tris ]
MeshMade ==
  /\ \A f \in Face : faces[f].tris >= MinTriangles
  /\ mesh = [ tri |-> Owners(Triangles), range |-> Ranges(Triangles) ]
CloudMade == cloud = [ ids |-> Owners(Allocate), range |-> Ranges(Allocate) ]
GraphMade == graph = [ nodes |-> [ f \in Face |-> f ], pairs |-> Shared ]
LineageMade ==
  lineage = [ f \in Face |->
    [ node |-> f, points |-> Interval(cloud.range[f]), triangles |-> Interval(mesh.range[f]),
      pixels |-> Cardinality({ p \in Pixel : mask[p] = f }) ] ]

StageInv ==
  /\ phase \in { "points", "graph", "views", "features", "write", "stored" } => MeshMade
  /\ phase \in { "graph", "views", "features", "write", "stored" } => CloudMade
  /\ phase \in { "views", "features", "write", "stored" } => GraphMade
  /\ phase = "stored" => LineageMade

WellFormedInv == phase # "entities" => WellFormed(faces, edges)

LEMMA RecordsAreWellFormed == RecordsInv => WellFormedInv
<1> SUFFICES ASSUME RecordsInv, phase # "entities" PROVE WellFormed(faces, edges)
  BY DEF WellFormedInv
<1>1. PICK shape, faceOrder, edgeOrder :
        shape = input.shape /\ faceOrder = input.faceOrder /\ edgeOrder = input.edgeOrder
  OBVIOUS
<1>2. IsShape(shape) /\ IsListing(faceOrder, shape.face) /\ IsListing(edgeOrder, shape.edge)
  BY <1>1, ExtractionAssumption DEF RecordsInv
<1>3. PICK listed : listed = Listed(shape, faceOrder, edgeOrder)
  OBVIOUS
<1>4. WellFormed(FaceRecords(listed), EdgeRecords(listed))
  BY <1>2, <1>3, RecordsWellFormed
<1> QED
  BY <1>1, <1>3, <1>4 DEF RecordsInv, Canonical

(* Every face gets its minimum of points.                                  *)
LEMMA AllocateMinimum ==
  ASSUME WellFormed(faces, edges)
  PROVE  DOMAIN Allocate = Face /\ \A f \in Face : Allocate[f] \in Nat /\ Allocate[f] >= MinPoints
<1>1. PICK n \in Nat : Face = 1..n
  BY DEF WellFormed, Face
<1>2. MinPoints \in Nat /\ NumPoints \in Nat
  BY ExtractionAssumption
<1>3. Len(faces) \in Nat
  BY <1>1 DEF Face
<1>4. \A f \in Face : Areas[f] \in Nat
  BY DEF Areas, WellFormed, Face
<1>5. IsFiniteSet(Face) /\ Counts(Areas, Face)
  BY <1>1, <1>4, FS_Interval DEF Counts
<1>6. SumOf(Areas, Face) \in Nat
  BY <1>5, SumOfRemoves
<1>7. PICK rest, total : rest = NumPoints - MinPoints * Len(faces) /\ total = SumOf(Areas, Face)
  OBVIOUS
<1>8. rest \in Int /\ total \in Nat
  BY <1>2, <1>3, <1>6, <1>7
<1>9. CASE rest <= 0 \/ total = 0
  <2>1. Allocate = [ f \in Face |-> MinPoints ]
    BY <1>7, <1>9 DEF Allocate
  <2> QED
    BY <1>2, <2>1
<1>10. CASE ~(rest <= 0 \/ total = 0)
  <2>1. PICK share : share = [ f \in Face |-> (Areas[f] * rest) \div total ]
    OBVIOUS
  <2>2. PICK more : more = [ f \in Face |-> IF Cardinality({ g \in Face : MorePoints(g, f, rest) }) < rest - SumOf(share, Face) THEN 1 ELSE 0 ]
    OBVIOUS
  <2>3. Allocate = [ f \in Face |-> MinPoints + share[f] + more[f] ]
    BY <1>7, <1>10, <2>1, <2>2 DEF Allocate
  <2>4. ASSUME NEW f \in Face PROVE share[f] \in Nat
    <3>1. PICK x \in Nat : x = Areas[f] * rest
      <4>1. Areas[f] \in Nat /\ rest \in Nat
        BY <1>4, <1>8, <1>10
      <4> QED BY <4>1
    <3>2. x \div total \in Nat
      BY <1>8, <1>10
    <3> QED
      BY <2>1, <3>1, <3>2
  <2>5. \A f \in Face : more[f] \in Nat
    BY <2>2
  <2> QED
    BY <1>2, <2>3, <2>4, <2>5
<1> QED BY <1>9, <1>10

LEMMA StageInit == Init => StageInv
  BY DEF Init, StageInv

(* A step that changes neither records nor arrays keeps what was made.     *)
LEMMA MadeKeeps ==
  ASSUME UNCHANGED recordVars
  PROVE  /\ MeshMade /\ UNCHANGED mesh => MeshMade'
         /\ CloudMade /\ UNCHANGED cloud => CloudMade'
         /\ GraphMade /\ UNCHANGED graph => GraphMade'
         /\ LineageMade /\ UNCHANGED <<arrayVars, lineage>> => LineageMade'
<1>1. faces' = faces /\ edges' = edges
  BY DEF recordVars
<1>2. Face' = Face /\ Triangles' = Triangles /\ Areas' = Areas /\ Shared' = Shared
  BY <1>1 DEF Face, Triangles, Areas, Shared
<1>3. Allocate' = Allocate
  BY <1>1, <1>2 DEF Allocate, MorePoints
<1>4. MeshMade /\ UNCHANGED mesh => MeshMade'
  BY <1>1, <1>2 DEF MeshMade
<1>5. CloudMade /\ UNCHANGED cloud => CloudMade'
  BY <1>3 DEF CloudMade
<1>6. GraphMade /\ UNCHANGED graph => GraphMade'
  BY <1>2 DEF GraphMade
<1>7. LineageMade /\ UNCHANGED <<arrayVars, lineage>> => LineageMade'
  BY <1>2 DEF LineageMade, arrayVars
<1> QED
  BY <1>4, <1>5, <1>6, <1>7

LEMMA StageStep == WellFormedInv /\ StageInv /\ [Next]_vars => StageInv'
<1> SUFFICES ASSUME WellFormedInv, StageInv, [Next]_vars PROVE StageInv'
  OBVIOUS
<1>1. CASE ExtractEntities
  BY <1>1 DEF ExtractEntities, StageInv
<1>2. CASE Tessellate
  <2>1. CASE \E f \in Face : faces[f].tris < MinTriangles
    BY <1>2, <2>1 DEF Tessellate, StageInv
  <2>2. CASE ~\E f \in Face : faces[f].tris < MinTriangles
    <3>1. /\ phase = "mesh" /\ phase' = "points" /\ faces' = faces
          /\ mesh' = [ tri |-> Owners(Triangles), range |-> Ranges(Triangles) ]
      BY <1>2, <2>2 DEF Tessellate, Triangles, recordVars
    <3>2. \A f \in Face : faces[f].tris >= MinTriangles
      <4>1. \A f \in Face : faces[f].tris \in Nat
        BY <3>1 DEF WellFormedInv, WellFormed, Face
      <4> QED
        BY <2>2, <4>1, ExtractionAssumption
    <3>3. Face' = Face /\ Triangles' = Triangles
      BY <3>1 DEF Face, Triangles
    <3>4. MeshMade'
      BY <3>1, <3>2, <3>3 DEF MeshMade
    <3> QED
      BY <3>1, <3>4 DEF StageInv
  <2> QED BY <2>1, <2>2
<1>3. CASE SamplePoints
  <2>1. /\ phase = "points" /\ phase' = "graph" /\ UNCHANGED recordVars /\ UNCHANGED mesh
        /\ cloud' = [ ids |-> Owners(Allocate), range |-> Ranges(Allocate) ]
    BY <1>3 DEF SamplePoints
  <2>2. MeshMade'
    BY <2>1, MadeKeeps DEF StageInv
  <2>3. Allocate' = Allocate
    BY <2>1 DEF recordVars, Allocate, MorePoints, Areas, Face
  <2>4. CloudMade'
    BY <2>1, <2>3 DEF CloudMade
  <2> QED
    BY <2>1, <2>2, <2>4 DEF StageInv
<1>4. CASE BuildGraph
  <2>1. /\ phase = "graph" /\ phase' = "views" /\ UNCHANGED recordVars /\ UNCHANGED mesh /\ UNCHANGED cloud
        /\ graph' = [ nodes |-> [ f \in Face |-> f ], pairs |-> Shared ]
    BY <1>4 DEF BuildGraph, Shared
  <2>2. MeshMade' /\ CloudMade'
    BY <2>1, MadeKeeps DEF StageInv
  <2>3. Face' = Face /\ Shared' = Shared
    BY <2>1 DEF recordVars, Face, Shared
  <2>4. GraphMade'
    BY <2>1, <2>3 DEF GraphMade
  <2> QED
    BY <2>1, <2>2, <2>4 DEF StageInv
<1>5. CASE RenderViews
  <2>1. phase = "views" /\ phase' = "features" /\ UNCHANGED recordVars /\ UNCHANGED mesh /\ UNCHANGED cloud /\ UNCHANGED graph
    BY <1>5 DEF RenderViews
  <2> QED
    BY <2>1, MadeKeeps DEF StageInv
<1>6. CASE RecognizeFeatures
  <2>1. UNCHANGED recordVars
    BY <1>6 DEF RecognizeFeatures, Recognize, FindSegments, ClassifyEnds, NextRule, Claim, ClaimRest
  <2>2. phase = "features" /\ phase' = "features" /\ UNCHANGED mesh /\ UNCHANGED cloud /\ UNCHANGED graph
    BY <1>6 DEF RecognizeFeatures, arrayVars
  <2> QED
    BY <2>1, <2>2, MadeKeeps DEF StageInv
<1>7. CASE ValidateOutputs
  <2>1. /\ phase = "features" /\ phase' \in { "write", "failed" } /\ UNCHANGED recordVars
        /\ UNCHANGED mesh /\ UNCHANGED cloud /\ UNCHANGED graph
    BY <1>7 DEF ValidateOutputs, arrayVars
  <2> QED
    BY <2>1, MadeKeeps DEF StageInv
<1>8. CASE WriteLineage
  <2>1. /\ phase = "write" /\ phase' = "stored" /\ UNCHANGED recordVars
        /\ UNCHANGED mesh /\ UNCHANGED cloud /\ UNCHANGED graph /\ UNCHANGED mask
        /\ lineage' = [ f \in Face |->
             [ node |-> f, points |-> Interval(cloud.range[f]), triangles |-> Interval(mesh.range[f]),
               pixels |-> Cardinality({ p \in Pixel : mask[p] = f }) ] ]
    BY <1>8 DEF WriteLineage, arrayVars
  <2>2. MeshMade' /\ CloudMade' /\ GraphMade'
    BY <2>1, MadeKeeps DEF StageInv
  <2>3. Face' = Face
    BY <2>1 DEF recordVars, Face
  <2>4. LineageMade'
    BY <2>1, <2>3 DEF LineageMade
  <2> QED
    BY <2>1, <2>2, <2>4 DEF StageInv
<1>9. CASE UNCHANGED vars
  <2>1. /\ phase' = phase /\ UNCHANGED recordVars /\ UNCHANGED <<arrayVars, lineage>>
        /\ UNCHANGED mesh /\ UNCHANGED cloud /\ UNCHANGED graph
    BY <1>9 DEF vars, arrayVars
  <2> QED
    BY <2>1, MadeKeeps DEF StageInv
<1> QED
  BY <1>1, <1>2, <1>3, <1>4, <1>5, <1>6, <1>7, <1>8, <1>9 DEF Next

(* The ids of an array with ranges, as trace_face reads them.              *)
LEMMA CarriedRange ==
  ASSUME NEW c, NEW n \in Nat, DOMAIN c = 1..n, \A i \in 1..n : c[i] \in Nat /\ c[i] > 0,
         NEW f \in 1..n, NEW s, s = Owners(c), NEW interval, interval = Interval(Ranges(c)[f])
  PROVE  Carried(s, f, interval) /\ Owned(s, f) = interval[2] - interval[1]
<1>0. Tile(c, s, f)
  <2>1. \A i \in 1..n : c[i] \in Nat
    OBVIOUS
  <2> QED
    BY <2>1, RangesTile
<1>1. PICK p \in Nat, w \in Nat : p = SumOf(c, 1..f - 1) /\ w = c[f]
  BY <1>0 DEF Tile
<1>2. Ranges(c)[f] = <<p, w>> /\ Owned(s, f) = w /\ Slice(s, p, p + w) = {f} /\ w > 0
  BY <1>0, <1>1 DEF Tile
<1>3. interval = <<p, p + w>>
  BY <1>2 DEF Interval
<1> QED
  BY <1>2, <1>3 DEF Carried

LEMMA StoredIsTraceable == WellFormedInv /\ StageInv => Traceable
<1> SUFFICES ASSUME WellFormedInv, StageInv, phase = "stored", NEW f \in Face
             PROVE  Traced(f)
  BY DEF Traceable
<1>1. WellFormed(faces, edges) /\ MeshMade /\ CloudMade /\ GraphMade /\ LineageMade
  BY DEF WellFormedInv, StageInv
<1>2. PICK n \in Nat : Face = 1..n
  BY <1>1 DEF WellFormed, Face
<1>3. MinTriangles \in Nat \ {0} /\ MinPoints \in Nat \ {0}
  BY ExtractionAssumption
<1>4. lineage[f] = [ node |-> f, points |-> Interval(cloud.range[f]), triangles |-> Interval(mesh.range[f]),
                     pixels |-> Cardinality({ p \in Pixel : mask[p] = f }) ]
  BY <1>1 DEF LineageMade
<1>5. /\ Carried(mesh.tri, f, Interval(mesh.range[f]))
  <2>1. PICK c : c = Triangles
    OBVIOUS
  <2>2. DOMAIN c = 1..n /\ \A i \in 1..n : c[i] \in Nat /\ c[i] > 0
    BY <1>1, <1>2, <1>3, <2>1 DEF Triangles, MeshMade, WellFormed, Face
  <2>3. mesh.tri = Owners(c) /\ mesh.range = Ranges(c)
    BY <1>1, <2>1 DEF MeshMade
  <2> QED
    BY <1>2, <2>2, <2>3, CarriedRange
<1>6. /\ Carried(cloud.ids, f, Interval(cloud.range[f]))
      /\ Owned(cloud.ids, f) = Interval(cloud.range[f])[2] - Interval(cloud.range[f])[1]
  <2>1. PICK c : c = Allocate
    OBVIOUS
  <2>2. DOMAIN c = 1..n /\ \A i \in 1..n : c[i] \in Nat /\ c[i] > 0
    BY <1>1, <1>2, <1>3, <2>1, AllocateMinimum
  <2>3. cloud.ids = Owners(c) /\ cloud.range = Ranges(c)
    BY <1>1, <2>1 DEF CloudMade
  <2> QED
    BY <1>2, <2>2, <2>3, CarriedRange
<1>7. graph.nodes[f] = f
  BY <1>1 DEF GraphMade
<1>8. { p[2] : p \in { q \in graph.pairs : q[1] = f } } = faces[f].adj
  <2>1. graph.pairs = UNION { Pairs(edges[e].faces) : e \in DOMAIN edges }
    BY <1>1 DEF GraphMade, Shared
  <2>2. faces[f].adj \subseteq Face /\ \A g \in Face : g \in faces[f].adj <=> Meet(edges, f, g)
    BY <1>1 DEF WellFormed, Face
  <2>3. ASSUME NEW q \in graph.pairs, q[1] = f PROVE q[2] \in faces[f].adj
    <3>1. PICK e \in DOMAIN edges : q \in Pairs(edges[e].faces)
      BY <2>1, <2>3
    <3>2. q[1] \in edges[e].faces /\ q[2] \in edges[e].faces /\ q[1] # q[2]
      BY <3>1 DEF Pairs
    <3>3. q[2] \in Face
      BY <1>1, <3>2 DEF WellFormed, Face
    <3> QED
      BY <2>2, <2>3, <3>2, <3>3 DEF Meet
  <2>4. ASSUME NEW g \in faces[f].adj PROVE <<f, g>> \in graph.pairs
    <3>1. PICK e \in DOMAIN edges : f \in edges[e].faces /\ g \in edges[e].faces /\ g # f
      BY <2>2, <2>4 DEF Meet
    <3>2. <<f, g>> \in Pairs(edges[e].faces)
      BY <3>1 DEF Pairs
    <3> QED
      BY <2>1, <3>2
  <2>5. ASSUME NEW g \in faces[f].adj PROVE g \in { p[2] : p \in { q \in graph.pairs : q[1] = f } }
    <3>1. <<f, g>> \in graph.pairs /\ <<f, g>>[1] = f /\ <<f, g>>[2] = g
      BY <2>4
    <3> QED
      BY <3>1
  <2> QED
    BY <2>3, <2>5
<1> QED
  BY <1>4, <1>5, <1>6, <1>7, <1>8 DEF Traced

(* Every face of a stored sample can be followed through all its data.     *)
THEOREM StoredTraceable == Spec => []Traceable
<1>1. Init => RecordsInv /\ StageInv
  BY RecordsInit, StageInit
<1>2. RecordsInv /\ StageInv /\ [Next]_vars => (RecordsInv /\ StageInv)'
  BY RecordsStep, StageStep, RecordsAreWellFormed
<1>3. RecordsInv /\ StageInv => Traceable
  BY RecordsAreWellFormed, StoredIsTraceable
<1> QED
  BY <1>1, <1>2, <1>3, PTL DEF Spec

--------------------------------------------------------------------------------
(* Sums of sums, of multiples and of zeros and ones.                       *)

NatsTo(n, c) == \A i \in 1..n : c[i] \in Nat
AddsUp(n, a, b, c) == \A i \in 1..n : c[i] = a[i] + b[i]
Multiple(n, a, r, c) == \A i \in 1..n : c[i] = a[i] * r

LEMMA SumNext ==
  ASSUME NEW n \in Nat, NEW c, NatsTo(n, c), NEW k \in Nat, k + 1 <= n
  PROVE  SumOf(c, 1..k) \in Nat /\ SumOf(c, 1..k + 1) = SumOf(c, 1..k) + c[k + 1] /\ c[k + 1] \in Nat
<1>1. k + 1 \in 0..n /\ k \in 0..n /\ k + 1 > 0 /\ (k + 1) - 1 = k /\ k + 1 \in 1..n
  OBVIOUS
<1> QED BY <1>1, SumOfPrefix DEF NatsTo

LEMMA SumNone ==
  ASSUME NEW n \in Nat, NEW c, NatsTo(n, c)
  PROVE  SumOf(c, 1..0) = 0 /\ SumOf(c, 1..n) \in Nat
<1>1. 0 \in 0..n /\ n \in 0..n
  OBVIOUS
<1> QED BY <1>1, SumOfPrefix DEF NatsTo

LEMMA SumAdd ==
  ASSUME NEW n \in Nat, NEW a, NEW b, NEW c, NatsTo(n, a), NatsTo(n, b), AddsUp(n, a, b, c)
  PROVE  NatsTo(n, c) /\ SumOf(c, 1..n) = SumOf(a, 1..n) + SumOf(b, 1..n)
<1> DEFINE G == { k \in Nat : k <= n => SumOf(c, 1..k) = SumOf(a, 1..k) + SumOf(b, 1..k) }
<1>1. NatsTo(n, c)
  BY DEF NatsTo, AddsUp
<1>2. 0 \in G
  BY <1>1, SumNone
<1>3. ASSUME NEW k \in Nat, k \in G PROVE k + 1 \in G
  <2> SUFFICES ASSUME k + 1 <= n
               PROVE  SumOf(c, 1..k + 1) = SumOf(a, 1..k + 1) + SumOf(b, 1..k + 1)
    OBVIOUS
  <2>1. PICK x \in Nat, p \in Nat : x = SumOf(a, 1..k) /\ p = a[k + 1] /\ SumOf(a, 1..k + 1) = x + p
    BY SumNext
  <2>2. PICK y \in Nat, q \in Nat : y = SumOf(b, 1..k) /\ q = b[k + 1] /\ SumOf(b, 1..k + 1) = y + q
    BY SumNext
  <2>3. SumOf(c, 1..k + 1) = SumOf(c, 1..k) + c[k + 1]
    BY <1>1, SumNext
  <2>4. SumOf(c, 1..k) = x + y /\ c[k + 1] = p + q
    BY <1>3, <2>1, <2>2 DEF AddsUp
  <2> QED BY <2>1, <2>2, <2>3, <2>4
<1> HIDE DEF G
<1>4. n \in G
  BY <1>2, <1>3, Inductively
<1> QED BY <1>1, <1>4 DEF G

LEMMA SumTimes ==
  ASSUME NEW n \in Nat, NEW r \in Nat, NEW a, NEW c, NatsTo(n, a), Multiple(n, a, r, c)
  PROVE  NatsTo(n, c) /\ SumOf(c, 1..n) = SumOf(a, 1..n) * r
<1> DEFINE G == { k \in Nat : k <= n => SumOf(c, 1..k) = SumOf(a, 1..k) * r }
<1>1. NatsTo(n, c)
  <2>1. \A x \in Nat : x * r \in Nat
    OBVIOUS
  <2> QED BY <2>1 DEF NatsTo, Multiple
<1>2. 0 \in G
  BY <1>1, SumNone
<1>3. ASSUME NEW k \in Nat, k \in G PROVE k + 1 \in G
  <2> SUFFICES ASSUME k + 1 <= n PROVE SumOf(c, 1..k + 1) = SumOf(a, 1..k + 1) * r
    OBVIOUS
  <2>1. PICK x \in Nat, p \in Nat : x = SumOf(a, 1..k) /\ p = a[k + 1] /\ SumOf(a, 1..k + 1) = x + p
    BY SumNext
  <2>2. SumOf(c, 1..k + 1) = SumOf(c, 1..k) + c[k + 1]
    BY <1>1, SumNext
  <2>3. SumOf(c, 1..k) = x * r /\ c[k + 1] = p * r
    BY <1>3, <2>1 DEF Multiple
  <2>4. x * r + p * r = (x + p) * r
    OBVIOUS
  <2> QED BY <2>1, <2>2, <2>3, <2>4
<1> HIDE DEF G
<1>4. n \in G
  BY <1>2, <1>3, Inductively
<1> QED BY <1>1, <1>4 DEF G

(* The sum of zeros and ones is the number of ones.                        *)
LEMMA SumOnes ==
  ASSUME NEW n \in Nat, NEW b, \A i \in 1..n : b[i] \in {0, 1}
  PROVE  SumOf(b, 1..n) = Cardinality({ i \in 1..n : b[i] = 1 })
<1> DEFINE Ones(k) == { i \in 1..k : b[i] = 1 }
           G == { k \in Nat : k <= n => SumOf(b, 1..k) = Cardinality(Ones(k)) }
<1>1. \A i \in 1..n : b[i] \in Nat
  OBVIOUS
<1>2. 0 \in G
  <2>1. 0 \in 0..n /\ Ones(0) = {}
    OBVIOUS
  <2>2. SumOf(b, 1..0) = 0
    BY <1>1, <2>1, SumOfPrefix
  <2> QED BY <2>1, <2>2, FS_EmptySet
<1>3. ASSUME NEW k \in Nat, k \in G PROVE k + 1 \in G
  <2> SUFFICES ASSUME k + 1 <= n PROVE SumOf(b, 1..k + 1) = Cardinality(Ones(k + 1))
    OBVIOUS
  <2>1. k + 1 \in 0..n /\ k \in 0..n /\ k + 1 > 0 /\ (k + 1) - 1 = k /\ k + 1 \in 1..n
    OBVIOUS
  <2>2. SumOf(b, 1..k + 1) = SumOf(b, 1..k) + b[k + 1] /\ SumOf(b, 1..k) \in Nat
    BY <1>1, <2>1, SumOfPrefix
  <2>3. SumOf(b, 1..k) = Cardinality(Ones(k))
    BY <1>3, <2>1
  <2>4. 1..k + 1 = (1..k) \cup {k + 1} /\ k + 1 \notin 1..k
    OBVIOUS
  <2>5. IsFiniteSet(Ones(k)) /\ k + 1 \notin Ones(k)
    <3>1. IsFiniteSet(1..k)
      BY FS_Interval
    <3> QED BY <2>4, <3>1, FS_Subset
  <2>6. CASE b[k + 1] = 1
    <3>1. Ones(k + 1) = Ones(k) \cup {k + 1}
      BY <2>4, <2>6
    <3>2. Cardinality(Ones(k + 1)) = Cardinality(Ones(k)) + 1
      BY <2>5, <3>1, FS_AddElement
    <3> QED BY <2>2, <2>3, <2>6, <3>2
  <2>7. CASE b[k + 1] = 0
    <3>1. \A i \in 1..k + 1 : b[i] = 1 => i \in 1..k
      BY <2>4, <2>7
    <3>2. 1..k \subseteq 1..k + 1
      BY <2>4
    <3>3. Ones(k + 1) = Ones(k)
      BY <3>1, <3>2
    <3>4. SumOf(b, 1..k + 1) = SumOf(b, 1..k)
      <4>1. PICK x \in Nat : x = SumOf(b, 1..k)
        BY <2>2
      <4> QED BY <2>2, <2>7, <4>1
    <3> QED BY <2>3, <3>3, <3>4
  <2> QED BY <2>1, <2>6, <2>7
<1> HIDE DEF G
<1>4. n \in G
  BY <1>2, <1>3, Inductively
<1> QED BY <1>4 DEF G

LEMMA SumAtMost ==
  ASSUME NEW n \in Nat, NEW a, NEW c, NatsTo(n, a), NatsTo(n, c), \A i \in 1..n : a[i] <= c[i]
  PROVE  SumOf(a, 1..n) <= SumOf(c, 1..n)
<1>1. PICK d : d = [ i \in 1..n |-> c[i] - a[i] ]
  OBVIOUS
<1>2. NatsTo(n, d) /\ AddsUp(n, a, d, c)
  BY <1>1 DEF NatsTo, AddsUp
<1>3. SumOf(c, 1..n) = SumOf(a, 1..n) + SumOf(d, 1..n)
  BY <1>2, SumAdd
<1>4. SumOf(a, 1..n) \in Nat /\ SumOf(d, 1..n) \in Nat
  BY <1>2, SumNone
<1> QED BY <1>3, <1>4

(* The order in which a left-over is given out numbers the faces.          *)
Ahead(rem, S, f) == { g \in S : rem[g] > rem[f] \/ (rem[g] = rem[f] /\ g < f) }

LEMMA FirstOnes ==
  ASSUME NEW n \in Nat, NEW rem, NatsTo(n, rem), NEW left \in Nat, left <= n
  PROVE  /\ Cardinality({ f \in 1..n : Cardinality(Ahead(rem, 1..n, f)) < left }) = left
         /\ \A f \in 1..n : IsFiniteSet(Ahead(rem, 1..n, f)) /\ Cardinality(Ahead(rem, 1..n, f)) \in Nat
<1>1. PICK items : items = [ f \in 1..n |-> [ key |-> -rem[f] ] ]
  OBVIOUS
<1>2. DOMAIN items = 1..n /\ \A f \in 1..n : items[f].key = -rem[f] /\ rem[f] \in Nat
  BY <1>1 DEF NatsTo
<1>3. Numbered(items)
  BY <1>2 DEF Numbered
<1>4. PICK P : P = Positions(items)
  OBVIOUS
<1>5. ASSUME NEW f \in 1..n
      PROVE  /\ P[f] = 1 + Cardinality(Ahead(rem, 1..n, f))
             /\ IsFiniteSet(Ahead(rem, 1..n, f)) /\ Cardinality(Ahead(rem, 1..n, f)) \in Nat
  <2>1. Before(items, f) = Ahead(rem, 1..n, f)
    <3>1. \A g \in 1..n : (items[g].key < items[f].key <=> rem[g] > rem[f]) /\ (items[g].key = items[f].key <=> rem[g] = rem[f])
      BY <1>2
    <3> QED BY <1>2, <3>1 DEF Before, Ahead
  <2> QED BY <1>2, <1>3, <1>4, <2>1, BeforeFinite
<1>6. P \in Bijection(1..n, 1..n)
  BY <1>2, <1>3, <1>4, PositionsPermute
<1>7. PICK F : F = { f \in 1..n : Cardinality(Ahead(rem, 1..n, f)) < left }
  OBVIOUS
<1>8. \A f \in 1..n : f \in F <=> P[f] <= left
  BY <1>5, <1>7
<1>9. Cardinality(F) = left
  <2>1. PICK Q : Q = [ f \in F |-> P[f] ]
    OBVIOUS
  <2>2. F \subseteq 1..n
    BY <1>7
  <2>3. /\ P \in [ 1..n -> 1..n ] /\ \A x, y \in 1..n : P[x] = P[y] => x = y
        /\ \A t \in 1..n : \E f \in 1..n : P[f] = t
    BY <1>6 DEF Bijection, Injection, Surjection, IsInjective
  <2>4. Q \in [ F -> 1..left ]
    <3>1. \A f \in F : P[f] \in 1..n /\ P[f] <= left
      BY <1>8, <2>2, <2>3
    <3>2. \A f \in F : P[f] \in 1..left
      BY <3>1
    <3> QED BY <2>1, <3>2
  <2>5. Q \in Injection(F, 1..left)
    <3>1. DOMAIN Q = F
      BY <2>1
    <3>2. ASSUME NEW x \in F, NEW y \in F, Q[x] = Q[y] PROVE x = y
      BY <2>1, <2>2, <2>3, <3>2
    <3>3. IsInjective(Q)
      BY Zenon, <3>1, <3>2 DEF IsInjective
    <3> QED BY <2>4, <3>3 DEF Injection
  <2>6. \A t \in 1..left : \E f \in F : Q[f] = t
    <3> TAKE t \in 1..left
    <3>1. t \in 1..n /\ t <= left
      OBVIOUS
    <3>2. PICK f \in 1..n : P[f] = t
      BY <2>3, <3>1
    <3>3. f \in F
      BY <1>8, <3>1, <3>2
    <3> QED BY <2>1, <3>2, <3>3
  <2>7. Q \in Surjection(F, 1..left)
    BY <2>4, <2>6 DEF Surjection
  <2>8. IsFiniteSet(1..left) /\ Cardinality(1..left) = left
    BY FS_Interval
  <2>9. Cardinality(F) = Cardinality(1..left)
    BY <2>5, <2>7, <2>8, FS_Injection
  <2> QED BY <2>8, <2>9
<1> QED BY <1>5, <1>7, <1>9


(* Quotients and remainders of the shares.                                 *)
Divides(n, y, t, share, rem) ==
  \A f \in 1..n : /\ share[f] \in Nat /\ rem[f] \in Nat
                  /\ y[f] = share[f] * t + rem[f] /\ rem[f] < t

LEMMA Shares ==
  ASSUME NEW n \in Nat, NEW a, NatsTo(n, a), NEW r \in Nat, NEW t \in Nat \ {0}
  PROVE  Divides(n, [ f \in 1..n |-> a[f] * r ], t,
                 [ f \in 1..n |-> (a[f] * r) \div t ], [ f \in 1..n |-> (a[f] * r) % t ])
<1> SUFFICES ASSUME NEW f \in 1..n
             PROVE  /\ (a[f] * r) \div t \in Nat /\ (a[f] * r) % t \in Nat
                    /\ a[f] * r = ((a[f] * r) \div t) * t + ((a[f] * r) % t) /\ (a[f] * r) % t < t
  BY DEF Divides
<1>1. PICK x \in Nat : x = a[f] * r
  <2>1. a[f] \in Nat
    BY DEF NatsTo
  <2> QED BY <2>1
<1>2. /\ x \div t \in Nat /\ x % t \in Nat
      /\ x = (x \div t) * t + (x % t) /\ x % t < t
  OBVIOUS
<1> QED BY <1>1, <1>2

(* The remainders add up to a whole number of points, at most one for each *)
(* face that has a remainder.                                              *)
Positive(n, rem) == { f \in 1..n : rem[f] > 0 }

LEMMA LeftOvers ==
  ASSUME NEW n \in Nat, NEW a, NatsTo(n, a), NEW r \in Nat, NEW t \in Nat \ {0}, SumOf(a, 1..n) = t,
         NEW y, Multiple(n, a, r, y), NEW share, NEW rem, Divides(n, y, t, share, rem)
  PROVE  /\ SumOf(share, 1..n) \in Nat /\ SumOf(share, 1..n) <= r
         /\ r - SumOf(share, 1..n) <= Cardinality(Positive(n, rem))
         /\ Cardinality(Positive(n, rem)) \in Nat /\ Cardinality(Positive(n, rem)) <= n
<1>1. NatsTo(n, share) /\ NatsTo(n, rem)
  BY DEF Divides, NatsTo
<1>2. PICK m : m = [ f \in 1..n |-> share[f] * t ]
  OBVIOUS
<1>3. Multiple(n, share, t, m) /\ AddsUp(n, m, rem, y)
  BY <1>2 DEF Multiple, AddsUp, Divides
<1>4. NatsTo(n, m) /\ SumOf(m, 1..n) = SumOf(share, 1..n) * t
  BY <1>1, <1>3, SumTimes
<1>5. SumOf(y, 1..n) = t * r
  BY SumTimes
<1>6. SumOf(y, 1..n) = SumOf(m, 1..n) + SumOf(rem, 1..n)
  BY <1>1, <1>3, <1>4, SumAdd
<1>7. PICK b : b = [ f \in 1..n |-> IF rem[f] > 0 THEN 1 ELSE 0 ]
  OBVIOUS
<1>8. SumOf(b, 1..n) = Cardinality(Positive(n, rem))
  <2>1. \A i \in 1..n : b[i] \in {0, 1} /\ (b[i] = 1 <=> rem[i] > 0)
    BY <1>7
  <2>2. { i \in 1..n : b[i] = 1 } = Positive(n, rem)
    BY <2>1 DEF Positive
  <2> QED BY <2>1, <2>2, SumOnes
<1>9. NatsTo(n, b)
  BY <1>7 DEF NatsTo
<1>10. PICK bt : bt = [ f \in 1..n |-> b[f] * t ]
  OBVIOUS
<1>11. NatsTo(n, bt) /\ SumOf(bt, 1..n) = SumOf(b, 1..n) * t
  <2>1. Multiple(n, b, t, bt)
    BY <1>10 DEF Multiple
  <2> QED BY <1>9, <2>1, SumTimes
<1>12. SumOf(rem, 1..n) <= SumOf(bt, 1..n)
  <2>1. ASSUME NEW f \in 1..n PROVE rem[f] <= bt[f]
    <3>1. rem[f] \in Nat /\ rem[f] < t /\ bt[f] = b[f] * t /\ b[f] = IF rem[f] > 0 THEN 1 ELSE 0
      BY <1>7, <1>10 DEF Divides
    <3>2. CASE rem[f] > 0
      BY <3>1, <3>2
    <3>3. CASE ~(rem[f] > 0)
      BY <3>1, <3>3
    <3> QED BY <3>2, <3>3
  <2> QED BY <1>1, <1>11, <2>1, SumAtMost
<1>13. PICK s \in Nat, e \in Nat, c \in Nat :
         s = SumOf(share, 1..n) /\ e = SumOf(rem, 1..n) /\ c = SumOf(b, 1..n)
  <2>1. SumOf(share, 1..n) \in Nat /\ SumOf(rem, 1..n) \in Nat /\ SumOf(b, 1..n) \in Nat
    BY <1>1, <1>9, SumNone
  <2> QED BY <2>1
<1>14. t * r = s * t + e /\ e <= c * t
  BY <1>4, <1>5, <1>6, <1>11, <1>12, <1>13
<1>15. s <= r
  <2> SUFFICES ASSUME s > r PROVE FALSE
    OBVIOUS
  <2>1. PICK d \in Nat : s = r + d + 1
    <3>1. s - r - 1 \in Nat /\ s = r + (s - r - 1) + 1
      OBVIOUS
    <3> QED BY <3>1
  <2>2. s * t = r * t + d * t + t
    BY <2>1
  <2>3. PICK u \in Nat, v \in Nat, w \in Nat : u = t * r /\ v = d * t /\ w = s * t
    OBVIOUS
  <2>4. t * r = r * t
    OBVIOUS
  <2>5. u = w + e /\ w = u + v + t
    <3>1. u = w + e
      BY <1>14, <2>3
    <3>2. r * t = u
      BY Zenon, <2>3, <2>4
    <3>3. w = r * t + d * t + t
      BY Zenon, <2>2, <2>3
    <3>4. w = u + v + t
      BY Zenon, <2>3, <3>2, <3>3
    <3> QED BY <3>1, <3>4
  <2> QED BY <2>5
<1>16. r - s <= c
  <2> SUFFICES ASSUME r - s > c PROVE FALSE
    BY <1>15
  <2>1. PICK d \in Nat : r = s + c + d + 1
    <3>1. r - s - c - 1 \in Nat /\ r = s + c + (r - s - c - 1) + 1
      OBVIOUS
    <3> QED BY <3>1
  <2>2. PICK k \in Nat : k = c + d + 1
    OBVIOUS
  <2>3. t * (s + k) = s * t + k * t
    OBVIOUS
  <2>4. k * t = c * t + d * t + t
    BY <2>2
  <2>5. t * r = s * t + k * t
    <3>1. r = s + k
      BY <2>1, <2>2
    <3> QED BY <2>3, <3>1
  <2>6. PICK u \in Nat, v \in Nat, w \in Nat : u = c * t /\ v = d * t /\ w = s * t
    OBVIOUS
  <2>7. w + e = w + (u + v + t) /\ e <= u
    BY <1>14, <2>4, <2>5, <2>6
  <2> QED BY <2>7
<1>17. c <= n
  <2>1. IsFiniteSet(1..n) /\ Cardinality(1..n) = n
    BY FS_Interval
  <2>2. Positive(n, rem) \subseteq 1..n
    BY DEF Positive
  <2>3. Cardinality(Positive(n, rem)) <= n
    BY <2>1, <2>2, FS_Subset
  <2> QED BY <1>8, <1>13, <2>3
<1> QED BY <1>8, <1>13, <1>15, <1>16, <1>17

(* Only a face with a remainder gets a left-over.                          *)
LEMMA LeftOverNeedsRemainder ==
  ASSUME NEW n \in Nat, NEW rem, NatsTo(n, rem), NEW left \in Nat, left <= Cardinality(Positive(n, rem)),
         NEW f \in 1..n, Cardinality(Ahead(rem, 1..n, f)) < left
  PROVE  rem[f] > 0
<1> SUFFICES ASSUME ~(rem[f] > 0) PROVE FALSE
  OBVIOUS
<1>1. Positive(n, rem) \subseteq Ahead(rem, 1..n, f)
  BY DEF Positive, Ahead, NatsTo
<1>2. IsFiniteSet(Ahead(rem, 1..n, f))
  <2>1. IsFiniteSet(1..n)
    BY FS_Interval
  <2> QED BY <2>1, FS_Subset DEF Ahead
<1>3. /\ Cardinality(Positive(n, rem)) <= Cardinality(Ahead(rem, 1..n, f))
      /\ Cardinality(Positive(n, rem)) \in Nat /\ Cardinality(Ahead(rem, 1..n, f)) \in Nat
  BY <1>1, <1>2, FS_Subset, FS_CardinalityType
<1> QED BY <1>3

(* Of two faces the one with the larger remainder is ahead.                *)
LEMMA LargerIsAhead ==
  ASSUME NEW n \in Nat, NEW rem, NatsTo(n, rem), NEW f \in 1..n, NEW g \in 1..n, rem[f] > rem[g]
  PROVE  Cardinality(Ahead(rem, 1..n, f)) <= Cardinality(Ahead(rem, 1..n, g))
<1>1. Ahead(rem, 1..n, f) \subseteq Ahead(rem, 1..n, g)
  BY DEF Ahead, NatsTo
<1>2. IsFiniteSet(Ahead(rem, 1..n, g))
  <2>1. IsFiniteSet(1..n)
    BY FS_Interval
  <2> QED BY <2>1, FS_Subset DEF Ahead
<1> QED BY <1>1, <1>2, FS_Subset


(* Shares with their left-overs: they add up, are less than a point off,   *)
(* and follow the areas.                                                   *)
Close(n, x, y, t) == \A f \in 1..n : x[f] \in Nat /\ x[f] * t < y[f] + t /\ x[f] * t > y[f] - t
Follows(n, x, a) == \A f, g \in 1..n : a[f] > a[g] => x[f] >= x[g]
GivenOut(n, rem, left, more) ==
  \A f \in 1..n : more[f] = IF Cardinality(Ahead(rem, 1..n, f)) < left THEN 1 ELSE 0

LEMMA AddUp ==
  ASSUME NEW n \in Nat, NEW a, NatsTo(n, a), NEW r \in Nat, NEW t \in Nat \ {0}, SumOf(a, 1..n) = t,
         NEW y, Multiple(n, a, r, y), NEW share, NEW rem, Divides(n, y, t, share, rem),
         NEW more, GivenOut(n, rem, r - SumOf(share, 1..n), more), NEW x, AddsUp(n, share, more, x)
  PROVE  SumOf(x, 1..n) = r
<1>1. NatsTo(n, share) /\ NatsTo(n, rem)
  BY DEF Divides, NatsTo
<1>2. PICK s \in Nat, left \in Nat : s = SumOf(share, 1..n) /\ left = r - s /\ left <= n
  <2>1. PICK s \in Nat, p \in Nat : s = SumOf(share, 1..n) /\ s <= r /\ r - s <= p /\ p <= n
    BY LeftOvers
  <2>2. r - s \in Nat /\ r - s <= n
    BY <2>1
  <2> QED BY <2>1, <2>2
<1>3. \A f \in 1..n : more[f] \in {0, 1} /\ (more[f] = 1 <=> Cardinality(Ahead(rem, 1..n, f)) < left)
  BY <1>2 DEF GivenOut
<1>4. SumOf(more, 1..n) = left
  <2>1. { f \in 1..n : more[f] = 1 } = { f \in 1..n : Cardinality(Ahead(rem, 1..n, f)) < left }
    BY <1>3
  <2>2. Cardinality({ f \in 1..n : Cardinality(Ahead(rem, 1..n, f)) < left }) = left
    BY <1>1, <1>2, FirstOnes
  <2>3. \A i \in 1..n : more[i] \in {0, 1}
    BY <1>3
  <2>4. SumOf(more, 1..n) = Cardinality({ f \in 1..n : more[f] = 1 })
    BY <2>3, SumOnes
  <2> QED BY <2>1, <2>2, <2>4
<1>5. NatsTo(n, more)
  BY <1>3 DEF NatsTo
<1>6. SumOf(x, 1..n) = SumOf(share, 1..n) + SumOf(more, 1..n)
  BY <1>1, <1>5, SumAdd
<1> QED BY <1>2, <1>4, <1>6

LEMMA CloseShares ==
  ASSUME NEW n \in Nat, NEW a, NatsTo(n, a), NEW r \in Nat, NEW t \in Nat \ {0}, SumOf(a, 1..n) = t,
         NEW y, Multiple(n, a, r, y), NEW share, NEW rem, Divides(n, y, t, share, rem),
         NEW more, GivenOut(n, rem, r - SumOf(share, 1..n), more), NEW x, AddsUp(n, share, more, x)
  PROVE  Close(n, x, y, t)
<1> SUFFICES ASSUME NEW f \in 1..n PROVE x[f] \in Nat /\ x[f] * t < y[f] + t /\ x[f] * t > y[f] - t
  BY DEF Close
<1>1. NatsTo(n, rem)
  BY DEF Divides, NatsTo
<1>2. PICK left \in Nat : left = r - SumOf(share, 1..n) /\ left <= Cardinality(Positive(n, rem))
  <2>1. PICK s \in Nat, p \in Nat : s = SumOf(share, 1..n) /\ s <= r /\ r - s <= p /\ p = Cardinality(Positive(n, rem))
    BY LeftOvers
  <2>2. r - s \in Nat
    BY <2>1
  <2> QED BY <2>1, <2>2
<1>3. PICK s \in Nat, e \in Nat : s = share[f] /\ e = rem[f] /\ y[f] = s * t + e /\ e < t
  BY DEF Divides
<1>4. PICK st \in Nat : st = s * t
  OBVIOUS
<1>5. CASE Cardinality(Ahead(rem, 1..n, f)) < left
  <2>1. e > 0
    BY <1>1, <1>2, <1>3, <1>5, LeftOverNeedsRemainder
  <2>2. x[f] = s + 1
    BY <1>2, <1>3, <1>5 DEF GivenOut, AddsUp
  <2>3. (s + 1) * t = st + t
    BY <1>4
  <2>4. x[f] \in Nat
    BY <2>2
  <2>5. x[f] * t = st + t /\ y[f] = st + e
    BY Zenon, <1>3, <1>4, <2>2, <2>3
  <2>6. st + t < (st + e) + t /\ st + t > (st + e) - t
    BY <1>3, <2>1
  <2> QED BY Zenon, <2>4, <2>5, <2>6
<1>6. CASE ~(Cardinality(Ahead(rem, 1..n, f)) < left)
  <2>1. x[f] = s
    BY <1>2, <1>3, <1>6 DEF GivenOut, AddsUp
  <2>2. x[f] \in Nat
    BY <2>1
  <2>3. x[f] * t = st /\ y[f] = st + e
    BY Zenon, <1>3, <1>4, <2>1
  <2>4. st < (st + e) + t /\ st > (st + e) - t
    BY <1>3
  <2> QED BY Zenon, <2>2, <2>3, <2>4
<1> QED BY <1>5, <1>6

LEMMA FollowShares ==
  ASSUME NEW n \in Nat, NEW a, NatsTo(n, a), NEW r \in Nat \ {0}, NEW t \in Nat \ {0},
         NEW y, Multiple(n, a, r, y), NEW share, NEW rem, Divides(n, y, t, share, rem),
         NEW left \in Int, NEW more, GivenOut(n, rem, left, more), NEW x, AddsUp(n, share, more, x)
  PROVE  Follows(n, x, a)
<1> SUFFICES ASSUME NEW f \in 1..n, NEW g \in 1..n, a[f] > a[g] PROVE x[f] >= x[g]
  BY DEF Follows
<1>1. NatsTo(n, rem)
  BY DEF Divides, NatsTo
<1>2. PICK s \in Nat, e \in Nat : s = share[f] /\ e = rem[f] /\ y[f] = s * t + e /\ e < t
  BY DEF Divides
<1>3. PICK u \in Nat, v \in Nat : u = share[g] /\ v = rem[g] /\ y[g] = u * t + v /\ v < t
  BY DEF Divides
<1>4. y[f] > y[g]
  <2>1. PICK p \in Nat, d \in Nat : p = a[g] /\ a[f] = p + d + 1
    <3>1. a[f] \in Nat /\ a[g] \in Nat
      BY DEF NatsTo
    <3>2. a[f] - a[g] - 1 \in Nat /\ a[f] = a[g] + (a[f] - a[g] - 1) + 1
      BY <3>1
    <3> QED BY <3>1, <3>2
  <2>2. y[f] = (p + d + 1) * r /\ y[g] = p * r
    BY <2>1 DEF Multiple
  <2>3. PICK i \in Nat, j \in Nat : i = p * r /\ j = d * r
    OBVIOUS
  <2>4. (p + d + 1) * r = p * r + d * r + r
    OBVIOUS
  <2>5. y[f] = i + j + r /\ y[g] = i
    BY Zenon, <2>2, <2>3, <2>4
  <2> QED BY <2>5
<1>5. PICK more1 \in {0, 1}, more2 \in {0, 1} : more1 = more[f] /\ more2 = more[g]
  BY DEF GivenOut
<1>6. x[f] = s + more1 /\ x[g] = u + more2
  BY <1>2, <1>3, <1>5 DEF AddsUp
<1>7. CASE s < u
  <2>1. PICK d \in Nat : u = s + d + 1
    <3>1. u - s - 1 \in Nat /\ u = s + (u - s - 1) + 1
      BY <1>7
    <3> QED BY <3>1
  <2>2. u * t = s * t + d * t + t
    BY <2>1
  <2>3. PICK i \in Nat, j \in Nat : i = s * t /\ j = d * t
    OBVIOUS
  <2>4. u * t = i + j + t
    BY Zenon, <2>2, <2>3
  <2>5. y[f] = i + e /\ y[g] = i + j + t + v
    BY <1>2, <1>3, <2>3, <2>4
  <2> QED BY <1>2, <1>4, <2>5
<1>8. CASE s > u
  BY <1>5, <1>6, <1>8
<1>9. CASE s = u
  <2>1. e > v
    <3>1. PICK i \in Nat : i = s * t
      OBVIOUS
    <3>2. y[f] = i + e /\ y[g] = i + v
      BY <1>2, <1>3, <1>9, <3>1
    <3> QED BY <1>4, <3>2
  <2>2. PICK p \in Nat, q \in Nat : p = Cardinality(Ahead(rem, 1..n, f)) /\ q = Cardinality(Ahead(rem, 1..n, g)) /\ p <= q
    <3>1. IsFiniteSet(1..n)
      BY FS_Interval
    <3>2. \A h \in 1..n : IsFiniteSet(Ahead(rem, 1..n, h))
      BY <3>1, FS_Subset DEF Ahead
    <3>3. \A h \in 1..n : Cardinality(Ahead(rem, 1..n, h)) \in Nat
      BY <3>2, FS_CardinalityType
    <3>4. Cardinality(Ahead(rem, 1..n, f)) <= Cardinality(Ahead(rem, 1..n, g))
      BY <1>1, <1>2, <1>3, <2>1, LargerIsAhead
    <3> QED BY <3>3, <3>4
  <2>3. more1 = (IF p < left THEN 1 ELSE 0) /\ more2 = (IF q < left THEN 1 ELSE 0)
    BY <1>5, <2>2 DEF GivenOut
  <2>4. more1 >= more2
    BY <2>2, <2>3
  <2> QED BY <1>5, <1>6, <1>9, <2>4
<1> QED BY <1>7, <1>8, <1>9


--------------------------------------------------------------------------------
(* How points are given out.                                               *)

Above(n, r, t, x) ==   \* the points each face gets above its minimum
  /\ SumOf(x, 1..n) = r /\ Follows(n, x, Areas)
  /\ Close(n, x, [ f \in 1..n |-> Areas[f] * r ], t)
  /\ Allocate = [ f \in 1..n |-> MinPoints + x[f] ]

LEMMA AllocateParts ==
  ASSUME NEW n \in Nat, Face = 1..n, Len(faces) = n, NatsTo(n, Areas),
         NEW r \in Nat \ {0}, NumPoints - MinPoints * n = r,
         NEW t \in Nat \ {0}, SumOf(Areas, 1..n) = t
  PROVE  \E x : Above(n, r, t, x)
<1>1. PICK a : a = Areas
  OBVIOUS
<1>2. PICK y, share, rem : /\ y = [ f \in 1..n |-> a[f] * r ]
                           /\ share = [ f \in 1..n |-> (a[f] * r) \div t ]
                           /\ rem = [ f \in 1..n |-> (a[f] * r) % t ]
  OBVIOUS
<1>3. Divides(n, y, t, share, rem) /\ NatsTo(n, a)
  BY <1>1, <1>2, Shares
<1>4. Multiple(n, a, r, y)
  BY <1>2 DEF Multiple
<1>5. PICK left : left = r - SumOf(share, 1..n)
  OBVIOUS
<1>6. left \in Int
  <2>1. PICK s \in Nat : s = SumOf(share, 1..n)
    <3>1. SumOf(share, 1..n) \in Nat
      BY <1>1, <1>3, <1>4, LeftOvers
    <3> QED BY <3>1
  <2> QED BY <1>5, <2>1
<1>7. PICK more : more = [ f \in 1..n |-> IF Cardinality(Ahead(rem, 1..n, f)) < left THEN 1 ELSE 0 ]
  OBVIOUS
<1>8. GivenOut(n, rem, left, more)
  BY <1>7 DEF GivenOut
<1>9. PICK x : x = [ f \in 1..n |-> share[f] + more[f] ]
  OBVIOUS
<1>10. AddsUp(n, share, more, x)
  BY <1>9 DEF AddsUp
<1>11. SumOf(x, 1..n) = r
  BY <1>1, <1>3, <1>4, <1>5, <1>8, <1>10, AddUp
<1>12. Follows(n, x, a)
  BY <1>3, <1>4, <1>6, <1>8, <1>10, FollowShares
<1>13. Close(n, x, y, t)
  BY <1>1, <1>3, <1>4, <1>5, <1>8, <1>10, CloseShares
<1>14. \A f, g \in 1..n : MorePoints(g, f, r) <=> rem[g] > rem[f] \/ (rem[g] = rem[f] /\ g < f)
  BY <1>1, <1>2 DEF MorePoints
<1>15. \A f \in 1..n : { g \in 1..n : MorePoints(g, f, r) } = Ahead(rem, 1..n, f)
  BY <1>14 DEF Ahead
<1>16. Allocate = [ f \in 1..n |-> MinPoints + x[f] ]
  <2>1. Allocate = [ f \in 1..n |-> MinPoints + share[f]
                       + (IF Cardinality({ g \in 1..n : MorePoints(g, f, r) }) < left THEN 1 ELSE 0) ]
    <3>1. ~(r <= 0 \/ t = 0)
      OBVIOUS
    <3> QED
      BY <1>1, <1>2, <1>5, <3>1 DEF Allocate
  <2>2. \A f \in 1..n : MinPoints + share[f] + more[f] = MinPoints + x[f]
    <3> TAKE f \in 1..n
    <3>1. share[f] \in Nat /\ more[f] \in {0, 1} /\ x[f] = share[f] + more[f] /\ MinPoints \in Nat
      BY <1>3, <1>7, <1>9, ExtractionAssumption DEF Divides
    <3> QED BY <3>1
  <2>3. \A f \in 1..n : (IF Cardinality({ g \in 1..n : MorePoints(g, f, r) }) < left THEN 1 ELSE 0) = more[f]
    BY <1>7, <1>15
  <2> QED BY <2>1, <2>2, <2>3
<1>17. Above(n, r, t, x)
  BY <1>1, <1>2, <1>11, <1>12, <1>13, <1>16 DEF Above
<1> QED BY <1>17

LEMMA LargerOfTwo ==
  ASSUME NEW x \in Int, NEW y \in Int
  PROVE  Max({x, y}) = IF x >= y THEN x ELSE y
BY DEF Max

CloudInv ==
  /\ phase \in { "entities", "mesh", "points" } => Len(cloud.range) = 0
  /\ Len(cloud.range) > 0 => CloudMade

LEMMA CloudInit == Init => CloudInv
  BY DEF Init, CloudInv

LEMMA CloudStep == CloudInv /\ [Next]_vars => CloudInv'
<1> SUFFICES ASSUME CloudInv, [Next]_vars PROVE CloudInv'
  OBVIOUS
<1>1. CASE ExtractEntities
  BY <1>1 DEF ExtractEntities, CloudInv, arrayVars
<1>2. CASE Tessellate
  BY <1>2 DEF Tessellate, CloudInv
<1>3. CASE SamplePoints
  <2>1. /\ phase' = "graph" /\ UNCHANGED recordVars
        /\ cloud' = [ ids |-> Owners(Allocate), range |-> Ranges(Allocate) ]
    BY <1>3 DEF SamplePoints
  <2>2. Allocate' = Allocate
    BY <2>1 DEF recordVars, Allocate, MorePoints, Areas, Face
  <2> QED
    BY <2>1, <2>2 DEF CloudInv, CloudMade
<1>4. ASSUME UNCHANGED recordVars, UNCHANGED cloud, phase' = phase \/ phase' \notin { "entities", "mesh", "points" }
      PROVE  CloudInv'
  <2>1. CloudMade => CloudMade'
    BY <1>4, MadeKeeps
  <2> QED BY <1>4, <2>1 DEF CloudInv
<1>5. CASE BuildGraph
  BY <1>4, <1>5 DEF BuildGraph
<1>6. CASE RenderViews
  BY <1>4, <1>6 DEF RenderViews
<1>7. CASE RecognizeFeatures
  <2>1. UNCHANGED recordVars
    BY <1>7 DEF RecognizeFeatures, Recognize, FindSegments, ClassifyEnds, NextRule, Claim, ClaimRest
  <2>2. phase' = phase /\ UNCHANGED cloud
    BY <1>7 DEF RecognizeFeatures, arrayVars
  <2> QED BY <1>4, <2>1, <2>2
<1>8. CASE ValidateOutputs
  <2>1. phase' \in { "write", "failed" } /\ UNCHANGED recordVars /\ UNCHANGED cloud
    BY <1>8 DEF ValidateOutputs, arrayVars
  <2> QED BY <1>4, <2>1
<1>9. CASE WriteLineage
  BY <1>4, <1>9 DEF WriteLineage, arrayVars
<1>10. CASE UNCHANGED vars
  BY <1>4, <1>10 DEF vars, arrayVars
<1> QED
  BY <1>1, <1>2, <1>3, <1>5, <1>6, <1>7, <1>8, <1>9, <1>10 DEF Next


LEMMA CloudIsFair == WellFormedInv /\ CloudInv => AllocationFair
<1> SUFFICES ASSUME WellFormedInv, CloudInv, Len(cloud.range) > 0 PROVE AllocationFair
  BY Zenon DEF AllocationFair
<1>1. WellFormed(faces, edges) /\ CloudMade
  <2>1. phase # "entities"
    BY DEF CloudInv
  <2> QED BY <2>1 DEF WellFormedInv, CloudInv
<1>2. PICK n \in Nat : Face = 1..n /\ Len(faces) = n
  BY <1>1 DEF WellFormed, Face
<1>3. MinPoints \in Nat \ {0} /\ NumPoints \in Nat
  BY ExtractionAssumption
<1>4. NatsTo(n, Areas)
  BY <1>1, <1>2 DEF Areas, WellFormed, Face, NatsTo
<1>5. PICK t \in Nat \ {0} : SumOf(Areas, 1..n) = t
  <2>1. PICK f \in 1..n : Areas[f] > 0
    BY <1>1, <1>2 DEF Areas, WellFormed, Face
  <2>2. PICK S : S = 1..n
    OBVIOUS
  <2>3. IsFiniteSet(S) /\ Counts(Areas, S)
    BY <1>4, <2>2, FS_Interval DEF Counts, NatsTo
  <2>4. SumOf(Areas, S) = Areas[f] + SumOf(Areas, S \ {f})
    BY <2>1, <2>2, <2>3, SumOfRemoves
  <2>5. PICK T : T = S \ {f}
    OBVIOUS
  <2>6. IsFiniteSet(T) /\ Counts(Areas, T)
    BY <2>3, <2>5, FS_Subset DEF Counts
  <2>7. SumOf(Areas, T) \in Nat
    BY <2>6, SumOfRemoves
  <2>8. PICK u \in Nat, v \in Nat : u = Areas[f] /\ v = SumOf(Areas, T) /\ u > 0
    BY <1>4, <2>1, <2>7 DEF NatsTo
  <2>9. SumOf(Areas, 1..n) = u + v
    BY <2>2, <2>4, <2>5, <2>8
  <2> QED BY <2>8, <2>9
<1>6. PICK count : count = [ f \in Face |-> cloud.range[f][2] ]
  OBVIOUS
<1>7. \A f \in 1..n : count[f] = Allocate[f]
  <2>1. DOMAIN Allocate = 1..n
    BY <1>1, <1>2, AllocateMinimum
  <2> QED BY <1>1, <1>2, <1>6, <2>1 DEF CloudMade, Ranges
<1>8. PICK c : c = Allocate
  OBVIOUS
<1>9. DOMAIN c = 1..n /\ \A f \in 1..n : c[f] \in Nat /\ c[f] >= MinPoints
  BY <1>1, <1>2, <1>8, AllocateMinimum
<1>10. Len(cloud.ids) = SumOf(c, 1..n)
  <2>1. \A f \in 1..n : c[f] \in Nat
    BY <1>9
  <2>2. OwnedUpTo(Sums(c, n), Owners(c), n, n)
    BY <1>9, <2>1, OwnersOwn
  <2>3. Sums(c, n)[n] = SumOf(c, 1..n)
    BY DEF Sums
  <2> QED BY <1>1, <1>8, <2>2, <2>3 DEF OwnedUpTo, CloudMade
<1>11. PICK ones : ones = [ f \in 1..n |-> 1 ]
  OBVIOUS
<1>12. NatsTo(n, ones) /\ SumOf(ones, 1..n) = n
  <2>1. \A f \in 1..n : ones[f] \in {0, 1} /\ ones[f] = 1
    BY <1>11
  <2>2. { f \in 1..n : ones[f] = 1 } = 1..n
    BY <2>1
  <2>3. Cardinality(1..n) = n
    BY FS_Interval
  <2>4. SumOf(ones, 1..n) = Cardinality({ f \in 1..n : ones[f] = 1 })
    BY <2>1, SumOnes
  <2>5. NatsTo(n, ones)
    BY <2>1 DEF NatsTo
  <2> QED BY <2>2, <2>3, <2>4, <2>5
<1>13. PICK least : least = [ f \in 1..n |-> MinPoints ]
  OBVIOUS
<1>14. NatsTo(n, least) /\ SumOf(least, 1..n) = MinPoints * n
  <2>1. Multiple(n, ones, MinPoints, least)
    BY <1>3, <1>11, <1>13 DEF Multiple
  <2>2. NatsTo(n, least) /\ SumOf(least, 1..n) = n * MinPoints
    BY <1>3, <1>12, <2>1, SumTimes
  <2>3. n * MinPoints = MinPoints * n
    BY <1>3
  <2> QED BY <2>2, <2>3
<1>15. PICK low \in Nat : low = MinPoints * n
  BY <1>3
<1> DEFINE Fair(rest, length) ==
      /\ length = SumOf(c, 1..n)
      /\ \A f \in 1..n : /\ (c[f] - MinPoints) * t < Areas[f] * rest + t
                         /\ (c[f] - MinPoints) * t > Areas[f] * rest - t
      /\ \A f, g \in 1..n : Areas[f] > Areas[g] => c[f] >= c[g]
<1>16. ASSUME NEW rest, NEW length, Fair(rest, length),
              rest = Max({0, NumPoints - MinPoints * n}), length = Max({NumPoints, MinPoints * n})
       PROVE  AllocationFair
  <2>1. Len(cloud.ids) = Max({NumPoints, MinPoints * n})
    BY <1>10, <1>16
  <2>2. \A f \in Face : count[f] >= MinPoints
    BY <1>2, <1>7, <1>8, <1>9
  <2>3. \A f \in Face : /\ (count[f] - MinPoints) * t < Areas[f] * rest + t
                        /\ (count[f] - MinPoints) * t > Areas[f] * rest - t
    BY <1>2, <1>7, <1>8, <1>16
  <2>4. \A f, g \in Face : Areas[f] > Areas[g] => count[f] >= count[g]
    BY <1>2, <1>7, <1>8, <1>16
  <2>5. SumOf(Areas, Face) = t
    BY <1>2, <1>5
  <2> HIDE DEF Fair
  <2> QED BY Zenon, <1>2, <1>6, <1>16, <2>1, <2>2, <2>3, <2>4, <2>5 DEF AllocationFair
<1>17. CASE NumPoints <= low
  <2>1. c = least
    <3>1. NumPoints - MinPoints * Len(faces) <= 0
      BY <1>2, <1>3, <1>15, <1>17
    <3> QED BY <1>2, <1>8, <1>13, <3>1 DEF Allocate
  <2>2. Max({0, NumPoints - MinPoints * n}) = 0
    <3>1. PICK d \in Int : d = NumPoints - MinPoints * n /\ d <= 0
      BY <1>3, <1>15, <1>17
    <3>2. Max({0, d}) = 0
      BY <3>1, LargerOfTwo
    <3> QED BY <3>1, <3>2
  <2>3. Max({NumPoints, MinPoints * n}) = low
    <3>1. Max({NumPoints, low}) = low
      BY <1>3, <1>15, <1>17, LargerOfTwo
    <3> QED BY <1>15, <3>1
  <2>4. Fair(0, low)
    <3>1. low = SumOf(c, 1..n)
      BY <1>14, <1>15, <2>1
    <3>2. ASSUME NEW f \in 1..n
          PROVE  /\ (c[f] - MinPoints) * t < Areas[f] * 0 + t
                 /\ (c[f] - MinPoints) * t > Areas[f] * 0 - t
      <4>1. c[f] - MinPoints = 0 /\ Areas[f] \in Nat
        BY <1>3, <1>4, <1>13, <2>1 DEF NatsTo
      <4> QED BY <4>1
    <3>3. \A f, g \in 1..n : c[f] >= c[g]
      BY <1>3, <1>13, <2>1
    <3> QED BY <3>1, <3>2, <3>3
  <2> QED BY <1>16, <2>2, <2>3, <2>4
<1>18. CASE NumPoints > low
  <2>1. PICK r \in Nat \ {0} : NumPoints - MinPoints * n = r
    BY <1>3, <1>15, <1>18
  <2>2. PICK x : /\ SumOf(x, 1..n) = r /\ Follows(n, x, Areas)
                 /\ Close(n, x, [ f \in 1..n |-> Areas[f] * r ], t)
                 /\ Allocate = [ f \in 1..n |-> MinPoints + x[f] ]
    <3>1. Face = 1..n /\ Len(faces) = n /\ NatsTo(n, Areas) /\ SumOf(Areas, 1..n) = t
      BY <1>2, <1>4, <1>5
    <3>2. \E x : Above(n, r, t, x)
      BY <2>1, <3>1, AllocateParts
    <3> QED BY <3>2 DEF Above
  <2>3. Max({0, NumPoints - MinPoints * n}) = r
    BY <2>1, LargerOfTwo
  <2>4. Max({NumPoints, MinPoints * n}) = NumPoints
    <3>1. Max({NumPoints, low}) = NumPoints
      BY <1>3, <1>15, <1>18, LargerOfTwo
    <3> QED BY <1>15, <3>1
  <2>5. \A f \in 1..n : x[f] \in Nat /\ c[f] = MinPoints + x[f]
    BY <1>8, <2>2 DEF Close
  <2>6. NumPoints = SumOf(c, 1..n)
    <3>1. NatsTo(n, x) /\ AddsUp(n, least, x, c)
      BY <1>13, <2>5 DEF NatsTo, AddsUp
    <3>2. SumOf(c, 1..n) = SumOf(least, 1..n) + SumOf(x, 1..n)
      BY <1>14, <3>1, SumAdd
    <3> QED BY <1>3, <1>14, <1>15, <2>1, <2>2, <3>2
  <2>7. ASSUME NEW f \in 1..n
        PROVE  /\ (c[f] - MinPoints) * t < Areas[f] * r + t
               /\ (c[f] - MinPoints) * t > Areas[f] * r - t
    <3>1. c[f] - MinPoints = x[f]
      BY <1>3, <2>5
    <3> QED BY <2>2, <3>1 DEF Close
  <2>8. ASSUME NEW f \in 1..n, NEW g \in 1..n, Areas[f] > Areas[g] PROVE c[f] >= c[g]
    <3>1. x[f] >= x[g]
      BY <2>2, <2>8 DEF Follows
    <3> QED BY <1>3, <2>5, <3>1
  <2>9. Fair(r, NumPoints)
    BY <2>6, <2>7, <2>8
  <2> QED BY <1>16, <2>3, <2>4, <2>9
<1> QED BY <1>3, <1>15, <1>17, <1>18

(* Points are given out completely and in proportion to the areas, however *)
(* many faces the shape has and whatever is left over.                     *)
THEOREM FairAllocation == Spec => []AllocationFair
<1>1. Init => RecordsInv /\ CloudInv
  BY RecordsInit, CloudInit
<1>2. RecordsInv /\ CloudInv /\ [Next]_vars => (RecordsInv /\ CloudInv)'
  BY RecordsStep, CloudStep
<1>3. RecordsInv /\ CloudInv => AllocationFair
  BY RecordsAreWellFormed, CloudIsFair
<1> QED
  BY <1>1, <1>2, <1>3, PTL DEF Spec
================================================================================
