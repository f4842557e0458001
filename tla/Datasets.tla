-------------------------------- MODULE Datasets -------------------------------
(***************************************************************************)
(* How build_dataset (cad2ml/datasets/builder.py) divides samples into     *)
(* train, val and test: it selects the usable samples, clusters those that *)
(* look alike, joins the design groups of a cluster into one split unit    *)
(* and deals the units of every family out in a seeded order.              *)
(*                                                                         *)
(* Samples, groups and families are numbered in the order of their names.  *)
(* Whether two samples look alike (is_near_duplicate) is data: any         *)
(* symmetric relation, which need not be transitive, because the match is  *)
(* tolerant.  The seed's permutations are any permutations.                *)
(* An operator named Bug... is a wrong form of the operator after it.      *)
(***************************************************************************)
EXTENDS Naturals, Sequences, FiniteSets, SequencesExt

CONSTANTS
  Sample,   \* a set of numbers
  Group,    \* a set of numbers: the design groups family/variant
  Family,   \* a set of numbers
  Inputs    \* the stores, corpora and split modes to build a dataset from

Pairs == { e \in Sample \X Sample : e[1] < e[2] }
Input == [ mode : {"group", "family"}, usable : SUBSET Sample, groupOf : [Sample -> Group],
           familyOf : [Group -> Family], near : SUBSET Pairs ]

ASSUME DatasetAssumption ==
  /\ IsFiniteSet(Sample) /\ Sample \subseteq Nat
  /\ IsFiniteSet(Group) /\ Group \subseteq Nat
  /\ IsFiniteSet(Family) /\ Family \subseteq Nat
  /\ \A i \in Inputs : i \in Input

VARIABLES
  mode,      \* split_mode: "group" or "family"
  usable,    \* the samples that no exclusion rule hits
  groupOf, familyOf,   \* the ground truth: of a sample, of a group
  near,      \* the pairs <<x, y>>, x < y, that look alike
  phase,
  included,
  clusters,  \* near_dups: sets of at least two samples
  groupUf,   \* the union-find forest over groups: parent of each
  splitOf    \* the split of every sample

inputs == <<mode, usable, groupOf, familyOf, near>>
vars == <<inputs, phase, included, clusters, groupUf, splitOf>>

Split == { "train", "val", "test" }

TypeOK ==
  /\ mode \in {"group", "family"}
  /\ usable \in SUBSET Sample
  /\ groupOf \in [Sample -> Group] /\ familyOf \in [Group -> Family]
  /\ near \subseteq Pairs
  /\ phase \in {"select", "cluster", "unify", "assign", "done"}
  /\ included \subseteq Sample
  /\ clusters \subseteq SUBSET Sample
  /\ groupUf \in [Group -> Group]
  /\ splitOf \in [included -> Split] \cup {<<>>}

Init ==
  /\ \E i \in Inputs : /\ mode = i.mode /\ usable = i.usable /\ near = i.near
                      /\ groupOf = i.groupOf /\ familyOf = i.familyOf
  /\ phase = "select"
  /\ included = {} /\ clusters = {}
  /\ groupUf = [g \in Group |-> g]
  /\ splitOf = <<>>

--------------------------------------------------------------------------------
(* Union-find (_UF): the smaller root becomes the parent.  find halves the *)
(* paths it walks, which moves no node to another tree.                    *)

Lesser(a, b) == IF a < b THEN a ELSE b
Greater(a, b) == IF a < b THEN b ELSE a

\* A parent is never greater than its child.
Root(p, x) ==
  LET r[y \in DOMAIN p] == IF p[y] = y THEN y ELSE r[p[y]] IN r[x]

BugUnite(p, a, b) == [p EXCEPT ![Greater(a, b)] = Lesser(a, b)]
Unite(p, a, b) ==
  LET ra == Root(p, a)
      rb == Root(p, b)
  IN  IF ra = rb THEN p ELSE [p EXCEPT ![Greater(ra, rb)] = Lesser(ra, rb)]

\* The pairs of S are taken in order, by their first and then their second element.
LastPair(S) == CHOOSE e \in S : \A d \in S : d[1] < e[1] \/ (d[1] = e[1] /\ d[2] <= e[2])
UniteAll(p, S, of) ==
  MapThenFoldSet(LAMBDA e, q : Unite(q, e[1], e[2]), p, LAMBDA e : <<of[e[1]], of[e[2]]>>, LastPair, S)

--------------------------------------------------------------------------------
(* build_dataset                                                           *)

Select ==
  /\ phase = "select"
  /\ included' = usable
  /\ phase' = "cluster"
  /\ UNCHANGED <<inputs, clusters, groupUf, splitOf>>

\* near_duplicate_clusters: the components that have more than one sample.
ClusterOf(p, r) == { x \in included : Root(p, x) = r }
Cluster ==
  /\ phase = "cluster"
  /\ LET self == [x \in included |-> x]
         p == UniteAll(self, { e \in near : e[1] \in included /\ e[2] \in included }, self)
     IN clusters' = { c \in { ClusterOf(p, r) : r \in included } : Cardinality(c) > 1 }
  /\ phase' = "unify"
  /\ UNCHANGED <<inputs, included, groupUf, splitOf>>

\* The first sample of a cluster with each of the others.
Joins == UNION { { <<Min(c), x>> : x \in c \ {Min(c)} } : c \in clusters }

Unify ==
  /\ phase = "unify"
  /\ groupUf' = UniteAll(groupUf, Joins, groupOf)
  /\ phase' = "assign"
  /\ UNCHANGED <<inputs, included, clusters, splitOf>>

--------------------------------------------------------------------------------
(* assign_splits                                                           *)

FamilyOfSample(s) == familyOf[groupOf[s]]
Unit(s) == IF mode = "group" THEN Root(groupUf, groupOf[s]) ELSE FamilyOfSample(s)
Units == { Unit(s) : s \in included }

\* A unit that spans families counts for the family of its last sample.
FamilyOfUnit(u) ==
  LET members == { s \in included : Unit(s) = u }
  IN  FamilyOfSample(CHOOSE s \in members : \A t \in members : t <= s)
Families == { FamilyOfUnit(u) : u \in Units }
UnitsOf(f) == { u \in Units : FamilyOfUnit(u) = f }

\* round(n / 6): ties go to the even number.
RoundSixth(n) == LET k == n \div 6
                 IN  IF n % 6 < 3 \/ (n % 6 = 3 /\ k % 2 = 0) THEN k ELSE k + 1
BugHeld(n) == RoundSixth(n)
Held(n) == Greater(1, RoundSixth(n))

Index(seq, x) == CHOOSE i \in 1..Len(seq) : seq[i] = x

SplitOfFamily(order, f) ==
  CASE Index(order, f) <= Held(Len(order))     -> "test"
    [] Index(order, f) > Held(Len(order))
       /\ Index(order, f) <= 2 * Held(Len(order)) -> "val"
    [] OTHER                                   -> "train"

\* The j-th unit of the k-th family, which has n; both count from one.
BugPlace(k, j, n) ==
  CASE j = 1 -> IF k % 2 = 1 THEN "val" ELSE "test"
    [] j = 2 /\ n >= 4 -> IF k % 2 = 1 THEN "test" ELSE "val"
    [] OTHER -> "train"
Place(k, j, n) ==
  CASE j = 1 /\ n >= 2 -> IF k % 2 = 1 THEN "val" ELSE "test"
    [] j = 2 /\ n >= 4 -> IF k % 2 = 1 THEN "test" ELSE "val"
    [] OTHER -> "train"

\* A permutation of the units of every family.
UnitOrders ==
  { o \in [Families -> UNION { SetToSeqs(UnitsOf(f)) : f \in Families }] :
      \A f \in Families : o[f] \in SetToSeqs(UnitsOf(f)) }

AssignGroups ==
  /\ phase = "assign" /\ mode = "group"
  /\ \E order \in SetToSeqs(Families), unitOrder \in UnitOrders :
       splitOf' = [s \in included |->
         LET f == FamilyOfUnit(Unit(s))
         IN  Place(Index(order, f), Index(unitOrder[f], Unit(s)), Len(unitOrder[f]))]
  /\ phase' = "done"
  /\ UNCHANGED <<inputs, included, clusters, groupUf>>

AssignFamilies ==
  /\ phase = "assign" /\ mode = "family"
  /\ \E order \in SetToSeqs(Families) :
       splitOf' = [s \in included |-> SplitOfFamily(order, FamilyOfSample(s))]
  /\ phase' = "done"
  /\ UNCHANGED <<inputs, included, clusters, groupUf>>

Next == Select \/ Cluster \/ Unify \/ AssignGroups \/ AssignFamilies

Spec == Init /\ [][Next]_vars
--------------------------------------------------------------------------------
(* Correctness                                                             *)

LookAlike(s, t) == <<s, t>> \in near \/ <<t, s>> \in near

(* "Near-duplicate candidates are unioned into the same split unit"        *)
(* (builder.py): in group mode the split units are the connected           *)
(* components of "variants of one design, or look alike", no more and no   *)
(* less, and none is on two sides of a split: union-find loses no link,    *)
(* although a cluster may join groups that other clusters joined before,   *)
(* and joins nothing that need not be joined.                              *)
Joined(s, t) == groupOf[s] = groupOf[t] \/ LookAlike(s, t)
Linked(s, t) ==   \* no set that joining does not leave keeps them apart
  \A C \in SUBSET included :
    s \in C /\ (\A x \in C, y \in included : Joined(x, y) => y \in C) => t \in C
UnitsAreComponents ==
  phase = "done" /\ mode = "group" =>
    \A s, t \in included :
      /\ Unit(s) = Unit(t) <=> Linked(s, t)
      /\ Unit(s) = Unit(t) => splitOf[s] = splitOf[t]

(* assign_splits in group mode: every family that has units keeps one of   *)
(* them to learn from, and gives no more than one to val and one to test.  *)
(* Families of two or three units hold out one; from four on a second one  *)
(* is held out, which the docstring does not say (builder.py:123-124).     *)
EveryFamilyIsTrained ==
  phase = "done" /\ mode = "group" =>
    \A f \in Families :
      /\ \E s \in included : FamilyOfUnit(Unit(s)) = f /\ splitOf[s] = "train"
      /\ \A s, t \in included :
           FamilyOfUnit(Unit(s)) = f /\ FamilyOfUnit(Unit(t)) = f /\ splitOf[s] = splitOf[t]
             /\ splitOf[s] # "train" => Unit(s) = Unit(t)

(* Family mode holds whole families out (assign_splits): with any samples  *)
(* at all there is something to test on, and from three families on there  *)
(* is also something to validate and something to train on.                *)
NoSplitIsEmpty ==
  phase = "done" /\ mode = "family" /\ included # {} =>
    LET filled == { splitOf[s] : s \in included }
    IN  "test" \in filled /\ (Cardinality(Families) >= 3 => filled = Split)
================================================================================
