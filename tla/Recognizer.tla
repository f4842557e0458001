------------------------------- MODULE Recognizer ------------------------------
(***************************************************************************)
(* The rule-based feature recognizer (cad2ml/semantics/recognizer.py).     *)
(* Four rules look at the canonical face and edge records in a fixed       *)
(* order: holes, slots, pockets, fillets.  A rule sees which faces earlier *)
(* rules have claimed and returns all its candidates at once; recognize    *)
(* then claims them one after the other and drops a candidate that shares  *)
(* a face with an earlier one.  What is left becomes a planar face or      *)
(* unknown.                                                                *)
(*                                                                         *)
(* Geometry is on a grid: directions are the axes 1, 2, 3 (0: no normal),  *)
(* an axis line, a radius and a position are numbers, a swept angle counts *)
(* quarter turns.  Tolerances are exact comparisons there.  Faces and      *)
(* edges are named by their canonical positions 1, 2, ...                  *)
(* An operator named Bug... is a wrong form of the operator after it.      *)
(***************************************************************************)
EXTENDS Integers, Sequences, FiniteSets, SequencesExt

CONSTANTS
  FloorLimit,   \* at most FloorLimit + 1 faces close or link a bore (8 in the code)
  SmallRadius   \* a fillet's radius is to be less than this (a tenth of the part's diagonal)

VARIABLES
  faces,     \* the face records, a sequence
  edges,     \* the edge records, a sequence
  rule,      \* the rule whose candidates are being claimed, or the step of the first rule
  segments,  \* the bores
  segmentEnds,   \* their ends
  todo,      \* its candidates that have not been looked at
  claimed,   \* the faces of the features so far
  features   \* the features: [type, faces, sure]

recordVars == <<faces, edges>>
ruleVars == <<rule, segments, segmentEnds, todo, claimed, features>>

Rule == { "waiting", "segments", "ends", "stacks", "holes", "slots", "pockets", "fillets", "rest", "recognized" }
RuleAfter == [ stacks |-> "holes", holes |-> "slots", slots |-> "pockets", pockets |-> "fillets", fillets |-> "rest" ]

FeatureType == { "through_hole", "blind_hole", "cylindrical_hole_wall", "slot", "pocket",
                 "fillet", "planar_face", "unknown" }
Face == DOMAIN faces

-------------------------------------------------------------------------------
(***************************************************************************)
(* What the rules ask of faces and edges                                   *)
(***************************************************************************)

Type(f, types) == faces[f].type \in types
Concave(f) == faces[f].side = "outside"
Parallel(f, g) == faces[f].dir = faces[g].dir /\ faces[f].dir # 0
Perpendicular(f, g) == ~Parallel(f, g)
SameAxis(f, g) == Parallel(f, g) /\ faces[f].line = faces[g].line
SameBore(f, g) == SameAxis(f, g) /\ faces[f].radius = faces[g].radius

EdgesBetween(f, g) == { e \in faces[f].edges : g \in edges[e].faces }
AllBetween(f, g, convexity) == \A e \in EdgesBetween(f, g) : edges[e].convexity = convexity
Joined(f, g, convexity) == EdgesBetween(f, g) # {} /\ AllBetween(f, g, convexity)

\* Two plane faces that look at each other across a gap.
Opposed(f, g) == Parallel(f, g) /\ faces[f].sign = -faces[g].sign
Facing(f, g) == Opposed(f, g) /\ (faces[g].pos - faces[f].pos) * faces[f].sign > 0
Gap(f, g) == IF faces[f].pos > faces[g].pos THEN faces[f].pos - faces[g].pos
             ELSE faces[g].pos - faces[f].pos

\* A work list over at most Len(faces) things: everything that next leads to.
Reached(start, next) ==
  FoldLeft(LAMBDA found, face : found \cup UNION { next[x] : x \in found }, start, faces)

Connected(S) == { Reached({f}, [ g \in S |-> faces[g].adj \cap S ]) : f \in S }

\* The elements of a finite set by increasing key, the keys being different.
OrderedBy(S, key) ==
  LET keys == { key[x] : x \in S }
  IN  [ k \in 1..Cardinality(keys) |->
          CHOOSE x \in S : Cardinality({ m \in keys : m < key[x] }) = k - 1 ]
Ordered(S) == OrderedBy(S, [ f \in S |-> f ])

Span(S) == MapThenSumSet(LAMBDA f : faces[f].span, S)

\* _is_blend: at most 0.6 pi, that is one quarter turn.
IsBlend(f) ==
  /\ Type(f, {"cylinder", "torus"}) /\ faces[f].span = 1
  /\ Cardinality({ e \in faces[f].edges : edges[e].convexity = "smooth" }) >= 2

Feature(type, S, sure) == [ type |-> type, faces |-> S, sure |-> sure ]

-------------------------------------------------------------------------------
(***************************************************************************)
(* Holes: stacks of bores.  A bore is a set of concave cylinder faces that *)
(* go once around their axis.                                              *)
(***************************************************************************)

Bored == { f \in Face : Type(f, {"cylinder"}) /\ Concave(f) }
Bores == { b \in UNION { Connected({ g \in Bored : SameBore(f, g) }) : f \in Bored } : Span(b) = 4 }

\* The place of a bore in the list: by its group of coaxial faces, then by itself.
BoreKey(b) ==
  Min({ g \in Bored : SameBore(Min(b), g) }) * (Len(faces) + 1) + Min(b)

\* A plane across the axis, or a cone around it.
Transition(f, b) ==
  \/ Type(f, {"plane"}) /\ Parallel(f, Min(b))
  \/ Type(f, {"cone"}) /\ SameAxis(f, Min(b))

\* _closing_floor: what the rim leads to, all around.
FloorOf(b, rim) ==
  LET floor == Reached(rim \ b, [ f \in Face |-> faces[f].adj \ b ])
  IN  IF (\A f \in floor : Transition(f, b)) /\ Cardinality(floor) <= FloorLimit + 1
      THEN floor ELSE {}

\* _step_to_segment: the faces between two bores, and the bores they lead to.
StepFrom(b, rim) ==
  LET others == segments \ {b}
      walls == UNION others
      found == Reached(rim \ b, [ f \in Face |-> IF f \in walls THEN {} ELSE faces[f].adj \ b ])
  IN  [ faces |-> found \ walls, to |-> { o \in others : o \cap found # {} } ]

IsStep(s, b) ==
  /\ \A f \in s.faces : Transition(f, b)
  /\ s.faces # {} /\ Cardinality(s.faces) <= FloorLimit + 1
  /\ Cardinality(s.to) = 1

\* The edges of a bore that lead elsewhere, and their places along the axis.
RimEdges(b) == { e \in UNION { faces[f].edges : f \in b } :
                   edges[e].convexity # "seam" /\ edges[e].faces \ b # {} }

End(b, pos) ==
  LET rim == { e \in RimEdges(b) : edges[e].pos = pos }
      nb == { Min(edges[e].faces \ b) : e \in rim }
      convexities == { edges[e].convexity : e \in rim }
      step == StepFrom(b, nb)
      floor == FloorOf(b, nb)
      Is(kind, S, to) == [ bore |-> b, pos |-> pos, nb |-> nb, kind |-> kind, faces |-> S, to |-> to ]
  IN  IF convexities \subseteq {"convex", "smooth"} THEN Is("open", {}, {})
      ELSE IF convexities # {"concave"} THEN Is("other", {}, {})
      ELSE IF IsStep(step, b) THEN Is("step", step.faces, step.to)
      ELSE IF floor # {} THEN Is("floor", floor, {})
      ELSE Is("other", {}, {})

Ends(b) == { End(b, edges[e].pos) : e \in RimEdges(b) }

\* Bores with two ends each are stacked if a step leads from one to the other.
EndsOf(b) == { e \in segmentEnds : e.bore = b }
StepsTo(b) == UNION { e.to : e \in { x \in EndsOf(b) : x.kind = "step" } }
Stacked(b, c) ==
  /\ c \in StepsTo(b) \/ b \in StepsTo(c)
  /\ Cardinality(EndsOf(b)) = 2 /\ Cardinality(EndsOf(c)) = 2
Stacks == { Reached({b}, [ c \in segments |-> { d \in segments : Stacked(c, d) } ]) : b \in segments }

\* Linking steps, and rims that open onto one, are inside the stack.
BugTerminal(ends, linking, extra) == ends \ linking
Terminal(ends, linking, extra) == { e \in ends \ linking : e.nb \cap extra = {} }

Hole(stack) ==
  LET ends == { e \in segmentEnds : e.bore \in stack }
      linking == { e \in ends : e.kind = "step" /\ e.to \subseteq stack }
      extra == UNION { e.faces : e \in linking }
      terminal == Terminal(ends, linking, extra)
      open == Cardinality({ e \in terminal : e.kind = "open" })
      floor == UNION { e.faces : e \in { x \in terminal : x.kind = "floor" } }
      type == IF Cardinality(terminal) = 2 /\ open = 2 THEN "through_hole"
              ELSE IF Cardinality(terminal) = 2 /\ open = 1 /\ floor # {} THEN "blind_hole"
              ELSE "cylindrical_hole_wall"
      narrow == CHOOSE f \in UNION stack : \A g \in UNION stack : faces[f].radius <= faces[g].radius
  IN  [ feature |-> Feature(type, (UNION stack) \cup extra \cup floor, type # "cylindrical_hole_wall"),
        at |-> narrow ]

\* Through holes on one axis and with one diameter are one interrupted hole.
Interrupted(h, k) == /\ h.feature.type = "through_hole" /\ k.feature.type = "through_hole"
                     /\ SameBore(h.at, k.at)
Merge(holes) ==
  LET Take(acc, i) ==
        IF i \in acc.merged THEN acc
        ELSE LET more == { j \in i + 1..Len(holes) : Interrupted(holes[i], holes[j]) }
                 all == UNION { holes[j].feature.faces : j \in more \cup {i} }
             IN  [ out |-> Append(acc.out, [ holes[i].feature EXCEPT !.faces = all ]),
                   merged |-> acc.merged \cup more ]
  IN  FoldLeft(Take, [ out |-> <<>>, merged |-> {} ], [ i \in DOMAIN holes |-> i ]).out

Holes ==
  LET stacks == OrderedBy(Stacks, [ s \in Stacks |-> Min({ BoreKey(b) : b \in s }) ])
  IN  Merge([ i \in DOMAIN stacks |-> Hole(stacks[i]) ])

-------------------------------------------------------------------------------
(***************************************************************************)
(* Slots: two half cylinders with two walls, or a floor with two walls     *)
(***************************************************************************)

Free == Face \ claimed
Halves == { f \in Free : Type(f, {"cylinder"}) /\ Concave(f) /\ faces[f].span = 2 }

StadiumWalls(a, b) ==
  { w \in faces[a].adj \cap faces[b].adj : Type(w, {"plane"}) /\ w \in Free
                                           /\ AllBetween(w, a, "smooth") }

Stadium(a, b) ==
  LET walls == StadiumWalls(a, b)
      ids == {a, b} \cup walls
      floor == { f \in Free \ ids : /\ Type(f, {"plane"}) /\ {a, b} \subseteq faces[f].adj
                                    /\ AllBetween(f, a, "concave") }
      sure == \E v, w \in walls : Opposed(v, w) /\ Gap(v, w) = 2 * faces[a].radius
  IN  Feature("slot", ids \cup floor, sure)

Stadiums ==
  LET halves == Ordered(Halves)
      n == Len(halves)
      pairs == [ k \in 1..n * n |-> <<halves[(k - 1) \div n + 1], halves[((k - 1) % n) + 1]>> ]
      Take(out, p) ==
        IF /\ p[1] < p[2]
           /\ {p[1], p[2]} \cap UNION { out[i].faces : i \in DOMAIN out } = {}
           /\ faces[p[1]].radius = faces[p[2]].radius /\ Parallel(p[1], p[2])
           /\ Cardinality(StadiumWalls(p[1], p[2])) = 2
        THEN Append(out, Stadium(p[1], p[2])) ELSE out
  IN  FoldLeft(Take, <<>>, pairs)

\* The walls of a floor: at a concave edge, or behind a tangent concave blend.
DirectWalls(f) == { w \in faces[f].adj : /\ Type(w, {"plane"}) /\ Joined(f, w, "concave")
                                         /\ Perpendicular(w, f) }
BlendWalls(f, b) == { w \in faces[b].adj \ {f} : /\ Type(w, {"plane"}) /\ Joined(b, w, "smooth")
                                                 /\ Perpendicular(w, f) }
Blends(f) == { b \in faces[f].adj : /\ IsBlend(b) /\ Concave(b) /\ AllBetween(f, b, "smooth")
                                    /\ BlendWalls(f, b) # {} }

OpenSlot(f) ==
  LET walls == DirectWalls(f) \cup UNION { BlendWalls(f, b) : b \in Blends(f) }
      rest == { e \in faces[f].outer : edges[e].faces \cap (walls \cup Blends(f)) = {} }
  IN  IF /\ Cardinality(walls) = 2 /\ \E v, w \in walls : Facing(v, w)
         /\ rest # {} /\ \A e \in rest : edges[e].convexity = "convex"
      THEN Feature("slot", walls \cup {f}, TRUE) ELSE Feature("slot", {}, FALSE)

OpenSlots(used) ==
  LET Take(out, f) ==
        IF f \in used \cup UNION { out[i].faces : i \in DOMAIN out } \/ OpenSlot(f).faces = {}
        THEN out ELSE Append(out, OpenSlot(f))
  IN  FoldLeft(Take, <<>>, Ordered({ f \in Free : Type(f, {"plane"}) }))

Slots == LET stadiums == Stadiums
         IN  stadiums \o OpenSlots(UNION { stadiums[i].faces : i \in DOMAIN stadiums })

-------------------------------------------------------------------------------
(***************************************************************************)
(* Pockets and fillets                                                     *)
(***************************************************************************)

OuterWalls(f) == (UNION { edges[e].faces : e \in faces[f].outer }) \ {f}
\* Walls may go on through tangent corner faces.
Ring(f) == Reached(OuterWalls(f),
                   [ w \in Face |-> { n \in faces[w].adj \cap Free :
                                       /\ n # f /\ Type(n, {"plane", "cylinder"})
                                       /\ AllBetween(w, n, "smooth") } ])
IsWall(w, f) ==
  \/ Type(w, {"plane"}) /\ Perpendicular(w, f)
  \/ Type(w, {"cylinder"}) /\ Parallel(w, f) /\ Concave(w)
IsPocket(f) ==
  /\ f \in Free /\ Type(f, {"plane"})
  /\ Cardinality(faces[f].outer) >= 3
  /\ \A e \in faces[f].outer : edges[e].convexity = "concave"
  /\ OuterWalls(f) \subseteq Free
  /\ \A w \in Ring(f) : IsWall(w, f)
Pocket(f) ==
  Feature("pocket", Ring(f) \cup {f},
          \A w \in Ring(f) : \E e \in faces[w].edges : edges[e].convexity = "convex"
                                                       /\ f \notin edges[e].faces)
Pockets == LET floors == Ordered({ f \in Face : IsPocket(f) })
           IN  [ i \in DOMAIN floors |-> Pocket(floors[i]) ]

\* A rounded end split into several faces is judged by its whole sweep.
Partial == { f \in Free : Type(f, {"cylinder"}) /\ faces[f].span \in 1..3 }
GroupSpan(f) ==
  IF f \notin Partial THEN 0
  ELSE LET round == Reached({f}, [ g \in Face |-> { h \in faces[g].adj \cap Partial : SameBore(f, h) } ])
       IN  IF \A g \in round : faces[g].side = faces[f].side THEN Span(round) ELSE 0

Fillet(f) ==
  LET smooth == (UNION { edges[e].faces : e \in { x \in faces[f].edges :
                                                    edges[x].convexity = "smooth" } }) \ {f}
  IN  Feature("fillet", {f}, Cardinality(smooth) >= 2 /\ faces[f].radius < SmallRadius)
Fillets == LET blends == Ordered({ f \in Free : IsBlend(f) /\ GroupSpan(f) <= 1 })
           IN  [ i \in DOMAIN blends |-> Fillet(blends[i]) ]

-------------------------------------------------------------------------------
(***************************************************************************)
(* recognize                                                               *)
(***************************************************************************)

Candidates(r) == CASE r = "holes" -> Holes
                   [] r = "slots" -> Slots
                   [] r = "pockets" -> Pockets
                   [] r = "fillets" -> Fillets
                   [] OTHER -> <<>>

\* The first rule looks for the bores, classifies their ends and only then makes holes.
FindSegments ==
  /\ rule = "segments"
  /\ rule' = "ends" /\ segments' = Bores
  /\ UNCHANGED <<recordVars, segmentEnds, todo, claimed, features>>
ClassifyEnds ==
  /\ rule = "ends"
  /\ rule' = "stacks" /\ segmentEnds' = UNION { Ends(b) : b \in segments }
  /\ UNCHANGED <<recordVars, segments, todo, claimed, features>>

\* The next rule runs, with what is claimed now.
NextRule ==
  /\ rule \in DOMAIN RuleAfter /\ todo = <<>>
  /\ rule' = RuleAfter[rule]
  /\ todo' = Candidates(RuleAfter[rule])
  /\ UNCHANGED <<recordVars, segments, segmentEnds, claimed, features>>

\* One candidate is claimed, or dropped because one of its faces is taken.
BugIsTaken(feature) == FALSE
IsTaken(feature) == feature.faces \cap claimed # {}
Claim ==
  /\ todo # <<>>
  /\ todo' = Tail(todo)
  /\ IF IsTaken(Head(todo)) THEN UNCHANGED <<claimed, features>>
     ELSE /\ claimed' = claimed \cup Head(todo).faces
          /\ features' = features \cup { Head(todo) }
  /\ UNCHANGED <<recordVars, rule, segments, segmentEnds>>

Leftover(f) == IF Type(f, {"plane"}) THEN Feature("planar_face", {f}, TRUE)
               ELSE Feature("unknown", {f}, FALSE)
ClaimRest ==
  /\ rule = "rest" /\ todo = <<>>
  /\ rule' = "recognized"
  /\ features' = features \cup { Leftover(f) : f \in Free }
  /\ UNCHANGED <<recordVars, segments, segmentEnds, todo, claimed>>

Recognize == FindSegments \/ ClassifyEnds \/ NextRule \/ Claim \/ ClaimRest
================================================================================
