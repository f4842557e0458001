------------------------------- MODULE Extraction ------------------------------
(***************************************************************************)
(* The extraction stage of one sample (extract_child in                    *)
(* cad2ml/extraction.py): canonical records, mesh, point cloud, face       *)
(* graph, views and features of a shape, the output checks, the lineage    *)
(* that ties them together, and what trace_face (cad2ml/lineage.py) later  *)
(* verifies of the stored arrays.                                          *)
(*                                                                         *)
(* Arrays hold canonical face positions, which start at 1 here; ranges are *)
(* half open and start at 0, as in the code.  The pixels of a view are     *)
(* numbers, 0 for the background.  Coordinates, normals and curvature are  *)
(* left out: the checks on them may come out either way.                   *)
(* An operator named Bug... is a wrong form of the operator after it.      *)
(***************************************************************************)
EXTENDS Recognizer, Topology

CONSTANTS
  Inputs,        \* [shape, faceOrder, edgeOrder]: shapes and how the kernel lists them
  MinTriangles,  \* min_triangles_per_face
  NumPoints, MinPoints,   \* num_points, min_points_per_face
  Pixel,         \* the pixels of the views
  MaskIds        \* a mask holds numbers below this (2^16 in the code)

ASSUME ExtractionAssumption ==
  /\ MinTriangles \in Nat \ {0} /\ NumPoints \in Nat /\ MinPoints \in Nat \ {0}
  /\ IsFiniteSet(Pixel) /\ MaskIds \in Nat \ {0}
  /\ \A i \in Inputs : /\ IsShape(i.shape)
                       /\ IsListing(i.faceOrder, i.shape.face) /\ IsListing(i.edgeOrder, i.shape.edge)

VARIABLES
  input,     \* the shape and the kernel's order of its faces and edges
  phase,
  mesh,      \* [tri: triangle -> face, range: face -> <<start, count>>]
  cloud,     \* [ids: point -> face, range: face -> <<start, count>>]
  graph,     \* [nodes, pairs]
  mask,      \* Pixel -> face or 0
  failed,    \* the failed checks, or the error of an earlier step
  lineage    \* what lineage.json says of each face

arrayVars == <<mesh, cloud, graph, mask>>
vars == <<input, phase, arrayVars, failed, lineage, recordVars, ruleVars>>

Phase == { "entities", "mesh", "points", "graph", "views", "features", "write", "stored", "failed" }

Init ==
  /\ input \in Inputs
  /\ phase = "entities"
  /\ faces = <<>> /\ edges = <<>>
  /\ mesh = [ tri |-> <<>>, range |-> <<>> ]
  /\ cloud = [ ids |-> <<>>, range |-> <<>> ]
  /\ graph = [ nodes |-> <<>>, pairs |-> {} ]
  /\ mask = [ p \in Pixel |-> 0 ]
  /\ rule = "waiting" /\ segments = {} /\ segmentEnds = {} /\ todo = <<>> /\ claimed = {} /\ features = {}
  /\ failed = {} /\ lineage = <<>>

ExtractEntities ==
  /\ phase = "entities"
  /\ LET listed == Listed(input.shape, input.faceOrder, input.edgeOrder)
     IN  faces' = FaceRecords(listed) /\ edges' = EdgeRecords(listed)
  /\ phase' = "mesh"
  /\ UNCHANGED <<input, arrayVars, failed, lineage, ruleVars>>

-------------------------------------------------------------------------------
(***************************************************************************)
(* Arrays in which every face owns a range                                 *)
(***************************************************************************)

SumOf(counts, S) == MapThenSumSet(LAMBDA i : counts[i], S)

BugRanges(counts) == [ i \in DOMAIN counts |-> <<SumOf(counts, 1..i), counts[i]>> ]
Ranges(counts) == [ i \in DOMAIN counts |-> <<SumOf(counts, 1..i - 1), counts[i]>> ]
Owners(counts) == FlattenSeq([ i \in DOMAIN counts |-> [ k \in 1..counts[i] |-> i ] ])

Tessellate ==
  /\ phase = "mesh"
  /\ IF \E f \in Face : faces[f].tris < MinTriangles
     THEN /\ failed' = {"TESSELLATION_FAILED"} /\ phase' = "failed"
          /\ UNCHANGED mesh
     ELSE /\ LET counts == [ f \in Face |-> faces[f].tris ]
             IN  mesh' = [ tri |-> Owners(counts), range |-> Ranges(counts) ]
          /\ phase' = "points" /\ UNCHANGED failed
  /\ UNCHANGED <<input, cloud, graph, mask, lineage, recordVars, ruleVars>>

\* allocate: a minimum for every face, the rest by area, largest remainders first.
Areas == [ f \in Face |-> faces[f].area ]
BugMorePoints(f, g, rest) == f < g
MorePoints(f, g, rest) ==   \* the order in which left-over points are given out
  LET total == SumOf(Areas, Face)
      Fraction(h) == (Areas[h] * rest) % total
  IN  Fraction(f) > Fraction(g) \/ (Fraction(f) = Fraction(g) /\ f < g)

Allocate ==
  LET n == Len(faces)
      rest == NumPoints - MinPoints * n
      total == SumOf(Areas, Face)
      share == [ f \in Face |-> (Areas[f] * rest) \div total ]
      left == rest - SumOf(share, Face)
      Before(f) == Cardinality({ g \in Face : MorePoints(g, f, rest) })
  IN  IF rest <= 0 \/ total = 0 THEN [ f \in Face |-> MinPoints ]
      ELSE [ f \in Face |-> MinPoints + share[f] + (IF Before(f) < left THEN 1 ELSE 0) ]

SamplePoints ==
  /\ phase = "points"
  /\ cloud' = [ ids |-> Owners(Allocate), range |-> Ranges(Allocate) ]
  /\ phase' = "graph"
  /\ UNCHANGED <<input, mesh, graph, mask, failed, lineage, recordVars, ruleVars>>

-------------------------------------------------------------------------------
(***************************************************************************)
(* Face graph and views                                                    *)
(***************************************************************************)

BugPairs(S) == S \X S
Pairs(S) == { p \in S \X S : p[1] # p[2] }

BuildGraph ==
  /\ phase = "graph"
  /\ graph' = [ nodes |-> [ f \in Face |-> f ],
                pairs |-> UNION { Pairs(edges[e].faces) : e \in DOMAIN edges } ]
  /\ phase' = "views"
  /\ UNCHANGED <<input, mesh, cloud, mask, failed, lineage, recordVars, ruleVars>>

\* A pixel shows the nearest triangle, or nothing.
RenderViews ==
  /\ phase = "views"
  /\ \E seen \in [ Pixel -> 0..Len(mesh.tri) ] :
       mask' = [ p \in Pixel |-> IF seen[p] = 0 THEN 0 ELSE mesh.tri[seen[p]] % MaskIds ]
  /\ phase' = "features"
  /\ rule' = "segments"
  /\ UNCHANGED <<input, mesh, cloud, graph, failed, lineage, recordVars,
                 segments, segmentEnds, todo, claimed, features>>

RecognizeFeatures ==
  /\ phase = "features"
  /\ Recognize
  /\ UNCHANGED <<input, phase, arrayVars, failed, lineage>>

-------------------------------------------------------------------------------
(***************************************************************************)
(* Output checks, lineage, trace_face                                      *)
(***************************************************************************)

Slice(s, from, to) == { s[i] : i \in from + 1..to }
Owned(s, f) == Cardinality({ i \in DOMAIN s : s[i] = f })
Shared == UNION { Pairs(edges[e].faces) : e \in DOMAIN edges }

Check(name) ==
  CASE name = "nodes" -> graph.nodes = [ f \in Face |-> f ]
    [] name = "in_range" -> graph.pairs \subseteq Face \X Face
    [] name = "self_loops" -> \A p \in graph.pairs : p[1] # p[2]
    [] name = "adjacency" -> graph.pairs = Shared
    [] name = "symmetric" -> \A p \in graph.pairs : <<p[2], p[1]>> \in graph.pairs
    [] name = "points" -> ToSet(cloud.ids) \subseteq Face
    [] name = "sampled" -> \A f \in Face : cloud.range[f][2] > 0
    [] name = "triangles" -> ToSet(mesh.tri) \subseteq Face
    [] name = "triangulated" -> \A f \in Face : mesh.range[f][2] > 0
    [] name = "masks" -> \A p \in Pixel : mask[p] <= Len(faces)
    [] name = "assigned" -> UNION { x.faces : x \in features } = Face

Checks == { "nodes", "in_range", "self_loops", "adjacency", "symmetric", "points", "sampled",
            "triangles", "triangulated", "masks", "assigned" }

\* numeric: a check on coordinates, normals or areas fails.
ValidateOutputs ==
  /\ phase = "features" /\ rule = "recognized"
  /\ \E numeric \in { {}, {"numeric"} } :
       failed' = { c \in Checks : ~Check(c) } \cup numeric
  /\ phase' = IF failed' = {} THEN "write" ELSE "failed"
  /\ UNCHANGED <<input, arrayVars, lineage, recordVars, ruleVars>>

Interval(range) == <<range[1], range[1] + range[2]>>

WriteLineage ==
  /\ phase = "write"
  /\ lineage' = [ f \in Face |->
       [ node |-> f, points |-> Interval(cloud.range[f]), triangles |-> Interval(mesh.range[f]),
         pixels |-> Cardinality({ p \in Pixel : mask[p] = f }) ] ]
  /\ phase' = "stored"
  /\ UNCHANGED <<input, arrayVars, failed, recordVars, ruleVars>>

\* What trace_face verifies of a face.
Carried(s, f, interval) ==
  /\ Slice(s, interval[1], interval[2]) = {f}
  /\ interval[2] > interval[1]
Traced(f) ==
  LET entry == lineage[f]
      node == entry.node
  IN  /\ graph.nodes[node] = f
      /\ Carried(cloud.ids, node, entry.points)
      /\ Owned(cloud.ids, node) = entry.points[2] - entry.points[1]
      /\ Carried(mesh.tri, node, entry.triangles)
      /\ Cardinality({ p \in Pixel : mask[p] = node }) = entry.pixels
      /\ { p[2] : p \in { q \in graph.pairs : q[1] = node } } = faces[f].adj

Next == \/ ExtractEntities \/ Tessellate \/ SamplePoints \/ BuildGraph \/ RenderViews
        \/ RecognizeFeatures \/ ValidateOutputs \/ WriteLineage

Spec == Init /\ [][Next]_vars

-------------------------------------------------------------------------------
(***************************************************************************)
(* Properties                                                              *)
(***************************************************************************)

\* Every variable keeps its type: records name existing faces and edges, features are of a
\* known type, arrays and lineage speak of canonical faces (extract_child).
TypeOK ==
  /\ input \in Inputs /\ phase \in Phase
  /\ \A f \in Face : /\ faces[f].adj \subseteq Face \ {f}
                     /\ faces[f].outer \subseteq faces[f].edges
                     /\ faces[f].edges \subseteq DOMAIN edges
  /\ \A e \in DOMAIN edges : edges[e].faces \subseteq Face
  /\ rule \in Rule
  /\ segments \subseteq (SUBSET Face) \ {{}}
  /\ \A e \in segmentEnds : e.bore \in segments /\ e.faces \subseteq Face /\ e.to \subseteq segments
  /\ ToSet(todo) \cup features \subseteq
       [ type : FeatureType, faces : (SUBSET Face) \ {{}}, sure : BOOLEAN ]
  /\ claimed \subseteq Face
  /\ ToSet(mesh.tri) \subseteq Face /\ ToSet(cloud.ids) \subseteq Face
  /\ graph.pairs \subseteq Face \X Face
  /\ mask \in [ Pixel -> Face \cup {0} ]
  /\ DOMAIN lineage \in { {}, Face }

Distinct(items) == \A i, j \in DOMAIN items : items[i].key = items[j].key => i = j
Rank(items, i) == Cardinality({ j \in DOMAIN items : items[j].key <= items[i].key })

\* Canonical ids do not depend on the order in which the kernel lists faces and edges: when
\* the sort keys differ, each face of the shape is found at the rank of its key, and so are
\* its neighbours, its edges and its outer loop (topology/canonical.py, extract_entities).
CanonicalRecords ==
  LET shapeFace == input.shape.face
      shapeEdge == input.shape.edge
      OnFace(f) == { e \in DOMAIN shapeEdge : f \in ToSet(shapeEdge[e].on) }
      At(f) == faces[Rank(shapeFace, f)]
  IN  phase # "entities" /\ Distinct(shapeFace) /\ Distinct(shapeEdge) =>
        \A f \in DOMAIN shapeFace :
          /\ At(f).key = shapeFace[f].key /\ At(f).area = shapeFace[f].area
          /\ At(f).adj = { Rank(shapeFace, g) : g \in
                            (UNION { ToSet(shapeEdge[e].on) : e \in OnFace(f) }) \ {f} }
          /\ At(f).edges = { Rank(shapeEdge, e) : e \in OnFace(f) }
          /\ At(f).outer = { Rank(shapeEdge, e) : e \in
                              { x \in DOMAIN shapeEdge : f \in shapeEdge[x].outer } }

\* No face is ever claimed by two features, however the rules overlap, and when recognition
\* is over every face has one (recognize; labels and lineage take the feature of a face).
FeaturesPartition ==
  /\ \A x, y \in features : x # y => x.faces \cap y.faces = {}
  /\ rule = "recognized" => \A f \in Face : \E x \in features : f \in x.faces

\* A shape built with known features is recognized as what it was built as, in whatever
\* order the kernel or the sort keys put its faces (the four rules and their priority).
Origin(p) == input.faceOrder[faces[p].listing]
AsBuilt ==
  rule = "recognized" =>
    { <<x.type, { Origin(p) : p \in x.faces }>> : x \in features } \in input.shape.outcomes

\* Points are given out completely, every face gets its minimum, a larger face never gets
\* fewer points than a smaller one, and none is a whole point off its share (allocate).
AllocationFair ==
  LET n == Len(faces)
      count == [ f \in Face |-> cloud.range[f][2] ]
      rest == Max({0, NumPoints - MinPoints * n})
      total == SumOf(Areas, Face)
  IN  Len(cloud.range) > 0 =>
        /\ Len(cloud.ids) = Max({NumPoints, MinPoints * n})
        /\ \A f \in Face : /\ count[f] >= MinPoints
                           /\ (count[f] - MinPoints) * total < Areas[f] * rest + total
                           /\ (count[f] - MinPoints) * total > Areas[f] * rest - total
        /\ \A f, g \in Face : Areas[f] > Areas[g] => count[f] >= count[g]

\* In a stored sample every face can be followed through graph, points, triangles and masks:
\* all the links trace_face verifies hold (lineage.py, the lineage of extract_child).
Traceable == phase = "stored" => \A f \in Face : Traced(f)

\* A sample fails for what may really go wrong, a face without triangles or inexact
\* coordinates: no check on ids, ranges or adjacency ever rejects a sample by itself.
OnlyGenuineFailures ==
  phase = "failed" =>
    \/ failed = {"numeric"}
    \/ failed = {"TESSELLATION_FAILED"} /\ \E f \in Face : faces[f].tris < MinTriangles
================================================================================
