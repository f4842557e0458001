-------------------------------- MODULE Topology -------------------------------
(***************************************************************************)
(* Canonical faces and edges (cad2ml/topology/canonical.py and             *)
(* extract_entities of cad2ml/topology/entities.py).  The kernel lists the *)
(* faces and edges of a shape in an order of its own; the records are      *)
(* sorted by keys made of geometry alone, and every reference from one     *)
(* record to another is translated to canonical positions.                 *)
(*                                                                         *)
(* A shape has a sequence of faces, with their attributes and a sort key,  *)
(* and a sequence of edges: `on` lists the faces an edge lies on, as often *)
(* as it is used there, and `outer` the faces it bounds from outside.      *)
(* An operator named Bug... is a wrong form of the operator after it.      *)
(***************************************************************************)
EXTENDS Integers, Sequences, FiniteSets, SequencesExt

\* What the kernel has of a shape before anything refers to a position: faces and edges with
\* sort keys that can be compared, some area (extract_child turns a shape without one away);
\* an edge bounds, from outside or not, a face it lies on.
IsShape(shape) ==
  /\ Len(shape.face) \in Nat /\ DOMAIN shape.face = 1..Len(shape.face)
  /\ Len(shape.edge) \in Nat /\ DOMAIN shape.edge = 1..Len(shape.edge)
  /\ \A f \in DOMAIN shape.face :
       /\ shape.face[f].key \in Int /\ shape.face[f].area \in Nat /\ shape.face[f].tris \in Nat
  /\ \E f \in DOMAIN shape.face : shape.face[f].area > 0
  /\ \A e \in DOMAIN shape.edge :
       /\ {"key", "on", "outer"} \subseteq DOMAIN shape.edge[e]
       /\ shape.edge[e].key \in Int
       /\ ToSet(shape.edge[e].on) \subseteq DOMAIN shape.face
       /\ shape.edge[e].outer \subseteq ToSet(shape.edge[e].on)

\* A listing names everything once.
IsListing(order, items) == order \in Bijection(DOMAIN items, DOMAIN items)

\* The kernel's listing: its i-th face is faceOrder[i] of the shape, likewise its edges.
Placed(place, e) ==
  [ e EXCEPT !.on = [ k \in DOMAIN e.on |-> place[e.on[k]] ],
             !.outer = { place[f] : f \in e.outer } ]
Listed(shape, faceOrder, edgeOrder) ==
  LET place == [ f \in DOMAIN shape.face |-> CHOOSE i \in DOMAIN faceOrder : faceOrder[i] = f ]
  IN  [ face |-> [ i \in DOMAIN faceOrder |-> shape.face[faceOrder[i]] ],
        edge |-> [ j \in DOMAIN edgeOrder |-> Placed(place, shape.edge[edgeOrder[j]]) ] ]

\* canonical_order, as the position of each item: by key, then as listed.
BugPositions(items) ==
  [ i \in DOMAIN items |-> 1 + Cardinality({ j \in DOMAIN items : j < i }) ]
Positions(items) ==
  [ i \in DOMAIN items |->
      1 + Cardinality({ j \in DOMAIN items : \/ items[j].key < items[i].key
                                             \/ items[j].key = items[i].key /\ j < i }) ]
AtPosition(positions, p) == CHOOSE i \in DOMAIN positions : positions[i] = p

EdgeFaces(listed, e) == ToSet(listed.edge[e].on)
IsSeam(listed, e) == Len(listed.edge[e].on) >= 2 /\ Cardinality(EdgeFaces(listed, e)) = 1
FaceEdges(listed, f) == { e \in DOMAIN listed.edge : f \in EdgeFaces(listed, e) }
FaceAdj(listed, f) == (UNION { EdgeFaces(listed, e) : e \in FaceEdges(listed, f) }) \ {f}

\* Only an edge between two different faces has an angle.
Convexity(listed, e) ==
  LET n == Cardinality(EdgeFaces(listed, e))
  IN  IF listed.edge[e].degenerate \/ n = 0 THEN "unknown"
      ELSE IF IsSeam(listed, e) THEN "seam"
      ELSE IF n = 1 THEN "boundary"
      ELSE IF n > 2 THEN "non_manifold"
      ELSE listed.edge[e].convexity

BugTranslated(positions, S) == S
Translated(positions, S) == { positions[x] : x \in S }

FaceRecords(listed) ==
  LET canonical == Positions(listed.face)
      canonicalEdge == Positions(listed.edge)
  IN  [ p \in DOMAIN listed.face |->
          LET f == AtPosition(canonical, p)
              face == listed.face[f]
              outer == { e \in DOMAIN listed.edge : f \in listed.edge[e].outer }
          IN  [ key |-> face.key, area |-> face.area, tris |-> face.tris, type |-> face.type,
                dir |-> face.dir, sign |-> face.sign, pos |-> face.pos, line |-> face.line,
                radius |-> face.radius, side |-> face.side, span |-> face.span,
                listing |-> f,
                adj |-> Translated(canonical, FaceAdj(listed, f)),
                edges |-> Translated(canonicalEdge, FaceEdges(listed, f)),
                outer |-> Translated(canonicalEdge, outer) ] ]

EdgeRecords(listed) ==
  LET canonical == Positions(listed.face)
      canonicalEdge == Positions(listed.edge)
  IN  [ p \in DOMAIN listed.edge |->
          LET e == AtPosition(canonicalEdge, p)
          IN  [ faces |-> Translated(canonical, EdgeFaces(listed, e)),
                convexity |-> Convexity(listed, e), pos |-> listed.edge[e].pos ] ]
================================================================================
