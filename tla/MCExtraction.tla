------------------------------ MODULE MCExtraction -----------------------------
(***************************************************************************)
(* Shapes for the extraction stage, put together from their features: what *)
(* the recognizer may answer for them (`outcomes`) follows from how they   *)
(* were built.  A solid is a list of faces <<name, attributes>> and a list *)
(* of edges [on, convexity, pos, outer] between names.                     *)
(***************************************************************************)
EXTENDS Extraction

Side(type, dir, sign, pos, line, radius, side, span) ==
  [ type |-> type, dir |-> dir, sign |-> sign, pos |-> pos, line |-> line,
    radius |-> radius, side |-> side, span |-> span ]
Plane(dir, sign, pos) == Side("plane", dir, sign, pos, 0, 0, "n/a", 0)
Cylinder(dir, line, radius, side, span) == Side("cylinder", dir, 0, 0, line, radius, side, span)
Cone(dir, line) == Side("cone", dir, 0, 0, line, 0, "outside", 4)

\* An edge of the outer loops of both its faces, of one of them, and the seam of a face.
Edge(f, g, convexity, pos) ==
  [ on |-> <<f, g>>, convexity |-> convexity, pos |-> pos, outer |-> {f, g}, degenerate |-> FALSE ]
Rim(f, g, convexity, pos) == [ Edge(f, g, convexity, pos) EXCEPT !.outer = {g} ]
Seam(f) == Edge(f, f, "smooth", 0)
Apex(f) == [ Seam(f) EXCEPT !.on = <<f>>, !.degenerate = TRUE ]

Solid(sides, borders, outcomes) == [ sides |-> sides, borders |-> borders, outcomes |-> outcomes ]
Planar(names) == { <<"planar_face", {n}>> : n \in names }
Unknown(names) == { <<"unknown", {n}>> : n \in names }

-------------------------------------------------------------------------------
(***************************************************************************)
(* A disc with a hole along its axis                                       *)
(***************************************************************************)

DiscSides == << <<"top", Plane(3, 1, 3)>>, <<"bottom", Plane(3, -1, 0)>>,
                <<"rim", Cylinder(3, 0, 9, "inside", 4)>> >>
DiscBorders == << Edge("top", "rim", "convex", 3), Edge("bottom", "rim", "convex", 0), Seam("rim") >>
Disc == {"top", "bottom"}

\* A bore in one face with a seam, or in two halves.
Bore(name, radius) == << <<name, Cylinder(3, 0, radius, "outside", 4)>> >>
HalfBores == << <<"left", Cylinder(3, 0, 1, "outside", 2)>>,
                <<"right", Cylinder(3, 0, 1, "outside", 2)>> >>

Through ==
  Solid(DiscSides \o Bore("bore", 1),
        DiscBorders \o << Rim("top", "bore", "convex", 3), Seam("bore"),
                          Rim("bottom", "bore", "convex", 0) >>,
        { { <<"through_hole", {"bore"}>> } \cup Planar(Disc) \cup Unknown({"rim"}) })

ThroughHalves ==
  Solid(DiscSides \o HalfBores,
        DiscBorders \o << Edge("left", "right", "smooth", 0), Edge("right", "left", "smooth", 0),
                          Rim("top", "left", "convex", 3), Rim("top", "right", "convex", 3),
                          Rim("bottom", "left", "convex", 0), Rim("bottom", "right", "convex", 0) >>,
        { { <<"through_hole", {"left", "right"}>> } \cup Planar(Disc) \cup Unknown({"rim"}) })

\* The floor is in two faces, as exporters make it.
Blind ==
  Solid(DiscSides \o Bore("bore", 1) \o << <<"floor1", Plane(3, 1, 1)>>, <<"floor2", Plane(3, 1, 1)>> >>,
        DiscBorders \o << Rim("top", "bore", "convex", 3), Seam("bore"),
                          Edge("floor1", "bore", "concave", 1), Edge("floor2", "bore", "concave", 1),
                          Edge("floor1", "floor2", "smooth", 1) >>,
        { { <<"blind_hole", {"bore", "floor1", "floor2"}>> } \cup Planar(Disc) \cup Unknown({"rim"}) })

Drilled ==
  Solid(DiscSides \o Bore("bore", 1) \o << <<"point", Cone(3, 0)>> >>,
        DiscBorders \o << Rim("top", "bore", "convex", 3), Seam("bore"), Seam("point"),
                          Edge("point", "bore", "concave", 1), Apex("point") >>,
        { { <<"blind_hole", {"bore", "point"}>> } \cup Planar(Disc) \cup Unknown({"rim"}) })

\* Three bores, each narrower than the one above, open or closed below.
Steps == << <<"step1", Plane(3, 1, 2)>>, <<"step2", Plane(3, 1, 1)>> >>
SteppedBorders ==
  << Rim("top", "wide", "convex", 3), Seam("wide"), Edge("step1", "wide", "concave", 2),
     Rim("step1", "mid", "convex", 2), Seam("mid"), Edge("step2", "mid", "concave", 1),
     Rim("step2", "narrow", "convex", 1), Seam("narrow") >>
Bores3 == Bore("wide", 3) \o Bore("mid", 2) \o Bore("narrow", 1)
Stack == {"wide", "mid", "narrow", "step1", "step2"}

Stepped ==
  Solid(DiscSides \o Bores3 \o Steps,
        DiscBorders \o SteppedBorders \o << Rim("bottom", "narrow", "convex", 0) >>,
        { { <<"through_hole", Stack>> } \cup Planar(Disc) \cup Unknown({"rim"}) })
SteppedBlind ==
  Solid(DiscSides \o Bores3 \o Steps \o << <<"floor", Plane(3, 1, 0)>> >>,
        DiscBorders \o SteppedBorders \o << Edge("floor", "narrow", "concave", 0) >>,
        { { <<"blind_hole", Stack \cup {"floor"}>> } \cup Planar(Disc) \cup Unknown({"rim"}) })

-------------------------------------------------------------------------------
(***************************************************************************)
(* Prisms: a profile swept from the front face to the back face            *)
(***************************************************************************)

\* profile: <<name, attributes, convexity of the edge to the next one>>.
Prism(profile, sides, borders, outcomes) ==
  LET n == Len(profile)
  IN  Solid([ i \in 1..n |-> <<profile[i][1], profile[i][2]>> ]
              \o << <<"front", Plane(2, -1, 0)>>, <<"back", Plane(2, 1, 5)>> >> \o sides,
            [ i \in 1..n |-> Edge(profile[i][1], profile[(i % n) + 1][1], profile[i][3], 0) ]
              \o [ i \in 1..n |-> Edge(profile[i][1], "front", "convex", 0) ]
              \o [ i \in 1..n |-> Edge(profile[i][1], "back", "convex", 5) ] \o borders,
            outcomes)

\* A U profile: a clevis with a pin bore through its lugs, on one axis or on two.
U == << <<"base", Plane(3, -1, 0), "convex">>, <<"outR", Plane(1, 1, 3), "convex">>,
        <<"topR", Plane(3, 1, 3), "convex">>, <<"inR", Plane(1, -1, 2), "concave">>,
        <<"floor", Plane(3, 1, 1), "concave">>, <<"inL", Plane(1, 1, 1), "convex">>,
        <<"topL", Plane(3, 1, 3), "convex">>, <<"outL", Plane(1, -1, 0), "convex">> >>
Clevis(line, pins) ==
  Prism(U,
        << <<"pinL", Cylinder(1, 0, 1, "outside", 4)>>, <<"pinR", Cylinder(1, line, 1, "outside", 4)>> >>,
        << Rim("outL", "pinL", "convex", 0), Rim("inL", "pinL", "convex", 1), Seam("pinL"),
           Rim("outR", "pinR", "convex", 3), Rim("inR", "pinR", "convex", 2), Seam("pinR") >>,
        { { <<"through_hole", p>> : p \in pins }
          \cup { <<"slot", {"floor", "inL", "inR"}>> }
          \cup Planar({"base", "outR", "topR", "topL", "outL", "front", "back"}) })

\* The same slot with blends at its floor.
Blend(line) == Cylinder(2, line, 1, "outside", 1)
BlendedSlot ==
  Prism(<< <<"base", Plane(3, -1, 0), "convex">>, <<"outR", Plane(1, 1, 3), "convex">>,
           <<"topR", Plane(3, 1, 3), "convex">>, <<"inR", Plane(1, -1, 2), "smooth">>,
           <<"blendR", Blend(2), "smooth">>, <<"floor", Plane(3, 1, 1), "smooth">>,
           <<"blendL", Blend(1), "smooth">>, <<"inL", Plane(1, 1, 1), "convex">>,
           <<"topL", Plane(3, 1, 3), "convex">>, <<"outL", Plane(1, -1, 0), "convex">> >>,
        <<>>, <<>>,
        { { <<"slot", {"floor", "inL", "inR"}>>, <<"fillet", {"blendL"}>>, <<"fillet", {"blendR"}>> }
          \cup Planar({"base", "outR", "topR", "topL", "outL", "front", "back"}) })

\* A lug whose rounded end is in two faces, each of which could pass for a blend.
Lug ==
  Prism(<< <<"base", Plane(3, -1, 0), "convex">>, <<"outR", Plane(1, 1, 2), "smooth">>,
           <<"endR", Cylinder(2, 0, 1, "inside", 1), "smooth">>,
           <<"endL", Cylinder(2, 0, 1, "inside", 1), "smooth">>,
           <<"outL", Plane(1, -1, 0), "convex">> >>,
        <<>>, <<>>,
        { Unknown({"endL", "endR"}) \cup Planar({"base", "outR", "outL", "front", "back"}) })

-------------------------------------------------------------------------------
(***************************************************************************)
(* Cavities in the top of a block                                          *)
(***************************************************************************)

Block == << <<"base", Plane(3, -1, 0), "convex">>, <<"outR", Plane(1, 1, 9), "convex">>,
            <<"top", Plane(3, 1, 3), "convex">>, <<"outL", Plane(1, -1, 0), "convex">> >>
BlockPlanes == {"base", "outR", "top", "outL", "front", "back"}

PocketSides == << <<"floor", Plane(3, 1, 1)>>, <<"west", Plane(1, 1, 2)>>, <<"south", Plane(2, 1, 2)>>,
                  <<"east", Plane(1, -1, 4)>>, <<"north", Plane(2, -1, 4)>> >>
PocketBorders(walls) ==
  [ i \in DOMAIN walls |-> Rim("top", walls[i], "convex", 3) ]
    \o [ i \in DOMAIN walls |-> Edge("floor", walls[i], "concave", 1) ]
SharpCorners == << Edge("south", "east", "concave", 0), Edge("east", "north", "concave", 0),
                   Edge("north", "west", "concave", 0) >>

\* One corner is round, and a hole goes on through the floor.
PocketWithHole ==
  Prism(Block,
        PocketSides \o << <<"corner", Cylinder(3, 5, 1, "outside", 1)>> >> \o Bore("bore", 1),
        PocketBorders(<<"west", "corner", "south", "east", "north">>) \o SharpCorners
          \o << Edge("west", "corner", "smooth", 0), Edge("corner", "south", "smooth", 0),
                Rim("floor", "bore", "convex", 1), Rim("base", "bore", "convex", 0), Seam("bore") >>,
        { { <<"pocket", {"floor", "west", "south", "east", "north", "corner"}>>,
            <<"through_hole", {"bore"}>> } \cup Planar(BlockPlanes) })

\* A stadium, with a floor or through the block.
StadiumSides == << <<"endL", Cylinder(3, 1, 1, "outside", 2)>>, <<"endR", Cylinder(3, 2, 1, "outside", 2)>>,
                   <<"near", Plane(2, 1, 2)>>, <<"far", Plane(2, -1, 4)>> >>
StadiumWallNames == <<"endL", "endR", "near", "far">>
StadiumBorders ==
  << Edge("endL", "near", "smooth", 0), Edge("endL", "far", "smooth", 0),
     Edge("endR", "near", "smooth", 0), Edge("endR", "far", "smooth", 0) >>
ThroughStadium ==
  Prism(Block, StadiumSides,
        StadiumBorders \o [ i \in 1..4 |-> Rim("top", StadiumWallNames[i], "convex", 3) ]
                       \o [ i \in 1..4 |-> Rim("base", StadiumWallNames[i], "convex", 0) ],
        { { <<"slot", ToSet(StadiumWallNames)>> } \cup Planar(BlockPlanes) })
FloorStadium ==
  Prism(Block, StadiumSides \o << <<"floor", Plane(3, 1, 1)>> >>,
        StadiumBorders \o PocketBorders(StadiumWallNames),
        { { <<"slot", ToSet(StadiumWallNames) \cup {"floor"}>> } \cup Planar(BlockPlanes) })

\* A channel whose floor a deeper cut divides: both halves of the floor see the same two
\* walls, so there are two candidates that overlap, and the first one gets the walls.
\* The walls go down to the bottom of the cut.
DividedSides ==
  << <<"floor2", Plane(3, 1, 2)>>, <<"cut", Plane(3, 1, 1)>>,
     <<"cut1", Plane(2, 1, 2)>>, <<"cut2", Plane(2, -1, 3)>> >>
DividedSlot ==
  LET sides == [ i \in 1..8 |-> <<U[i][1], U[i][2]>> ]
                 \o << <<"front", Plane(2, -1, 0)>>, <<"back", Plane(2, 1, 5)>> >> \o DividedSides
      around == [ i \in 1..8 |-> Edge(U[i][1], U[(i % 8) + 1][1], U[i][3], 0) ]
      front == [ i \in 1..8 |-> Edge(U[i][1], "front", "convex", 0) ]
      back == [ i \in 1..8 |-> Edge(IF U[i][1] = "floor" THEN "floor2" ELSE U[i][1], "back", "convex", 5) ]
      inside == << Edge("floor2", "inL", "concave", 0), Edge("floor2", "inR", "concave", 0),
                   Edge("floor", "cut1", "convex", 2), Edge("floor2", "cut2", "convex", 3),
                   Edge("cut", "cut1", "concave", 2), Edge("cut", "cut2", "concave", 3),
                   Edge("cut", "inL", "concave", 0), Edge("cut", "inR", "concave", 0),
                   Edge("cut1", "inL", "concave", 2), Edge("cut1", "inR", "concave", 2),
                   Edge("cut2", "inL", "concave", 3), Edge("cut2", "inR", "concave", 3) >>
  IN  Solid(sides, around \o front \o back \o inside,
            { { <<"slot", {f, "inL", "inR"}>> }
              \cup Planar({"base", "outR", "topR", "topL", "outL", "front", "back",
                           "cut", "cut1", "cut2", "floor", "floor2"} \ {f}) : f \in {"floor", "floor2"} })

-------------------------------------------------------------------------------
(***************************************************************************)
(* Inputs: names become numbers, with keys, areas and triangles            *)
(***************************************************************************)

Shape(solid, FaceKey(_, _), EdgeKey(_, _), fewTriangles) ==
  LET n == Len(solid.sides)
      m == Len(solid.borders)
      No(name) == CHOOSE i \in 1..n : solid.sides[i][1] = name
  IN  [ face |-> [ i \in 1..n |->
                     solid.sides[i][2] @@
                     [ key |-> FaceKey(i, n), area |-> 1 + ((i * i) % 7),
                       tris |-> IF fewTriangles /\ i = n THEN 0 ELSE IF i = 2 THEN 2 ELSE 1 ] ],
        edge |-> [ j \in 1..m |->
                     LET e == solid.borders[j]
                     IN  [ e EXCEPT !.on = [ k \in DOMAIN e.on |-> No(e.on[k]) ],
                                    !.outer = { No(f) : f \in e.outer } ] @@ [ key |-> EdgeKey(j, m) ] ],
        outcomes |-> { { <<x[1], { No(f) : f \in x[2] }>> : x \in o } : o \in solid.outcomes } ]

AsIs(i, n) == i
Reversed(i, n) == n + 1 - i
Shifted(i, n) == 1 + ((i + (n \div 2)) % n)
Paired(i, n) == i \div 2   \* faces that no key tells apart

Order(shape, Place(_, _)) ==
  [ shape |-> shape, faceOrder |-> [ i \in DOMAIN shape.face |-> Place(i, Len(shape.face)) ],
    edgeOrder |-> [ i \in DOMAIN shape.edge |-> Place(i, Len(shape.edge)) ] ]

Solids == { Through, ThroughHalves, Blind, Drilled, Stepped, SteppedBlind,
            Clevis(0, { {"pinL", "pinR"} }), Clevis(1, { {"pinL"}, {"pinR"} }),
            BlendedSlot, Lug, PocketWithHole, ThroughStadium, FloorStadium, DividedSlot }

MCInputs ==
  UNION { { Order(Shape(s, AsIs, AsIs, FALSE), Shifted),
            Order(Shape(s, Reversed, Shifted, FALSE), Shifted),
            Order(Shape(s, Shifted, Reversed, FALSE), Reversed),
            Order(Shape(s, Paired, Paired, FALSE), Reversed) } : s \in Solids }
  \cup { Order(Shape(Blind, AsIs, AsIs, TRUE), Reversed) }
================================================================================
