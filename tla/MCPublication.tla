------------------------------ MODULE MCPublication ---------------------------
(***************************************************************************)
(* The orders in which a sample may list its faces: two of the same faces, *)
(* and one of a shape with a face more.                                    *)
(* Nothing chooses between the two, nor between the builders, and all that *)
(* is checked is safety.                                                   *)
(***************************************************************************)
EXTENDS Publication, TLC

CONSTANTS forward, backward, refined

MCNumFaces == [o \in Order |-> IF o = refined THEN 3 ELSE 2]

Symmetry == Permutations(Builder) \cup Permutations({forward, backward})
================================================================================
