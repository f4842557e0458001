------------------------------- MODULE MCSamples -------------------------------
(***************************************************************************)
(* Instances of Samples for TLC.                                           *)
(***************************************************************************)
EXTENDS Samples, TLC

\* The calls are interchangeable: each picks its parameters in Init.
Symmetry == Permutations(Call)
================================================================================
