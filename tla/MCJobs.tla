--------------------------------- MODULE MCJobs --------------------------------
(***************************************************************************)
(* Instances of Jobs for TLC.                                              *)
(***************************************************************************)
EXTENDS Jobs, TLC

\* The workers are interchangeable, and no property tells them apart.
Symmetry == Permutations(Worker)
================================================================================
