------------------------------- MODULE MCDatasets ------------------------------
(***************************************************************************)
(* Instances of Datasets for TLC.                                          *)
(***************************************************************************)
EXTENDS Datasets

Samples4 == 1..4
Groups4 == 1..4
Families4 == 1..4

\* Group mode: up to four designs of two families and every relation of likeness.
\* Names carry no meaning, so that the first sample may be of design 1 and family
\* 1; a design without samples is of family 1.
GroupInputs ==
  { i \in [ mode : {"group"}, usable : {1..4, {1, 3, 4}},
            groupOf : { g \in [Samples4 -> Groups4] : g[1] = 1 },
            familyOf : { f \in [Groups4 -> 1..2] : f[1] = 1 }, near : SUBSET Pairs ] :
      \A g \in Groups4 : (\A s \in Samples4 : i.groupOf[s] # g) => i.familyOf[g] = 1 }

\* Family mode: up to four families; it does not look at likeness.
FamilyInputs ==
  [ mode : {"family"}, usable : SUBSET Samples4, groupOf : {[s \in Samples4 |-> s]},
    familyOf : [Groups4 -> Families4], near : {{}, {<<1, 2>>}} ]

MCInputs == GroupInputs \cup FamilyInputs
================================================================================
