-------------------------------- MODULE Versions -------------------------------
(***************************************************************************)
(* What the dataset store and its table promise (docs/architecture.md:42,  *)
(* cad2ml/datasets/builder.py, docstring): a version appears whole and     *)
(* stays, only such a version is listed, and at most one client is told    *)
(* that it was created.                                                    *)
(***************************************************************************)
EXTENDS Naturals

CONSTANT Version

VARIABLES
  state,       \* "absent", "whole", or "torn" if the files do not belong together
  listed,      \* the versions in the table
  created      \* how many clients were told that a version is new

vars == <<state, listed, created>>

Init ==
  /\ state = [v \in Version |-> "absent"]
  /\ listed = {}
  /\ created = [v \in Version |-> 0]

\* No other version changes.
Publish(v) ==
  /\ state[v] = "absent" /\ state'[v] = "whole"
  /\ state' = [state EXCEPT ![v] = state'[v]]
  /\ UNCHANGED <<listed, created>>

List(v) ==
  /\ state[v] = "whole" /\ v \notin listed
  /\ listed' = listed \cup {v}
  /\ UNCHANGED <<state, created>>

Tell(v) ==
  /\ v \in listed /\ created[v] = 0
  /\ created' = [created EXCEPT ![v] = 1]
  /\ UNCHANGED <<state, listed>>

Next == \E v \in Version : Publish(v) \/ List(v) \/ Tell(v)
Spec == Init /\ [][Next]_vars
================================================================================
