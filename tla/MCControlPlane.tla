---------------------------- MODULE MCControlPlane ----------------------------
(***************************************************************************)
(* Instances of ControlPlane: one request per kind of route.               *)
(***************************************************************************)
EXTENDS ControlPlane

CONSTANTS o1, o2, o3, c1, c2, approve, backup, render, publish

MCRoute == [r \in Requests |->
    CASE r = approve -> "connection" [] r = backup -> "backup"
      [] r = render -> "render" [] r = publish -> "publish"]

MCGeneration == [r \in Requests |-> 1]

Symmetry == Permutations(OperationIds) \cup Permutations(Callers)

=============================================================================
