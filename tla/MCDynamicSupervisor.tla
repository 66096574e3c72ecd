------------------------ MODULE MCDynamicSupervisor -------------------------
(* The names of children are interchangeable.                              *)
EXTENDS DynamicSupervisor, TLC

NameSymmetry == Permutations(Names)
=============================================================================
