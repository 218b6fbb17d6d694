------------------------------ MODULE MCOneWay ------------------------------
(* OneWay on small instances; symmetry only for runs without liveness. *)
EXTENDS OneWayInvariants, TLC

SeqSymmetry == Permutations(SeqIds)
=============================================================================
