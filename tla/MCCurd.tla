------------------------------- MODULE MCCurd -------------------------------
(* Small instances of Curd: two callers, two columns, a few calls. *)
EXTENDS Curd, TLC

Symmetry == Permutations(Clients)
=============================================================================
