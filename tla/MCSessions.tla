----------------------------- MODULE MCSessions -----------------------------
(* Small instances of Sessions: two processes, two requests, two logins. *)
EXTENDS Sessions, TLC

Symmetry == Permutations(Requests) \cup Permutations(Procs)
=============================================================================
