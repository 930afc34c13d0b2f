---------------------------- MODULE MCQueryCache ----------------------------
(* Small instances of QueryCache: two rows, one search query. *)
EXTENDS QueryCache, TLC

CONSTANTS a, b, r1, r2, w1, w2

FewQueries == {[id |-> 1, raise |-> TRUE], [id |-> 0, raise |-> TRUE]}

FindQueries == FewQueries \cup {[id |-> 1, raise |-> FALSE]}

Symmetry == Permutations(Readers) \cup Permutations(Writers)
=============================================================================
