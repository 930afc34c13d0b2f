---------------------------- MODULE MCCacheKeys -----------------------------
(* Small instances of CacheKeys: two rows. *)
EXTENDS CacheKeys

Pk(i) == [kind |-> "pk", id |-> i]
Flag == [kind |-> "flag", id |-> 0]

(* FindByID puts its Condition before the key. *)
MixedClauses == {<<Pk(1)>>, <<Flag, Pk(1)>>}
=============================================================================
