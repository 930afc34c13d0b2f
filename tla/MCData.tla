------------------------------- MODULE MCData -------------------------------
(***************************************************************************)
(* A small instance of Data.                                               *)
(***************************************************************************)
EXTENDS Data, TLC

(* Clauses of primary keys only, or without any. *)
Pk(i) == [kind |-> "pk", id |-> i]
Flag == [kind |-> "flag", id |-> 0]
PureClauses == {<<Pk(1)>>, <<Pk(2)>>, <<Pk(1), Pk(2)>>, <<Pk(2), Pk(2)>>, <<Flag>>}

(* A hash with more fields than a batch, and a key without a separator. *)
Key(h, f) == [hash |-> h, field |-> f]
StoreKeys == {Key("a", "1"), Key("a", "2"), Key("a", "3"), Key("b", "")}

(* One pool with each dialect: more than allowed, and the smallest; 0 asks *)
(* for the default.                                                        *)
Settings(type, open, idle, life, idleLife) ==
  [type |-> type, open |-> open, idle |-> idle, life |-> life, idleLife |-> idleLife]
PoolOptions == {Settings("mysql", 5000, 3000, 0, 4000), Settings("pg", 1, 0, 1, 0)}

(* All processes run on one host. *)
OneHost == [p \in Procs |-> "host"]

Symmetry == Permutations(Procs) \cup Permutations(Reqs)
=============================================================================
