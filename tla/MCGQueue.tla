------------------------------ MODULE MCGQueue ------------------------------
(* Small instances of GQueue. *)
EXTENDS GQueue, TLC

CONSTANTS t1, t2, t3, hA, hB, w

(* t1 retries once in group 2, t2 is a bare literal (no delay function) of *)
(* an unknown group, t3 starts later and never retries more than once.     *)
MCRequest ==
  [t \in Tasks |->
     CASE t = t1 -> [kind |-> "new", name |-> hA, group |-> 2,
                     maxRetry |-> 1, later |-> FALSE]
       [] t = t2 -> [kind |-> "literal", name |-> hA, group |-> 0,
                     maxRetry |-> 0, later |-> FALSE]
       [] OTHER  -> [kind |-> "new", name |-> hB, group |-> 1,
                     maxRetry |-> 1, later |-> TRUE]]

(* Of two workers group 1, which serves t2 and t3, has one slot. *)
MCGroups == (1 :> 5) @@ (2 :> 10)
=============================================================================
