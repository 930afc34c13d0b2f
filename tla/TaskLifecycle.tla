--------------------------- MODULE TaskLifecycle ---------------------------
(***************************************************************************)
(* What the task queue of util/queue.go promises of one task, whatever the *)
(* number of background loops, watchers and worker groups: it is handed to *)
(* its handler at most Limit[t] + 1 times, never by two workers at once,   *)
(* and it settles at most once.  GQueue implements this specification.      *)
(***************************************************************************)
EXTENDS Naturals

CONSTANTS Tasks,   (* the tasks that callers may enqueue                   *)
          Limit    (* Limit[t], a natural: how often t may be retried     *)

VARIABLES status,  (* status[t]: new, pending, running or settled          *)
          calls    (* calls[t]: how many times t's handler was called      *)

vars == <<status, calls>>

Init == /\ status = [t \in Tasks |-> "new"]
        /\ calls = [t \in Tasks |-> 0]

Move(t, from, to) == /\ status[t] = from
                     /\ status' = [status EXCEPT ![t] = to]

(* A caller hands the task over. *)
Accept(t) == Move(t, "new", "pending") /\ UNCHANGED calls

(* A worker calls the handler: one first call and Limit[t] retries. *)
Call(t) == /\ calls[t] <= Limit[t]
           /\ Move(t, "pending", "running")
           /\ calls' = [calls EXCEPT ![t] = @ + 1]

(* The handler failed and a retry is left: the task waits once more. *)
Retry(t) == /\ calls[t] <= Limit[t]
            /\ Move(t, "running", "pending")
            /\ UNCHANGED calls

(* The handler succeeded, panicked, or failed for the last time. *)
Settle(t) == Move(t, "running", "settled") /\ UNCHANGED calls

(* No handler is registered under the task's name: it is dropped. *)
Discard(t) == Move(t, "pending", "settled") /\ UNCHANGED calls

Next == \E t \in Tasks : \/ Accept(t)
                         \/ Call(t)
                         \/ Retry(t)
                         \/ Settle(t)
                         \/ Discard(t)

Spec == Init /\ [][Next]_vars
=============================================================================
