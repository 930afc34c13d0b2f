----------------------------- MODULE MCRuntime ------------------------------
(***************************************************************************)
(* A small instance of Runtime.                                            *)
(***************************************************************************)
EXTENDS Runtime, TLC

(* j2rpc: the receiver math, one without methods and one of the same name  *)
(* as the first; a function given to Use twice.                            *)
Method(n, outs, ins) == [name |-> n, outs |-> outs, ins |-> ins]

Math == {Method("add", <<"val", "err">>, <<"ctx", "plain", "ptr">>),
         Method("odd", <<"val">>, <<"ctxlike">>),
         Method("bad", <<"err", "val">>, <<>>),
         Method("AfterCall", <<"err">>, <<>>)}

MathReceivers == <<[name |-> "math", methods |-> Math], [name |-> "none", methods |-> {}],
                   [name |-> "math", methods |-> {Method("x", <<>>, <<>>)}]>>

In(fault, id, carries, method, params) ==
  [fault |-> fault, id |-> id, carries |-> carries, ns |-> "math", method |-> method,
   params |-> params]

RpcInputs ==
  {In("none", "good", {"result", "error"}, "add", <<"null">>),
   In("none", "good", {}, "add", <<"bad">>),
   In("none", "absent", {}, "add", <<>>), In("none", "good", {}, "bad", <<>>),
   In("none", "good", {"error"}, "odd", <<>>), In("json", "good", {"result"}, "add", <<>>),
   In("mistyped", "bad", {"result", "error"}, "add", <<>>)}
    \cup {In(f, "good", {}, "add", <<>>) : f \in {"health", "written", "size", "verb", "read", "split"}}

(* j2rpc2: groups, two methods under one path, a function.                 *)
Set(type, path) == [kind |-> type, path |-> path]
Rpc2Setup == <<Set("recover", <<>>), Set("user", <<>>), Set("user", <<"a">>),
               Set("user", <<"a", "b">>), Set("call", <<"a", "b", "c">>),
               Set("call", <<"a", "b", "c">>), Set("user", <<"a", "b", "c">>), Set("call", <<"d">>)>>

Call(fault, method, args) == [fault |-> fault, method |-> method, args |-> args]
Rpc2Calls == {Call("none", <<"a", "b", "c">>, "ok"), Call("none", <<"a", "b", "c">>, "bad"),
              Call("none", <<"d">>, "ok"), Call("none", <<"a">>, "ok"),
              Call("none", <<"x">>, "ok"), Call("json", <<"d">>, "ok")}

-----------------------------------------------------------------------------
(* The name of a single instance whose newFunc loads another one. *)
Loads == [k \in Names |-> IF k = "a" THEN "b" ELSE None]

MathUses == <<"a", "b", "a">>

Symmetry == Permutations(Reqs) \cup Permutations(Ctxs)
=============================================================================
