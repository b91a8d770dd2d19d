------------------------------ MODULE MCSessions ------------------------------
(* Sessions with a client that calls from several coroutines, and a server  *)
(* that calls back by name.                                                 *)
EXTENDS Sessions, TLC

CONSTANTS a, b

ClientServer ==
    a :> {"call", "fork", "queue", "exit"}
    @@ b :> {"callname", "sleep", "wait", "wakeup", "response", "exit"}

Bounds == a :> 3 @@ b :> 2
=============================================================================
