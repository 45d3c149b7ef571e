------------------------------ MODULE MCTarget ------------------------------
(* A small instance of Target: three kinds of requests, any of them first. *)
EXTENDS Target, TLC

CONSTANTS c1, r1, r2, r3, o1, o2, o3, a1, a2

OpenFindCall == r1 :> [op |-> "dlopen", on |-> 0]
             @@ r2 :> [op |-> "dlsym", on |-> 1]
             @@ r3 :> [op |-> "call", on |-> 2]

=============================================================================
