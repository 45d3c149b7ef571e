----------------------------- MODULE MCSession -----------------------------
(* Small instances of Session: one connection, one target.                 *)
EXTENDS Session, TLC

CONSTANTS c1, r1, r2, o1, o2, a1, a2

\* One caller opens a library, the other calls what it hopes was the first handle.
OpenAndCall == r1 :> [op |-> "dlopen", on |-> 0] @@ r2 :> [op |-> "call", on |-> 1]

Replies == T!Responses

=============================================================================
