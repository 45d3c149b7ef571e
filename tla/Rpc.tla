-------------------------------- MODULE Rpc --------------------------------
(***************************************************************************)
(* What a session promises its callers: requests are executed in the order *)
(* in which they were issued, each at most once; a call that returns,      *)
(* returns what the execution of its own request gave; and every call that *)
(* was issued ends, if only with an exception.                             *)
(***************************************************************************)
EXTENDS Integers, Sequences, Functions

CONSTANTS
  Callers,
  Responses,   \* what executing a request may give
  Failed,      \* an exception that is no response
  None

VARIABLES
  issued,      \* the callers, in the order of their requests
  ran,         \* the requests executed: whose, and the response
  outcome      \* of each call: None, the response it returned, or Failed

vars == <<issued, ran, outcome>>

Issue(r) ==
  /\ outcome[r] = None /\ r \notin Range(issued)
  /\ issued' = Append(issued, r)
  /\ UNCHANGED <<ran, outcome>>

\* A request is executed even if its caller has given up. It may end the target.
Run(v) ==
  /\ Len(ran) < Len(issued)
  /\ ran' = Append(ran, [by |-> issued[Len(ran) + 1], val |-> v])
  /\ UNCHANGED <<issued, outcome>>

Return(r) ==
  /\ outcome[r] = None
  /\ \E i \in DOMAIN ran : ran[i].by = r /\ outcome' = [outcome EXCEPT ![r] = ran[i].val]
  /\ UNCHANGED <<issued, ran>>

\* The connection fails, before or after the request was executed, or the user gives up.
Fail(r) ==
  /\ outcome[r] = None
  /\ outcome' = [outcome EXCEPT ![r] = Failed]
  /\ UNCHANGED <<issued, ran>>

Finish(r) == r \in Range(issued) /\ (Return(r) \/ Fail(r))

Init ==
  /\ issued = <<>> /\ ran = <<>>
  /\ outcome = [r \in Callers |-> None]

Next ==
  \/ \E r \in Callers : Issue(r) \/ Return(r) \/ Fail(r)
  \/ \E v \in Responses \cup {None} : Run(v)

Safety == Init /\ [][Next]_vars
Spec   == Safety /\ \A r \in Callers : WF_vars(Finish(r))

=============================================================================
