------------------------------ MODULE Session ------------------------------
(***************************************************************************)
(* An initiator and the target it launched: Initiator and Target composed  *)
(* over one TCP connection.  The arbitrary peer of Initiator becomes the   *)
(* Python target, running in the child process.                            *)
(***************************************************************************)
EXTENDS Initiator

CONSTANTS Asks, Objects, Addresses, MaxHandle, MaxFrames   \* as in Target

VARIABLES tpc, link, got, ran, nextHandle, handleToObj, objidToHandle, home

T == INSTANCE Target

ASSUME SessionAssumption ==
  /\ None \notin Addresses /\ MaxHandle \in Nat
  /\ Asks \in [Callers -> T!Request]
  /\ None \notin T!Responses /\ T!Responses \subseteq Values

registry == <<nextHandle, handleToObj, objidToHandle, home>>
target   == <<tpc, link, got, ran, registry>>
all      == <<vars, target>>

-----------------------------------------------------------------------------
SessionInit == Init /\ T!TargetInit

Idle      == <<server, proc, connected, closed, nextId, transport, calls, tasks>>
Initiates == (Code \/ Users) /\ UNCHANGED target

\* The child runs the target from the moment it is spawned until it is killed.
Connects == Listening /\ \E c \in Clients : T!Connect(c)
Serves   == /\ proc = "running" /\ (Connects \/ T!Step)
            /\ UNCHANGED Idle
Returns  == proc = "running" /\ T!Function /\ UNCHANGED Idle
Computes == proc = "running" /\ tpc # "exited" /\ T!Interpreter /\ UNCHANGED Idle

\* The process ends: on its own, by a crash, or by the initiator's signal; its
\* connection ends with it.
Crashed == ChildExits /\ UNCHANGED target
Gone    == tpc = "exited" /\ Crashed
Buried  == /\ proc = "exited" /\ tpc # "exited" /\ T!Exit
           /\ UNCHANGED <<conn, up, down, link, got, ran, registry, Idle>>

SessionNext == Initiates \/ Serves \/ Returns \/ Computes \/ Crashed \/ Buried

\* The event loop runs every task that can run, and so does the operating
\* system; users owe nothing, and a function that is called need not return.
Fairness ==
  /\ WF_all(InitStep /\ UNCHANGED target)
  /\ WF_all(ReaderStep /\ UNCHANGED target)
  /\ WF_all(CloseStep /\ UNCHANGED target)
  /\ \A r \in Callers : WF_all(CallerStep(r) /\ UNCHANGED target)
  /\ \A c \in Clients : WF_all(OnClient(c) /\ UNCHANGED target)
  /\ WF_all(Serves) /\ WF_all(Gone) /\ WF_all(Buried)

SessionSpec == SessionInit /\ [][SessionNext]_all /\ Fairness

-----------------------------------------------------------------------------
\* The session implements Rpc.
\* Ids number the requests that were written, from 1 on.
Sent    == {f \in UNION {Range(down[c]) : c \in Clients} : f.type = "req"}
Issued  == [i \in {f.id : f \in Sent} |-> (CHOOSE f \in Sent : f.id = i).val]
Ran     == [i \in DOMAIN ran |-> [by |-> ran[i].by, val |-> ran[i].val]]
Failed  == [tag |-> "failed", of |-> None]
Outcome == [r \in Callers |->
              CASE pc[r] = "returned"                 -> fut[r].val
                [] pc[r] \in {"raised", "cancelled"}  -> Failed
                [] OTHER                              -> None]

Abstract == INSTANCE Rpc WITH Responses <- T!Responses, issued <- Issued,
                              ran <- Ran, outcome <- Outcome

\* Requests are executed in order and at most once, and every call that returns
\* gives its caller the response to its own request; every call ends.
ImplementsRpc == Abstract!Spec

\* What a caller is told of an object is true of the target for as long as it
\* lives: the handle it got designates the object that was resolved for it.
HandlesGood ==
  \A r \in Callers : pc[r] = "returned" /\ fut[r].val.tag = "handle" =>
    \E i \in DOMAIN ran : LET h == fut[r].val.of IN
      ran[i].by = r /\ h \in DOMAIN handleToObj /\ handleToObj[h] = ran[i].obj

\* The server waits for a connection that nobody will close: it was adopted
\* after aclose had dropped the transport.
Stranded == pc["close"] = "server" /\ Live(transport)

\* aclose ends, even if the target is stuck in a function, and leaves no child,
\* unless a connection arrives so late that aclose does not see it.
CloseEnds == closed ~> (pc["close"] = "done" /\ proc # "running") \/ Stranded

\* init_subprocess ends, whatever becomes of the child.
InitEnds == (pc["init"] = "bind") ~> (pc["init"] \in {"ok", "failed"})

=============================================================================
