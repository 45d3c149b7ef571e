------------------------------- MODULE Target -------------------------------
(***************************************************************************)
(* AsyncTarget (python/remote_ffi/impl/target.py): the child process that  *)
(* connects back, answers the hello and serves one request at a time.      *)
(*                                                                         *)
(* It is one task, so an action is what it does between two awaits.  The   *)
(* connection is the one Initiator has: conn, up and down mean the same    *)
(* there.  down is a log, of which the target has read the first got.      *)
(***************************************************************************)
EXTENDS Registry, Sequences

CONSTANTS
  Clients, Callers,   \* as in Initiator
  Asks,               \* what each caller's request asks for
  MaxFrames           \* bound on what an arbitrary initiator sends

\* A request: the operation, and the handle it applies to.
Request == [op : {"dlopen", "dlsym", "call", "unknown"}, on : 0..MaxHandle]

\* A response: a handle, the encoded result of a function of the library, or an error.
Handle(h) == [tag |-> "handle", of |-> h]
Result(o) == [tag |-> "result", of |-> o]
Error     == [tag |-> "error", of |-> None]
Responses == {Handle(h) : h \in 1..MaxHandle} \cup {Result(o) : o \in Objects} \cup {Error}

ASSUME TargetAssumption ==
  /\ Asks \in [Callers -> Request]
  /\ None \notin Responses \cup Clients

VARIABLES
  conn, up, down, peer,    \* the connections, shared with the initiator
  tpc,                     \* where the target's task is suspended
  link,                    \* _transport: the connection it opened
  got,                     \* how many frames it has read from it
  ran                      \* the requests executed: whose, the object, the response

wire == <<conn, up, down, peer>>
vars == <<wire, tpc, link, got, ran, registry>>

-----------------------------------------------------------------------------
(* Its end of the connection.                                              *)

More  == got < Len(down[link])
Msg   == down[link][got + 1]
Takes == More /\ got' = got + 1

Deaf == conn[link] = "refused"   \* mutant: no timeout, and the end of file is missed

\* Nothing arrives within rw_timeout, the connection is gone, or what arrives is
\* no JSON, or no dictionary.
Fatal  == {"garbage", "notdict"}
Raises == (More => Msg.type \in Fatal) \/ conn[link] \in {"closed", "refused"}

Reaches  == conn[link] \in {"accepted", "open"}
Write(f) == up' = IF Reaches THEN [up EXCEPT ![link] = Append(@, f)] ELSE up

\* _serve_loop's finally branch, or an exception that ends init_port: either
\* way the process ends, and with it the connection.
Exit == /\ tpc' = "exited"
        /\ peer' = [c \in DOMAIN peer |-> IF c = link THEN peer[c] \cup {"eof"} ELSE peer[c]]

-----------------------------------------------------------------------------
(* init_port.                                                              *)

Connect(c) ==
  /\ tpc = "start" /\ conn[c] = "unused"
  /\ conn' = [conn EXCEPT ![c] = "accepted"]
  /\ link' = c /\ tpc' = "hello"
  /\ UNCHANGED <<up, down, peer, got, ran, registry>>

ConnectFails ==
  /\ tpc = "start" /\ Exit
  /\ UNCHANGED <<conn, up, down, link, got, ran, registry>>

Hello ==
  /\ tpc = "hello" /\ Takes
  /\ IF Msg.type = "hello"
     THEN /\ Write([type |-> "hello", id |-> 0, val |-> None])
          /\ tpc' = "greeted" /\ UNCHANGED peer
     ELSE Exit /\ UNCHANGED up
  /\ UNCHANGED <<conn, down, link, ran, registry>>

-----------------------------------------------------------------------------
(* _serve_loop.                                                            *)

Recording(val, obj) == ran' = Append(ran, [by |-> Msg.val, val |-> val, obj |-> obj])

\* An error response that cannot be sent ends the loop; a result that cannot be
\* sent is followed by an error response.
AlwaysError(val) == "drain"   \* mutant: so is an error
Draining(val)    == IF val = Error THEN "drainError" ELSE "drain"

Respond(val, obj) ==
  /\ Recording(val, obj)
  /\ Write([type |-> "res", id |-> Msg.id, val |-> val])
  /\ tpc' = Draining(val)
  /\ UNCHANGED peer

Ask == Asks[Msg.val]

\* _op_dlopen and _op_dlsym: the symbol resolver yields a live object.
Open ==
  /\ \/ Ask.op = "dlopen"
     \/ Ask.op = "dlsym" /\ Valid(Ask.on)
  /\ \E o \in Alive : Alloc(o) /\ Respond(Handle(HandleFor(o)), o)
  /\ UNCHANGED home

\* An unknown method or handle, or an operation that raises.
Refuse == Respond(Error, None) /\ UNCHANGED registry

Serve ==
  /\ tpc = "recv" /\ Takes
  /\ Msg.type = "req"
  /\ Open \/ Refuse
  /\ UNCHANGED <<conn, down, link>>

\* _op_call runs the function on the event loop: until it returns, if it ever
\* does, the target does nothing else.
StartCall ==
  /\ tpc = "recv" /\ More /\ Msg.type = "req"
  /\ Ask.op = "call" /\ Valid(Ask.on)
  /\ tpc' = "busy"
  /\ UNCHANGED <<wire, link, got, ran, registry>>

\* It ends the process: SystemExit is no Exception.
Exits == Recording(None, handleToObj[Ask.on]) /\ Exit /\ UNCHANGED up

\* It returns a value that has an encoding, or one that has none; or it raises.
Function ==
  /\ tpc = "busy" /\ Takes
  /\ \/ Respond(Result(handleToObj[Ask.on]), handleToObj[Ask.on])
     \/ Respond(Error, None)
     \/ Exits
  /\ UNCHANGED <<conn, down, link, registry>>

Ignore ==
  /\ tpc = "recv" /\ Takes
  /\ Msg.type \notin {"req"} \cup Fatal
  /\ UNCHANGED <<wire, tpc, link, ran, registry>>

Drained ==
  /\ tpc \in {"greeted", "drain", "drainError"} /\ Reaches
  /\ tpc' = "recv"
  /\ UNCHANGED <<wire, link, got, ran, registry>>

\* send_obj raises for a result that may get there all the same, and the error
\* response for the same request with it, if bytes are left to flush.
DrainRaises ==
  /\ tpc = "drain" /\ tpc' = "drainError"
  /\ Write([type |-> "res", id |-> down[link][got].id, val |-> Error]) \/ UNCHANGED up
  /\ UNCHANGED <<conn, down, peer, link, got, ran, registry>>

\* recv_obj or the second send_obj raises.
Leave ==
  /\ \/ tpc \in {"hello", "recv"} /\ Raises
     \/ tpc \in {"greeted", "drainError"}
  /\ Exit
  /\ UNCHANGED <<conn, up, down, link, got, ran, registry>>

Step ==
  \/ ConnectFails \/ Hello \/ Serve \/ StartCall \/ Ignore
  \/ Drained \/ DrainRaises \/ Leave

\* The interpreter creates objects, and collects those nobody refers to.
Interpreter ==
  /\ \E o \in Objects :
       \/ \E a \in Addresses : Create(o, a) /\ UNCHANGED tables
       \/ Collect(o)
  /\ UNCHANGED <<wire, tpc, link, got, ran>>

TargetInit ==
  /\ tpc = "start" /\ link = None /\ got = 0 /\ ran = <<>>
  /\ RegistryInit

-----------------------------------------------------------------------------
(* The target on its own, with an arbitrary initiator: it numbers its      *)
(* requests, but may send anything, and close the connection, at any time. *)

Init ==
  /\ TargetInit
  /\ conn = [c \in Clients |-> "unused"] /\ peer = [c \in Clients |-> {}]
  /\ up = [c \in Clients |-> <<>>] /\ down = [c \in Clients |-> <<>>]

PeerSends(c) ==
  /\ conn[c] = "accepted" /\ Len(down[c]) < MaxFrames
  /\ \E f \in [type : {"hello", "req", "notdict"}, id : {Len(down[c])}, val : Callers] :
       down' = [down EXCEPT ![c] = Append(@, f)]
  /\ UNCHANGED <<conn, up, peer, tpc, link, got, ran, registry>>

PeerCloses(c) ==
  /\ conn[c] = "accepted"
  /\ conn' = [conn EXCEPT ![c] = "closed"]
  /\ UNCHANGED <<up, down, peer, tpc, link, got, ran, registry>>

Next ==
  \/ Step \/ Function \/ Interpreter
  \/ \E c \in Clients : Connect(c) \/ PeerSends(c) \/ PeerCloses(c)

Spec == Init /\ [][Next]_vars /\ WF_vars(Step)

-----------------------------------------------------------------------------
\* Responses leave in the order of the requests. A request has one result, which
\* an error may follow, if send_obj raised for a result that arrived; a request
\* that failed has no result.
AnswersInOrder ==
  \A c \in Clients : \A i, j \in DOMAIN up[c] :
    i < j /\ up[c][i].type = "res" =>
      /\ up[c][i].id <= up[c][j].id
      /\ up[c][i].id = up[c][j].id => up[c][i].val # Error /\ up[c][j].val = Error

\* However long it serves, a handle it has answered designates the object that
\* was resolved for that request, and the object is alive.
HandlesHold ==
  \A i \in DOMAIN ran : LET h == ran[i].val IN
    h \in Responses /\ h.tag = "handle" =>
      Valid(h.of) /\ handleToObj[h.of] = ran[i].obj /\ ran[i].obj \in Alive

\* It never outlives its connection, unless a function keeps it.
EndsWithConnection ==
  (\E c \in Clients : link = c /\ conn[c] = "closed") ~> tpc \in {"exited", "busy"}

=============================================================================
