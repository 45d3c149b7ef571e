----------------------------- MODULE Initiator -----------------------------
(***************************************************************************)
(* AsyncInitiator (python/remote_ffi/impl/initiator.py) on top of          *)
(* JSONLengthPrefixedTransport (python/remote_ffi/impl/transport.py).      *)
(*                                                                         *)
(* Everything runs on one asyncio event loop, so the unit of atomicity is  *)
(* the code between two suspension points: one action is one such segment, *)
(* and pc names the await a coroutine is suspended at.  The coroutines are *)
(* init_subprocess ("init"), the reader loop ("reader"), aclose ("close"), *)
(* one _send_request per caller, and one _on_client per connection.        *)
(*                                                                         *)
(* Timeouts (connect_timeout, rw_timeout) are enabled whenever what they   *)
(* wait for has not happened: time is arbitrary.                           *)
(***************************************************************************)
EXTENDS Integers, Sequences, FiniteSets, Functions

CONSTANTS
  Clients,     \* connections the outside world may open to the listener
  Callers,     \* user coroutines, each awaiting one dlopen, dlsym or call
  Values,      \* what a response can carry: a result or an error object
  PeerFrames,  \* the frames an arbitrary peer may send
  MaxQueue,    \* bound on the frames in flight towards the initiator
  Moves,       \* what users and the network do besides the normal case
  None

\* "absorb": until Python 3.12, wait_for swallows a cancellation that arrives
\* when its awaitable is already done. "attached": from Python 3.12.1 on,
\* Server.wait_closed waits for the connections the server has accepted.
AllMoves ==
  {"cancel", "closeEarly", "callEarly", "retry", "reinit", "stall", "absorb", "attached"}
FrameTypes == {"hello", "req", "res", "badres", "other", "notdict", "garbage"}
Frame      == [type : FrameTypes, id : Nat, val : Values \cup Callers \cup {None}]

Plain(t)  == [type |-> t, id |-> 0, val |-> None]
Req(i, r) == [type |-> "req", id |-> i, val |-> r]
Res(i, v) == [type |-> "res", id |-> i, val |-> v]   \* id 0: none, or no integer

\* A response whose error is no dict, or has a code that is no integer.
BadRes(i) == [type |-> "badres", id |-> i, val |-> None]

ASSUME InitiatorAssumption ==
  /\ None \notin Clients
  /\ Callers \cap {"init", "reader", "close"} = {}
  /\ PeerFrames \subseteq Frame
  /\ MaxQueue \in Nat
  /\ Moves \subseteq AllMoves

VARIABLES
  server,      \* _server is set
  proc,        \* _proc: the child process, "none", "running" or "exited"
  connected,   \* the future _client_connected
  closed,      \* _closed
  nextId,      \* _next_id
  transport,   \* _transport: the client connection it wraps, or None
  pending,     \* _pending: message id -> the caller whose future it is
  fut,         \* the future of each caller's request
  pc,          \* where each coroutine is suspended
  on,          \* the connection whose send_obj or recv_obj it is suspended in
  cancelled,   \* cancel() was called on the reader task
  conn,        \* each connection: "open" until the transport's _closed is set
  up,          \* frames in flight from each client
  down,        \* frames written to each client
  peer         \* per client: "eof" it has shut its end, "stalled" it does not read

attrs == <<server, proc, connected, closed, nextId>>
calls == <<pending, fut>>
links == <<up, down, peer>>
tasks == <<pc, on, cancelled>>
vars  == <<attrs, transport, calls, tasks, conn, links>>

Tasks == {"init", "reader", "close"} \cup Callers
At(t, l)      == pc' = [pc EXCEPT ![t] = l]
AtOn(t, l, c) == At(t, l) /\ on' = [on EXCEPT ![t] = c]

-----------------------------------------------------------------------------
(* JSONLengthPrefixedTransport.                                            *)

Live(c) == c # None /\ conn[c] = "open"

\* aclose: _closed is set and the writer closed before anything is awaited.
Shut(c) == conn' = [conn EXCEPT ![c] = "closed"]

\* Both writes of send_obj. asyncio drops what is written after the close,
\* unless earlier bytes are still waiting in the write buffer.
Writable(c) == conn[c] = "open" \/ "stalled" \in peer[c]
Write(c, f) == down' = IF Writable(c) THEN [down EXCEPT ![c] = Append(@, f)] ELSE down

\* Its drain raises on a closed connection, once the buffer is flushed, on a
\* stalled one (timeout), and on one that the peer has reset.
DrainReturns(t) == Writable(on[t])
DrainRaises(t)  == conn[on[t]] = "closed" \/ peer[on[t]] # {}

\* recv_obj gets a frame, or raises: rw_timeout, end of file, local close,
\* no transport to call it on, or a payload that does not decode.
Incoming(t) == Head(up[on[t]])
Ready(t)    == on[t] # None /\ up[on[t]] # <<>> /\ Incoming(t).type # "garbage"
Receives(t) == Ready(t) /\ up' = [up EXCEPT ![on[t]] = Tail(@)]
Raises(t)   == Ready(t) => conn[on[t]] = "closed"

-----------------------------------------------------------------------------
(* _on_client: the first client is adopted, and a later one refused, for   *)
(* as long as there is a transport.                                        *)

VacantOnceClosed == ~Live(transport)   \* mutant: replaces a closed transport
Vacant == transport = None

OnClient(c) ==
  /\ conn[c] = "accepted"
  /\ conn' = [conn EXCEPT ![c] = IF Vacant THEN "open" ELSE "refused"]
  /\ transport' = IF Vacant THEN c ELSE transport
  /\ connected' = IF Vacant /\ connected = "waiting" THEN "done" ELSE connected
  /\ UNCHANGED <<server, proc, closed, nextId, calls, tasks, links>>

-----------------------------------------------------------------------------
(* init_subprocess.                                                        *)

ReaderAlive == pc["reader"] \notin {"none", "done"}

\* A user calls it: first, after a failed bind, or after aclose. Bound: not
\* while a reader task of an earlier session lives on (pc follows one).
InitStart ==
  /\ ~server /\ pc["init"] \in {"idle", "failed", "ok"} /\ ~ReaderAlive
  /\ closed => "reinit" \in Moves
  /\ connected' = "waiting"
  /\ At("init", "bind")
  /\ UNCHANGED <<server, proc, closed, nextId, transport, calls, on, cancelled, conn, links>>

\* A second call returns at once if there is a server, whatever became of the first.
InitAgain ==
  /\ server /\ pc["init"] = "failed" /\ "retry" \in Moves
  /\ At("init", "ok")
  /\ UNCHANGED <<attrs, transport, calls, on, cancelled, conn, links>>

InitBind ==
  /\ pc["init"] = "bind"
  /\ \/ server' = TRUE /\ At("init", "spawn")
     \/ server' = server /\ At("init", "failed")
  /\ UNCHANGED <<proc, connected, closed, nextId, transport, calls, on, cancelled, conn, links>>

InitSpawn ==
  /\ pc["init"] = "spawn"
  /\ \/ proc' = "running" /\ At("init", "waitClient")
     \/ proc' = proc /\ At("init", "failed")
  /\ UNCHANGED <<server, connected, closed, nextId, transport, calls, on, cancelled, conn, links>>

WaitsForever == FALSE   \* mutant: no connect_timeout

\* wait_for cancels the future it gives up on, which is done from then on.
InitClientTimeout ==
  /\ pc["init"] = "waitClient" /\ connected = "waiting"
  /\ connected' = "done"
  /\ At("init", "failed")
  /\ UNCHANGED <<server, proc, closed, nextId, transport, calls, on, cancelled, conn, links>>

InitGreet ==
  /\ pc["init"] = "waitClient" /\ connected = "done" /\ transport # None
  /\ Write(transport, Plain("hello"))
  /\ AtOn("init", "greet", transport)
  /\ UNCHANGED <<attrs, transport, calls, cancelled, conn, up, peer>>

\* The transport is looked up anew after the await.
InitGreeted ==
  /\ pc["init"] = "greet" /\ DrainReturns("init") /\ transport # None
  /\ AtOn("init", "hello", transport)
  /\ UNCHANGED <<attrs, transport, calls, cancelled, conn, links>>

\* aclose took the transport away meanwhile.
InitNoTransport ==
  /\ \/ pc["init"] = "waitClient" /\ connected = "done"
     \/ pc["init"] = "greet" /\ DrainReturns("init")
  /\ transport = None
  /\ At("init", "failed")
  /\ UNCHANGED <<attrs, transport, calls, on, cancelled, conn, links>>

InitRaises ==
  /\ \/ pc["init"] = "greet" /\ DrainRaises("init")
     \/ pc["init"] = "hello" /\ Raises("init")
  /\ Shut(on["init"])
  /\ At("init", "failed")
  /\ UNCHANGED <<attrs, transport, calls, on, cancelled, links>>

\* A first message that is no hello leaves the transport open.
InitHello ==
  /\ pc["init"] = "hello" /\ Receives("init")
  /\ pc' = IF Incoming("init").type = "hello"
           THEN [pc EXCEPT !["init"] = "ok", !["reader"] = "created"]
           ELSE [pc EXCEPT !["init"] = "failed"]
  /\ UNCHANGED <<attrs, transport, calls, on, cancelled, conn, down, peer>>

\* The user gives up. Cancelled in bind or spawn, it fails as if those had failed.
InitCancelled ==
  /\ "cancel" \in Moves /\ pc["init"] \in {"waitClient", "greet", "hello"}
  /\ connected' = "done"
  /\ At("init", "failed")
  /\ UNCHANGED <<server, proc, closed, nextId, transport, calls, on, cancelled, conn, links>>

InitStep ==
  \/ InitBind \/ InitSpawn \/ InitClientTimeout \/ InitGreet \/ InitGreeted
  \/ InitNoTransport \/ InitRaises \/ InitHello

-----------------------------------------------------------------------------
(* _reader_loop.                                                           *)

\* The reader resumes with a result, not with CancelledError.
ReaderAt(l) ==
  /\ pc["reader"] = l
  /\ cancelled => "absorb" \in Moves
  /\ cancelled' = FALSE

\* Mutants: the table is cleared and nobody is told; done() is not consulted.
FailNone(table, lost) == fut' = fut /\ pending' = [i \in {} |-> None]
FailEvenDone(table, lost) ==
  /\ fut' = [r \in Callers |-> IF r \in Range(table)
                               THEN [fut[r] EXCEPT !.st = "failed"] ELSE fut[r]]
  /\ pending' = [i \in {} |-> None]

\* The except branch: every future in the table that is not done fails. One
\* that has left the table unsettled stays so: "dropped".
FailAll(table, lost) ==
  /\ fut' = [r \in Callers |->
       IF fut[r].st # "waiting" THEN fut[r]
       ELSE IF r \in Range(table) THEN [fut[r] EXCEPT !.st = "failed"]
       ELSE IF r \in lost THEN [fut[r] EXCEPT !.st = "dropped"] ELSE fut[r]]
  /\ pending' = [i \in {} |-> None]

\* Mutant: the transport is dropped, not closed.
ReaderForgets == transport' = None /\ At("reader", "done") /\ UNCHANGED conn

\* The finally branch, _cleanup_transport: it awaits only if it closes.
ReaderCleanup ==
  IF Live(transport)
  THEN Shut(transport) /\ At("reader", "cleanup") /\ UNCHANGED transport
  ELSE transport' = None /\ At("reader", "done") /\ UNCHANGED conn

ReaderStart ==
  /\ pc["reader"] = "created" /\ ~cancelled
  /\ AtOn("reader", IF transport = None THEN "done" ELSE "recv", transport)
  /\ UNCHANGED <<attrs, transport, calls, cancelled, conn, links>>

Msg     == Incoming("reader")
Answers == Msg.type \in {"res", "badres"} /\ Msg.id \in DOMAIN pending
Popped  == IF Answers THEN Restrict(pending, DOMAIN pending \ {Msg.id}) ELSE pending

\* Popped before its error is read, and settled by nobody if that raises.
Lost == IF Answers /\ Msg.type = "badres" THEN {pending[Msg.id]} ELSE {}

\* Mutant: pop without a default.
CrashesOnUnknown ==
  Msg.type = "notdict" \/ (Msg.type = "res" /\ Msg.id \notin DOMAIN pending)

\* A message that is no dict, an id that is no integer, a result for a future
\* that is already done because its caller was cancelled, or a malformed error.
Crashes ==
  \/ Msg.type = "notdict"
  \/ Msg.type \in {"res", "badres"} /\ Msg.id = 0
  \/ Answers /\ (Msg.type = "badres" \/ fut[pending[Msg.id]].st # "waiting")

ReaderTakes ==
  /\ ReaderAt("recv") /\ Receives("reader")
  /\ UNCHANGED <<attrs, down, peer>>

\* The message is ignored, or it resolves the future of its request.
ReaderDispatches ==
  /\ ReaderTakes /\ ~Crashes
  /\ pending' = Popped
  /\ fut' = IF Answers
            THEN [fut EXCEPT ![pending[Msg.id]] = [st |-> "answered", val |-> Msg.val]]
            ELSE fut
  /\ AtOn("reader", "recv", transport)
  /\ UNCHANGED <<transport, conn>>

ReaderCrashes ==
  /\ ReaderTakes /\ Crashes
  /\ FailAll(Popped, Lost) /\ ReaderCleanup
  /\ UNCHANGED on

\* recv_obj closes its transport, and awaits that, before it re-raises.
ReaderLosesPeer ==
  /\ ReaderAt("recv") /\ Raises("reader") /\ Live(on["reader"])
  /\ Shut(on["reader"])
  /\ At("reader", "recvClose")
  /\ UNCHANGED <<attrs, transport, calls, on, links>>

ReaderRaises ==
  /\ \/ ReaderAt("recv") /\ Raises("reader") /\ ~Live(on["reader"])
     \/ ReaderAt("recvClose")
  /\ FailAll(pending, {}) /\ ReaderCleanup
  /\ UNCHANGED <<attrs, on, links>>

ReaderCleaned ==
  /\ ReaderAt("cleanup")
  /\ transport' = None
  /\ At("reader", "done")
  /\ UNCHANGED <<attrs, calls, on, conn, links>>

\* CancelledError: swallowed by the loop, whose finally branch still runs;
\* in the finally branch itself, or before the first step, it ends the task.
ReaderCancelled ==
  /\ cancelled /\ cancelled' = FALSE
  /\ IF pc["reader"] \in {"recv", "recvClose"}
     THEN ReaderCleanup
     ELSE At("reader", "done") /\ UNCHANGED <<transport, conn>>
  /\ UNCHANGED <<attrs, calls, on, links>>

ReaderStep ==
  \/ ReaderStart \/ ReaderDispatches \/ ReaderCrashes \/ ReaderLosesPeer
  \/ ReaderRaises \/ ReaderCleaned \/ ReaderCancelled

-----------------------------------------------------------------------------
(* _send_request, the body of dlopen, dlsym and call.                      *)

MayCall(r) == pc[r] = "idle" /\ (pc["init"] = "ok" \/ "callEarly" \in Moves)

CallerRejected(r) ==
  /\ MayCall(r) /\ (closed \/ transport = None)
  /\ At(r, "raised")
  /\ UNCHANGED <<attrs, transport, calls, on, cancelled, conn, links>>

SameId == nextId   \* mutant: the increment is lost
NewId == nextId + 1

CallerSends(r) ==
  /\ MayCall(r) /\ ~closed /\ transport # None
  /\ nextId' = NewId
  /\ pending' = [i \in DOMAIN pending \cup {nextId} |-> IF i = nextId THEN r ELSE pending[i]]
  /\ fut' = [fut EXCEPT ![r].st = "waiting"]
  /\ Write(transport, Req(nextId, r))
  /\ AtOn(r, "drain", transport)
  /\ UNCHANGED <<server, proc, connected, closed, transport, cancelled, conn, up, peer>>

CallerDrained(r) ==
  /\ pc[r] = "drain" /\ DrainReturns(r)
  /\ At(r, "await")
  /\ UNCHANGED <<attrs, transport, calls, on, cancelled, conn, links>>

\* The entry in the table of pending futures is left behind.
CallerDrainRaises(r) ==
  /\ pc[r] = "drain" /\ DrainRaises(r)
  /\ Shut(on[r])
  /\ At(r, "raised")
  /\ UNCHANGED <<attrs, transport, calls, on, cancelled, links>>

CallerDone(r) ==
  /\ pc[r] = "await" /\ fut[r].st \in {"answered", "failed"}
  /\ At(r, IF fut[r].st = "answered" THEN "returned" ELSE "raised")
  /\ UNCHANGED <<attrs, transport, calls, on, cancelled, conn, links>>

\* The user gives up (asyncio.wait_for, task.cancel): awaiting the future,
\* that cancels the future too. It stays in the table.
CallerCancelled(r) ==
  /\ "cancel" \in Moves /\ pc[r] \in {"drain", "await"}
  /\ fut' = IF pc[r] = "await" /\ fut[r].st \in {"waiting", "dropped"}
            THEN [fut EXCEPT ![r].st = "cancelled"] ELSE fut
  /\ At(r, "cancelled")
  /\ UNCHANGED <<attrs, transport, pending, on, cancelled, conn, links>>

CallerStep(r) == CallerDrained(r) \/ CallerDrainRaises(r) \/ CallerDone(r)

-----------------------------------------------------------------------------
(* aclose.                                                                 *)

\* Mutant: the child is left to itself.
CloseServerOnly == transport' = None /\ server' = FALSE /\ At("close", "done")

ServerClosed == server' = FALSE /\ At("close", IF proc = "running" THEN "child" ELSE "done")

\* Once the transport is gone: the server, which stops listening at once, then
\* the child.
CloseServer ==
  /\ transport' = None
  /\ \/ ServerClosed
     \/ server /\ "attached" \in Moves /\ At("close", "server") /\ UNCHANGED server

\* A connection is attached to the server until it is lost: closed here, with
\* all written, or reset. That the peer has shut its end is not enough.
Attached(c) == conn[c] \in {"accepted", "open"} \/ (conn[c] = "closed" /\ "stalled" \in peer[c])

CloseTransport ==
  IF Live(transport)
  THEN Shut(transport) /\ At("close", "cleanup") /\ UNCHANGED <<transport, server>>
  ELSE CloseServer /\ UNCHANGED conn

Quiet == /\ pc["init"] \in {"idle", "ok", "failed"}
         /\ \A r \in Callers : pc[r] \notin {"drain", "await"}

CloseStart ==
  /\ pc["close"] = "idle" /\ (Quiet \/ "closeEarly" \in Moves)
  /\ closed' = TRUE
  /\ cancelled' = ReaderAlive
  /\ IF ReaderAlive
     THEN At("close", "awaitReader") /\ UNCHANGED <<transport, server, conn>>
     ELSE CloseTransport
  /\ UNCHANGED <<proc, connected, nextId, calls, on, links>>

CloseReaderDone ==
  /\ pc["close"] = "awaitReader" /\ ~ReaderAlive
  /\ CloseTransport
  /\ UNCHANGED <<proc, connected, closed, nextId, calls, on, cancelled, links>>

CloseCleaned ==
  /\ pc["close"] = "cleanup"
  /\ CloseServer
  /\ UNCHANGED <<proc, connected, closed, nextId, calls, on, cancelled, conn, links>>

\* wait_closed, which has no timeout. What counts as eof may be a reset.
CloseServerClosed ==
  /\ pc["close"] = "server"
  /\ \A c \in Clients : Attached(c) => "eof" \in peer[c]
  /\ ServerClosed
  /\ UNCHANGED <<proc, connected, closed, nextId, transport, calls, on, cancelled, conn, links>>

\* Mutant: wait without terminate.
CloseWaits ==
  /\ pc["close"] = "child" /\ proc = "exited"
  /\ At("close", "done")
  /\ UNCHANGED <<attrs, transport, calls, on, cancelled, conn, links>>

\* The child exits on SIGTERM, or on SIGKILL three seconds later.
CloseReaped ==
  /\ pc["close"] = "child"
  /\ proc' = "exited"
  /\ At("close", "done")
  /\ UNCHANGED <<server, connected, closed, nextId, transport, calls, on, cancelled, conn, links>>

\* What runs for certain once it can.
CloseStep ==
  \/ CloseReaderDone \/ CloseCleaned \/ CloseReaped
  \/ CloseServerClosed /\ \A c \in Clients : ~Attached(c)

-----------------------------------------------------------------------------
(* The world around the initiator: an arbitrary peer.                      *)

Listening == server /\ pc["close"] # "server"

ClientConnects(c) ==
  /\ Listening /\ conn[c] = "unused"
  /\ conn' = [conn EXCEPT ![c] = "accepted"]
  /\ UNCHANGED <<attrs, transport, calls, tasks, links>>

Speaks(c) == conn[c] \in {"accepted", "open"} /\ "eof" \notin peer[c]

PeerSends(c, f) ==
  /\ Speaks(c) /\ Len(up[c]) < MaxQueue
  /\ up' = [up EXCEPT ![c] = Append(@, f)]
  /\ UNCHANGED <<attrs, transport, calls, tasks, conn, down, peer>>

PeerChanges(c) ==
  /\ \/ Speaks(c) /\ peer' = [peer EXCEPT ![c] = @ \cup {"eof"}]
     \/ /\ conn[c] = "open" /\ "stall" \in Moves
        /\ peer' = [peer EXCEPT ![c] = @ \cup {"stalled"}]
     \/ "stalled" \in peer[c] /\ peer' = [peer EXCEPT ![c] = @ \ {"stalled"}]
  /\ UNCHANGED <<attrs, transport, calls, tasks, conn, up, down>>

ChildExits ==
  /\ proc = "running" /\ proc' = "exited"
  /\ UNCHANGED <<server, connected, closed, nextId, transport, calls, tasks, conn, links>>

-----------------------------------------------------------------------------
Init ==
  /\ server = FALSE /\ proc = "none" /\ connected = "none"
  /\ closed = FALSE /\ nextId = 1 /\ transport = None
  /\ pending = [i \in {} |-> None]
  /\ fut = [r \in Callers |-> [st |-> "none", val |-> None]]
  /\ pc = [t \in Tasks |-> IF t = "reader" THEN "none" ELSE "idle"]
  /\ on = [t \in Tasks |-> None]
  /\ cancelled = FALSE
  /\ conn = [c \in Clients |-> "unused"]
  /\ up = [c \in Clients |-> <<>>]
  /\ down = [c \in Clients |-> <<>>]
  /\ peer = [c \in Clients |-> {}]

\* What the initiator's own code does.
Code ==
  \/ \E c \in Clients : OnClient(c)
  \/ InitStep \/ ReaderStep \/ CloseStep \/ CloseServerClosed
  \/ \E r \in Callers : CallerStep(r)

\* What its users ask of it.
Users ==
  \/ InitStart \/ InitAgain \/ InitCancelled \/ CloseStart
  \/ \E r \in Callers : CallerRejected(r) \/ CallerSends(r) \/ CallerCancelled(r)

World ==
  \/ \E c \in Clients : ClientConnects(c) \/ PeerChanges(c)
  \/ \E c \in Clients, f \in PeerFrames : PeerSends(c, f)
  \/ ChildExits

Next == Code \/ Users \/ World
Spec == Init /\ [][Next]_vars

=============================================================================
