----------------------------- MODULE CEndpoint -----------------------------
(***************************************************************************)
(* The C endpoint (src/rffi.c): rffi_create, rffi_ep_init_target,          *)
(* rffi_ep_call and rffi_destroy, in a process with one thread, a table of *)
(* file descriptors that it shares with the rest of the program, and peers *)
(* on the other end of its connections.                                    *)
(*                                                                         *)
(* The thread blocks in recv and read, so an action is what it does up to  *)
(* its next read.  A stream is a sequence of four-byte words: a frame is   *)
(* its length and then the words of its text, and nothing but the reader's *)
(* position tells one from the other.                                      *)
(***************************************************************************)
EXTENDS Integers, Sequences, Functions

CONSTANTS
  Handles,    \* what rffi_create returns
  Fds,        \* the file descriptors of the process
  Conns,      \* the connections it may make
  MaxWords,   \* the limit of 4096 bytes, in words
  MaxCalls,   \* bound on the calls made
  Moves,      \* what users, peers and signals do besides the normal case
  App,        \* a file of the rest of the program
  None

\* "reuse": a handle whose handshake failed is used on, or destroyed. "reinit":
\* one that is connected is initialised again. "long": a response exceeds the
\* limit. "signal": a handler without SA_RESTART runs during a read. "ask": the
\* peer sends requests of its own.
AllMoves == {"reuse", "reinit", "long", "signal", "ask"}

ASSUME CEndpointAssumption ==
  /\ Fds \subseteq Nat
  /\ None \notin Conns \cup Handles \cup {App} /\ App \notin Conns
  /\ MaxWords \in Nat \ {0} /\ MaxCalls \in Nat
  /\ Moves \subseteq AllMoves

VARIABLES
  life,      \* handles between rffi_create and rffi_destroy
  sock,      \* rffi->sock
  state,     \* of each handle: "new", "ready", or "stale": its handshake has failed
  files,     \* the descriptor table: what each descriptor is open on
  reqId,     \* the static req_id of rffi_ep_call
  pc, cur,   \* the read that the thread is blocked in, and for which handle
  left,      \* words of the frame that it has yet to read
  by,        \* the handle that made each connection
  gone,      \* connections that their peer has closed
  in,        \* words in flight from each peer
  out,       \* requests written to each connection: their id, and the call
  served,    \* how many of them the peer has answered
  answers    \* for each call that has returned, the call whose result it got, or 0

heap   == <<life, sock, state>>
thread == <<pc, cur, left>>
wire   == <<by, gone, in, out, served>>
vars   == <<heap, files, reqId, thread, wire, answers>>

NoSock == -1
Frame  == [type : {"hello", "req", "res"}, id : Nat, of : Nat]
Word   == [n : Nat, of : Frame]   \* n: the length it announces; 0 for text

\* A frame with n words of text.
Words(f, n) == [i \in 1..(n + 1) |-> [n |-> IF i = 1 THEN n ELSE 0, of |-> f]]

\* A length that the reader accepts. Text, taken for a length, is over the limit.
\* Mutant: the limit is not checked.
Announced(w) == w.n > 0
Fits(w)      == w.n \in 1..MaxWords

-----------------------------------------------------------------------------
(* Descriptors.                                                            *)

Free == {n \in Fds : files[n] = None}

\* The kernel gives out the lowest free descriptor.
Opened(n, x) == /\ n \in Free /\ \A m \in Free : n <= m
                /\ files' = [files EXCEPT ![n] = x]
Closed(n) == IF n \in Fds THEN [files EXCEPT ![n] = None] ELSE files

\* What the stored descriptor is open on, whatever that has become.
Line(h) == IF sock[h] \in Fds THEN files[sock[h]] ELSE None

\* The next word, for the pending read. Text is taken as it comes.
Arrives == Line(cur) \in Conns /\ in[Line(cur)] # <<>>
Next4   == Head(in[Line(cur)])
Reads   == Arrives /\ in' = [in EXCEPT ![Line(cur)] = Tail(@)]

\* read or recv returns 0 or -1: end of file, a closed descriptor, a signal; or
\* the descriptor is open on another file, which holds no response.
ReadFails ==
  \/ Line(cur) \notin Conns
  \/ ~Arrives /\ Line(cur) \in gone
  \/ "signal" \in Moves

At(l, n) == pc' = l /\ left' = n

-----------------------------------------------------------------------------
(* rffi_create and rffi_destroy.                                           *)

Create(h) ==
  /\ pc = "idle" /\ h \notin life
  /\ life' = life \cup {h}
  /\ sock' = [sock EXCEPT ![h] = NoSock]
  /\ state' = [state EXCEPT ![h] = "new"]
  /\ UNCHANGED <<files, reqId, thread, wire, answers>>

Usable(h) == h \in life /\ (state[h] = "stale" => "reuse" \in Moves)

Positive(n) == n > 0   \* mutant: descriptor 0 is left open
IsOpen(n)   == n >= 0

Destroy(h) ==
  /\ pc = "idle" /\ Usable(h)
  /\ files' = IF IsOpen(sock[h]) THEN Closed(sock[h]) ELSE files
  /\ life' = life \ {h}
  /\ UNCHANGED <<sock, state, reqId, thread, wire, answers>>

-----------------------------------------------------------------------------
(* rffi_ep_init_target.                                                    *)

MayInit(h) == pc = "idle" /\ Usable(h) /\ (state[h] = "ready" => "reinit" \in Moves)

\* Mutant: the descriptor in the handle is closed, not the new one.
ClosesStored(h) == Closed(sock[h])
Unconnected(h)  == files

\* No address, no socket, or connect fails, and closes what it opened.
InitFails(h) ==
  /\ MayInit(h)
  /\ files' = Unconnected(h)
  /\ UNCHANGED <<heap, reqId, thread, wire, answers>>

Connects(h, c) ==
  /\ MayInit(h) /\ by[c] = None
  /\ \E n \in Fds : Opened(n, c) /\ sock' = [sock EXCEPT ![h] = n]
  /\ by' = [by EXCEPT ![c] = h]
  /\ cur' = h /\ At("helloLength", 0)
  /\ UNCHANGED <<life, state, reqId, gone, in, out, served, answers>>

\* Every later error closes the connection; sock stays in the handle.
GivesUp ==
  /\ files' = Closed(sock[cur])
  /\ state' = [state EXCEPT ![cur] = "stale"]
  /\ At("idle", 0)

HelloLength ==
  /\ pc = "helloLength" /\ Reads
  /\ IF Fits(Next4) THEN At("helloText", Next4.n) /\ UNCHANGED <<files, state>>
                    ELSE GivesUp
  /\ UNCHANGED <<life, sock, reqId, cur, by, gone, out, served, answers>>

\* The last word completes the message; the answer to it may not get out, and
\* raise SIGPIPE.
HelloText ==
  /\ pc = "helloText" /\ Reads
  /\ \/ left > 1 /\ At(pc, left - 1) /\ UNCHANGED <<files, state>>
     \/ /\ left = 1 /\ Next4.of.type = "hello"
        /\ At("idle", 0)
        /\ state' = [state EXCEPT ![cur] = "ready"]
        /\ UNCHANGED files
     \/ left = 1 /\ (Next4.of.type = "hello" => Line(cur) \in gone) /\ GivesUp
     \/ /\ left = 1 /\ Next4.of.type = "hello" /\ Line(cur) \in gone
        /\ At("killed", 0) /\ UNCHANGED <<files, state>>
  /\ UNCHANGED <<life, sock, reqId, cur, by, gone, out, served, answers>>

HelloFails ==
  /\ pc \in {"helloLength", "helloText"} /\ ReadFails
  /\ GivesUp
  /\ UNCHANGED <<life, sock, reqId, cur, wire, answers>>

-----------------------------------------------------------------------------
(* rffi_ep_call. Parameters it refuses end it before it has any effect.    *)

\* Its number, among all calls. The results of both writes are ignored.
Call == Len(answers) + 1

CallSends(h) ==
  /\ pc = "idle" /\ Usable(h) /\ Call <= MaxCalls
  /\ out' = IF Line(h) \in Conns \ gone
            THEN [out EXCEPT ![Line(h)] = Append(@, [id |-> reqId, of |-> Call])]
            ELSE out
  /\ cur' = h /\ At("length", 0)
  /\ UNCHANGED <<heap, files, reqId, by, gone, in, served, answers>>

\* A connection that the peer has closed may be reset: SIGPIPE.
CallKilled(h) ==
  /\ pc = "idle" /\ Usable(h) /\ Line(h) \in gone
  /\ At("killed", 0)
  /\ UNCHANGED <<heap, files, reqId, cur, wire, answers>>

Returns(m) == answers' = Append(answers, m) /\ At("idle", 0)

\* What is over the limit stays in the stream.
Length ==
  /\ pc = "length" /\ Reads
  /\ IF Fits(Next4) THEN At("text", Next4.n) /\ UNCHANGED answers
                    ELSE Returns(0)
  /\ UNCHANGED <<heap, files, reqId, cur, by, gone, out, served>>

\* Mutant: one read, and what has arrived by then is parsed.
ReadsOnce(n) == n >= 1
Complete(n)  == n = 1

\* The id of the message decides if it is the response; its type is not looked at.
Matches(f) == f.id = reqId

Text ==
  /\ pc = "text" /\ Reads
  /\ \/ ~Complete(left) /\ At(pc, left - 1) /\ UNCHANGED <<reqId, answers>>
     \/ /\ Complete(left) /\ left = 1 /\ Matches(Next4.of)
        /\ reqId' = reqId + 1
        /\ Returns(Next4.of.of)
     \/ /\ Complete(left) /\ (left = 1 => ~Matches(Next4.of))
        /\ Returns(0) /\ UNCHANGED reqId
  /\ UNCHANGED <<heap, files, cur, by, gone, out, served>>

CallFails ==
  /\ pc \in {"length", "text"} /\ ReadFails
  /\ Returns(0)
  /\ UNCHANGED <<heap, files, reqId, cur, wire>>

-----------------------------------------------------------------------------
(* The rest of the process, and the peers.                                 *)

AppOpens ==
  /\ pc = "idle" /\ App \notin Range(files)
  /\ \E n \in Fds : Opened(n, App)
  /\ UNCHANGED <<heap, reqId, thread, wire, answers>>

AppCloses ==
  /\ pc = "idle"
  /\ \E n \in Fds : files[n] = App /\ files' = Closed(n)
  /\ UNCHANGED <<heap, reqId, thread, wire, answers>>

Speaks(c) == by[c] # None /\ c \notin gone

Sends(c, f, n) == in' = [in EXCEPT ![c] = @ \o Words(f, n)]

\* served[c] is -1 until it has sent its first message.
Greets(c) ==
  /\ Speaks(c) /\ served[c] = -1
  /\ \E t \in {"hello", "req"} : Sends(c, [type |-> t, id |-> 0, of |-> 0], 1)
  /\ served' = [served EXCEPT ![c] = 0]
  /\ UNCHANGED <<heap, files, reqId, thread, by, gone, out, answers>>

\* It answers each request once, in order: with a result, or an error, or a
\* result that the endpoint has no use for.
Serves(c) ==
  /\ Speaks(c) /\ served[c] \in 0..(Len(out[c]) - 1)
  /\ LET req == out[c][served[c] + 1]
         max == IF "long" \in Moves THEN MaxWords + 1 ELSE MaxWords
     IN  \E m \in {req.of, 0}, n \in 1..max :
           Sends(c, [type |-> "res", id |-> req.id, of |-> m], n)
  /\ served' = [served EXCEPT ![c] = @ + 1]
  /\ UNCHANGED <<heap, files, reqId, thread, by, gone, out, answers>>

\* Its own requests are numbered from 1, too.
PeerAsks(c) ==
  /\ Speaks(c) /\ "ask" \in Moves /\ served[c] # -1
  /\ \A i \in DOMAIN in[c] : in[c][i].of.type # "req"
  /\ \E i \in 1..MaxCalls : Sends(c, [type |-> "req", id |-> i, of |-> 0], 1)
  /\ UNCHANGED <<heap, files, reqId, thread, by, gone, out, served, answers>>

PeerCloses(c) ==
  /\ Speaks(c)
  /\ gone' = gone \cup {c}
  /\ UNCHANGED <<heap, files, reqId, thread, by, in, out, served, answers>>

-----------------------------------------------------------------------------
Init ==
  /\ life = {} /\ sock = [h \in Handles |-> NoSock] /\ state = [h \in Handles |-> "new"]
  /\ files = [n \in Fds |-> None] /\ reqId = 1
  /\ pc = "idle" /\ cur \in Handles /\ left = 0
  /\ by = [c \in Conns |-> None] /\ gone = {}
  /\ in = [c \in Conns |-> <<>>] /\ out = [c \in Conns |-> <<>>]
  /\ served = [c \in Conns |-> -1]
  /\ answers = <<>>

Endpoint ==
  \/ \E h \in Handles :
       \/ Create(h) \/ Destroy(h) \/ InitFails(h) \/ CallSends(h) \/ CallKilled(h)
       \/ \E c \in Conns : Connects(h, c)
  \/ HelloLength \/ HelloText \/ HelloFails
  \/ Length \/ Text \/ CallFails

World ==
  \/ AppOpens \/ AppCloses
  \/ \E c \in Conns : Greets(c) \/ Serves(c) \/ PeerAsks(c) \/ PeerCloses(c)

Next == Endpoint \/ World
Spec == Init /\ [][Next]_vars

-----------------------------------------------------------------------------
HeapOK ==
  /\ life \subseteq Handles
  /\ sock \in [Handles -> Fds \cup {NoSock}]
  /\ state \in [Handles -> {"new", "ready", "stale"}]
  /\ files \in [Fds -> Conns \cup {App, None}]

ThreadOK ==
  /\ pc \in {"idle", "helloLength", "helloText", "length", "text", "killed"}
  /\ cur \in Handles
  /\ left \in 0..MaxWords /\ (left # 0 <=> pc \in {"helloText", "text"})

WireOK ==
  /\ by \in [Conns -> Handles \cup {None}] /\ gone \subseteq Conns
  /\ in \in [Conns -> Seq(Word)]
  /\ out \in [Conns -> Seq([id : Nat, of : Nat])]
  /\ served \in [Conns -> Nat \cup {-1}]

CallsOK == reqId \in Nat \ {0} /\ answers \in Seq(Nat)

\* Everything has its type; in particular the words that are still to be read
\* fit in the buffer.
TypeOK == HeapOK /\ ThreadOK /\ WireOK /\ CallsOK

\* The descriptor in a handle is its own: as long as the handle is usable, the
\* descriptor is open on the connection that the handle made last, and so never
\* on that of another handle, nor on a file of the program, which rffi_destroy
\* and rffi_ep_call would then close and write to.
OwnDescriptor ==
  \A h \in life : state[h] = "ready" /\ pc = "idle" =>
    Line(h) \in Conns /\ by[Line(h)] = h

\* No connection is left open without a handle that closes it.
NothingLeaks ==
  \A n \in Fds : files[n] \in Conns => \E h \in life : sock[h] = n

\* A call returns the result of its own request, or none.
AnswerIsOwn == \A i \in DOMAIN answers : answers[i] \in {0, i}

=============================================================================
