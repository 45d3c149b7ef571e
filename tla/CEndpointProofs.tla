-------------------------- MODULE CEndpointProofs --------------------------
(***************************************************************************)
(* What is proved of the C endpoint, for any number of handles,            *)
(* descriptors, connections and calls, and any limit on messages.          *)
(***************************************************************************)
EXTENDS CEndpoint, SequenceTheorems, TLAPS

-----------------------------------------------------------------------------
(* Type correctness.                                                       *)

LEMMA WordsTyped ==
  ASSUME NEW f \in Frame, NEW n \in Nat
  PROVE  Words(f, n) \in Seq(Word)
<1>1. \A i \in 1..(n + 1) : [n |-> IF i = 1 THEN n ELSE 0, of |-> f] \in Word
  BY DEF Word
<1> QED
  BY <1>1 DEF Words

LEMMA ElementTyped ==
  ASSUME NEW S, NEW s \in Seq(S), NEW i \in 0..(Len(s) - 1)
  PROVE  s[i + 1] \in S
<1>1. i + 1 \in 1..Len(s)
  OBVIOUS
<1> QED
  BY <1>1

\* A read takes a word off the stream of a connection.
LEMMA ReadsTyped ==
  ASSUME TypeOK, Reads
  PROVE  /\ Line(cur) \in Conns
         /\ Next4 \in Word
         /\ in' \in [Conns -> Seq(Word)]
<1>1. Line(cur) \in Conns /\ in[Line(cur)] \in Seq(Word) /\ in[Line(cur)] # <<>>
  BY DEF TypeOK, WireOK, Reads, Arrives
<1>2. Head(in[Line(cur)]) \in Word /\ Tail(in[Line(cur)]) \in Seq(Word)
  BY <1>1
<1> QED
  BY <1>1, <1>2 DEF TypeOK, WireOK, Reads, Next4

LEMMA ClosedTyped ==
  ASSUME HeapOK, NEW n
  PROVE  Closed(n) \in [Fds -> Conns \cup {App, None}]
BY DEF HeapOK, Closed

LEMMA SendsTyped ==
  ASSUME WireOK, NEW c \in Conns, NEW f \in Frame, NEW n \in Nat, Sends(c, f, n)
  PROVE  in' \in [Conns -> Seq(Word)]
<1>1. in[c] \o Words(f, n) \in Seq(Word)
  BY WordsTyped DEF WireOK
<1> QED
  BY <1>1 DEF WireOK, Sends

LEMMA ReturnsTyped ==
  ASSUME CallsOK, NEW m \in Nat, Returns(m)
  PROVE  answers' \in Seq(Nat) /\ pc' = "idle" /\ left' = 0
BY DEF CallsOK, Returns, At

LEMMA GivesUpTyped ==
  ASSUME HeapOK, ThreadOK, GivesUp, UNCHANGED <<life, sock, cur>>
  PROVE  HeapOK' /\ ThreadOK'
<1>1. files' \in [Fds -> Conns \cup {App, None}]
  BY ClosedTyped DEF GivesUp
<1>2. HeapOK'
  BY <1>1 DEF HeapOK, ThreadOK, GivesUp
<1>3. ThreadOK'
  BY CEndpointAssumption DEF ThreadOK, GivesUp, At
<1> QED
  BY <1>2, <1>3

LEMMA NextTypeOK == TypeOK /\ [Next]_vars => TypeOK'
<1> SUFFICES ASSUME TypeOK, [Next]_vars PROVE TypeOK'
  OBVIOUS
<1> USE CEndpointAssumption
    DEF TypeOK, HeapOK, ThreadOK, WireOK, CallsOK, heap, thread, wire, At
<1>1. ASSUME NEW h \in Handles, Create(h) PROVE TypeOK'
  BY <1>1 DEF Create
<1>2. ASSUME NEW h \in Handles, Destroy(h) PROVE TypeOK'
  BY <1>2, ClosedTyped DEF Destroy
<1>3. ASSUME NEW h \in Handles, InitFails(h) PROVE TypeOK'
  BY <1>3 DEF InitFails, Unconnected
<1>4. ASSUME NEW h \in Handles, NEW c \in Conns, Connects(h, c) PROVE TypeOK'
  BY <1>4 DEF Connects, Opened
<1>5. CASE HelloLength
  <2>1. Next4 \in Word /\ in' \in [Conns -> Seq(Word)]
    BY <1>5, ReadsTyped DEF HelloLength
  <2>2. CASE Fits(Next4)
    <3>1. ThreadOK'
      BY <1>5, <2>2 DEF HelloLength, Fits
    <3> QED
      BY <1>5, <2>1, <2>2, <3>1 DEF HelloLength
  <2>3. CASE ~Fits(Next4)
    <3>1. HeapOK' /\ ThreadOK'
      BY <1>5, <2>3, GivesUpTyped DEF HelloLength
    <3> QED
      BY <1>5, <2>1, <3>1 DEF HelloLength
  <2> QED
    BY <2>2, <2>3
<1>6. CASE HelloText
  <2>1. in' \in [Conns -> Seq(Word)]
    BY <1>6, ReadsTyped DEF HelloText
  <2>2. CASE GivesUp
    <3>1. HeapOK' /\ ThreadOK'
      BY <1>6, <2>2, GivesUpTyped DEF HelloText
    <3> QED
      BY <1>6, <2>1, <3>1 DEF HelloText
  <2>3. CASE ~GivesUp
    BY <1>6, <2>1, <2>3 DEF HelloText
  <2> QED
    BY <2>2, <2>3
<1>7. CASE HelloFails
  BY <1>7, ClosedTyped DEF HelloFails, GivesUp
<1>8. ASSUME NEW h \in Handles, CallSends(h) PROVE TypeOK'
  <2>1. out' \in [Conns -> Seq([id : Nat, of : Nat])]
    <3>1. [id |-> reqId, of |-> Call] \in [id : Nat, of : Nat]
      BY DEF Call
    <3> QED
      BY <1>8, <3>1 DEF CallSends
  <2> QED
    BY <1>8, <2>1 DEF CallSends
<1>9. ASSUME NEW h \in Handles, CallKilled(h) PROVE TypeOK'
  BY <1>9 DEF CallKilled
<1>10. CASE Length
  <2>1. Next4 \in Word /\ in' \in [Conns -> Seq(Word)]
    BY <1>10, ReadsTyped DEF Length
  <2>2. ThreadOK' /\ CallsOK'
    <3>1. CASE Fits(Next4)
      BY <1>10, <3>1 DEF Length, Fits
    <3>2. CASE ~Fits(Next4)
      BY <1>10, <3>2, ReturnsTyped DEF Length
    <3> QED
      BY <3>1, <3>2
  <2> QED
    BY <1>10, <2>1, <2>2 DEF Length
<1>11. CASE Text
  <2>1. Next4 \in Word /\ in' \in [Conns -> Seq(Word)]
    BY <1>11, ReadsTyped DEF Text
  <2>2. Next4.of.of \in Nat
    BY <2>1 DEF Word, Frame
  <2>3. CASE ~Complete(left) /\ At(pc, left - 1) /\ UNCHANGED <<reqId, answers>>
    <3>1. ThreadOK' /\ CallsOK'
      BY <1>11, <2>3 DEF Text, Complete
    <3> QED
      BY <1>11, <2>1, <3>1 DEF Text
  <2>4. ASSUME NEW m \in Nat, Returns(m), reqId' \in {reqId, reqId + 1} PROVE TypeOK'
    <3>1. ThreadOK' /\ CallsOK'
      BY <1>11, <2>4, ReturnsTyped DEF Text
    <3> QED
      BY <1>11, <2>1, <3>1 DEF Text
  <2> QED
    BY <1>11, <2>2, <2>3, <2>4 DEF Text
<1>12. CASE CallFails
  BY <1>12, ReturnsTyped DEF CallFails
<1>13. CASE AppOpens \/ AppCloses
  BY <1>13, ClosedTyped DEF AppOpens, AppCloses, Opened
<1>14. ASSUME NEW c \in Conns, Greets(c) PROVE TypeOK'
  <2>1. PICK t \in {"hello", "req"} : Sends(c, [type |-> t, id |-> 0, of |-> 0], 1)
    BY <1>14 DEF Greets
  <2>2. [type |-> t, id |-> 0, of |-> 0] \in Frame
    BY DEF Frame
  <2>3. in' \in [Conns -> Seq(Word)]
    BY <2>1, <2>2, SendsTyped
  <2> QED
    BY <1>14, <2>3 DEF Greets
<1>15. ASSUME NEW c \in Conns, Serves(c) PROVE TypeOK'
  <2> DEFINE req == out[c][served[c] + 1]
  <2>1. req \in [id : Nat, of : Nat]
    <3>1. served[c] \in 0..(Len(out[c]) - 1)
      BY <1>15 DEF Serves
    <3> QED
      BY <3>1, ElementTyped
  <2>2. PICK m \in {req.of, 0}, n \in Nat :
          Sends(c, [type |-> "res", id |-> req.id, of |-> m], n)
    BY <1>15 DEF Serves
  <2>3. [type |-> "res", id |-> req.id, of |-> m] \in Frame
    BY <2>1 DEF Frame
  <2>4. in' \in [Conns -> Seq(Word)]
    BY <2>2, <2>3, SendsTyped
  <2>5. served' \in [Conns -> Nat \cup {-1}]
    BY <1>15 DEF Serves
  <2> QED
    BY <1>15, <2>4, <2>5 DEF Serves
<1>16. ASSUME NEW c \in Conns, PeerAsks(c) PROVE TypeOK'
  <2>1. PICK i \in 1..MaxCalls : Sends(c, [type |-> "req", id |-> i, of |-> 0], 1)
    BY <1>16 DEF PeerAsks
  <2>2. [type |-> "req", id |-> i, of |-> 0] \in Frame
    BY DEF Frame
  <2>3. in' \in [Conns -> Seq(Word)]
    BY <2>1, <2>2, SendsTyped
  <2> QED
    BY <1>16, <2>3 DEF PeerAsks
<1>17. ASSUME NEW c \in Conns, PeerCloses(c) PROVE TypeOK'
  BY <1>17 DEF PeerCloses
<1>18. CASE UNCHANGED vars
  BY <1>18 DEF vars
<1> QED
  BY <1>1, <1>2, <1>3, <1>4, <1>5, <1>6, <1>7, <1>8, <1>9, <1>10, <1>11, <1>12,
     <1>13, <1>14, <1>15, <1>16, <1>17, <1>18
  DEF Next, Endpoint, World

\* Everything keeps its type: in particular, what the peer says of the length
\* of its messages never lets the thread read more than its buffer holds.
THEOREM TypeCorrect == Spec => []TypeOK
<1>1. Init => TypeOK
  BY CEndpointAssumption DEF Init, TypeOK, HeapOK, ThreadOK, WireOK, CallsOK
<1> QED
  BY <1>1, NextTypeOK, PTL DEF Spec

-----------------------------------------------------------------------------
(* Descriptors.                                                            *)

InHello == pc \in {"helloLength", "helloText"}
Amid   == InHello \/ pc = "killed"
Own(h)  == sock[h] \in Fds /\ files[sock[h]] \in Conns /\ by[files[sock[h]]] = h

\* A handle that was never connected holds no descriptor, but in its handshake.
NewHoldsNone ==
  \A h \in life : state[h] = "new" =>
    sock[h] = NoSock \/ (h = cur /\ Amid)

\* Connected handles, and the one in its handshake, own what they hold. Since a
\* connection is made by one handle, none closes the descriptor of another.
DInv ==
  /\ \A h \in life : state[h] = "ready" => Own(h)
  /\ InHello => cur \in life /\ Own(cur)

\* Every connection that is open is held by the handle that made it, and that
\* handle is one that it may still be destroyed with.
Holds(n) == LET h == by[files[n]] IN
              /\ h \in life /\ sock[h] = n
              /\ state[h] = "stale" => h = cur /\ Amid
LInv == \A n \in Fds : files[n] \in Conns => Holds(n)

\* Most steps touch no descriptor, and have no part in a handshake.
Calm  == /\ UNCHANGED <<life, sock, state, files, by, cur>>
         /\ pc' = pc \/ (~Amid /\ ~Amid')

LEMMA CalmSteps ==
  ASSUME Next
  PROVE  \/ \E h \in Handles : Create(h) \/ Destroy(h) \/ InitFails(h) \/ CallSends(h) \/ CallKilled(h)
         \/ \E h \in Handles, c \in Conns : Connects(h, c)
         \/ HelloLength \/ HelloText \/ HelloFails
         \/ AppOpens \/ AppCloses
         \/ Calm
<1>1. CASE Length \/ Text \/ CallFails
  BY <1>1 DEF Length, Text, CallFails, Returns, At, heap, thread, wire, Calm, Amid, InHello
<1>2. CASE \E c \in Conns : Greets(c) \/ Serves(c) \/ PeerAsks(c) \/ PeerCloses(c)
  BY <1>2 DEF Greets, Serves, PeerAsks, PeerCloses, heap, thread, wire, Calm
<1> QED
  BY <1>1, <1>2 DEF Next, Endpoint, World

\* The steps of a handshake: it goes on, succeeds, or fails with the connection closed.
LEMMA HelloSteps ==
  ASSUME HelloLength \/ HelloText \/ HelloFails
  PROVE  /\ InHello /\ UNCHANGED <<life, sock, by, cur>>
         /\ \/ UNCHANGED <<files, state>> /\ (InHello' \/ pc' = "killed")
            \/ UNCHANGED files /\ pc' = "idle" /\ state' = [state EXCEPT ![cur] = "ready"]
            \/ GivesUp
BY DEF HelloLength, HelloText, HelloFails, At, InHello, wire

LEMMA NextNew == TypeOK /\ NewHoldsNone /\ [Next]_vars => NewHoldsNone'
<1> SUFFICES ASSUME TypeOK, NewHoldsNone, [Next]_vars PROVE NewHoldsNone'
  OBVIOUS
<1> USE DEF NewHoldsNone, Amid
<1>1. CASE UNCHANGED vars
  BY <1>1 DEF vars, heap, thread, InHello
<1>2. ASSUME NEW h \in Handles,
             Create(h) \/ Destroy(h) \/ InitFails(h) \/ CallSends(h) \/ CallKilled(h)
      PROVE NewHoldsNone'
  BY <1>2 DEF TypeOK, HeapOK, Create, Destroy, InitFails, CallSends, CallKilled, InHello, heap, thread
<1>3. ASSUME NEW h \in Handles, NEW c \in Conns, Connects(h, c) PROVE NewHoldsNone'
  BY <1>3 DEF TypeOK, HeapOK, Connects, MayInit, At, InHello
<1>4. CASE HelloLength \/ HelloText \/ HelloFails
  BY <1>4, HelloSteps DEF TypeOK, HeapOK, ThreadOK, GivesUp
<1>5. CASE AppOpens \/ AppCloses
  BY <1>5 DEF AppOpens, AppCloses, heap, thread, InHello
<1>6. CASE Calm
  BY <1>6 DEF Calm, Amid, InHello
<1> QED
  BY <1>1, <1>2, <1>3, <1>4, <1>5, <1>6, CalmSteps

LEMMA NextDInv ==
  ASSUME "reuse" \notin Moves
  PROVE  TypeOK /\ NewHoldsNone /\ DInv /\ [Next]_vars => DInv'
<1> SUFFICES ASSUME TypeOK, NewHoldsNone, DInv, [Next]_vars PROVE DInv'
  OBVIOUS
<1> USE CEndpointAssumption DEF DInv, Own
<1>1. CASE UNCHANGED vars
  BY <1>1 DEF vars, heap, thread, wire, InHello
<1>2. ASSUME NEW h \in Handles, Create(h) PROVE DInv'
  BY <1>2 DEF TypeOK, HeapOK, Create, InHello, thread, wire
<1>3. ASSUME NEW h \in Handles, Destroy(h) PROVE DInv'
  <2>1. state[h] # "stale" /\ h \in life
    BY <1>3 DEF Destroy, Usable
  <2>2. CASE state[h] = "new"
    <3>1. files' = files
      BY <1>3, <2>1, <2>2 DEF Destroy, NewHoldsNone, Amid, InHello, IsOpen, NoSock
    <3> QED
      BY <1>3, <3>1 DEF Destroy, InHello, thread, wire
  <2>3. CASE state[h] = "ready"
    <3>1. ASSUME NEW g \in life, g # h, state[g] = "ready" PROVE files'[sock[g]] = files[sock[g]]
      BY <1>3, <2>1, <2>3, <3>1 DEF TypeOK, HeapOK, Destroy, Closed
    <3> QED
      BY <1>3, <3>1 DEF Destroy, InHello, thread, wire
  <2> QED
    BY <2>1, <2>2, <2>3 DEF TypeOK, HeapOK
<1>4. ASSUME NEW h \in Handles, InitFails(h) \/ CallSends(h) \/ CallKilled(h) PROVE DInv'
  BY <1>4 DEF InitFails, Unconnected, CallSends, CallKilled, At, InHello, heap, thread, wire
<1>5. ASSUME NEW h \in Handles, NEW c \in Conns, Connects(h, c) PROVE DInv'
  <2>1. PICK n \in Fds : Opened(n, c) /\ sock' = [sock EXCEPT ![h] = n]
    BY <1>5 DEF Connects
  <2>2. /\ files[n] = None /\ files' = [files EXCEPT ![n] = c]
        /\ by[c] = None /\ by' = [by EXCEPT ![c] = h]
        /\ cur' = h /\ h \in life /\ UNCHANGED <<life, state>>
    BY <1>5, <2>1 DEF Connects, Opened, Free, MayInit, Usable
  <2>3. sock'[h] = n /\ files'[n] = c /\ by'[c] = h
    BY <2>1, <2>2 DEF TypeOK, HeapOK, WireOK
  <2>4. ASSUME NEW g \in life, g # h, state[g] = "ready"
        PROVE  sock'[g] \in Fds /\ files'[sock'[g]] \in Conns /\ by'[files'[sock'[g]]] = g
    <3>1. sock'[g] = sock[g] /\ sock[g] # n
      BY <2>1, <2>2, <2>4 DEF TypeOK, HeapOK
    <3>2. files'[sock[g]] = files[sock[g]] /\ files[sock[g]] # c
      BY <2>2, <2>4, <3>1 DEF TypeOK, HeapOK
    <3> QED
      BY <2>2, <2>4, <3>1, <3>2 DEF TypeOK, HeapOK, WireOK
  <2> QED
    BY <2>1, <2>2, <2>3, <2>4
<1>6. CASE HelloLength \/ HelloText \/ HelloFails
  <2>1. /\ InHello /\ cur \in life /\ Own(cur) /\ UNCHANGED <<life, sock, by, cur>>
    BY <1>6, HelloSteps
  <2>2. CASE UNCHANGED <<files, state>> \/ (UNCHANGED files /\ state' = [state EXCEPT ![cur] = "ready"])
    BY <2>1, <2>2 DEF TypeOK, HeapOK
  <2>3. CASE GivesUp
    <3>1. pc' = "idle" /\ state' = [state EXCEPT ![cur] = "stale"]
      BY <2>3 DEF GivesUp, At
    <3>2. ASSUME NEW g \in life, g # cur, state[g] = "ready" PROVE files'[sock[g]] = files[sock[g]]
      BY <2>1, <2>3, <3>2 DEF TypeOK, HeapOK, GivesUp, Closed
    <3> QED
      BY <2>1, <3>1, <3>2 DEF TypeOK, HeapOK, ThreadOK, InHello
  <2> QED
    BY <1>6, <2>2, <2>3, HelloSteps
<1>7. CASE AppOpens \/ AppCloses
  BY <1>7 DEF AppOpens, AppCloses, Opened, Free, Closed, TypeOK, HeapOK, InHello, heap, thread, wire
<1>8. CASE Calm
  BY <1>8 DEF Calm, Amid, InHello
<1> QED
  BY <1>1, <1>2, <1>3, <1>4, <1>5, <1>6, <1>7, <1>8, CalmSteps

\* In a program that leaves handles alone after their handshake has failed, the
\* descriptor of a connected handle is open on the connection it made, however
\* often descriptors are closed and given out again.
THEOREM Descriptors ==
  ASSUME "reuse" \notin Moves
  PROVE  Spec => []OwnDescriptor
<1>1. Init => TypeOK /\ NewHoldsNone /\ DInv
  BY CEndpointAssumption
  DEF Init, TypeOK, HeapOK, ThreadOK, WireOK, CallsOK, NewHoldsNone, DInv, InHello, Amid
<1>2. TypeOK /\ NewHoldsNone /\ DInv /\ [Next]_vars => (TypeOK /\ NewHoldsNone /\ DInv)'
  BY NextTypeOK, NextNew, NextDInv
<1>3. DInv => OwnDescriptor
  BY DEF DInv, OwnDescriptor, Own, Line
<1> QED
  BY <1>1, <1>2, <1>3, PTL DEF Spec

LEMMA NextLInv ==
  ASSUME "reinit" \notin Moves
  PROVE  TypeOK /\ NewHoldsNone /\ LInv /\ [Next]_vars => LInv'
<1> SUFFICES ASSUME TypeOK, NewHoldsNone, LInv, [Next]_vars,
                    NEW n \in Fds, files'[n] \in Conns
             PROVE  Holds(n)'
  BY DEF LInv
<1>0. files[n] \in Conns => Holds(n)
  BY DEF LInv
<1> USE CEndpointAssumption DEF Holds
<1>1. CASE UNCHANGED vars
  BY <1>0, <1>1 DEF vars, heap, thread, wire, Amid, InHello
<1>2. ASSUME NEW h \in Handles, Create(h) PROVE Holds(n)'
  <2>1. files[n] \in Conns /\ by[files[n]] # h
    BY <1>0, <1>2 DEF Create
  <2> QED
    BY <1>0, <1>2, <2>1 DEF TypeOK, HeapOK, WireOK, Create, Amid, InHello, thread, wire
<1>3. ASSUME NEW h \in Handles, Destroy(h) PROVE Holds(n)'
  <2>1. files' = IF IsOpen(sock[h]) THEN Closed(sock[h]) ELSE files
    BY <1>3 DEF Destroy
  <2>2. files'[n] = files[n] /\ sock[h] # n
    BY <2>1 DEF TypeOK, HeapOK, Closed, IsOpen
  <2> QED
    BY <1>0, <1>3, <2>2 DEF Destroy, Amid, InHello, thread, wire
<1>4. ASSUME NEW h \in Handles, InitFails(h) \/ CallSends(h) PROVE Holds(n)'
  BY <1>0, <1>4 DEF InitFails, Unconnected, CallSends, At, Amid, InHello, heap, thread, wire
<1>5. ASSUME NEW h \in Handles, CallKilled(h) PROVE Holds(n)'
  BY <1>0, <1>5 DEF CallKilled, At, Amid, InHello, heap, thread, wire
<1>6. ASSUME NEW h \in Handles, NEW c \in Conns, Connects(h, c) PROVE Holds(n)'
  <2>1. PICK m \in Fds : Opened(m, c) /\ sock' = [sock EXCEPT ![h] = m]
    BY <1>6 DEF Connects
  <2>2. /\ files[m] = None /\ files' = [files EXCEPT ![m] = c]
        /\ by[c] = None /\ by' = [by EXCEPT ![c] = h]
        /\ cur' = h /\ h \in life /\ UNCHANGED <<life, state>> /\ Amid' /\ ~Amid
        /\ state[h] # "ready"
    BY <1>6, <2>1
    DEF Connects, Opened, Free, MayInit, Usable, At, Amid, InHello
  <2>3. CASE n = m
    BY <2>1, <2>2, <2>3 DEF TypeOK, HeapOK, WireOK
  <2>4. CASE n # m
    <3>1. files'[n] = files[n] /\ Holds(n)
      BY <1>0, <2>2, <2>4 DEF TypeOK, HeapOK
    <3>2. files[n] # c
      BY <2>2, <3>1 DEF TypeOK, HeapOK, WireOK
    <3>3. by[files[n]] # h
      BY <2>2, <3>1 DEF NewHoldsNone, TypeOK, HeapOK, NoSock
    <3> QED
      BY <2>1, <2>2, <3>1, <3>2, <3>3 DEF TypeOK, HeapOK, WireOK
  <2> QED
    BY <2>3, <2>4
<1>7. CASE HelloLength \/ HelloText \/ HelloFails
  <2>1. InHello /\ UNCHANGED <<life, sock, by, cur>>
    BY <1>7, HelloSteps
  <2>2. CASE UNCHANGED <<files, state>> /\ (InHello' \/ pc' = "killed")
    BY <1>0, <2>1, <2>2 DEF Amid
  <2>3. CASE UNCHANGED files /\ state' = [state EXCEPT ![cur] = "ready"]
    BY <1>0, <2>1, <2>3 DEF TypeOK, HeapOK
  <2>4. CASE GivesUp
    <3>1. files' = Closed(sock[cur]) /\ state' = [state EXCEPT ![cur] = "stale"]
      BY <2>4 DEF GivesUp
    <3>2. files'[n] = files[n] /\ sock[cur] # n
      BY <3>1 DEF TypeOK, HeapOK, ThreadOK, Closed
    <3> QED
      BY <1>0, <2>1, <3>1, <3>2 DEF TypeOK, HeapOK
  <2> QED
    BY <1>7, <2>2, <2>3, <2>4, HelloSteps
<1>8. CASE AppOpens \/ AppCloses
  <2>1. files'[n] = files[n]
    BY <1>8 DEF AppOpens, AppCloses, Opened, Closed, TypeOK, HeapOK
  <2> QED
    BY <1>0, <1>8, <2>1 DEF AppOpens, AppCloses, Amid, InHello, heap, thread, wire
<1>9. CASE Calm
  BY <1>0, <1>9 DEF Calm, Amid, InHello
<1> QED
  BY <1>1, <1>2, <1>3, <1>4, <1>5, <1>6, <1>7, <1>8, <1>9, CalmSteps

\* In a program that initialises no handle twice, every connection that is left
\* open belongs to a handle that will close it, whatever else fails.
THEOREM Leaks ==
  ASSUME "reinit" \notin Moves
  PROVE  Spec => []NothingLeaks
<1>1. Init => TypeOK /\ NewHoldsNone /\ LInv
  BY CEndpointAssumption
  DEF Init, TypeOK, HeapOK, ThreadOK, WireOK, CallsOK, NewHoldsNone, LInv
<1>2. TypeOK /\ NewHoldsNone /\ LInv /\ [Next]_vars => (TypeOK /\ NewHoldsNone /\ LInv)'
  BY NextTypeOK, NextNew, NextLInv
<1>3. LInv => NothingLeaks
  BY DEF LInv, Holds, NothingLeaks
<1> QED
  BY <1>1, <1>2, <1>3, PTL DEF Spec

-----------------------------------------------------------------------------
(* Calls.                                                                  *)

Reading(c) == pc \in {"helloLength", "helloText", "length", "text"} /\ Line(cur) = c
Answered(c) == served[c] = Len(out[c])
ForCall(f) == f.of \in {0, Call}

\* A connection is open on one descriptor, and is made once.
OpenOnce ==
  /\ \A n \in Fds : files[n] \in Conns => by[files[n]] # None
  /\ \A m, n \in Fds : files[m] \in Conns /\ files[m] = files[n] => m = n

\* What is on a connection that nobody has made yet.
Unmade == \A c \in Conns : by[c] = None =>
            in[c] = <<>> /\ out[c] = <<>> /\ served[c] = -1 /\ c \notin gone

\* Between calls nothing is under way on an open connection.
Quiet(c) == in[c] = <<>> /\ (c \in gone \/ Answered(c))

\* One whole frame, and nothing else, is in flight.
OneFrame(c, n) == in[c] # <<>> /\ in[c] = Words(Head(in[c]).of, n)

HelloComes(c) ==
  /\ out[c] = <<>>
  /\ \/ pc = "helloLength" /\ in[c] = <<>> /\ served[c] = -1
     \/ pc = "helloLength" /\ served[c] = 0 /\ OneFrame(c, 1)
     \/ pc = "helloText" /\ served[c] = 0 /\ left = 1 /\ Len(in[c]) = 1

AnswerComes(c) ==
  \/ /\ pc = "length" /\ in[c] = <<>>
     /\ c \in gone \/ (/\ served[c] = Len(out[c]) - 1 /\ served[c] # -1
                       /\ out[c][Len(out[c])].of = Call)
  \/ /\ pc = "length" /\ Answered(c)
     /\ \E n \in 1..MaxWords : OneFrame(c, n) /\ ForCall(Head(in[c]).of)
  \/ /\ pc = "text" /\ Answered(c) /\ Len(in[c]) = left
     /\ \A i \in DOMAIN in[c] : ForCall(in[c][i].of)

Good(c) ==
  /\ ~Reading(c) => Quiet(c)
  /\ Reading(c) /\ InHello => HelloComes(c)
  /\ Reading(c) /\ ~InHello => AnswerComes(c)

\* The endpoint and its peers never fall out of step.
Lockstep == \A n \in Fds : files[n] \in Conns => Good(files[n])

HelloOpen == InHello => Line(cur) \in Conns

\* What has been made is made once, whatever else happens.
Tidy == OpenOnce /\ Unmade /\ HelloOpen

LEMMA OneFrameFacts ==
  ASSUME TypeOK, NEW c \in Conns, NEW n \in Nat, OneFrame(c, n)
  PROVE  /\ Head(in[c]).n = n
         /\ Len(Tail(in[c])) = n
         /\ \A i \in 1..n : Tail(in[c])[i].of = Head(in[c]).of
<1> DEFINE f == Head(in[c]).of
<1>1. in[c] = [i \in 1..(n + 1) |-> [n |-> IF i = 1 THEN n ELSE 0, of |-> f]]
  BY DEF OneFrame, Words
<1>2. in[c] \in Seq(Word) /\ Len(in[c]) = n + 1 /\ in[c] # <<>>
  <2>1. in[c] \in Seq(Word) /\ in[c] # <<>>
    BY DEF TypeOK, WireOK, OneFrame
  <2>2. DOMAIN in[c] = 1..(n + 1)
    BY <1>1
  <2> QED
    BY <2>1, <2>2
<1>3. Head(in[c]) = in[c][1] /\ in[c][1].n = n
  BY <1>1, <1>2
<1>4. Len(Tail(in[c])) = n /\ \A i \in 1..n : Tail(in[c])[i] = in[c][i + 1]
  BY <1>2
<1>5. \A i \in 1..n : in[c][i + 1].of = f
  BY <1>1
<1> QED
  BY <1>3, <1>4, <1>5

LEMMA SendsFacts ==
  ASSUME TypeOK, NEW c \in Conns, NEW f \in Frame, NEW n \in Nat, in[c] = <<>>, Sends(c, f, n)
  PROVE  OneFrame(c, n)' /\ Head(in'[c]).of = f /\ \A d \in Conns \ {c} : in'[d] = in[d]
<1>1. Words(f, n) \in Seq(Word) /\ Len(Words(f, n)) = n + 1 /\ Words(f, n)[1].of = f
  <2>1. Words(f, n) \in Seq(Word)
    BY WordsTyped
  <2>2. DOMAIN Words(f, n) = 1..(n + 1) /\ Words(f, n)[1].of = f
    BY DEF Words
  <2> QED
    BY <2>1, <2>2
<1>2. in[c] \o Words(f, n) = Words(f, n)
  BY <1>1
<1>3. in'[c] = Words(f, n) /\ \A d \in Conns \ {c} : in'[d] = in[d]
  BY <1>2 DEF Sends, TypeOK, WireOK
<1>4. Head(Words(f, n)) = Words(f, n)[1] /\ Words(f, n) # <<>>
  BY <1>1
<1> QED
  BY <1>1, <1>3, <1>4 DEF OneFrame

LEMMA NextTidy == TypeOK /\ Tidy /\ [Next]_vars => Tidy'
<1> SUFFICES ASSUME TypeOK, Tidy, [Next]_vars PROVE Tidy'
  OBVIOUS
<1> USE CEndpointAssumption DEF Tidy, OpenOnce, Unmade, HelloOpen
<1>1. CASE UNCHANGED vars
  BY <1>1 DEF vars, heap, thread, wire, InHello, Line
<1>2. ASSUME NEW h \in Handles, Create(h) \/ InitFails(h) PROVE Tidy'
  BY <1>2 DEF Create, InitFails, MayInit, Unconnected, InHello, heap, thread, wire
<1>3. ASSUME NEW h \in Handles, Destroy(h) PROVE Tidy'
  BY <1>3 DEF TypeOK, HeapOK, Destroy, Closed, InHello, thread, wire
<1>4. ASSUME NEW h \in Handles, NEW c \in Conns, Connects(h, c) PROVE Tidy'
  <2>1. PICK m \in Fds : Opened(m, c) /\ sock' = [sock EXCEPT ![h] = m]
    BY <1>4 DEF Connects
  <2>2. /\ files[m] = None /\ files' = [files EXCEPT ![m] = c]
        /\ by[c] = None /\ by' = [by EXCEPT ![c] = h]
        /\ cur' = h /\ UNCHANGED <<in, out, served, gone>>
    BY <1>4, <2>1 DEF Connects, Opened, Free
  <2>3. OpenOnce'
    BY <2>2 DEF TypeOK, HeapOK, WireOK
  <2>4. Unmade'
    BY <2>2 DEF TypeOK, WireOK
  <2>5. HelloOpen'
    BY <2>1, <2>2 DEF TypeOK, HeapOK, Line
  <2> QED
    BY <2>3, <2>4, <2>5
<1>5. ASSUME NEW h \in Handles, CallSends(h) PROVE Tidy'
  <2>1. UNCHANGED <<files, by, in, served, gone>> /\ ~InHello'
    BY <1>5 DEF CallSends, At, InHello
  <2>2. \A d \in Conns : by[d] = None => out'[d] = out[d]
    BY <1>5 DEF TypeOK, HeapOK, WireOK, CallSends, Line
  <2> QED
    BY <2>1, <2>2
<1>6. ASSUME NEW h \in Handles, CallKilled(h) PROVE Tidy'
  BY <1>6 DEF CallKilled, At, InHello, heap, wire
<1>7. CASE HelloLength \/ HelloText
  <2>1. Line(cur) \in Conns /\ by[Line(cur)] # None
    BY <1>7 DEF HelloLength, HelloText, Reads, Arrives, Line
  <2>2. Unmade'
    BY <1>7, <2>1 DEF TypeOK, WireOK, HelloLength, HelloText, Reads
  <2>3. CASE UNCHANGED files
    BY <1>7, <2>1, <2>2, <2>3 DEF HelloLength, HelloText, Line
  <2>4. CASE GivesUp
    BY <1>7, <2>2, <2>4 DEF HelloLength, HelloText, GivesUp, Closed, TypeOK, HeapOK, At, InHello
  <2> QED
    BY <1>7, <2>3, <2>4 DEF HelloLength, HelloText
<1>8. CASE HelloFails
  BY <1>8 DEF HelloFails, GivesUp, Closed, TypeOK, HeapOK, At, InHello, wire
<1>9. CASE Length \/ Text
  <2>1. Line(cur) \in Conns /\ by[Line(cur)] # None
    BY <1>9 DEF Length, Text, Reads, Arrives, Line
  <2>2. Unmade'
    BY <1>9, <2>1 DEF TypeOK, WireOK, Length, Text, Reads
  <2> QED
    BY <1>9, <2>2 DEF Length, Text, Returns, At, InHello
<1>10. CASE CallFails
  BY <1>10 DEF CallFails, Returns, At, InHello, wire
<1>11. CASE AppOpens \/ AppCloses
  BY <1>11 DEF TypeOK, HeapOK, AppOpens, AppCloses, Opened, Closed, InHello, heap, thread, wire
<1>12. ASSUME NEW c \in Conns, Greets(c) \/ Serves(c) \/ PeerAsks(c) \/ PeerCloses(c) PROVE Tidy'
  <2>1. by[c] # None /\ UNCHANGED <<heap, files, pc, cur, by, out>>
    BY <1>12 DEF Greets, Serves, PeerAsks, PeerCloses, Speaks, thread
  <2>2. \A d \in Conns \ {c} : in'[d] = in[d] /\ served'[d] = served[d] /\ (d \in gone' => d \in gone)
    BY <1>12 DEF TypeOK, WireOK, Greets, Serves, PeerAsks, PeerCloses, Sends
  <2> QED
    BY <2>1, <2>2 DEF heap, InHello, Line
<1> QED
  BY <1>1, <1>2, <1>3, <1>4, <1>5, <1>6, <1>7, <1>8, <1>9, <1>10, <1>11, <1>12
  DEF Next, Endpoint, World

\* A step after which the thread reads nothing keeps the connections good that
\* it was not reading, if it leaves what they carry alone.
LEMMA StaysQuiet ==
  ASSUME NEW c \in Conns, Good(c), ~Reading(c), ~Reading(c)',
         in'[c] = in[c], out'[c] = out[c], served'[c] = served[c], c \in gone => c \in gone'
  PROVE  Good(c)'
BY DEF Good, Quiet, Answered

LEMMA BusyIsOver == pc' \in {"idle", "killed"} => \A c : ~Reading(c)'
BY DEF Reading

LEMMA NextLockstep ==
  ASSUME Moves \cap {"long", "signal", "ask"} = {}
  PROVE  TypeOK /\ Tidy /\ Lockstep /\ [Next]_vars => Lockstep'
<1> SUFFICES ASSUME TypeOK, Tidy, Lockstep, [Next]_vars,
                    NEW n \in Fds, NEW c \in Conns, files'[n] = c
             PROVE  Good(c)'
  BY DEF Lockstep
<1> USE CEndpointAssumption
<1>0. files[n] = c => Good(c)
  BY DEF Lockstep
<1>1. CASE UNCHANGED vars
  BY <1>0, <1>1 DEF vars, heap, thread, wire, Good, Reading, Line, InHello, Quiet, Answered,
                    HelloComes, AnswerComes, OneFrame, ForCall, Call
<1>2. CASE /\ pc = "idle" /\ pc' = "idle" /\ UNCHANGED wire
           /\ files'[n] \in Conns => files'[n] = files[n]
  BY <1>0, <1>2, StaysQuiet, BusyIsOver DEF Reading, wire
<1>3. ASSUME NEW h \in Handles, Create(h) \/ Destroy(h) \/ InitFails(h) PROVE Good(c)'
  <2>1. files'[n] = files[n]
    BY <1>3 DEF Create, Destroy, InitFails, Unconnected, Closed, TypeOK, HeapOK
  <2> QED
    BY <1>2, <1>3, <2>1 DEF Create, Destroy, InitFails, MayInit, thread
<1>4. CASE AppOpens \/ AppCloses
  <2>1. files'[n] = files[n]
    BY <1>4 DEF AppOpens, AppCloses, Opened, Closed, TypeOK, HeapOK
  <2> QED
    BY <1>2, <1>4, <2>1 DEF AppOpens, AppCloses, thread
<1>5. ASSUME NEW h \in Handles, NEW d \in Conns, Connects(h, d) PROVE Good(c)'
  <2>1. PICK m \in Fds : Opened(m, d) /\ sock' = [sock EXCEPT ![h] = m]
    BY <1>5 DEF Connects
  <2>2. /\ files[m] = None /\ files' = [files EXCEPT ![m] = d]
        /\ by[d] = None /\ cur' = h /\ UNCHANGED <<in, out, served, gone>>
        /\ pc = "idle" /\ pc' = "helloLength"
    BY <1>5, <2>1 DEF Connects, Opened, Free, MayInit, At
  <2>3. Line(cur)' = d
    BY <2>1, <2>2 DEF TypeOK, HeapOK, Line
  <2>4. CASE c = d
    BY <2>2, <2>3, <2>4 DEF Tidy, Unmade, Good, Reading, InHello, HelloComes
  <2>5. CASE c # d
    <3>1. files[n] = c
      BY <2>2, <2>5 DEF TypeOK, HeapOK
    <3> QED
      BY <1>0, <2>2, <2>3, <2>5, <3>1, StaysQuiet DEF Reading
  <2> QED
    BY <2>4, <2>5
<1>6. ASSUME NEW h \in Handles, CallSends(h) PROVE Good(c)'
  <2>1. /\ files[n] = c /\ pc = "idle" /\ pc' = "length" /\ cur' = h
        /\ UNCHANGED <<sock, files, in, served, gone, answers>>
    BY <1>6 DEF CallSends, At, heap
  <2>2. Good(c) /\ ~Reading(c) /\ Quiet(c)
    BY <1>0, <2>1 DEF Good, Reading
  <2>3. CASE Line(h) # c
    <3>1. out'[c] = out[c]
      BY <1>6, <2>3 DEF CallSends, TypeOK, WireOK
    <3>2. ~Reading(c)'
      BY <2>1, <2>3 DEF Reading, Line
    <3> QED
      BY <2>1, <2>2, <3>1, <3>2, StaysQuiet
  <2>4. CASE Line(h) = c
    <3>1. CASE c \in gone
      BY <2>1, <2>2, <2>4, <3>1 DEF Good, Reading, InHello, AnswerComes, Quiet, Line
    <3>2. CASE c \notin gone
      <4>1. out'[c] = Append(out[c], [id |-> reqId, of |-> Call])
        BY <1>6, <2>4, <3>2 DEF CallSends, TypeOK, WireOK
      <4>2. out[c] \in Seq([id : Nat, of : Nat])
        BY DEF TypeOK, WireOK
      <4>3. Len(out'[c]) = Len(out[c]) + 1 /\ out'[c][Len(out'[c])].of = Call /\ Len(out[c]) \in Nat
        BY <4>1, <4>2
      <4>4. served'[c] = Len(out'[c]) - 1 /\ served'[c] # -1 /\ in'[c] = <<>> /\ Call' = Call
        BY <2>1, <2>2, <3>2, <4>3 DEF Quiet, Answered, Call
      <4> QED
        BY <2>1, <2>4, <4>3, <4>4 DEF Good, Reading, InHello, AnswerComes, Line
    <3> QED
      BY <3>1, <3>2
  <2> QED
    BY <2>3, <2>4
<1>7. ASSUME NEW h \in Handles, CallKilled(h) PROVE Good(c)'
  <2>1. files[n] = c /\ pc = "idle" /\ pc' = "killed" /\ UNCHANGED <<in, out, served, gone>>
    BY <1>7 DEF CallKilled, At, wire
  <2> QED
    BY <1>0, <2>1, StaysQuiet, BusyIsOver DEF Reading
<1>8. CASE (HelloLength \/ HelloText \/ HelloFails) /\ Line(cur) # c
  <2>1. InHello /\ Line(cur) \in Conns /\ UNCHANGED <<sock, cur, out, served, gone>>
    BY <1>8 DEF HelloLength, HelloText, HelloFails, InHello, Tidy, HelloOpen, wire
  <2>2. files[n] = c
    BY <1>8 DEF HelloLength, HelloText, HelloFails, GivesUp, Closed, TypeOK, HeapOK
  <2>3. in'[c] = in[c]
    BY <1>8 DEF HelloLength, HelloText, HelloFails, Reads, TypeOK, WireOK, wire
  <2>4. ~Reading(c)'
    <3>1. files' = files \/ pc' = "idle"
      BY <1>8 DEF HelloLength, HelloText, HelloFails, GivesUp, At
    <3> QED
      BY <1>8, <2>1, <3>1 DEF Reading, Line
  <2> QED
    BY <1>0, <1>8, <2>1, <2>2, <2>3, <2>4, StaysQuiet DEF Reading
<1>9. CASE (HelloLength \/ HelloText \/ HelloFails) /\ Line(cur) = c
  <2>1. /\ InHello /\ UNCHANGED <<sock, cur, out, served, gone>>
        /\ sock[cur] \in Fds /\ files[sock[cur]] = c
    BY <1>9 DEF HelloLength, HelloText, HelloFails, InHello, Line, wire
  <2>2. ~GivesUp
    <3>1. SUFFICES ASSUME GivesUp PROVE FALSE
      OBVIOUS
    <3>2. files' = [files EXCEPT ![sock[cur]] = None]
      BY <2>1, <3>1 DEF GivesUp, Closed
    <3>3. n # sock[cur] /\ files[n] = c
      BY <2>1, <3>2 DEF TypeOK, HeapOK
    <3> QED
      BY <2>1, <3>3 DEF Tidy, OpenOnce
  <2>3. HelloComes(c) /\ files' = files
    <3>1. files' = files
      BY <1>9, <2>2 DEF HelloLength, HelloText, HelloFails
    <3> QED
      BY <1>0, <1>9, <2>1, <3>1 DEF Good, Reading, InHello
  <2>4. CASE HelloLength
    <3>1. OneFrame(c, 1) /\ served[c] = 0
      BY <1>9, <2>3, <2>4 DEF HelloLength, HelloComes, Reads, Arrives
    <3>2. Len(Tail(in[c])) = 1
      BY <3>1, OneFrameFacts
    <3>3. Next4.n = 1
      BY <1>9, <3>1, OneFrameFacts DEF Next4
    <3>4. in'[c] = Tail(in[c]) /\ pc' = "helloText" /\ left' = 1
      BY <1>9, <2>2, <2>4, <3>3 DEF HelloLength, Reads, At, Fits, TypeOK, WireOK
    <3> QED
      BY <1>9, <2>1, <2>3, <3>1, <3>2, <3>4 DEF Good, Reading, InHello, HelloComes, Line
  <2>5. CASE HelloText
    <3>1. left = 1 /\ Len(in[c]) = 1 /\ served[c] = 0 /\ out[c] = <<>>
      BY <2>3, <2>5 DEF HelloText, HelloComes
    <3>2. in'[c] = Tail(in[c]) /\ pc' \in {"idle", "killed"}
      BY <1>9, <2>2, <2>5, <3>1 DEF HelloText, Reads, At, TypeOK, WireOK
    <3>3. Tail(in[c]) = <<>>
      <4>1. in[c] \in Seq(Word) /\ in[c] # <<>>
        BY <1>9, <2>5 DEF HelloText, Reads, Arrives, TypeOK, WireOK
      <4>2. Tail(in[c]) \in Seq(Word) /\ Len(Tail(in[c])) = 0
        BY <3>1, <4>1
      <4> QED
        BY <4>2, EmptySeq
    <3> QED
      BY <2>1, <3>1, <3>2, <3>3, BusyIsOver DEF Good, Quiet, Answered
  <2> QED
    BY <1>9, <2>2, <2>4, <2>5 DEF HelloFails
<1>10. CASE (Length \/ Text \/ CallFails) /\ Line(cur) # c
  <2>1. UNCHANGED <<sock, files, cur, out, served, gone>>
    BY <1>10 DEF Length, Text, CallFails, heap, wire
  <2>2. in'[c] = in[c]
    BY <1>10 DEF Length, Text, CallFails, Reads, TypeOK, WireOK, wire
  <2> QED
    BY <1>0, <1>10, <2>1, <2>2, StaysQuiet DEF Reading, Line
<1>11. CASE (Length \/ Text \/ CallFails) /\ Line(cur) = c
  <2>1. /\ UNCHANGED <<sock, files, cur, out, served, gone>> /\ files[n] = c
        /\ Reading(c) /\ ~InHello
    BY <1>11 DEF Length, Text, CallFails, heap, wire, Reading, InHello
  <2>2. AnswerComes(c)
    BY <1>0, <2>1 DEF Good
  <2>3. CASE Length
    <3>1. PICK k \in 1..MaxWords : OneFrame(c, k) /\ ForCall(Head(in[c]).of) /\ Answered(c)
      BY <1>11, <2>2, <2>3 DEF Length, AnswerComes, Reads, Arrives
    <3>2. /\ Next4.n = k /\ Len(Tail(in[c])) = k
          /\ \A i \in 1..k : Tail(in[c])[i].of = Head(in[c]).of
      BY <1>11, <3>1, OneFrameFacts DEF Next4
    <3>3. in'[c] = Tail(in[c]) /\ pc' = "text" /\ left' = k /\ answers' = answers
      BY <1>11, <2>3, <3>2 DEF Length, Reads, At, Fits, TypeOK, WireOK
    <3>4. DOMAIN Tail(in[c]) = 1..k
      BY <3>2, ReadsTyped, <2>3, <1>11 DEF Length, TypeOK, WireOK, Reads, Arrives
    <3> QED
      BY <1>11, <2>1, <3>1, <3>2, <3>3, <3>4
      DEF Good, Reading, InHello, AnswerComes, Answered, ForCall, Call, Line
  <2>4. CASE Text
    <3>1. /\ Answered(c) /\ Len(in[c]) = left /\ in[c] # <<>> /\ in[c] \in Seq(Word)
          /\ \A i \in DOMAIN in[c] : ForCall(in[c][i].of)
          /\ in'[c] = Tail(in[c])
      BY <1>11, <2>2, <2>4 DEF Text, AnswerComes, Reads, Arrives, TypeOK, WireOK
    <3>2. Len(Tail(in[c])) = left - 1 /\ \A i \in 1..(left - 1) : Tail(in[c])[i] = in[c][i + 1]
      BY <3>1
    <3>3. DOMAIN Tail(in[c]) = 1..(left - 1) /\ DOMAIN in[c] = 1..left
      BY <3>1, <3>2
    <3>4. CASE pc' = "idle"
      <4>1. left = 1
        BY <2>4, <3>4 DEF Text, Complete, At
      <4>2. Tail(in[c]) = <<>>
        BY <3>1, <3>2, <4>1
      <4> QED
        BY <2>1, <3>1, <3>4, <4>2, BusyIsOver DEF Good, Quiet, Answered
    <3>5. CASE pc' # "idle"
      <4>1. pc' = "text" /\ left' = left - 1 /\ answers' = answers
        BY <2>4, <3>5 DEF Text, Returns, At
      <4>2. \A i \in 1..(left - 1) : ForCall(Tail(in[c])[i].of)
        BY <3>1, <3>2, <3>3 DEF TypeOK, ThreadOK
      <4> QED
        BY <1>11, <2>1, <3>1, <3>2, <3>3, <4>1, <4>2
        DEF Good, Reading, InHello, AnswerComes, Answered, ForCall, Call, Line
    <3> QED
      BY <3>4, <3>5
  <2>5. CASE CallFails
    <3>1. ~Arrives /\ c \in gone
      BY <1>11, <2>5 DEF CallFails, ReadFails
    <3> QED
      BY <1>11, <2>1, <2>5, <3>1, BusyIsOver
      DEF CallFails, Arrives, Returns, At, wire, Good, Quiet
  <2> QED
    BY <1>11, <2>3, <2>4, <2>5
<1>12. ASSUME NEW d \in Conns, Greets(d) \/ Serves(d) \/ PeerCloses(d), d # c PROVE Good(c)'
  <2>1. /\ UNCHANGED <<pc, cur, left, sock, files, answers>> /\ files[n] = c
        /\ in'[c] = in[c] /\ out'[c] = out[c] /\ served'[c] = served[c] /\ (c \in gone => c \in gone')
    BY <1>12 DEF Greets, Serves, PeerCloses, Sends, TypeOK, WireOK, heap, thread
  <2> QED
    BY <1>0, <2>1 DEF Good, Reading, InHello, Line, Quiet, Answered, HelloComes, AnswerComes,
                      OneFrame, ForCall, Call
<1>13. CASE PeerCloses(c)
  <2>1. /\ UNCHANGED <<pc, cur, left, sock, files, answers, in, out, served>> /\ files[n] = c
        /\ c \in gone'
    BY <1>13 DEF PeerCloses, heap, thread
  <2> QED
    BY <1>0, <2>1 DEF Good, Reading, InHello, Line, Quiet, Answered, HelloComes, AnswerComes,
                      OneFrame, ForCall, Call
<1>14. CASE Greets(c)
  <2>1. /\ UNCHANGED <<pc, cur, left, sock, files, answers, out, gone>> /\ files[n] = c
        /\ served[c] = -1 /\ c \notin gone /\ served'[c] = 0
    BY <1>14 DEF Greets, Speaks, heap, thread, TypeOK, WireOK
  <2>2. Len(out[c]) \in Nat
    BY DEF TypeOK, WireOK
  <2>3. Reading(c) /\ InHello /\ pc = "helloLength" /\ in[c] = <<>> /\ out[c] = <<>>
    BY <1>0, <2>1, <2>2 DEF Good, Quiet, Answered, AnswerComes, HelloComes
  <2>4. PICK t \in {"hello", "req"} : Sends(c, [type |-> t, id |-> 0, of |-> 0], 1)
    BY <1>14 DEF Greets
  <2>5. [type |-> t, id |-> 0, of |-> 0] \in Frame
    BY DEF Frame
  <2>6. OneFrame(c, 1)'
    BY <2>3, <2>4, <2>5, SendsFacts
  <2> QED
    BY <2>1, <2>3, <2>6 DEF Good, Reading, InHello, Line, HelloComes
<1>15. CASE Serves(c)
  <2>1. /\ UNCHANGED <<pc, cur, left, sock, files, answers, out, gone>> /\ files[n] = c
        /\ served[c] \in 0..(Len(out[c]) - 1) /\ c \notin gone /\ served'[c] = served[c] + 1
    BY <1>15 DEF Serves, Speaks, heap, thread, TypeOK, WireOK
  <2>2. out[c] \in Seq([id : Nat, of : Nat])
    BY DEF TypeOK, WireOK
  <2>3. /\ Reading(c) /\ ~InHello /\ pc = "length" /\ in[c] = <<>>
        /\ served[c] = Len(out[c]) - 1 /\ out[c][Len(out[c])].of = Call
    BY <1>0, <2>1, <2>2 DEF Good, Quiet, Answered, AnswerComes, HelloComes
  <2> DEFINE req == out[c][served[c] + 1]
  <2>4. req \in [id : Nat, of : Nat] /\ req.of = Call
    <3>1. req \in [id : Nat, of : Nat]
      BY <2>1, <2>2, ElementTyped
    <3>2. served[c] + 1 = Len(out[c])
      BY <2>2, <2>3
    <3> QED
      BY <2>3, <3>1, <3>2
  <2>5. PICK m \in {req.of, 0}, k \in 1..MaxWords :
          Sends(c, [type |-> "res", id |-> req.id, of |-> m], k)
    BY <1>15 DEF Serves
  <2>6. [type |-> "res", id |-> req.id, of |-> m] \in Frame
    BY <2>4 DEF Frame
  <2>7. OneFrame(c, k)' /\ ForCall(Head(in'[c]).of)
    BY <2>3, <2>4, <2>5, <2>6, SendsFacts DEF ForCall
  <2>8. Answered(c)' /\ Call' = Call
    BY <2>1, <2>2, <2>3 DEF Answered, Call
  <2> QED
    BY <2>1, <2>3, <2>7, <2>8 DEF Good, Reading, InHello, Line, AnswerComes, ForCall
<1> QED
  BY <1>1, <1>3, <1>4, <1>5, <1>6, <1>7, <1>8, <1>9, <1>10, <1>11, <1>12, <1>13, <1>14, <1>15
  DEF Next, Endpoint, World, PeerAsks

LEMMA NextOwn ==
  TypeOK /\ Tidy /\ Lockstep /\ AnswerIsOwn /\ [Next]_vars => AnswerIsOwn'
<1> SUFFICES ASSUME TypeOK, Tidy, Lockstep, AnswerIsOwn, [Next]_vars PROVE AnswerIsOwn'
  OBVIOUS
<1>1. CASE answers' = answers
  BY <1>1 DEF AnswerIsOwn
<1>2. ASSUME NEW m \in {0, Call}, answers' = Append(answers, m) PROVE AnswerIsOwn'
  BY <1>2 DEF AnswerIsOwn, Call, TypeOK, CallsOK
<1>3. CASE Length \/ CallFails
  BY <1>1, <1>2, <1>3 DEF Length, CallFails, Returns
<1>4. CASE Text
  <2>1. PICK n \in Fds : files[n] = Line(cur) /\ Line(cur) \in Conns
    BY <1>4, CEndpointAssumption DEF Text, Reads, Arrives, Line
  <2>2. AnswerComes(Line(cur))
    BY <1>4, <2>1 DEF Lockstep, Good, Text, Reading, InHello
  <2>3. ForCall(Next4.of)
    <3>1. in[Line(cur)] \in Seq(Word) /\ in[Line(cur)] # <<>>
      BY <1>4, <2>1 DEF Text, Reads, Arrives, TypeOK, WireOK
    <3>2. 1 \in DOMAIN in[Line(cur)] /\ Next4 = in[Line(cur)][1]
      BY <3>1 DEF Next4
    <3> QED
      BY <1>4, <2>2, <3>2 DEF AnswerComes, Text
  <2> QED
    BY <1>1, <1>2, <1>4, <2>3 DEF Text, Returns, ForCall
<1>5. CASE ~(Length \/ Text \/ CallFails)
  <2>1. answers' = answers
    BY <1>5 DEF Next, Endpoint, World, Create, Destroy, InitFails, CallSends, CallKilled, Connects,
                HelloLength, HelloText, HelloFails, AppOpens, AppCloses, Greets, Serves, PeerAsks,
                PeerCloses, vars
  <2> QED
    BY <1>1, <2>1
<1> QED
  BY <1>3, <1>4, <1>5

\* Where messages stay below the limit, reads are not interrupted and the peer
\* sends nothing but responses, a call returns the result of its own request or
\* none, although the id it checks proves nothing: the endpoint and each of its
\* peers stay in step, through errors, lost connections and handles used again.
THEOREM OwnAnswers ==
  ASSUME Moves \cap {"long", "signal", "ask"} = {}
  PROVE  Spec => []AnswerIsOwn
<1> DEFINE AInv == TypeOK /\ Tidy /\ Lockstep /\ AnswerIsOwn
<1>1. Init => AInv
  BY CEndpointAssumption
  DEF Init, TypeOK, HeapOK, ThreadOK, WireOK, CallsOK, Tidy, OpenOnce, Unmade, HelloOpen,
      InHello, Lockstep, AnswerIsOwn
<1>2. AInv /\ [Next]_vars => AInv'
  BY NextTypeOK, NextTidy, NextLockstep, NextOwn
<1> QED
  BY <1>1, <1>2, PTL DEF Spec

=============================================================================
