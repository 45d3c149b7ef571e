--------------------------- MODULE SessionProofs ---------------------------
(***************************************************************************)
(* A session keeps what Rpc promises its callers, and the handles they     *)
(* get are good, whatever users do, wherever the child process ends and    *)
(* the connection breaks, and whichever objects come and go.               *)
(*                                                                         *)
(* Initiator and target agree through the logs of the one connection.      *)
(* Ids number the requests that were written (Ordered); of these the       *)
(* target has executed the first ones (Executed); each response in flight  *)
(* is the result of the request that has its id, or that result is before  *)
(* it, or no caller waits for it any more (Replied).  So a future is       *)
(* settled with the result of its own request (Settled).                   *)
(***************************************************************************)
EXTENDS Session, InitiatorProofs, SequenceTheorems

\* What is proved of the target and its registry.
TP == INSTANCE TargetProofs

\* The theorems about the target apply.
LEMMA TargetAssumptions ==
  /\ None \notin Addresses /\ MaxHandle \in Nat
  /\ Asks \in [Callers -> TP!Request] /\ None \notin TP!Responses \cup Clients
BY SessionAssumption, InitiatorAssumption
   DEF T!Request, TP!Request, T!Responses, TP!Responses, T!Handle, T!Result, T!Error,
       TP!Handle, TP!Result, TP!Error

-----------------------------------------------------------------------------
(* The invariant.                                                          *)

\* There is one connection, the one the target opened, and nobody stalls.
Wired ==
  /\ link \in Clients \cup {None}
  /\ tpc = "start" => link = None
  /\ tpc \notin {"start", "exited"} => link \in Clients
  /\ \A c \in Clients : c # link => conn[c] = "unused" /\ up[c] = <<>> /\ down[c] = <<>>
  /\ transport \in {None, link} /\ \A t \in Tasks : on[t] \in {None, link}
  /\ transport # None \/ (\E t \in Tasks : on[t] # None) => conn[link] \in {"open", "closed"}
  /\ \A c \in Clients : "stalled" \notin peer[c]

\* Requests are numbered in the order in which they were written; only those that
\* were dropped by a closed connection are missing at the end.
Ordered ==
  /\ \A c \in Clients : \A k \in 1..Len(down[c]) : down[c][k].type \in {"hello", "req"}
  /\ \A c \in Clients : \A k \in Requests(c) : down[c][k].val \in Callers /\ pc[down[c][k].val] # "idle"
  /\ \E n \in 0..(nextId - 1) :
       /\ DOMAIN Issued = 1..n
       /\ n = nextId - 1 \/ (link \in Clients /\ conn[link] = "closed")

\* The target has executed the requests up to some id, and read no further.
Executed ==
  /\ ran \in Seq(TP!Records)
  /\ got \in Nat /\ (link \in Clients => got <= Len(down[link])) /\ (link = None => got = 0)
  /\ \A i \in 1..Len(ran) : i \in DOMAIN Issued /\ ran[i].by = Issued[i]
  /\ tpc \in {"start", "hello"} => ran = <<>> /\ got = 0
  /\ tpc \notin {"start", "exited"} =>
       \A k \in Requests(link) : k <= got <=> down[link][k].id <= Len(ran)
  /\ tpc = "busy" => T!More /\ T!Msg.type = "req" /\ T!Valid(T!Ask.on)

Results(c) == {k \in 1..Len(up[c]) : up[c][k].type \in {"res", "badres"}}

\* The response k on connection c is the result of its request, or comes after it.
Proper(c, k) ==
  LET n == up[c][k].id IN
    /\ n \in 1..Len(ran) /\ up[c][k].val \in T!Responses
    /\ n \in DOMAIN pending =>
         \/ up[c][k].val = ran[n].val
         \/ \E j \in Results(c) : j < k /\ up[c][j].id = n

\* An error that follows a result finds it on the wire, or already delivered.
Replied ==
  /\ \A c \in Clients : \A k \in Results(c) : Proper(c, k)
  /\ tpc \in {"start", "hello"} => \A c \in Clients : up[c] = <<>>
  /\ tpc = "drain" =>
       /\ got \in Requests(link) /\ down[link][got].id = Len(ran)
       /\ T!Reaches /\ Len(ran) \in DOMAIN pending =>
            \E j \in Results(link) : up[link][j].id = Len(ran)

\* There is one handshake, and one reader: when init_subprocess runs again, after
\* aclose, the only connection has been opened before and is gone.
Begun ==
  /\ pc["reader"] # "none" => link \in Clients /\ conn[link] \in {"open", "closed"}
  /\ pc["reader"] # "none" /\ pc["init"] # "ok" =>
       transport = None /\ pc["reader"] = "done" /\ pc["init"] \notin {"greet", "hello"}
  /\ pc["reader"] = "done" /\ transport # None => pc["close"] \in {"awaitReader", "cleanup"}
  /\ pc["reader"] # "none" \/ pc["init"] \in {"spawn", "waitClient", "greet", "hello"} =>
       server \/ pc["close"] \in {"child", "done"}
  /\ cancelled => pc["close"] = "awaitReader" /\ ReaderAlive

\* The handshake takes the hello and no response.
Greeted ==
  /\ pc["init"] = "hello" => pc["reader"] = "none"
  /\ cancelled => pc["reader"] # "none"
  /\ pc["reader"] = "none" =>
       /\ \A c \in Clients : up[c] # <<>> => Head(up[c]).type = "hello"
       /\ tpc \notin {"start", "hello", "exited"} /\ T!Reaches => up[link] # <<>>

\* A future that was answered has the result of its caller's own request.
Settled ==
  \A r \in Callers :
    /\ pc[r] = "returned" => fut[r].st = "answered"
    /\ fut[r].st = "answered" =>
         /\ fut[r].val \in T!Responses
         /\ \E i \in 1..Len(ran) : ran[i].by = r /\ ran[i].val = fut[r].val

Registered == TP!IInv /\ TP!HandlesHold

Agree == Ordered /\ Executed /\ Replied /\ Begun /\ Greeted /\ Settled
SInv  == IdInv /\ FInv /\ Wired /\ Agree /\ Registered

-----------------------------------------------------------------------------
(* Steps of the initiator.                                                 *)

\* A step of the initiator, its users, or the end of the child.
Acts == (Code \/ Users \/ ChildExits) /\ UNCHANGED target

\* The initiator adopts, uses and closes the one connection.
LEMMA WiredActs ==
  ASSUME TypeOK, Wired, Acts
  PROVE  Wired'
<1> USE DEF Wired, At, AtOn, attrs, calls, links, tasks
<1>t. /\ on \in [Tasks -> Clients \cup {None}]
      /\ conn \in [Clients -> {"unused", "accepted", "refused", "open", "closed"}]
      /\ up \in [Clients -> Seq(Frame)] /\ down \in [Clients -> Seq(Frame)]
      /\ transport \in Clients \cup {None} /\ None \notin Clients
      /\ {"init", "reader", "close"} \subseteq Tasks
      /\ \A r \in Callers : r \in Tasks
      /\ link' = link /\ tpc' = tpc
  BY InitiatorAssumption DEF TypeOK, AttrsOK, TaskOK, ConnOK, WireOK, Tasks, Acts, target
<1>1. CASE InitStart \/ InitAgain \/ InitBind \/ InitSpawn \/ InitClientTimeout \/ InitCancelled
  BY <1>1, <1>t DEF InitStart, InitAgain, InitBind, InitSpawn, InitClientTimeout, InitCancelled
<1>2. CASE InitGreet
  BY <1>2, <1>t DEF InitGreet, Write
<1>3. CASE InitGreeted \/ InitNoTransport
  BY <1>3, <1>t DEF InitGreeted, InitNoTransport
<1>4. CASE InitRaises
  BY <1>4, <1>t DEF InitRaises, Shut
<1>5. CASE InitHello
  BY <1>5, <1>t DEF InitHello, Receives, Ready
<1>6. CASE ReaderStart
  BY <1>6, <1>t DEF ReaderStart
<1>7. CASE ReaderDispatches
  BY <1>7, <1>t DEF ReaderDispatches, ReaderTakes, Receives, Ready
<1>8. CASE ReaderCrashes
  BY <1>8, <1>t DEF ReaderCrashes, ReaderTakes, Receives, Ready, ReaderCleanup, Shut, Live
<1>9. CASE ReaderLosesPeer
  BY <1>9, <1>t DEF ReaderLosesPeer, Shut, Live
<1>10. CASE ReaderRaises
  BY <1>10, <1>t DEF ReaderRaises, ReaderCleanup, Shut, Live
<1>11. CASE ReaderCleaned \/ ReaderCancelled
  BY <1>11, <1>t DEF ReaderCleaned, ReaderCancelled, ReaderCleanup, Shut, Live
<1>12. ASSUME NEW r \in Callers, CallerRejected(r) \/ CallerDrained(r) \/ CallerDone(r) \/ CallerCancelled(r)
       PROVE  Wired'
  BY <1>12, <1>t DEF CallerRejected, CallerDrained, CallerDone, CallerCancelled
<1>13. ASSUME NEW r \in Callers, CallerSends(r)
       PROVE  Wired'
  BY <1>13, <1>t DEF CallerSends, Write
<1>14. ASSUME NEW r \in Callers, CallerDrainRaises(r)
       PROVE  Wired'
  BY <1>14, <1>t DEF CallerDrainRaises, Shut
<1>15. CASE CloseStart \/ CloseReaderDone
  BY <1>15, <1>t DEF CloseStart, CloseReaderDone, CloseTransport, CloseServer, ServerClosed, Shut, Live
<1>16. CASE CloseCleaned \/ CloseServerClosed \/ CloseReaped \/ ChildExits
  BY <1>16, <1>t DEF CloseCleaned, CloseServer, CloseServerClosed, ServerClosed, CloseReaped, ChildExits
<1>17. ASSUME NEW c \in Clients, OnClient(c)
       PROVE  Wired'
  BY <1>17, <1>t DEF OnClient, Vacant
<1> QED
  BY <1>1, <1>2, <1>3, <1>4, <1>5, <1>6, <1>7, <1>8, <1>9, <1>10, <1>11, <1>12, <1>13, <1>14,
     <1>15, <1>16, <1>17
     DEF Acts, Code, Users, InitStep, ReaderStep, CloseStep, CallerStep

\* The connection opens once, and what is closed stays closed.
LEMMA Fades ==
  ASSUME TypeOK, Wired, Acts
  PROVE  /\ T!Reaches' => T!Reaches
         /\ link \in Clients /\ conn[link] = "closed" => conn'[link] = "closed"
<1>t. /\ conn \in [Clients -> {"unused", "accepted", "refused", "open", "closed"}]
      /\ None \notin Clients /\ link' = link /\ {"init", "reader"} \subseteq Tasks
      /\ \A r \in Callers : r \in Tasks
  BY InitiatorAssumption DEF TypeOK, ConnOK, Acts, target, Tasks
<1>1. \/ conn' = conn
      \/ link \in Clients /\ conn[link] = "accepted" /\ conn'[link] \in {"open", "refused"}
      \/ link \in Clients /\ conn[link] \in {"open", "closed"} /\ conn'[link] \in {conn[link], "closed"}
  <2> USE DEF attrs, calls, links, tasks, Wired, Shut, Live
  <2>1. CASE InitStep \/ InitStart \/ InitAgain \/ InitCancelled
    BY <2>1, <1>t DEF InitStep, InitStart, InitAgain, InitBind, InitSpawn, InitClientTimeout,
      InitGreet, InitGreeted, InitNoTransport, InitRaises, InitHello, InitCancelled
  <2>2. CASE ReaderStep
    BY <2>2, <1>t DEF ReaderStep, ReaderStart, ReaderDispatches, ReaderCrashes, ReaderLosesPeer,
      ReaderRaises, ReaderCleaned, ReaderCancelled, ReaderCleanup
  <2>3. CASE CloseStep \/ CloseServerClosed \/ CloseStart \/ ChildExits
    BY <2>3, <1>t DEF CloseStep, CloseStart, CloseReaderDone, CloseCleaned, CloseServerClosed, CloseReaped,
      CloseTransport, CloseServer, ServerClosed, ChildExits
  <2>4. ASSUME NEW r \in Callers,
               CallerStep(r) \/ CallerRejected(r) \/ CallerSends(r) \/ CallerCancelled(r)
        PROVE  \/ conn' = conn
               \/ /\ link \in Clients /\ conn[link] \in {"open", "closed"}
                  /\ conn'[link] \in {conn[link], "closed"}
    BY <2>4, <1>t DEF CallerStep, CallerRejected, CallerSends, CallerDrained, CallerDrainRaises,
      CallerDone, CallerCancelled
  <2>5. ASSUME NEW c \in Clients, OnClient(c)
        PROVE  c = link /\ conn[link] = "accepted" /\ conn'[link] \in {"open", "refused"}
    BY <2>5, <1>t DEF OnClient
  <2> QED
    BY <2>1, <2>2, <2>3, <2>4, <2>5 DEF Acts, Code, Users
<1> QED
  BY <1>1, <1>t DEF T!Reaches

\* What a step of the initiator does to the table, the futures and the wire.
LEMMA Kinds ==
  ASSUME Acts
  PROVE  \/ \E r \in Callers : CallerSends(r) \/ CallerCancelled(r)
         \/ InitGreet \/ InitHello \/ ReaderDispatches \/ ReaderCrashes \/ ReaderRaises
         \/ UNCHANGED <<nextId, calls, up, down>>
BY DEF Acts, Code, Users, InitStep, ReaderStep, CloseStep, CallerStep, attrs, calls, links,
       InitStart, InitAgain, InitBind, InitSpawn, InitClientTimeout, InitGreeted,
       InitNoTransport, InitRaises, InitCancelled, ReaderStart, ReaderLosesPeer,
       ReaderCleaned, ReaderCancelled, CallerRejected, CallerDrained, CallerDrainRaises,
       CallerDone, CloseStart, CloseReaderDone, CloseCleaned, CloseServerClosed, CloseReaped, OnClient, ChildExits

\* What it does to the tasks of the handshake and of a caller.
LEMMA Ways ==
  ASSUME TypeOK, Greeted, Acts
  PROVE  /\ cancelled' => pc'["reader"] # "none"
         /\ (pc'["reader"] = "none") = (pc["reader"] = "none") \/ InitHello
         /\ \A r \in Callers :
              \/ pc'[r] = pc[r]
              \/ pc[r] \in {"idle", "drain", "await"} /\ pc'[r] \in {"drain", "await", "raised", "cancelled"}
              \/ CallerDone(r)
         /\ \E t \in Tasks : \A r \in Callers \ {t} : pc'[r] = pc[r]
<1> USE DEF At, AtOn, attrs, calls, links, tasks
<1>t. /\ pc \in [Tasks -> Labels] /\ {"init", "reader", "close"} \subseteq Tasks
      /\ \A r \in Callers : r \in Tasks /\ r \notin {"init", "reader", "close"}
  BY InitiatorAssumption DEF TypeOK, TaskOK, Tasks
<1>1. CASE InitStep \/ InitStart \/ InitAgain \/ InitCancelled
  <2>1. CASE InitHello
    BY <2>1, <1>t DEF InitHello, Greeted
  <2>2. CASE ~InitHello
    <3>1. \E l \in Labels : pc' = [pc EXCEPT !["init"] = l]
      BY <1>1, <2>2, <1>t DEF InitStep, InitStart, InitAgain, InitBind, InitSpawn,
        InitClientTimeout, InitGreet, InitGreeted, InitNoTransport, InitRaises, InitCancelled,
        Labels
    <3>2. cancelled' = cancelled
      BY <1>1, <2>2 DEF InitStep, InitStart, InitAgain, InitBind, InitSpawn,
        InitClientTimeout, InitGreet, InitGreeted, InitNoTransport, InitRaises, InitCancelled
    <3> QED
      BY <3>1, <3>2, <1>t DEF Greeted
  <2> QED
    BY <2>1, <2>2
<1>2. CASE ReaderStep
  <2>1. \E l \in Labels \ {"none"} : pc' = [pc EXCEPT !["reader"] = l]
    BY <1>2 DEF ReaderStep, ReaderStart, ReaderDispatches, ReaderCrashes, ReaderTakes,
      ReaderLosesPeer, ReaderRaises, ReaderCleaned, ReaderCancelled, ReaderCleanup, Labels
  <2>2. pc["reader"] # "none"
    BY <1>2 DEF Greeted, ReaderCancelled, ReaderStep, ReaderStart, ReaderDispatches, ReaderCrashes, ReaderTakes, ReaderAt,
      ReaderLosesPeer, ReaderRaises, ReaderCleaned
  <2>3. pc'["reader"] # "none"
    BY <2>1, <1>t
  <2> QED
    BY <2>1, <2>2, <2>3, <1>t
<1>3. CASE CloseStep \/ CloseServerClosed \/ CloseStart \/ ChildExits
  <2>1. (\E l \in Labels : pc' = [pc EXCEPT !["close"] = l]) \/ pc' = pc
    BY <1>3 DEF CloseStep, CloseStart, CloseReaderDone, CloseCleaned, CloseServerClosed, CloseReaped,
      CloseTransport, CloseServer, ServerClosed, ChildExits, Labels
  <2>2. cancelled' => cancelled \/ ReaderAlive
    BY <1>3 DEF CloseStep, CloseStart, CloseReaderDone, CloseCleaned, CloseServerClosed, CloseReaped, ChildExits
  <2> QED
    BY <2>1, <2>2, <1>t DEF Greeted, ReaderAlive
<1>4. ASSUME NEW r \in Callers,
             CallerStep(r) \/ CallerRejected(r) \/ CallerSends(r) \/ CallerCancelled(r)
      PROVE  /\ pc'["init"] = pc["init"] /\ pc'["reader"] = pc["reader"] /\ cancelled' = cancelled
             /\ \A q \in Callers : q # r => pc'[q] = pc[q]
             /\ \/ pc'[r] = pc[r]
                \/ pc[r] \in {"idle", "drain", "await"} /\ pc'[r] \in {"drain", "await", "raised", "cancelled"}
                \/ CallerDone(r)
  <2>1. \E l \in Labels : pc' = [pc EXCEPT ![r] = l]
    BY <1>4 DEF CallerStep, CallerRejected, CallerSends, CallerDrained, CallerDrainRaises,
      CallerCancelled, CallerDone, Labels
  <2>2. \/ /\ pc[r] \in {"idle", "drain", "await"}
           /\ \E l \in {"drain", "await", "raised", "cancelled"} : pc' = [pc EXCEPT ![r] = l]
        \/ CallerDone(r)
    BY <1>4 DEF CallerStep, CallerRejected, CallerSends, CallerDrained, CallerDrainRaises,
      CallerCancelled, MayCall
  <2>3. cancelled' = cancelled
    BY <1>4 DEF CallerStep, CallerRejected, CallerSends, CallerDrained, CallerDrainRaises,
      CallerCancelled, CallerDone
  <2> QED
    BY <2>1, <2>2, <2>3, <1>t
<1>5. CASE \E c \in Clients : OnClient(c)
  <2>1. UNCHANGED <<pc, cancelled>>
    BY <1>5 DEF OnClient
  <2> QED
    BY <2>1, <1>t DEF Greeted
<1>6. CASE \E r \in Callers :
             CallerStep(r) \/ CallerRejected(r) \/ CallerSends(r) \/ CallerCancelled(r)
  BY <1>4, <1>6, <1>t DEF Greeted
<1> QED
  BY <1>1, <1>2, <1>3, <1>5, <1>6 DEF Acts, Code, Users

\* Issued says which caller each request on the wire is of, and nothing else.
Names ==
  /\ \A c \in Clients : \A k \in Requests(c) :
       down[c][k].id \in DOMAIN Issued /\ Issued[down[c][k].id] = down[c][k].val
  /\ \A i \in DOMAIN Issued : \E c \in Clients : \E k \in Requests(c) : down[c][k].id = i

LEMMA IssuedNames == IdInv => Names
<1> SUFFICES ASSUME IdInv PROVE Names
  OBVIOUS
<1>1. ASSUME NEW f PROVE f \in Sent <=> \E c \in Clients : \E k \in Requests(c) : f = down[c][k]
  <2>1. \A c \in Clients : DOMAIN down[c] = 1..Len(down[c])
    BY DEF IdInv, TypeOK, WireOK
  <2> QED
    BY <2>1 DEF Sent, Range, Requests
<1>2. \A f, g \in Sent : f.id = g.id => f = g
  BY <1>1 DEF IdInv, IdsNameOneRequest
<1>3. ASSUME NEW f \in Sent PROVE f.id \in DOMAIN Issued /\ Issued[f.id] = f.val
  <2>1. (CHOOSE g \in Sent : g.id = f.id) = f
    BY <1>2
  <2> QED
    BY <2>1 DEF Issued
<1>4. \A i \in DOMAIN Issued : \E f \in Sent : f.id = i
  BY DEF Issued
<1> QED
  BY <1>1, <1>3, <1>4 DEF Names

LEMMA IssuedNamesNext == IdInv' => Names'
BY IssuedNames, PTL

\* What a step of the initiator writes: a hello, or the next request.
LEMMA Logs ==
  ASSUME TypeOK, Wired, Acts, NEW c \in Clients
  PROVE  /\ Len(down[c]) \in Nat /\ Len(down'[c]) \in Nat /\ Len(down[c]) <= Len(down'[c])
         /\ \A k \in 1..Len(down[c]) : down'[c][k] = down[c][k]
         /\ \A k \in 1..Len(down'[c]) : k > Len(down[c]) =>
              \/ down'[c][k] = Plain("hello")
              \/ \E r \in Callers :
                   CallerSends(r) /\ c = link /\ conn[c] = "open" /\ down'[c][k] = Req(nextId, r)
<1>t. down \in [Clients -> Seq(Frame)] /\ down[c] \in Seq(Frame)
  BY DEF TypeOK, WireOK
<1>1. \/ down'[c] = down[c]
      \/ down'[c] = Append(down[c], Plain("hello"))
      \/ \E r \in Callers :
           /\ CallerSends(r) /\ c = link /\ conn[c] = "open"
           /\ down'[c] = Append(down[c], Req(nextId, r))
  <2>1. CASE InitGreet
    BY <2>1, <1>t DEF InitGreet, Write
  <2>2. ASSUME NEW r \in Callers, CallerSends(r)
        PROVE  \/ down'[c] = down[c]
               \/ c = link /\ conn[c] = "open" /\ down'[c] = Append(down[c], Req(nextId, r))
    BY <2>2, <1>t DEF CallerSends, Write, Writable, Wired
  <2>3. CASE UNCHANGED down
    BY <2>3
  <2>4. InitGreet \/ (\E r \in Callers : CallerSends(r)) \/ UNCHANGED down
    BY Kinds DEF CallerCancelled, InitHello, ReaderDispatches, ReaderCrashes, ReaderTakes,
      ReaderRaises, links
  <2> QED
    BY <2>1, <2>2, <2>3, <2>4
<1>2. CASE down'[c] = down[c]
  BY <1>2, <1>t
<1>3. ASSUME NEW f, down'[c] = Append(down[c], f)
      PROVE  /\ Len(down'[c]) = Len(down[c]) + 1 /\ down'[c][Len(down[c]) + 1] = f
             /\ \A k \in 1..Len(down[c]) : down'[c][k] = down[c][k]
  BY <1>3, <1>t
<1>4. CASE down'[c] = Append(down[c], Plain("hello"))
  BY <1>4, <1>3, <1>t
<1>5. ASSUME NEW r \in Callers, down'[c] = Append(down[c], Req(nextId, r))
      PROVE  /\ Len(down'[c]) = Len(down[c]) + 1 /\ down'[c][Len(down[c]) + 1] = Req(nextId, r)
             /\ \A k \in 1..Len(down[c]) : down'[c][k] = down[c][k]
  BY <1>5, <1>3
<1> QED
  BY <1>1, <1>2, <1>4, <1>5, <1>t

\* Requests stay on the wire, and those that join them have the next id.
LEMMA Joins ==
  ASSUME TypeOK, Wired, Acts, NEW c \in Clients
  PROVE  /\ \A k \in Requests(c) : k \in Requests(c)' /\ down'[c][k] = down[c][k]
         /\ \A k \in Requests(c)' :
              \/ k \in Requests(c) /\ down'[c][k] = down[c][k]
              \/ \E r \in Callers :
                   CallerSends(r) /\ c = link /\ conn[c] = "open" /\ down'[c][k] = Req(nextId, r)
<1>1. ASSUME NEW k \in Requests(c) PROVE k \in Requests(c)' /\ down'[c][k] = down[c][k]
  BY Logs DEF Requests
<1>2. ASSUME NEW k \in Requests(c)', k > Len(down[c])
      PROVE  \E r \in Callers :
               CallerSends(r) /\ c = link /\ conn[c] = "open" /\ down'[c][k] = Req(nextId, r)
  BY <1>2, Logs DEF Requests, Plain
<1>3. ASSUME NEW k \in Requests(c)', ~(k > Len(down[c]))
      PROVE  k \in Requests(c) /\ down'[c][k] = down[c][k]
  BY <1>3, Logs DEF Requests
<1> QED
  BY <1>1, <1>2, <1>3

\* Only a request changes what was issued.
LEMMA IssuedOn ==
  ASSUME IdInv, IdInv', Wired, Acts,
         ~ \E r \in Callers : CallerSends(r) /\ link \in Clients /\ conn[link] = "open"
  PROVE  Issued' = Issued
<1>1. \A c \in Clients : Requests(c)' = Requests(c) /\ \A k \in Requests(c) : down'[c][k] = down[c][k]
  BY Joins DEF IdInv
<1>2. Sent' = Sent
  <2>1. \A c \in Clients : DOMAIN down[c] = 1..Len(down[c])
    BY DEF IdInv, TypeOK, WireOK
  <2>2. \A c \in Clients : DOMAIN down'[c] = 1..Len(down'[c])
    BY DEF IdInv, TypeOK, WireOK
  <2>3. ASSUME NEW f PROVE f \in Sent <=> \E c \in Clients : \E k \in Requests(c) : f = down[c][k]
    BY <2>1 DEF Sent, Range, Requests
  <2>4. ASSUME NEW f PROVE f \in Sent' <=> \E c \in Clients : \E k \in Requests(c)' : f = down'[c][k]
    BY <2>2 DEF Sent, Range, Requests
  <2>5. ASSUME NEW c \in Clients, NEW k
        PROVE  /\ k \in Requests(c) => k \in Requests(c)' /\ down'[c][k] = down[c][k]
               /\ k \in Requests(c)' => k \in Requests(c) /\ down'[c][k] = down[c][k]
    BY <1>1
  <2>6. ASSUME NEW f PROVE f \in Sent <=> f \in Sent'
    BY <2>3, <2>4, <2>5
  <2> QED
    BY <2>6
<1> QED
  BY <1>2 DEF Issued

\* A request that is written is issued with the next id.
LEMMA IssuedMore ==
  ASSUME IdInv, IdInv', Wired, Acts, link \in Clients, conn[link] = "open",
         NEW r \in Callers, CallerSends(r)
  PROVE  /\ nextId \notin DOMAIN Issued /\ nextId \in Nat \ {0} /\ nextId' = nextId + 1
         /\ DOMAIN Issued' = DOMAIN Issued \cup {nextId} /\ Issued'[nextId] = r
         /\ \A i \in DOMAIN Issued : Issued'[i] = Issued[i]
<1>1. Names /\ Names'
  BY IssuedNames, IssuedNamesNext
<1>2. nextId \in Nat \ {0} /\ nextId' = nextId + 1
  BY DEF IdInv, TypeOK, AttrsOK, CallerSends, NewId
<1>l. link' = link
  BY DEF Acts, target
<1>3. nextId \notin DOMAIN Issued
  BY <1>1, <1>2 DEF Names, IdInv, IdsHandedOut
<1>4. /\ Len(down[link]) + 1 \in Requests(link)'
      /\ down'[link][Len(down[link]) + 1] = Req(nextId, r)
  <2>1. down'[link] = Append(down[link], Req(nextId, r)) /\ down[link] \in Seq(Frame)
    BY DEF CallerSends, Wired, Write, Writable, IdInv, TypeOK, WireOK
  <2>2. ASSUME NEW f, down'[link] = Append(down[link], f)
        PROVE  /\ down'[link][Len(down[link]) + 1] = f
               /\ Len(down'[link]) = Len(down[link]) + 1 /\ Len(down[link]) \in Nat
    BY <2>1, <2>2
  <2>3. /\ down'[link][Len(down[link]) + 1] = Req(nextId, r)
        /\ Len(down'[link]) = Len(down[link]) + 1 /\ Len(down[link]) \in Nat
    BY <2>1, <2>2
  <2> QED
    BY <2>3, <1>l DEF Requests, Req
<1>5. nextId \in DOMAIN Issued' /\ Issued'[nextId] = r
  BY <1>1, <1>4, <1>l DEF Names, Req
<1>6. ASSUME NEW i \in DOMAIN Issued PROVE i \in DOMAIN Issued' /\ Issued'[i] = Issued[i]
  <2>1. PICK c \in Clients : \E k \in Requests(c) : down[c][k].id = i
    BY <1>1 DEF Names
  <2>2. PICK k \in Requests(c) : down[c][k].id = i
    BY <2>1
  <2>3. k \in Requests(c)' /\ down'[c][k] = down[c][k]
    BY Joins DEF IdInv
  <2> QED
    BY <1>1, <2>2, <2>3 DEF Names
<1>7. ASSUME NEW i \in DOMAIN Issued' PROVE i = nextId \/ i \in DOMAIN Issued
  <2>1. PICK c \in Clients : \E k \in Requests(c)' : down'[c][k].id = i
    BY <1>1 DEF Names
  <2>2. PICK k \in Requests(c)' : down'[c][k].id = i
    BY <2>1
  <2>3. \/ k \in Requests(c) /\ down'[c][k] = down[c][k]
        \/ \E q \in Callers : down'[c][k] = Req(nextId, q)
    BY Joins DEF IdInv
  <2>4. CASE k \in Requests(c) /\ down'[c][k] = down[c][k]
    BY <1>1, <2>2, <2>4 DEF Names
  <2>5. ASSUME NEW q \in Callers, down'[c][k] = Req(nextId, q) PROVE i = nextId
    BY <2>2, <2>5 DEF Req
  <2> QED
    BY <2>3, <2>4, <2>5
<1> QED
  BY <1>2, <1>3, <1>5, <1>6, <1>7

LEMMA ActsNext == Acts => Next
BY DEF Acts, Next, World

\* What Initiator keeps, it keeps in a session.
LEMMA IdsActs == IdInv /\ FInv /\ Acts => IdInv' /\ FInv'
BY ActsNext, NextIdInv, NextFInv

\* The requests that are on the wire are the first ones; none that is issued is skipped.
LEMMA OrderedActs ==
  ASSUME IdInv, IdInv', FInv, Wired, Greeted, Ordered, Acts
  PROVE  Ordered'
<1>t. /\ link' = link /\ nextId \in Nat \ {0} /\ TypeOK
      /\ \A r \in Callers : r \in Tasks
  BY DEF IdInv, TypeOK, AttrsOK, Acts, target, Tasks
<1>1. \A c \in Clients : \A k \in 1..Len(down'[c]) : down'[c][k].type \in {"hello", "req"}
  <2> SUFFICES ASSUME NEW c \in Clients, NEW k \in 1..Len(down'[c])
               PROVE  down'[c][k].type \in {"hello", "req"}
    OBVIOUS
  <2>1. CASE k > Len(down[c])
    <3>1. \/ down'[c][k] = Plain("hello")
          \/ \E r \in Callers :
               CallerSends(r) /\ c = link /\ conn[c] = "open" /\ down'[c][k] = Req(nextId, r)
      BY <1>t, <2>1, Logs
    <3>2. \A r \in Callers : Req(nextId, r).type = "req"
      BY DEF Req
    <3> QED
      BY <3>1, <3>2 DEF Plain
  <2>2. CASE ~(k > Len(down[c]))
    <3>1. k \in 1..Len(down[c]) /\ down'[c][k] = down[c][k]
      BY <1>t, <2>2, Logs
    <3> QED
      BY <3>1 DEF Ordered
  <2> QED
    BY <2>1, <2>2
<1>2. ASSUME NEW c \in Clients, NEW k \in Requests(c)'
      PROVE  down'[c][k].val \in Callers /\ pc'[down'[c][k].val] # "idle"
  <2>1. CASE k \in Requests(c) /\ down'[c][k] = down[c][k]
    <3>1. down[c][k].val \in Callers /\ pc[down[c][k].val] # "idle"
      BY <2>1 DEF Ordered
    <3> QED
      BY <1>t, <2>1, <3>1, IdleStep, ActsNext
  <2>2. ASSUME NEW r \in Callers, CallerSends(r), down'[c][k] = Req(nextId, r)
        PROVE  down'[c][k].val \in Callers /\ pc'[down'[c][k].val] # "idle"
    BY <1>t, <2>2 DEF CallerSends, AtOn, At, TypeOK, TaskOK, Req
  <2> QED
    BY <1>t, <2>1, <2>2, Joins
<1>3. PICK n \in 0..(nextId - 1) :
        /\ DOMAIN Issued = 1..n
        /\ n = nextId - 1 \/ (link \in Clients /\ conn[link] = "closed")
  BY DEF Ordered
<1>4. \E m \in 0..(nextId' - 1) :
        /\ DOMAIN Issued' = 1..m
        /\ m = nextId' - 1 \/ (link' \in Clients /\ conn'[link'] = "closed")
  <2>1. link \in Clients /\ conn[link] = "closed" => conn'[link] = "closed"
    BY <1>t, Fades
  <2>2. nextId' \in Nat /\ nextId' >= nextId
    BY <1>t, Kinds DEF CallerSends, NewId, CallerCancelled, InitGreet, InitHello,
      ReaderDispatches, ReaderCrashes, ReaderTakes, ReaderRaises, attrs
  <2>3. ASSUME NEW r \in Callers, CallerSends(r), link \in Clients, conn[link] = "open"
        PROVE  \E m \in 0..(nextId' - 1) : DOMAIN Issued' = 1..m /\ m = nextId' - 1
    <3>1. n = nextId - 1
      BY <1>3, <2>3
    <3>2. DOMAIN Issued' = (1..(nextId - 1)) \cup {nextId} /\ nextId' = nextId + 1
      BY <1>3, <2>3, <3>1, IssuedMore
    <3> QED
      BY <1>t, <3>2
  <2>4. CASE ~ \E r \in Callers : CallerSends(r) /\ link \in Clients /\ conn[link] = "open"
    <3>1. Issued' = Issued
      BY <2>4, IssuedOn
    <3>2. ASSUME NEW r \in Callers, CallerSends(r)
          PROVE  link \in Clients /\ conn[link] = "closed"
      BY <2>4, <3>2, <1>t DEF Wired, CallerSends
    <3>3. nextId' = nextId \/ \E r \in Callers : CallerSends(r)
      BY Kinds DEF CallerCancelled, InitGreet, InitHello, ReaderDispatches, ReaderCrashes,
        ReaderTakes, ReaderRaises, attrs
    <3> QED
      BY <1>t, <1>3, <2>1, <2>2, <3>1, <3>2, <3>3
  <2> QED
    BY <2>3, <2>4
<1> QED
  BY <1>1, <1>2, <1>4 DEF Ordered

\* The target's log of what it has executed still agrees with what was issued.
LEMMA ExecutedActs ==
  ASSUME IdInv, IdInv', Wired, Ordered, Executed, Acts
  PROVE  Executed'
<1>t. /\ link' = link /\ tpc' = tpc /\ got' = got /\ ran' = ran /\ handleToObj' = handleToObj
      /\ nextId \in Nat \ {0} /\ TypeOK /\ got \in Nat
      /\ ran \in Seq(TP!Records) /\ Len(ran) \in Nat
  BY DEF IdInv, TypeOK, AttrsOK, Acts, target, registry, Executed
<1>1. ASSUME NEW i \in DOMAIN Issued PROVE i \in DOMAIN Issued' /\ Issued'[i] = Issued[i]
  <2>1. ASSUME NEW r \in Callers, CallerSends(r), link \in Clients, conn[link] = "open"
        PROVE  i \in DOMAIN Issued' /\ Issued'[i] = Issued[i]
    BY <2>1, IssuedMore
  <2> QED
    BY <2>1, IssuedOn
<1>2. Len(ran) < nextId
  <2>1. CASE Len(ran) = 0
    BY <1>t, <2>1
  <2>2. CASE Len(ran) # 0
    <3>1. Len(ran) \in DOMAIN Issued
      BY <1>t, <2>2 DEF Executed
    <3> QED
      BY <1>t, <3>1 DEF Ordered
  <2> QED
    BY <2>1, <2>2
<1>3. \A i \in 1..Len(ran) : i \in DOMAIN Issued' /\ ran[i].by = Issued'[i]
  BY <1>1 DEF Executed
<1>4. link \in Clients => got <= Len(down'[link])
  BY <1>t, Logs DEF Executed
<1>5. ASSUME tpc \notin {"start", "exited"}, NEW k \in Requests(link)'
      PROVE  k <= got <=> down'[link][k].id <= Len(ran)
  <2>0. link \in Clients /\ k \in Nat /\ got <= Len(down[link]) /\ Len(down[link]) \in Nat
    BY <1>5, <1>t, Logs DEF Wired, Executed, Requests
  <2>1. CASE k \in Requests(link) /\ down'[link][k] = down[link][k]
    BY <1>5, <2>1 DEF Executed
  <2>2. ASSUME k \notin Requests(link), down'[link][k].id = nextId
        PROVE  k <= got <=> down'[link][k].id <= Len(ran)
    <3>1. k > Len(down[link])
      <4>1. k \in 1..Len(down'[link]) /\ down'[link][k].type = "req"
        BY <1>5, <1>t DEF Requests
      <4>2. k \notin 1..Len(down[link])
        <5>1. k \in 1..Len(down[link]) => down'[link][k] = down[link][k]
          BY <1>t, <2>0, Logs
        <5> QED
          BY <2>2, <4>1, <5>1 DEF Requests
      <4> QED
        BY <2>0, <4>1, <4>2
    <3> QED
      BY <1>t, <1>2, <2>0, <2>2, <3>1
  <2>3. k \in Requests(link) \/ down'[link][k].id = nextId
    <3>1. \/ k \in Requests(link) /\ down'[link][k] = down[link][k]
          \/ \E r \in Callers :
               CallerSends(r) /\ conn[link] = "open" /\ down'[link][k] = Req(nextId, r)
      <4>1. PICK c \in Clients : c = link
        BY <2>0
      <4>2. k \in Requests(c)'
        BY <1>5, <1>t, <4>1 DEF Requests
      <4> QED
        BY <1>t, <4>1, <4>2, Joins
    <3>2. \A r \in Callers : Req(nextId, r).id = nextId
      BY DEF Req
    <3> QED
      BY <3>1, <3>2
  <2>4. k \in Requests(link) => down'[link][k] = down[link][k]
    BY <1>t, <2>0, Logs DEF Requests
  <2> QED
    BY <2>1, <2>2, <2>3, <2>4
<1>6. tpc = "busy" => (T!More /\ T!Msg.type = "req" /\ T!Valid(T!Ask.on))'
  <2>1. tpc = "busy" => link \in Clients
    BY DEF Wired
  <2>2. tpc = "busy" => got + 1 \in 1..Len(down[link]) /\ Len(down[link]) <= Len(down'[link])
                        /\ Len(down'[link]) \in Nat /\ down'[link][got + 1] = down[link][got + 1]
    BY <1>t, <2>1, Logs DEF Executed, T!More
  <2> QED
    BY <1>t, <2>2 DEF Executed, T!More, T!Msg, T!Ask, T!Valid
<1> QED
  BY <1>t, <1>3, <1>4, <1>5, <1>6 DEF Executed

\* The handshake finds the hello, and nothing else, at the head.
LEMMA HelloFirst ==
  ASSUME TypeOK, Wired, Greeted, InitHello
  PROVE  /\ on["init"] = link /\ link \in Clients /\ Incoming("init").type = "hello"
         /\ pc' = [pc EXCEPT !["init"] = "ok", !["reader"] = "created"]
<1>1. pc["init"] = "hello" /\ pc["reader"] = "none" /\ "init" \in Tasks
  BY DEF InitHello, Greeted, Tasks
<1>2. on["init"] = link /\ link \in Clients /\ up[link] # <<>>
  BY <1>1 DEF InitHello, Receives, Ready, Wired
<1>3. Incoming("init").type = "hello"
  BY <1>1, <1>2 DEF Greeted, Incoming
<1> QED
  BY <1>2, <1>3 DEF InitHello

LEMMA BegunActs ==
  ASSUME TypeOK, Wired, Begun, Acts
  PROVE  Begun'
<1> USE DEF Begun, ReaderAlive, At, AtOn, attrs, calls, links, tasks
<1>t. /\ pc \in [Tasks -> Labels] /\ {"init", "reader", "close"} \subseteq Tasks
      /\ \A r \in Callers : r \in Tasks /\ r \notin {"init", "reader", "close"}
      /\ conn \in [Clients -> {"unused", "accepted", "refused", "open", "closed"}]
      /\ None \notin Clients /\ link' = link
      /\ on \in [Tasks -> Clients \cup {None}] /\ on["init"] \in {None, link}
      /\ on["init"] # None => conn[link] \in {"open", "closed"}
      /\ \A c \in Clients : c # link => conn[c] = "unused"
  BY InitiatorAssumption DEF TypeOK, TaskOK, ConnOK, Tasks, Acts, target, Wired
<1>1. CASE InitStart
  BY <1>1, <1>t DEF InitStart
<1>2. CASE InitAgain \/ InitBind \/ InitSpawn \/ InitClientTimeout \/ InitCancelled
  BY <1>2, <1>t DEF InitAgain, InitBind, InitSpawn, InitClientTimeout, InitCancelled
<1>3. CASE InitGreet \/ InitGreeted \/ InitNoTransport
  BY <1>3, <1>t DEF InitGreet, InitGreeted, InitNoTransport
<1>4. CASE InitRaises
  BY <1>4, <1>t DEF InitRaises, Shut
<1>5. CASE InitHello
  BY <1>5, <1>t DEF InitHello, Receives, Ready
<1>6. CASE ReaderStart
  BY <1>6, <1>t DEF ReaderStart
<1>7. CASE ReaderDispatches
  BY <1>7, <1>t DEF ReaderDispatches, ReaderTakes, ReaderAt
<1>8. CASE ReaderCrashes \/ ReaderRaises
  BY <1>8, <1>t DEF ReaderCrashes, ReaderRaises, ReaderTakes, ReaderAt, ReaderCleanup, Shut, Live
<1>9. CASE ReaderLosesPeer
  BY <1>9, <1>t DEF ReaderLosesPeer, ReaderAt, Shut, Live
<1>10. CASE ReaderCleaned \/ ReaderCancelled
  BY <1>10, <1>t DEF ReaderCleaned, ReaderCancelled, ReaderAt, ReaderCleanup, Shut, Live
<1>11. ASSUME NEW r \in Callers,
              CallerStep(r) \/ CallerRejected(r) \/ CallerSends(r) \/ CallerCancelled(r)
       PROVE  Begun'
  BY <1>11, <1>t DEF CallerStep, CallerRejected, CallerSends, CallerDrained, CallerDrainRaises,
    CallerDone, CallerCancelled, Shut
<1>12. CASE CloseStart
  BY <1>12, <1>t DEF CloseStart, CloseTransport, CloseServer, ServerClosed, Shut, Live
<1>13. CASE CloseReaderDone
  BY <1>13, <1>t DEF CloseReaderDone, CloseTransport, CloseServer, ServerClosed, Shut, Live
<1>14. CASE CloseCleaned \/ CloseServerClosed \/ CloseReaped \/ ChildExits
  BY <1>14, <1>t DEF CloseCleaned, CloseServer, CloseServerClosed, ServerClosed, CloseReaped, ChildExits
<1>15. ASSUME NEW c \in Clients, OnClient(c)
       PROVE  Begun'
  BY <1>15, <1>t DEF OnClient, Vacant
<1> QED
  BY <1>1, <1>2, <1>3, <1>4, <1>5, <1>6, <1>7, <1>8, <1>9, <1>10, <1>11, <1>12, <1>13, <1>14, <1>15
     DEF Acts, Code, Users, InitStep, ReaderStep, CloseStep

LEMMA GreetedActs ==
  ASSUME TypeOK, Wired, Greeted, Begun', Acts
  PROVE  Greeted'
<1>t. /\ link' = link /\ tpc' = tpc /\ pc \in [Tasks -> Labels] /\ {"init", "reader"} \subseteq Tasks
  BY DEF Acts, target, TypeOK, TaskOK, Tasks
<1>1. CASE InitHello
  <2>1. pc'["init"] = "ok" /\ pc'["reader"] = "created"
    BY <1>1, <1>t, HelloFirst
  <2> QED
    BY <2>1 DEF Greeted
<1>2. CASE ~InitHello
  <2>1. /\ cancelled' => pc'["reader"] # "none"
        /\ (pc'["reader"] = "none") = (pc["reader"] = "none")
    BY <1>2, Ways
  <2>2. pc["reader"] = "none" => up' = up
    BY <1>2, Kinds DEF CallerSends, CallerCancelled, InitGreet, ReaderDispatches, ReaderCrashes,
      ReaderTakes, ReaderAt, ReaderRaises, links
  <2>3. T!Reaches' => T!Reaches
    BY Fades
  <2> QED
    BY <1>t, <2>1, <2>2, <2>3 DEF Greeted, Begun
<1> QED
  BY <1>1, <1>2

\* A response that is taken off the wire is not waited for any more.
LEMMA Taking ==
  ASSUME TypeOK, Wired, Greeted, Acts, NEW c \in Clients
  PROVE  \/ up'[c] = up[c]
         \/ /\ up[c] # <<>> /\ up'[c] = Tail(up[c])
            /\ up[c][1].type \in {"res", "badres"} => up[c][1].id \notin DOMAIN pending'
<1>t. up \in [Clients -> Seq(Frame)] /\ up[c] \in Seq(Frame)
  BY DEF TypeOK, WireOK
<1>h. up[c] # <<>> => Head(up[c]) = up[c][1]
  BY <1>t
<1>1. CASE InitHello
  <2>1. on["init"] = link /\ Incoming("init").type = "hello"
    BY <1>1, HelloFirst
  <2>2. up' = [up EXCEPT ![link] = Tail(@)] /\ up[link] # <<>>
    BY <1>1, <2>1 DEF InitHello, Receives, Ready
  <2> QED
    BY <1>t, <1>h, <2>1, <2>2 DEF Incoming
<1>2. CASE ReaderDispatches
  <2>1. up' = [up EXCEPT ![on["reader"]] = Tail(@)] /\ up[on["reader"]] # <<>> /\ pending' = Popped
    BY <1>2 DEF ReaderDispatches, ReaderTakes, Receives, Ready
  <2>2. Msg.type \in {"res", "badres"} => Msg.id \notin DOMAIN Popped
    BY DEF Popped, Answers, Restrict
  <2> QED
    BY <1>t, <1>h, <2>1, <2>2 DEF Msg, Incoming
<1>3. CASE ReaderCrashes
  <2>1. up' = [up EXCEPT ![on["reader"]] = Tail(@)] /\ up[on["reader"]] # <<>>
    BY <1>3 DEF ReaderCrashes, ReaderTakes, Receives, Ready
  <2>2. DOMAIN pending' = {}
    BY <1>3 DEF ReaderCrashes, FailAll
  <2> QED
    BY <1>t, <2>1, <2>2
<1>4. InitHello \/ ReaderDispatches \/ ReaderCrashes \/ UNCHANGED up
  BY Kinds DEF CallerSends, CallerCancelled, InitGreet, ReaderRaises, links
<1> QED
  BY <1>1, <1>2, <1>3, <1>4

\* The responses behind the first one move up.
LEMMA MoveUp ==
  ASSUME WireOK, NEW c \in Clients, up[c] # <<>>, up'[c] = Tail(up[c])
  PROVE  /\ \A k \in Results(c)' : k \in Nat /\ k + 1 \in Results(c) /\ up'[c][k] = up[c][k + 1]
         /\ \A j \in Results(c) : j = 1 \/ (j - 1 \in Results(c)' /\ up'[c][j - 1] = up[c][j])
<1>1. /\ up[c] \in Seq(Frame) /\ Len(up[c]) \in Nat \ {0}
      /\ Len(up'[c]) = Len(up[c]) - 1
      /\ \A k \in 1..(Len(up[c]) - 1) : up'[c][k] = up[c][k + 1]
  BY DEF WireOK
<1> QED
  BY <1>1 DEF Results

\* The responses in flight remain the results of their requests.
LEMMA RepliedActs ==
  ASSUME IdInv, Wired, Ordered, Executed, Greeted, Replied, Acts
  PROVE  Replied'
<1>t. /\ link' = link /\ tpc' = tpc /\ got' = got /\ ran' = ran
      /\ nextId \in Nat \ {0} /\ TypeOK /\ Len(ran) \in Nat
  BY DEF IdInv, TypeOK, AttrsOK, Acts, target, Executed
<1>1. \A n \in 1..Len(ran) : n \in DOMAIN pending' => n \in DOMAIN pending
  <2>1. ASSUME NEW n \in 1..Len(ran) PROVE n # nextId
    <3>1. n \in DOMAIN Issued
      BY DEF Executed
    <3> QED
      BY <1>t, <3>1 DEF Ordered
  <2>2. Shrinks \/ \E c \in Clients, r \in Callers : Grows(c, r)
    BY EveryIdStep, ActsNext
  <2>3. Shrinks => DOMAIN pending' \subseteq DOMAIN pending
    BY DEF Shrinks
  <2>4. ASSUME NEW c \in Clients, NEW r \in Callers, Grows(c, r)
        PROVE  DOMAIN pending' = DOMAIN pending \cup {nextId}
    BY <2>4 DEF Grows
  <2> QED
    BY <2>1, <2>2, <2>3, <2>4
<1>2. ASSUME NEW c \in Clients, NEW k \in Results(c)'
      PROVE  Proper(c, k)'
  <2>1. CASE up'[c] = up[c]
    <3>1. k \in Results(c) /\ Proper(c, k) /\ Results(c)' = Results(c)
      BY <1>2, <2>1 DEF Results, Replied
    <3> QED
      BY <1>1, <1>t, <2>1, <3>1 DEF Proper
  <2>2. CASE /\ up[c] # <<>> /\ up'[c] = Tail(up[c])
             /\ up[c][1].type \in {"res", "badres"} => up[c][1].id \notin DOMAIN pending'
    <3> DEFINE n == up'[c][k].id
    <3>1. k \in Nat /\ k + 1 \in Results(c) /\ up'[c][k] = up[c][k + 1]
      BY <1>t, <2>2, MoveUp DEF TypeOK
    <3>2. Proper(c, k + 1)
      BY <3>1 DEF Replied
    <3>3. /\ n \in 1..Len(ran) /\ up'[c][k].val \in T!Responses
          /\ n \in DOMAIN pending =>
               \/ up'[c][k].val = ran[n].val
               \/ \E j \in Results(c) : j < k + 1 /\ up[c][j].id = n
      BY <3>1, <3>2 DEF Proper
    <3>4. ASSUME n \in DOMAIN pending', NEW j \in Results(c), j < k + 1, up[c][j].id = n
          PROVE  \E i \in Results(c)' : i < k /\ up'[c][i].id = n
      <4>1. j # 1 /\ j \in Nat
        BY <2>2, <3>4 DEF Results
      <4>2. j - 1 \in Results(c)' /\ up'[c][j - 1] = up[c][j]
        <5>1. WireOK
          BY <1>t DEF TypeOK
        <5> QED
          BY <2>2, <4>1, <5>1, MoveUp
      <4> QED
        BY <3>1, <3>4, <4>1, <4>2
    <3> QED
      BY <1>1, <1>t, <3>3, <3>4 DEF Proper
  <2> QED
    BY <1>t, <2>1, <2>2, Taking
<1>3. tpc \in {"start", "hello"} => \A c \in Clients : up'[c] = <<>>
  BY <1>t, Taking DEF Replied
<1>4. ASSUME tpc = "drain"
      PROVE  /\ got \in Requests(link)' /\ down'[link][got].id = Len(ran)
             /\ T!Reaches' /\ Len(ran) \in DOMAIN pending' =>
                  \E j \in Results(link)' : up'[link][j].id = Len(ran)
  <2>1. link \in Clients /\ got \in Requests(link) /\ down[link][got].id = Len(ran)
    BY <1>4 DEF Replied, Wired
  <2>2. PICK c \in Clients : c = link
    BY <2>1
  <2>3. got \in Requests(c)' /\ down'[c][got] = down[c][got]
    BY <1>t, <2>1, <2>2, Joins
  <2>4. ASSUME T!Reaches', Len(ran) \in DOMAIN pending'
        PROVE  \E j \in Results(c)' : up'[c][j].id = Len(ran)
    <3>1. T!Reaches
      BY <1>t, <2>4, Fades
    <3>2. Len(ran) \in DOMAIN pending
      <4>1. Len(ran) # 0
        BY <2>1 DEF IdInv, IdsHandedOut
      <4> QED
        BY <1>1, <1>t, <2>4, <4>1
    <3>3. PICK j \in Results(c) : up[c][j].id = Len(ran)
      BY <1>4, <2>2, <3>1, <3>2 DEF Replied
    <3>4. CASE up'[c] = up[c]
      BY <3>3, <3>4 DEF Results
    <3>5. CASE /\ up[c] # <<>> /\ up'[c] = Tail(up[c])
               /\ up[c][1].type \in {"res", "badres"} => up[c][1].id \notin DOMAIN pending'
      <4>1. j # 1
        BY <2>4, <3>3, <3>5 DEF Results
      <4>2. j - 1 \in Results(c)' /\ up'[c][j - 1] = up[c][j]
        <5>1. WireOK
          BY <1>t DEF TypeOK
        <5> QED
          BY <3>3, <3>5, <4>1, <5>1, MoveUp
      <4> QED
        BY <3>3, <4>2
    <3> QED
      BY <1>t, <3>4, <3>5, Taking
  <2> QED
    BY <1>t, <2>1, <2>2, <2>3, <2>4 DEF Requests, Results
<1> QED
  BY <1>t, <1>2, <1>3, <1>4 DEF Replied

\* Only the reader answers, and only the caller whose future is in the table.
LEMMA Answering ==
  ASSUME FInv, Acts, NEW r \in Callers, fut'[r].st = "answered"
  PROVE  \/ fut'[r] = fut[r]
         \/ /\ ReaderDispatches /\ Answers /\ r = pending[Msg.id]
            /\ fut'[r] = [st |-> "answered", val |-> Msg.val]
<1>t. FutOK
  BY DEF FInv, TypeOK
<1>1. CASE ReaderDispatches
  BY <1>t, <1>1 DEF ReaderDispatches, FutOK
<1>2. CASE ReaderCrashes \/ ReaderRaises
  BY <1>t, <1>2 DEF ReaderCrashes, ReaderRaises, FailAll, FutOK
<1>3. ASSUME NEW q \in Callers, CallerSends(q) \/ CallerCancelled(q)
      PROVE  fut'[r] = fut[r]
  BY <1>t, <1>3 DEF CallerSends, CallerCancelled, FutOK
<1>4. CASE UNCHANGED fut
  BY <1>4
<1>5. \/ ReaderDispatches \/ ReaderCrashes \/ ReaderRaises \/ UNCHANGED fut
      \/ \E q \in Callers : CallerSends(q) \/ CallerCancelled(q)
  BY Kinds DEF InitGreet, InitHello, calls
<1> QED
  BY <1>1, <1>2, <1>3, <1>4, <1>5

\* The result at the head is that of the caller whose future is settled with it.
LEMMA Matching ==
  ASSUME IdInv, Wired, Executed, Replied, ReaderDispatches, Answers
  PROVE  /\ Msg.id \in 1..Len(ran) /\ Msg.val \in T!Responses
         /\ ran[Msg.id].by = pending[Msg.id] /\ ran[Msg.id].val = Msg.val
<1>1. /\ on["reader"] = link /\ link \in Clients /\ up[link] # <<>> /\ Len(up[link]) \in Nat
      /\ Msg = up[link][1]
  <2>1. on["reader"] \in {None, link} /\ on["reader"] \in Clients \cup {None} /\ up \in [Clients -> Seq(Frame)]
    BY DEF Wired, IdInv, TypeOK, TaskOK, WireOK, Tasks
  <2>2. on["reader"] # None /\ up[on["reader"]] # <<>>
    BY DEF ReaderDispatches, ReaderTakes, Receives, Ready
  <2> QED
    BY <2>1, <2>2 DEF Msg, Incoming
<1>2. 1 \in Results(link)
  <2>1. Len(up[link]) # 0
    BY <1>1 DEF IdInv, TypeOK, WireOK
  <2> QED
    BY <1>1, <2>1 DEF Results, Answers
<1>3. Proper(link, 1)
  BY <1>1, <1>2 DEF Replied
<1>4. /\ Msg.id \in 1..Len(ran) /\ Msg.val \in T!Responses
      /\ ran[Msg.id].val = Msg.val
  <2>1. ~ \E j \in Results(link) : j < 1 /\ up[link][j].id = Msg.id
    BY DEF Results
  <2> QED
    BY <1>1, <1>3, <2>1 DEF Proper, Answers
<1>5. Names /\ Msg.id \in DOMAIN Issued /\ ran[Msg.id].by = Issued[Msg.id]
  BY <1>4, IssuedNames DEF Executed
<1>6. PICK c \in Clients : \E k \in Requests(c) : down[c][k].id = Msg.id
  BY <1>5 DEF Names
<1>7. PICK k \in Requests(c) : down[c][k].id = Msg.id
  BY <1>6
<1>8. Issued[Msg.id] = down[c][k].val
  BY <1>5, <1>6, <1>7 DEF Names
<1>9. pending[Msg.id] = down[c][k].val
  BY <1>6, <1>7 DEF IdInv, IdsNameOneRequest, Answers
<1> QED
  BY <1>4, <1>5, <1>8, <1>9

LEMMA SettledActs ==
  ASSUME IdInv, FInv, Wired, Executed, Replied, Greeted, Settled, Acts
  PROVE  Settled'
<1> SUFFICES ASSUME NEW r \in Callers
             PROVE  /\ pc'[r] = "returned" => fut'[r].st = "answered"
                    /\ fut'[r].st = "answered" =>
                         /\ fut'[r].val \in T!Responses
                         /\ \E i \in 1..Len(ran) : ran[i].by = r /\ ran[i].val = fut'[r].val
  BY DEF Settled, Acts, target
<1>1. ASSUME pc'[r] = "returned" PROVE fut'[r].st = "answered"
  <2>1. fut[r].st = "answered"
    <3>1. CASE CallerDone(r)
      BY <1>1, <3>1 DEF CallerDone, At, FInv, TypeOK, TaskOK, Tasks
    <3>2. CASE pc'[r] = pc[r]
      BY <1>1, <3>2 DEF Settled
    <3> QED
      BY <1>1, <3>1, <3>2, Ways DEF IdInv
  <2>2. fut'[r] = fut[r]
    <3>1. pc[r] # "idle"
      BY <2>1 DEF FInv, Fresh
    <3> QED
      BY <2>1, <3>1, EveryFutStep, ActsNext DEF FutStep
  <2> QED
    BY <2>1, <2>2
<1>2. ASSUME fut'[r].st = "answered"
      PROVE  /\ fut'[r].val \in T!Responses
             /\ \E i \in 1..Len(ran) : ran[i].by = r /\ ran[i].val = fut'[r].val
  <2>1. CASE fut'[r] = fut[r]
    BY <1>2, <2>1 DEF Settled
  <2>2. CASE /\ ReaderDispatches /\ Answers /\ r = pending[Msg.id]
             /\ fut'[r] = [st |-> "answered", val |-> Msg.val]
    BY <2>2, Matching
  <2> QED
    BY <1>2, <2>1, <2>2, Answering
<1> QED
  BY <1>1, <1>2

LEMMA RegisteredActs == Registered /\ Acts => Registered'
BY DEF Acts, target, registry, Registered, TP!IInv, TP!TypeOK, TP!Apart, TP!Linked, TP!Alive,
       TP!HandlesHold, TP!Valid

LEMMA SInvActs == SInv /\ Acts => SInv'
<1> SUFFICES ASSUME SInv, Acts PROVE SInv'
  OBVIOUS
<1>1. IdInv' /\ FInv'
  BY IdsActs DEF SInv
<1>2. TypeOK
  BY DEF SInv, IdInv
<1>3. Begun'
  BY <1>2, BegunActs DEF SInv, Agree
<1> QED
  BY <1>1, <1>2, <1>3, WiredActs, OrderedActs, ExecutedActs, RepliedActs, GreetedActs, SettledActs,
     RegisteredActs
     DEF SInv, Agree

-----------------------------------------------------------------------------
(* Steps of the target.                                                    *)

\* A step of the target, of the interpreter it runs in, or the end of its process.
Runs ==
  /\ \/ \E c \in Clients : T!Connect(c)
     \/ T!Step \/ T!Function \/ T!Interpreter
     \/ T!Exit /\ UNCHANGED <<conn, up, down, link, got, ran, registry>>
  /\ UNCHANGED Idle

\* They write no request and touch nothing of the initiator.
LEMMA RunsIdle ==
  Runs => UNCHANGED <<down, server, proc, connected, closed, nextId, transport, pending, fut, pc, on, cancelled>>
BY DEF Runs, Idle, calls, tasks, T!Connect, T!Step, T!ConnectFails, T!Hello, T!Serve, T!StartCall,
       T!Ignore, T!Drained, T!DrainRaises, T!Leave, T!Function, T!Interpreter, T!wire

LEMMA WiredRuns ==
  ASSUME TypeOK, Wired, Runs
  PROVE  Wired'
<1> USE DEF Wired
<1>t. /\ on \in [Tasks -> Clients \cup {None}] /\ None \notin Clients
      /\ conn \in [Clients -> {"unused", "accepted", "refused", "open", "closed"}]
      /\ peer \in [Clients -> SUBSET {"eof", "stalled"}]
      /\ up \in [Clients -> Seq(Frame)]
      /\ down' = down /\ transport' = transport /\ on' = on
  BY InitiatorAssumption, RunsIdle DEF TypeOK, TaskOK, ConnOK, WireOK
<1>1. ASSUME NEW c \in Clients, T!Connect(c)
      PROVE  Wired'
  BY <1>1, <1>t DEF T!Connect
<1>2. CASE T!Exit /\ UNCHANGED <<conn, up, link>>
  BY <1>2, <1>t DEF T!Exit
<1>3. CASE T!Hello \/ T!Serve \/ T!Function
  <2>1. /\ tpc \notin {"start", "exited"} /\ tpc' # "start" /\ UNCHANGED <<conn, link>>
        /\ peer' = peer \/ T!Exit
    BY <1>3 DEF T!Hello, T!Serve, T!Function, T!Open, T!Refuse, T!Respond, T!Draining, T!Exits, T!Exit
  <2>2. up' = up \/ \E f : up' = [up EXCEPT ![link] = Append(@, f)]
    BY <1>3 DEF T!Hello, T!Serve, T!Function, T!Open, T!Refuse, T!Respond, T!Exits, T!Write
  <2>3. \A c \in Clients : "stalled" \notin peer'[c]
    BY <2>1, <1>t DEF T!Exit
  <2> QED
    BY <2>1, <2>2, <2>3, <1>t
<1>4. CASE T!DrainRaises
  BY <1>4, <1>t DEF T!DrainRaises, T!Write
<1>5. CASE T!StartCall \/ T!Ignore \/ T!Drained \/ T!Interpreter
  BY <1>5, <1>t DEF T!StartCall, T!Ignore, T!Drained, T!Interpreter, T!wire
<1> QED
  BY <1>1, <1>2, <1>3, <1>4, <1>5 DEF Runs, T!Step, T!ConnectFails, T!Leave

\* The tables of the target change as the registry does.
LEMMA RegistrySteps == Runs => [TP!RegistryNext]_(TP!registry)
<1> SUFFICES ASSUME Runs PROVE [TP!RegistryNext]_(TP!registry)
  OBVIOUS
<1> USE DEF registry, TP!registry, TP!tables, T!registry, T!tables
<1>1. CASE T!Serve
  <2>1. CASE T!Open
    <3>1. PICK o \in T!Alive : T!Alloc(o) /\ UNCHANGED home
      BY <2>1 DEF T!Open
    <3>2. o \in Objects /\ o \in TP!Alive
      BY <3>1 DEF T!Alive, TP!Alive
    <3>3. TP!Alloc(o)
      BY <3>1 DEF T!Alloc, TP!Alloc, T!Known, TP!Known, T!NewNext, TP!NewNext, T!Indexed,
        TP!Indexed, T!With, TP!With
    <3> QED
      BY <3>1, <3>2, <3>3 DEF TP!RegistryNext
  <2> QED
    BY <1>1, <2>1 DEF T!Serve, T!Refuse
<1>2. CASE T!Interpreter
  <2>1. PICK o \in Objects :
          (\E a \in Addresses : T!Create(o, a) /\ UNCHANGED T!tables) \/ T!Collect(o)
    BY <1>2 DEF T!Interpreter
  <2>2. ASSUME NEW a \in Addresses, T!Create(o, a) PROVE TP!Create(o, a)
    BY <2>2 DEF T!Create, TP!Create, T!Alive, TP!Alive, T!Range, TP!Range
  <2>3. T!Collect(o) => TP!Collect(o)
    BY DEF T!Collect, TP!Collect, T!Alive, TP!Alive, T!Held, TP!Held, T!Range, TP!Range
  <2> QED
    BY <2>1, <2>2, <2>3 DEF TP!RegistryNext
<1>3. CASE UNCHANGED registry
  BY <1>3
<1> QED
  BY <1>1, <1>2, <1>3 DEF Runs, T!Step, T!ConnectFails, T!Hello, T!StartCall, T!Ignore, T!Drained,
     T!DrainRaises, T!Leave, T!Function, T!Connect, T!Exit

LEMMA SameResponses == T!Responses = TP!Responses
BY DEF T!Responses, TP!Responses, T!Handle, TP!Handle, T!Result, TP!Result, T!Error, TP!Error

\* The registry stays correct.
LEMMA RegistryRuns == Registered /\ Runs => TP!IInv'
BY RegistrySteps, TP!NextIInv, TargetAssumptions DEF Registered, TP!NextIInv

\* The handle that is answered is that of the object that was resolved.
LEMMA Resolves ==
  ASSUME Registered, NEW o \in T!Alive, T!Alloc(o), UNCHANGED home
  PROVE  /\ T!HandleFor(o) \in 1..MaxHandle
         /\ T!HandleFor(o) \in DOMAIN handleToObj' /\ handleToObj'[T!HandleFor(o)] = o
<1>1. o \in TP!Alive
  BY DEF T!Alive, TP!Alive
<1>2. TP!Alloc(o)
  BY DEF T!Alloc, TP!Alloc, T!Known, TP!Known, T!NewNext, TP!NewNext, T!Indexed,
    TP!Indexed, T!With, TP!With, T!tables, TP!tables
<1>3. T!HandleFor(o) = TP!HandleFor(o)
  BY DEF T!HandleFor, TP!HandleFor, T!Known, TP!Known
<1> QED
  BY <1>1, <1>2, <1>3, TP!Registers, TargetAssumptions DEF Registered, TP!Registers

\* What a request that is executed leaves in the log, and on the wire.
Logged(val, obj) ==
  /\ val \in T!Responses \cup {None} /\ obj \in Objects \cup {None}
  /\ val \in T!Responses /\ val.tag = "handle" =>
       val.of \in DOMAIN handleToObj' /\ handleToObj'[val.of] = obj
  /\ ran' = Append(ran, [by |-> T!Msg.val, val |-> val, obj |-> obj])
  /\ \/ /\ val \in T!Responses /\ tpc' \in {"drain", "drainError"} /\ peer' = peer
        /\ up' = IF T!Reaches THEN [up EXCEPT ![link] = Append(@, Res(T!Msg.id, val))] ELSE up
     \/ T!Exit /\ up' = up

LEMMA Executing ==
  ASSUME Wired, Executed, Registered, T!Serve \/ T!Function
  PROVE  /\ tpc \in {"recv", "busy"} /\ link \in Clients
         /\ T!More /\ T!Msg.type = "req" /\ got' = got + 1 /\ UNCHANGED <<conn, down, link>>
         /\ \E val, obj : Logged(val, obj)
<1>1. /\ tpc \in {"recv", "busy"} /\ link \in Clients
      /\ T!More /\ T!Msg.type = "req" /\ got' = got + 1 /\ UNCHANGED <<conn, down, link>>
  BY DEF T!Serve, T!Function, T!Takes, Wired, Executed
<1>2. T!Error \in T!Responses /\ T!Error.tag # "handle"
  BY DEF T!Error, T!Responses
<1>3. ASSUME NEW val \in T!Responses, NEW obj \in Objects \cup {None}, T!Respond(val, obj),
             val.tag = "handle" => val.of \in DOMAIN handleToObj' /\ handleToObj'[val.of] = obj
      PROVE  Logged(val, obj)
  BY <1>3 DEF Logged, T!Respond, T!Recording, T!Draining, T!Write, Res
<1>4. CASE T!Serve
  <2>1. CASE T!Open
    <3>1. PICK o \in T!Alive : /\ T!Alloc(o) /\ UNCHANGED home
                               /\ T!Respond(T!Handle(T!HandleFor(o)), o)
      BY <2>1 DEF T!Open
    <3>2. /\ T!HandleFor(o) \in 1..MaxHandle
          /\ T!HandleFor(o) \in DOMAIN handleToObj' /\ handleToObj'[T!HandleFor(o)] = o
      BY <3>1, Resolves
    <3>3. /\ T!Handle(T!HandleFor(o)) \in T!Responses
          /\ T!Handle(T!HandleFor(o)).of = T!HandleFor(o) /\ o \in Objects
      BY <3>2 DEF T!Handle, T!Responses, T!Alive
    <3> QED
      BY <1>1, <1>3, <3>1, <3>2, <3>3
  <2>2. CASE T!Refuse
    BY <1>1, <1>2, <1>3, <2>2 DEF T!Refuse
  <2> QED
    BY <1>4, <2>1, <2>2 DEF T!Serve
<1>5. CASE T!Function
  <2> DEFINE o == handleToObj[T!Ask.on]
  <2>1. o \in Objects
    BY <1>5 DEF T!Function, Executed, Registered, TP!IInv, TP!TypeOK, T!Valid
  <2>2. T!Result(o) \in T!Responses /\ T!Result(o).tag # "handle"
    BY <2>1 DEF T!Result, T!Responses
  <2>3. T!Exits => Logged(None, o)
    BY <2>1, SessionAssumption DEF Logged, T!Exits, T!Recording
  <2> QED
    BY <1>1, <1>2, <1>3, <1>5, <2>1, <2>2, <2>3 DEF T!Function
<1> QED
  BY <1>1, <1>4, <1>5

\* What a step of the target does to the connection.
LEMMA Deeds ==
  Runs => \/ T!Serve \/ T!Function \/ T!Hello \/ T!DrainRaises
          \/ \E c \in Clients : T!Connect(c)
          \/ /\ UNCHANGED <<conn, up, link, ran>>
             /\ \/ T!Exit /\ UNCHANGED <<got, registry>>
                \/ UNCHANGED peer /\ (T!StartCall \/ T!Ignore \/ T!Drained \/ T!Interpreter)
BY DEF Runs, T!Step, T!ConnectFails, T!Leave, T!StartCall, T!Ignore, T!Drained, T!Interpreter, T!wire,
       registry, T!registry, T!tables

LEMMA TypedRuns ==
  ASSUME TypeOK, Wired, Executed, Replied, Registered, Runs
  PROVE  TypeOK'
<1>t. /\ conn \in [Clients -> {"unused", "accepted", "refused", "open", "closed"}]
      /\ peer \in [Clients -> SUBSET {"eof", "stalled"}]
      /\ up \in [Clients -> Seq(Frame)] /\ down \in [Clients -> Seq(Frame)]
  BY DEF TypeOK, ConnOK, WireOK
<1>p. T!Exit => peer' \in [Clients -> SUBSET {"eof", "stalled"}]
  BY <1>t DEF T!Exit
<1>f. ASSUME NEW c \in Clients, NEW f \in Frame, up' = [up EXCEPT ![c] = Append(@, f)]
      PROVE  up' \in [Clients -> Seq(Frame)]
  <2>1. Append(up[c], f) \in Seq(Frame)
    BY <1>t
  <2> QED
    BY <1>f, <1>t, <2>1
<1>v. \A v \in T!Responses, i \in Nat : Res(i, v) \in Frame
  BY SessionAssumption DEF Res, Frame, FrameTypes
<1>1. /\ conn' \in [Clients -> {"unused", "accepted", "refused", "open", "closed"}]
      /\ peer' \in [Clients -> SUBSET {"eof", "stalled"}]
      /\ up' \in [Clients -> Seq(Frame)]
  <2>1. CASE T!Serve \/ T!Function
    <3>1. /\ link \in Clients /\ T!More /\ conn' = conn
          /\ \E val, obj : Logged(val, obj)
      BY <2>1, Executing
    <3>2. T!Msg \in Frame
      BY <3>1, <1>t DEF T!More, T!Msg, Executed
    <3>3. T!Msg.id \in Nat
      BY <3>2 DEF Frame
    <3> QED
      BY <3>1, <3>3, <1>t, <1>p, <1>f, <1>v DEF Logged
  <2>2. CASE T!Hello
    <3>1. [type |-> "hello", id |-> 0, val |-> None] \in Frame
      BY DEF Frame, FrameTypes
    <3>2. link \in Clients
      BY <2>2 DEF T!Hello, Wired
    <3> QED
      BY <2>2, <3>1, <3>2, <1>t, <1>p, <1>f DEF T!Hello, T!Write
  <2>3. CASE T!DrainRaises
    <3>1. link \in Clients /\ got \in Requests(link)
      BY <2>3 DEF T!DrainRaises, Wired, Replied
    <3>2. down[link][got] \in Frame
      BY <3>1, <1>t DEF Requests
    <3>3. down[link][got].id \in Nat /\ T!Error \in T!Responses
      BY <3>2 DEF Frame, T!Responses
    <3>4. [type |-> "res", id |-> down[link][got].id, val |-> T!Error] \in Frame
      BY <3>3, <1>v DEF Res
    <3> QED
      BY <2>3, <3>1, <3>4, <1>t, <1>f DEF T!DrainRaises, T!Write
  <2>4. ASSUME NEW c \in Clients, T!Connect(c)
        PROVE  /\ conn' \in [Clients -> {"unused", "accepted", "refused", "open", "closed"}]
               /\ UNCHANGED <<peer, up>>
    BY <2>4, <1>t DEF T!Connect
  <2>5. CASE UNCHANGED <<conn, up>> /\ (T!Exit \/ UNCHANGED peer)
    BY <2>5, <1>t, <1>p
  <2> QED
    BY <1>t, <2>1, <2>2, <2>3, <2>4, <2>5, Deeds
<1> QED
  BY <1>1, RunsIdle DEF TypeOK, AttrsOK, TableOK, FutOK, TaskOK, ConnOK, WireOK

LEMMA IdsRuns ==
  ASSUME IdInv, FInv, Wired, Executed, Replied, Registered, Runs
  PROVE  IdInv' /\ FInv' /\ Issued' = Issued /\ \A c \in Clients : Requests(c)' = Requests(c)
<1>1. TypeOK'
  BY TypedRuns DEF IdInv
<1>2. \A c \in Clients : Requests(c)' = Requests(c)
  BY RunsIdle DEF Requests
<1>3. IdsHandedOut' /\ IdsNameOneRequest' /\ Fresh'
  BY <1>2, RunsIdle DEF IdInv, FInv, IdsHandedOut, IdsNameOneRequest, Fresh
<1>4. Issued' = Issued
  BY RunsIdle DEF Issued, Sent, Range
<1> QED
  BY <1>1, <1>2, <1>3, <1>4 DEF IdInv, FInv

LEMMA OrderedRuns ==
  ASSUME IdInv, FInv, Wired, Ordered, Executed, Replied, Registered, Runs
  PROVE  Ordered'
<1>1. /\ \A c \in Clients : \A k \in 1..Len(down'[c]) : down'[c][k].type \in {"hello", "req"}
      /\ \A c \in Clients : \A k \in Requests(c)' : down'[c][k].val \in Callers /\ pc'[down'[c][k].val] # "idle"
  BY RunsIdle, IdsRuns DEF Ordered
<1>2. ASSUME link \in Clients, conn[link] = "closed"
      PROVE  link' \in Clients /\ conn'[link'] = "closed"
  <2>1. ~ \E c \in Clients : T!Connect(c)
    BY <1>2, InitiatorAssumption DEF T!Connect, Wired
  <2>2. link' = link /\ conn' = conn
    BY <2>1, Deeds DEF T!Serve, T!Function, T!Hello, T!DrainRaises
  <2> QED
    BY <1>2, <2>2
<1>3. nextId' = nextId /\ Issued' = Issued
  BY RunsIdle, IdsRuns
<1> QED
  BY <1>1, <1>2, <1>3 DEF Ordered

\* The request that is read is the first one that has not been executed.
LEMMA NextOne ==
  ASSUME IdInv, Wired, Ordered, Executed, tpc \notin {"start", "exited"},
         T!More, T!Msg.type = "req"
  PROVE  /\ got + 1 \in Requests(link) /\ T!Msg.id = Len(ran) + 1
         /\ T!Msg.val \in Callers /\ Len(ran) + 1 \in DOMAIN Issued
         /\ Issued[Len(ran) + 1] = T!Msg.val
         /\ \A k \in Requests(link) : k <= got + 1 <=> down[link][k].id <= Len(ran) + 1
<1>t. /\ link \in Clients /\ got \in Nat /\ Len(ran) \in Nat /\ Len(down[link]) \in Nat
      /\ \A k \in Requests(link) : k \in Nat /\ down[link][k].id \in Nat
  BY DEF Wired, Executed, IdInv, TypeOK, WireOK, AttrsOK, IdsHandedOut, Requests
<1>1. got + 1 \in Requests(link) /\ T!Msg = down[link][got + 1]
  BY <1>t DEF T!More, T!Msg, Requests
<1>2. T!Msg.val \in Callers
  BY <1>t, <1>1 DEF Ordered
<1>3. T!Msg.id > Len(ran)
  BY <1>t, <1>1 DEF Executed
<1>4. Names
  BY IssuedNames
<1>5. Len(ran) + 1 \in DOMAIN Issued
  <2>1. T!Msg.id \in DOMAIN Issued
    BY <1>t, <1>1, <1>4 DEF Names
  <2> QED
    BY <1>t, <1>1, <1>3, <2>1 DEF Ordered
<1>6. PICK c \in Clients : \E k \in Requests(c) : down[c][k].id = Len(ran) + 1
  BY <1>4, <1>5 DEF Names
<1>7. PICK k \in Requests(c) : down[c][k].id = Len(ran) + 1
  BY <1>6
<1>8. c = link
  <2>1. down[c] # <<>>
    BY <1>7 DEF Requests
  <2> QED
    BY <2>1 DEF Wired
<1>m. \A i, j \in Requests(link) : i < j => down[link][i].id < down[link][j].id
  BY <1>t DEF IdInv, IdsNameOneRequest
<1>9. k = got + 1
  <2>1. k > got
    BY <1>t, <1>7, <1>8 DEF Executed
  <2>2. ~(k > got + 1)
    BY <1>t, <1>1, <1>3, <1>7, <1>8, <1>m
  <2> QED
    BY <1>t, <1>7, <1>8, <2>1, <2>2
<1>10. T!Msg.id = Len(ran) + 1
  BY <1>1, <1>7, <1>8, <1>9
<1>11. Issued[Len(ran) + 1] = T!Msg.val
  BY <1>t, <1>1, <1>4, <1>10 DEF Names
<1>12. ASSUME NEW i \in Requests(link)
       PROVE  i <= got + 1 <=> down[link][i].id <= Len(ran) + 1
  <2>1. i < got + 1 => down[link][i].id < Len(ran) + 1
    BY <1>t, <1>1, <1>10, <1>m, <1>12
  <2>2. got + 1 < i => Len(ran) + 1 < down[link][i].id
    BY <1>t, <1>1, <1>10, <1>m, <1>12
  <2>3. i = got + 1 => down[link][i].id = Len(ran) + 1
    BY <1>1, <1>10
  <2> QED
    BY <1>t, <2>1, <2>2, <2>3
<1> QED
  BY <1>1, <1>2, <1>5, <1>10, <1>11, <1>12

LEMMA ExecutedRuns ==
  ASSUME IdInv, FInv, Wired, Ordered, Executed, Replied, Registered, Runs
  PROVE  Executed'
<1>t. /\ got \in Nat /\ ran \in Seq(TP!Records) /\ Len(ran) \in Nat /\ down' = down
      /\ Issued' = Issued /\ \A c \in Clients : Requests(c)' = Requests(c)
      /\ \A c \in Clients : Len(down[c]) \in Nat
  BY RunsIdle, IdsRuns DEF Executed, IdInv, TypeOK, WireOK
<1>1. CASE T!Serve \/ T!Function
  <2>1. /\ tpc \in {"recv", "busy"} /\ link \in Clients /\ link' = link /\ got' = got + 1
        /\ T!More /\ T!Msg.type = "req"
    BY <1>1, Executing
  <2>2. PICK val, obj : Logged(val, obj)
    BY <1>1, Executing
  <2>3. /\ T!Msg.val \in Callers /\ Len(ran) + 1 \in DOMAIN Issued
        /\ Issued[Len(ran) + 1] = T!Msg.val
        /\ \A k \in Requests(link) : k <= got + 1 <=> down[link][k].id <= Len(ran) + 1
    BY <2>1, NextOne
  <2> DEFINE e == [by |-> T!Msg.val, val |-> val, obj |-> obj]
  <2>4. e \in TP!Records
    BY <2>2, <2>3, SameResponses DEF Logged, TP!Records
  <2>5. ran' = Append(ran, e) /\ tpc' \notin {"start", "hello", "busy"} /\ e.by = T!Msg.val
    BY <2>2 DEF Logged, T!Exit
  <2> HIDE DEF e
  <2>6. /\ ran' \in Seq(TP!Records) /\ Len(ran') = Len(ran) + 1 /\ ran'[Len(ran) + 1] = e
        /\ \A i \in 1..Len(ran) : ran'[i] = ran[i]
    BY <1>t, <2>4, <2>5
  <2>7. \A i \in 1..Len(ran') : i \in DOMAIN Issued' /\ ran'[i].by = Issued'[i]
    <3> SUFFICES ASSUME NEW i \in 1..Len(ran') PROVE i \in DOMAIN Issued /\ ran'[i].by = Issued[i]
      BY <1>t
    <3>1. i \in 1..Len(ran) \/ i = Len(ran) + 1
      BY <1>t, <2>6
    <3> QED
      BY <2>3, <2>5, <2>6, <3>1 DEF Executed
  <2>8. got + 1 <= Len(down[link])
    BY <1>t, <2>1 DEF T!More
  <2>9. \A k \in Requests(link)' : k <= got' <=> down'[link][k].id <= Len(ran')
    BY <1>t, <2>1, <2>3, <2>6
  <2> QED
    BY <1>t, <2>1, <2>5, <2>6, <2>7, <2>8, <2>9, InitiatorAssumption DEF Executed, Requests
<1>2. ASSUME NEW c \in Clients, T!Connect(c)
      PROVE  Executed'
  <2>1. /\ link = None /\ link' = c /\ tpc' = "hello" /\ got = 0 /\ ran = <<>> /\ UNCHANGED <<got, ran>>
    BY <1>2 DEF T!Connect, Wired, Executed
  <2>2. down'[c] = <<>> /\ Requests(c)' = {}
    BY <1>t, <2>1, InitiatorAssumption DEF Wired, Requests
  <2> QED
    BY <1>t, <2>1, <2>2 DEF Executed, Requests
<1>3. CASE T!Hello
  <2>1. /\ tpc = "hello" /\ link \in Clients /\ link' = link /\ got = 0 /\ ran = <<>> /\ got' = 1
        /\ ran' = ran /\ tpc' \in {"greeted", "exited"} /\ T!More
    BY <1>3 DEF T!Hello, T!Takes, Wired, Executed, T!Exit
  <2>2. 1 <= Len(down[link])
    BY <1>t, <2>1 DEF T!More
  <2>3. tpc' = "greeted" => \A k \in Requests(link)' : k <= got' <=> down'[link][k].id <= Len(ran')
    <3> SUFFICES ASSUME tpc' = "greeted", NEW k \in Requests(link)
                 PROVE  k <= 1 <=> down[link][k].id <= 0
      BY <1>t, <2>1 DEF Requests
    <3>1. down[link][1].type = "hello"
      BY <1>3, <2>1 DEF T!Hello, T!Msg, T!Exit
    <3>2. down[link][k].id \in Nat \ {0}
      BY <2>1 DEF IdInv, IdsHandedOut, TypeOK, AttrsOK
    <3>3. k \in Nat \ {0} /\ k # 1
      BY <1>t, <2>1, <3>1 DEF Requests
    <3> QED
      BY <3>2, <3>3
  <2> QED
    BY <1>t, <2>1, <2>2, <2>3, InitiatorAssumption DEF Executed
<1>4. CASE T!DrainRaises \/ (UNCHANGED <<link, ran>> /\ T!Exit /\ UNCHANGED got)
  <2>1. /\ UNCHANGED <<link, ran, got>>
        /\ tpc' = "exited" \/ (tpc = "drain" /\ tpc' = "drainError")
    BY <1>4 DEF T!DrainRaises, T!Exit
  <2> QED
    BY <1>t, <2>1 DEF Executed, Requests
<1>5. CASE T!StartCall \/ T!Drained
  <2>1. /\ UNCHANGED <<link, ran, got, handleToObj>>
        /\ tpc \in {"recv", "greeted", "drain", "drainError"}
        /\ \/ tpc' = "busy" /\ T!More /\ T!Msg.type = "req" /\ T!Valid(T!Ask.on)
           \/ tpc' = "recv"
    BY <1>5 DEF T!StartCall, T!Drained, T!registry, T!tables
  <2> QED
    BY <1>t, <2>1 DEF Executed, Requests, T!More, T!Msg, T!Ask, T!Valid
<1>6. CASE T!Ignore
  <2>1. /\ UNCHANGED <<link, ran, tpc>> /\ got' = got + 1 /\ tpc = "recv"
        /\ T!More /\ T!Msg.type # "req" /\ link \in Clients
    BY <1>6 DEF T!Ignore, T!Takes, Wired
  <2>2. got + 1 <= Len(down[link])
    BY <1>t, <2>1 DEF T!More
  <2>3. \A k \in Requests(link) : k # got + 1 /\ k \in Nat
    BY <1>t, <2>1 DEF Requests, T!Msg
  <2>4. \A k \in Requests(link) : k <= got + 1 <=> down[link][k].id <= Len(ran)
    BY <1>t, <2>1, <2>3 DEF Executed
  <2>5. \A k \in Requests(link)' : k <= got' <=> down'[link'][k].id <= Len(ran')
    BY <1>t, <2>1, <2>4 DEF Requests
  <2> QED
    BY <1>t, <2>1, <2>2, <2>5, InitiatorAssumption DEF Executed
<1>7. CASE T!Interpreter
  <2>1. UNCHANGED <<link, ran, tpc, got, handleToObj>>
    BY <1>7 DEF T!Interpreter, T!Create, T!Collect, T!tables
  <2> QED
    BY <1>t, <2>1 DEF Executed, Requests, T!More, T!Msg, T!Ask, T!Valid
<1> QED
  BY <1>1, <1>2, <1>3, <1>4, <1>5, <1>6, <1>7, Deeds

\* Responses stay proper as the target goes on.
LEMMA ProperStays ==
  ASSUME WireOK, pending' = pending, NEW c \in Clients, NEW k \in Results(c), Proper(c, k),
         Len(ran) \in Nat, Len(ran') \in Nat, Len(ran) <= Len(ran'),
         \A i \in 1..Len(ran) : ran'[i] = ran[i],
         up'[c] = up[c] \/ \E f : up'[c] = Append(up[c], f)
  PROVE  k \in Results(c)' /\ up'[c][k] = up[c][k] /\ Proper(c, k)'
<1>1. /\ Len(up[c]) \in Nat /\ Len(up'[c]) \in Nat /\ Len(up[c]) <= Len(up'[c])
      /\ \A j \in 1..Len(up[c]) : up'[c][j] = up[c][j]
  <2>1. up[c] \in Seq(Frame)
    BY DEF WireOK
  <2>2. ASSUME NEW f, up'[c] = Append(up[c], f)
        PROVE  /\ Len(up'[c]) = Len(up[c]) + 1
               /\ \A j \in 1..Len(up[c]) : up'[c][j] = up[c][j]
    BY <2>1, <2>2
  <2> QED
    BY <2>1, <2>2
<1>2. \A j \in Results(c) : j \in Results(c)' /\ up'[c][j] = up[c][j]
  BY <1>1 DEF Results
<1>3. /\ up[c][k].id \in 1..Len(ran) /\ up[c][k].val \in T!Responses
      /\ up[c][k].id \in DOMAIN pending =>
           \/ up[c][k].val = ran[up[c][k].id].val
           \/ \E j \in Results(c) : j < k /\ up[c][j].id = up[c][k].id
  BY DEF Proper
<1>4. up[c][k].id \in 1..Len(ran')
  BY <1>3
<1> QED
  BY <1>2, <1>3, <1>4 DEF Proper

\* What the target sends.
LEMMA Answered ==
  ASSUME WireOK, NEW c \in Clients, NEW f, up'[c] = Append(up[c], f)
  PROVE  /\ Len(up[c]) \in Nat /\ Len(up'[c]) = Len(up[c]) + 1 /\ up'[c][Len(up[c]) + 1] = f
         /\ \A k \in 1..Len(up[c]) : up'[c][k] = up[c][k]
         /\ \A k \in Results(c)' : k \in Results(c) \/ k = Len(up[c]) + 1
         /\ f.type = "res" => Len(up[c]) + 1 \in Results(c)'
<1>1. /\ Len(up[c]) \in Nat /\ Len(up'[c]) = Len(up[c]) + 1 /\ up'[c][Len(up[c]) + 1] = f
      /\ \A k \in 1..Len(up[c]) : up'[c][k] = up[c][k]
  BY DEF WireOK
<1> QED
  BY <1>1 DEF Results

LEMMA RepliedRecords ==
  ASSUME IdInv, FInv, Wired, Ordered, Executed, Replied, Registered, Runs, T!Serve \/ T!Function
  PROVE  Replied'
<1>t. /\ pending' = pending /\ WireOK /\ ran \in Seq(TP!Records) /\ Len(ran) \in Nat
      /\ Requests(link)' = {k \in 1..Len(down[link']) : down[link'][k].type = "req"}
      /\ up \in [Clients -> Seq(Frame)] /\ down' = down
  BY RunsIdle DEF IdInv, TypeOK, WireOK, Executed, Requests
<1>1. /\ tpc \in {"recv", "busy"} /\ link \in Clients /\ link' = link /\ conn' = conn
      /\ got' = got + 1 /\ T!More /\ T!Msg.type = "req"
  BY Executing
<1>2. PICK val, obj : Logged(val, obj)
  BY Executing
<1>3. got + 1 \in Requests(link) /\ T!Msg.id = Len(ran) + 1 /\ T!Msg = down[link][got + 1]
  BY <1>1, NextOne DEF T!Msg
<1>4. /\ Len(ran') = Len(ran) + 1 /\ ran'[Len(ran) + 1].val = val
      /\ \A i \in 1..Len(ran) : ran'[i] = ran[i]
  <2>1. \E e : ran' = Append(ran, e) /\ e.val = val
    BY <1>2 DEF Logged
  <2> QED
    BY <1>t, <2>1
<1>5. /\ tpc' \in {"drain", "drainError", "exited"}
      /\ \/ up' = up /\ (tpc' = "drain" => ~T!Reaches)
         \/ /\ T!Reaches /\ val \in T!Responses
            /\ up' = [up EXCEPT ![link] = Append(@, Res(Len(ran) + 1, val))]
  BY <1>2, <1>3 DEF Logged, T!Exit
<1>6. ASSUME NEW c \in Clients, NEW k \in Results(c)' PROVE Proper(c, k)'
  <2>1. CASE up'[c] = up[c]
    <3>1. k \in Results(c) /\ Proper(c, k)
      BY <1>6, <2>1 DEF Results, Replied
    <3> QED
      BY <1>t, <1>4, <2>1, <3>1, ProperStays
  <2>2. CASE c = link /\ val \in T!Responses /\ up'[c] = Append(up[c], Res(Len(ran) + 1, val))
    <3>1. CASE k \in Results(c)
      <4>1. Proper(c, k) /\ \E f : up'[c] = Append(up[c], f)
        BY <2>2, <3>1 DEF Replied
      <4>2. Len(ran') \in Nat /\ Len(ran) <= Len(ran')
        BY <1>t, <1>4
      <4> QED
        BY <1>t, <1>4, <3>1, <4>1, <4>2, ProperStays
    <3>2. CASE k = Len(up[c]) + 1
      <4>1. up'[c][k] = Res(Len(ran) + 1, val)
        BY <1>t, <2>2, <3>2, Answered
      <4>2. up'[c][k].id = Len(ran) + 1 /\ up'[c][k].val = val
        BY <4>1 DEF Res
      <4>3. Len(ran) + 1 \in 1..Len(ran')
        BY <1>t, <1>4
      <4> QED
        BY <1>4, <2>2, <4>2, <4>3 DEF Proper
    <3> QED
      BY <1>t, <1>6, <2>2, <3>1, <3>2, Answered
  <2> QED
    BY <1>t, <1>1, <1>5, <2>1, <2>2
<1>7. ASSUME tpc' = "drain"
      PROVE  /\ got' \in Requests(link)' /\ down'[link'][got'].id = Len(ran')
             /\ T!Reaches' /\ Len(ran') \in DOMAIN pending' =>
                  \E j \in Results(link)' : up'[link'][j].id = Len(ran')
  <2>1. got' \in Requests(link)' /\ down'[link'][got'].id = Len(ran')
    BY <1>t, <1>1, <1>3, <1>4 DEF Requests
  <2>2. ASSUME T!Reaches'
        PROVE  \E j \in Results(link)' : up'[link'][j].id = Len(ran')
    <3>1. T!Reaches
      BY <1>1, <2>2 DEF T!Reaches
    <3>2. PICK c \in Clients : c = link
      BY <1>1
    <3>3. up'[c] = Append(up[c], Res(Len(ran) + 1, val))
      BY <1>t, <1>5, <1>7, <3>1, <3>2
    <3>4. Res(Len(ran) + 1, val).type = "res" /\ Res(Len(ran) + 1, val).id = Len(ran) + 1
      BY DEF Res
    <3>5. \E j \in Results(c)' : up'[c][j].id = Len(ran')
      BY <1>t, <1>4, <3>3, <3>4, Answered
    <3> QED
      BY <1>1, <3>2, <3>5 DEF Results
  <2> QED
    BY <2>1, <2>2
<1> QED
  BY <1>5, <1>6, <1>7 DEF Replied

\* An error that follows a result is not what its caller gets.
LEMMA RepliedAgain ==
  ASSUME IdInv, Wired, Executed, Replied, Runs, T!DrainRaises
  PROVE  Replied'
<1>t. /\ pending' = pending /\ WireOK /\ Len(ran) \in Nat /\ ran' = ran
      /\ up \in [Clients -> Seq(Frame)] /\ tpc' = "drainError"
      /\ link \in Clients /\ got \in Requests(link) /\ down[link][got].id = Len(ran)
  BY RunsIdle DEF IdInv, TypeOK, WireOK, Executed, T!DrainRaises, Replied, Wired
<1>r. /\ Len(ran') \in Nat /\ Len(ran) <= Len(ran')
      /\ \A i \in 1..Len(ran) : ran'[i] = ran[i]
  BY <1>t
<1> DEFINE e == [type |-> "res", id |-> Len(ran), val |-> T!Error]
<1>1. up' = up \/ (T!Reaches /\ up' = [up EXCEPT ![link] = Append(@, e)])
  BY <1>t DEF T!DrainRaises, T!Write
<1>e. e.type = "res" /\ e.id = Len(ran) /\ e.val \in T!Responses
  BY DEF T!Responses
<1> HIDE DEF e
<1>2. ASSUME NEW c \in Clients, NEW k \in Results(c)' PROVE Proper(c, k)'
  <2>1. CASE up'[c] = up[c]
    <3>1. k \in Results(c) /\ Proper(c, k)
      BY <1>2, <2>1 DEF Results, Replied
    <3> QED
      BY <1>t, <2>1, <3>1, ProperStays
  <2>2. CASE c = link /\ T!Reaches /\ up'[c] = Append(up[c], e)
    <3>1. CASE k \in Results(c)
      <4>1. Proper(c, k) /\ \E f : up'[c] = Append(up[c], f)
        BY <2>2, <3>1 DEF Replied
      <4> QED
        BY <1>t, <1>r, <3>1, <4>1, ProperStays
    <3>2. CASE k = Len(up[c]) + 1
      <4>1. up'[c][k] = e /\ Len(up[c]) \in Nat
        BY <1>t, <2>2, <3>2, Answered
      <4>2. Len(ran) \in 1..Len(ran)
        <5>1. Len(ran) # 0
          BY <1>t DEF IdInv, IdsHandedOut
        <5> QED
          BY <1>t, <5>1
      <4>3. ASSUME Len(ran) \in DOMAIN pending
            PROVE  \E j \in Results(c)' : j < k /\ up'[c][j].id = Len(ran)
        <5>1. PICK j \in Results(c) : up[c][j].id = Len(ran)
          BY <2>2, <4>3 DEF Replied, T!DrainRaises
        <5>2. j \in Results(c)' /\ up'[c][j] = up[c][j]
          <6>1. Proper(c, j) /\ \E f : up'[c] = Append(up[c], f)
            BY <2>2 DEF Replied
          <6> QED
            BY <1>t, <1>r, <6>1, ProperStays
        <5>3. j < k
          BY <3>2, <4>1 DEF Results
        <5> QED
          BY <5>1, <5>2, <5>3
      <4> QED
        BY <1>t, <1>e, <4>1, <4>2, <4>3 DEF Proper
    <3> QED
      BY <1>t, <1>2, <2>2, <3>1, <3>2, Answered
  <2> QED
    BY <1>t, <1>1, <2>1, <2>2
<1> QED
  BY <1>t, <1>2 DEF Replied

LEMMA RepliedRuns ==
  ASSUME IdInv, FInv, Wired, Ordered, Executed, Replied, Registered, Runs
  PROVE  Replied'
<1>t. /\ pending' = pending /\ down' = down /\ up \in [Clients -> Seq(Frame)] /\ WireOK
  BY RunsIdle DEF IdInv, TypeOK, WireOK
<1>1. CASE T!Serve \/ T!Function
  BY <1>1, RepliedRecords
<1>2. CASE T!DrainRaises
  BY <1>2, RepliedAgain
<1>3. CASE T!Hello
  <2>1. /\ tpc' \in {"greeted", "exited"} /\ ran' = ran
        /\ up' = up \/ up' = [up EXCEPT ![link] = Append(@, [type |-> "hello", id |-> 0, val |-> None])]
    BY <1>3 DEF T!Hello, T!Exit, T!Write
  <2>2. \A c \in Clients : up[c] = <<>>
    BY <1>3 DEF T!Hello, Replied
  <2>3. \A c \in Clients : Results(c)' = {}
    <3> SUFFICES ASSUME NEW c \in Clients PROVE Results(c)' = {}
      OBVIOUS
    <3>1. up'[c] = <<>> \/ up'[c] = Append(<<>>, [type |-> "hello", id |-> 0, val |-> None])
      BY <1>t, <2>1, <2>2
    <3> QED
      BY <3>1 DEF Results
  <2> QED
    BY <2>1, <2>3 DEF Replied
<1>4. ASSUME NEW c \in Clients, T!Connect(c)
      PROVE  Replied'
  <2>1. tpc = "start" /\ tpc' = "hello" /\ up' = up /\ ran' = ran
    BY <1>4 DEF T!Connect
  <2>2. \A d \in Clients : up'[d] = <<>> /\ Results(d)' = {}
    BY <2>1 DEF Replied, Results
  <2> QED
    BY <2>1, <2>2 DEF Replied
<1>5. CASE /\ UNCHANGED <<conn, up, link, ran>>
           /\ tpc' \in {"busy", "recv", "exited"} \/ (tpc' = tpc /\ got' = got)
  <2>1. \A c \in Clients : Results(c)' = Results(c) /\ \A k \in Results(c) : Proper(c, k)' <=> Proper(c, k)
    BY <1>5, <1>t DEF Results, Proper
  <2>2. got' = got /\ got \in Requests(link) => got' \in Requests(link)'
    BY <1>5, <1>t DEF Requests
  <2>3. Results(link)' = Results(link) /\ T!Reaches' = T!Reaches
    BY <1>5 DEF Results, T!Reaches
  <2> QED
    BY <1>5, <1>t, <2>1, <2>2, <2>3 DEF Replied
<1>6. T!StartCall \/ T!Ignore \/ T!Drained \/ T!Interpreter \/ T!Exit =>
        tpc' \in {"busy", "recv", "exited"} \/ (tpc' = tpc /\ got' = got)
  BY DEF T!StartCall, T!Ignore, T!Drained, T!Interpreter, T!Exit
<1> QED
  BY <1>1, <1>2, <1>3, <1>4, <1>5, <1>6, Deeds

LEMMA BegunRuns ==
  ASSUME TypeOK, Wired, Begun, Runs
  PROVE  Begun'
<1>t. UNCHANGED <<server, transport, pc, cancelled>> /\ None \notin Clients
  BY RunsIdle, InitiatorAssumption
<1>1. CASE UNCHANGED <<conn, link>>
  BY <1>1, <1>t DEF Begun, ReaderAlive
<1>2. ASSUME NEW c \in Clients, T!Connect(c)
      PROVE  Begun'
  BY <1>2, <1>t DEF Begun, ReaderAlive, T!Connect, Wired
<1>3. T!Serve \/ T!Function \/ T!Hello => UNCHANGED <<conn, link>>
  BY DEF T!Hello, T!Serve, T!Function, T!Open, T!Refuse, T!Respond, T!Draining, T!Exits, T!Exit
<1>4. T!DrainRaises => UNCHANGED <<conn, link>>
  BY DEF T!DrainRaises
<1> QED
  BY <1>1, <1>2, <1>3, <1>4, Deeds

LEMMA GreetedRuns ==
  ASSUME IdInv, FInv, Wired, Executed, Greeted, Replied, Registered, Runs
  PROVE  Greeted'
<1>t. /\ pc' = pc /\ cancelled' = cancelled /\ up \in [Clients -> Seq(Frame)]
  BY RunsIdle DEF IdInv, TypeOK, WireOK
<1> SUFFICES ASSUME pc["reader"] = "none"
             PROVE  /\ \A c \in Clients : up'[c] # <<>> => Head(up'[c]).type = "hello"
                    /\ tpc' \notin {"start", "hello", "exited"} /\ T!Reaches' => up'[link'] # <<>>
  BY <1>t DEF Greeted
<1>1. CASE T!Serve \/ T!Function \/ T!DrainRaises
  <2>1. /\ tpc \notin {"start", "hello", "exited"} /\ link \in Clients /\ link' = link /\ conn' = conn
        /\ up' = up \/ (T!Reaches /\ \E f : up' = [up EXCEPT ![link] = Append(@, f)])
    BY <1>1, Executing DEF Logged, T!DrainRaises, T!Write, Wired
  <2>2. T!Reaches' = T!Reaches
    BY <2>1 DEF T!Reaches
  <2>3. T!Reaches => up[link] # <<>>
    BY <2>1 DEF Greeted
  <2>4. ASSUME NEW f, up' = [up EXCEPT ![link] = Append(@, f)], up[link] # <<>>
        PROVE  /\ \A c \in Clients : up'[c] # <<>> => Head(up'[c]).type = "hello"
               /\ up'[link] # <<>>
    <3>1. up'[link] # <<>> /\ Head(up'[link]) = Head(up[link])
      BY <1>t, <2>1, <2>4
    <3> QED
      BY <1>t, <2>1, <2>4, <3>1 DEF Greeted
  <2> QED
    BY <2>1, <2>2, <2>3, <2>4 DEF Greeted
<1>2. CASE T!Hello
  <2>1. /\ link \in Clients /\ link' = link /\ conn' = conn /\ \A c \in Clients : up[c] = <<>>
        /\ \/ tpc' = "exited" /\ up' = up
           \/ T!Write([type |-> "hello", id |-> 0, val |-> None])
    BY <1>2 DEF T!Hello, T!Exit, Wired, Replied
  <2>2. T!Reaches' = T!Reaches
    BY <2>1 DEF T!Reaches
  <2>3. ASSUME up' = [up EXCEPT ![link] = Append(@, [type |-> "hello", id |-> 0, val |-> None])]
        PROVE  /\ \A c \in Clients : up'[c] # <<>> => Head(up'[c]).type = "hello"
               /\ up'[link] # <<>>
    BY <1>t, <2>1, <2>3
  <2> QED
    BY <2>1, <2>2, <2>3 DEF T!Write
<1>3. ASSUME NEW c \in Clients, T!Connect(c)
      PROVE  tpc' = "hello" /\ up' = up
  BY <1>3 DEF T!Connect
<1>4. CASE /\ UNCHANGED <<conn, up, link>>
           /\ T!StartCall \/ T!Ignore \/ T!Drained \/ T!Interpreter \/ T!Exit
  <2>1. tpc' = "exited" \/ tpc' = tpc \/ tpc \in {"recv", "greeted", "drain", "drainError"}
    BY <1>4 DEF T!StartCall, T!Ignore, T!Drained, T!Interpreter, T!Exit
  <2>2. T!Reaches' = T!Reaches
    BY <1>4 DEF T!Reaches
  <2> QED
    BY <1>4, <2>1, <2>2 DEF Greeted
<1> QED
  BY <1>1, <1>2, <1>3, <1>4, Deeds DEF Greeted

\* What was executed stays executed.
LEMMA RunsLog ==
  ASSUME IdInv, Wired, Ordered, Executed, Registered, Runs
  PROVE  /\ Len(ran) \in Nat
         /\ \/ ran' = ran
            \/ \E val, obj : /\ Logged(val, obj) /\ [by |-> T!Msg.val, val |-> val, obj |-> obj] \in TP!Records
                             /\ Len(ran) + 1 \in DOMAIN Issued /\ T!Msg.val = Issued[Len(ran) + 1]
<1>1. Len(ran) \in Nat
  BY DEF Executed
<1>2. CASE T!Serve \/ T!Function
  <2>1. /\ tpc \notin {"start", "exited"} /\ T!More /\ T!Msg.type = "req"
    BY <1>2, Executing
  <2>2. PICK val, obj : Logged(val, obj)
    BY <1>2, Executing
  <2>3. T!Msg.val \in Callers /\ Len(ran) + 1 \in DOMAIN Issued /\ T!Msg.val = Issued[Len(ran) + 1]
    BY <2>1, NextOne
  <2>4. [by |-> T!Msg.val, val |-> val, obj |-> obj] \in TP!Records
    BY <2>2, <2>3, SameResponses DEF Logged, TP!Records
  <2> QED
    BY <1>1, <2>2, <2>3, <2>4
<1>3. T!Hello \/ T!DrainRaises \/ (\E c \in Clients : T!Connect(c)) => ran' = ran
  BY DEF T!Hello, T!DrainRaises, T!Connect
<1> QED
  BY <1>1, <1>2, <1>3, Deeds

LEMMA SettledRuns ==
  ASSUME IdInv, Wired, Ordered, Executed, Registered, Settled, Runs
  PROVE  Settled'
<1>1. pc' = pc /\ fut' = fut
  BY RunsIdle
<1>2. ran \in Seq(TP!Records) /\ Len(ran) \in Nat
  BY DEF Executed
<1>3. Len(ran') \in Nat /\ Len(ran) <= Len(ran') /\ \A i \in 1..Len(ran) : ran'[i] = ran[i]
  <2>1. CASE ran' = ran
    BY <1>2, <2>1
  <2>2. ASSUME NEW e, ran' = Append(ran, e)
        PROVE  Len(ran') = Len(ran) + 1 /\ \A i \in 1..Len(ran) : ran'[i] = ran[i]
    BY <1>2, <2>2
  <2>3. ran' = ran \/ \E e : ran' = Append(ran, e)
    BY RunsLog DEF Logged
  <2> QED
    BY <1>2, <2>1, <2>2, <2>3
<1>4. \A i \in 1..Len(ran) : i \in 1..Len(ran')
  BY <1>2, <1>3
<1> QED
  BY <1>1, <1>3, <1>4 DEF Settled

LEMMA RegisteredRuns ==
  ASSUME IdInv, Wired, Ordered, Executed, Registered, Runs
  PROVE  Registered'
<1>1. TP!IInv /\ TP!IInv' /\ [TP!RegistryNext]_(TP!registry) /\ TP!HandlesHold
  BY RegistryRuns, RegistrySteps DEF Registered
<1>2. CASE ran' = ran
  BY <1>1, <1>2, TP!HoldsOn, TargetAssumptions DEF TP!HoldsOn, Registered
<1>3. ASSUME NEW val, NEW obj, Logged(val, obj),
             [by |-> T!Msg.val, val |-> val, obj |-> obj] \in TP!Records
      PROVE  Registered'
  <2> DEFINE e == [by |-> T!Msg.val, val |-> val, obj |-> obj]
  <2>1. /\ e \in TP!Records /\ ran \in Seq(TP!Records) /\ ran' = Append(ran, e)
        /\ e.val \in TP!Responses /\ e.val.tag = "handle" =>
             e.val.of \in DOMAIN handleToObj' /\ handleToObj'[e.val.of] = e.obj
    BY <1>3, SameResponses DEF Logged, Executed
  <2> HIDE DEF e
  <2> QED
    BY <1>1, <2>1, TP!HoldsAfter, TargetAssumptions DEF TP!HoldsAfter, Registered
<1> QED
  BY <1>2, <1>3, RunsLog

LEMMA SInvRuns == SInv /\ Runs => SInv'
<1> SUFFICES ASSUME SInv, Runs PROVE SInv'
  OBVIOUS
<1>1. IdInv' /\ FInv'
  BY IdsRuns DEF SInv, Agree
<1>2. TypeOK
  BY DEF SInv, IdInv
<1>3. Begun'
  BY <1>2, BegunRuns DEF SInv, Agree
<1> QED
  BY <1>1, <1>2, <1>3, WiredRuns, OrderedRuns, ExecutedRuns, RepliedRuns, GreetedRuns, SettledRuns,
     RegisteredRuns
     DEF SInv, Agree

-----------------------------------------------------------------------------
(* The session.                                                            *)

\* A step is one of the initiator, or one of the target.
LEMMA StepsOfSession == SessionNext => Acts \/ Runs
BY DEF SessionNext, Initiates, Serves, Connects, Returns, Computes, Crashed, Buried, Acts, Runs

LEMMA InitSInv == SessionInit => SInv
<1> SUFFICES ASSUME SessionInit PROVE SInv
  OBVIOUS
<1>1. IdInv /\ FInv
  BY InitIdInv, InitTypeOK DEF SessionInit, Init, FInv, Fresh
<1>2. Wired
  BY DEF SessionInit, Init, T!TargetInit, Wired
<1>3. DOMAIN Issued = {} /\ \A c \in Clients : Requests(c) = {} /\ Results(c) = {}
  BY DEF SessionInit, Init, Issued, Sent, Range, Requests, Results
<1>4. Ordered
  <2>1. 0 \in 0..(nextId - 1) /\ DOMAIN Issued = 1..0 /\ 0 = nextId - 1
    BY <1>3 DEF SessionInit, Init
  <2> QED
    BY <1>3, <2>1 DEF SessionInit, Init, Ordered
<1>5. Executed
  BY DEF SessionInit, Init, T!TargetInit, Executed
<1>6. Replied /\ Begun /\ Greeted
  BY <1>3, InitiatorAssumption DEF SessionInit, Init, T!TargetInit, Replied, Begun, Greeted, Tasks
<1>7. Settled
  BY DEF SessionInit, Init, Settled, Tasks
<1>8. Registered
  <2>1. TP!RegistryInit
    BY DEF SessionInit, T!TargetInit, T!RegistryInit, TP!RegistryInit
  <2>2. TP!IInv
    BY <2>1, TP!InitIInv, TargetAssumptions DEF TP!InitIInv
  <2> QED
    BY <2>2 DEF SessionInit, T!TargetInit, Registered, TP!HandlesHold
<1> QED
  BY <1>1, <1>2, <1>4, <1>5, <1>6, <1>7, <1>8 DEF SInv, Agree

LEMMA NextSInv == SInv /\ [SessionNext]_all => SInv'
<1> SUFFICES ASSUME SInv, [SessionNext]_all PROVE SInv'
  OBVIOUS
<1>1. CASE SessionNext
  BY <1>1, StepsOfSession, SInvActs, SInvRuns
<1>2. CASE UNCHANGED all
  <2>1. UNCHANGED vars /\ UNCHANGED target
    BY <1>2 DEF all
  <2>2. IdInv' /\ FInv'
    BY <2>1, NextIdInv, NextFInv DEF SInv
  <2> USE DEF SInv, Agree, vars, attrs, calls, links, tasks, target, registry
  <2>3. Wired' /\ Begun' /\ Greeted' /\ Settled'
    BY <2>1 DEF Wired, Begun, ReaderAlive, Greeted, Settled, T!Reaches
  <2>4. Issued' = Issued /\ \A c \in Clients : Requests(c)' = Requests(c) /\ Results(c)' = Results(c)
    BY <2>1 DEF Issued, Sent, Requests, Results
  <2>5. Ordered'
    BY <2>1, <2>4 DEF Ordered
  <2>6. Executed'
    BY <2>1, <2>4 DEF Executed, Requests, T!More, T!Msg, T!Ask, T!Valid
  <2>7. Replied'
    BY <2>1, <2>4 DEF Replied, Proper, Requests, Results, T!Reaches
  <2>8. Registered'
    BY <2>1 DEF Registered, TP!IInv, TP!TypeOK, TP!Apart, TP!Linked, TP!Alive, TP!HandlesHold, TP!Valid
  <2> QED
    BY <2>2, <2>3, <2>5, <2>6, <2>7, <2>8
<1> QED
  BY <1>1, <1>2

LEMMA SInvariance == SessionSpec => []SInv
BY InitSInv, NextSInv, PTL DEF SessionSpec

\* The handle a call returns designates, in the target, the object that was resolved
\* for that very call, whatever happens to objects, connection and child meanwhile.
THEOREM HandlesAreGood == SessionSpec => []HandlesGood
<1>1. SInv => HandlesGood
  <2> SUFFICES ASSUME SInv, NEW r \in Callers, pc[r] = "returned", fut[r].val.tag = "handle"
               PROVE  \E i \in DOMAIN ran :
                        /\ ran[i].by = r /\ fut[r].val.of \in DOMAIN handleToObj
                        /\ handleToObj[fut[r].val.of] = ran[i].obj
    BY DEF HandlesGood
  <2>1. PICK i \in 1..Len(ran) : ran[i].by = r /\ ran[i].val = fut[r].val /\ fut[r].val \in TP!Responses
    BY SameResponses DEF SInv, Agree, Settled
  <2>2. i \in DOMAIN ran
    BY <2>1 DEF SInv, Agree, Executed
  <2> QED
    BY <2>1, <2>2 DEF SInv, Registered, TP!HandlesHold, TP!Valid
<1> QED
  BY <1>1, SInvariance, PTL

-----------------------------------------------------------------------------
(* The session implements Rpc.                                             *)

\* What Rpc sees of the logs.
LEMMA Seen ==
  ASSUME SInv
  PROVE  /\ Issued \in Seq(Callers) /\ DOMAIN Issued = 1..Len(Issued)
         /\ ran \in Seq(TP!Records) /\ Len(ran) \in Nat /\ DOMAIN ran = 1..Len(ran)
         /\ Ran \in Seq([by : Callers, val : TP!Responses \cup {None}]) /\ Len(Ran) = Len(ran)
         /\ \A i \in 1..Len(ran) : Ran[i] = [by |-> ran[i].by, val |-> ran[i].val]
<1>1. PICK n \in Nat : DOMAIN Issued = 1..n
  BY DEF SInv, Agree, Ordered, IdInv, TypeOK, AttrsOK
<1>2. \A i \in 1..n : Issued[i] \in Callers
  <2>1. Names
    BY IssuedNames DEF SInv
  <2> SUFFICES ASSUME NEW i \in 1..n PROVE Issued[i] \in Callers
    OBVIOUS
  <2>2. PICK c \in Clients : \E k \in Requests(c) : down[c][k].id = i
    BY <1>1, <2>1 DEF Names
  <2>3. PICK k \in Requests(c) : down[c][k].id = i
    BY <2>2
  <2>4. Issued[i] = down[c][k].val
    BY <2>1, <2>2, <2>3 DEF Names
  <2> QED
    BY <2>2, <2>3, <2>4 DEF SInv, Agree, Ordered
<1>3. Issued = [i \in 1..n |-> Issued[i]]
  BY <1>1 DEF Issued
<1>4. Issued \in [1..n -> Callers]
  BY <1>2, <1>3
<1>5. ran \in Seq(TP!Records) /\ Len(ran) \in Nat /\ DOMAIN ran = 1..Len(ran)
  BY DEF SInv, Agree, Executed
<1>6. \A i \in 1..Len(ran) : ran[i] \in TP!Records
  BY <1>5
<1>7. Ran \in [1..Len(ran) -> [by : Callers, val : TP!Responses \cup {None}]]
  BY <1>5, <1>6 DEF Ran, TP!Records
<1> QED
  BY <1>4, <1>5, <1>7 DEF Ran

Counted == DOMAIN ran = 1..Len(ran)

LEMMA SeenNext == SInv' => Counted'
<1>1. SInv => Counted
  BY Seen DEF Counted
<1> QED
  BY <1>1, PTL

\* A sequence that is given element by element.
LEMMA Appended ==
  ASSUME NEW S, NEW q \in Seq(S), NEW f \in S, NEW g,
         g = [i \in 1..(Len(q) + 1) |-> IF i = Len(q) + 1 THEN f ELSE q[i]]
  PROVE  g = Append(q, f)
<1>1. Len(q) \in Nat /\ \A i \in 1..Len(q) : q[i] \in S
  OBVIOUS
<1>2. g \in [1..(Len(q) + 1) -> S]
  BY <1>1
<1>3. g \in Seq(S) /\ Len(g) = Len(q) + 1
  BY <1>1, <1>2
<1>4. /\ Append(q, f) \in Seq(S) /\ Len(Append(q, f)) = Len(q) + 1
      /\ Append(q, f)[Len(q) + 1] = f /\ \A i \in 1..Len(q) : Append(q, f)[i] = q[i]
  BY <1>1
<1>5. \A i \in 1..Len(g) : g[i] = Append(q, f)[i]
  BY <1>1, <1>3, <1>4
<1> QED
  BY <1>3, <1>4, <1>5, SeqEqual

\* An execution that is logged is Run.
LEMMA RunMaps ==
  ASSUME SInv, SInv', Runs
  PROVE  [Abstract!Next]_(Abstract!vars)
<1>1. Issued' = Issued /\ Outcome' = Outcome
  <2>1. pc' = pc /\ fut' = fut
    BY RunsIdle
  <2> QED
    BY <2>1, IdsRuns DEF SInv, Agree, Outcome
<1>2. CASE ran' = ran
  BY <1>1, <1>2 DEF Ran, Abstract!vars
<1>3. ASSUME NEW val, NEW obj, Logged(val, obj),
             [by |-> T!Msg.val, val |-> val, obj |-> obj] \in TP!Records,
             Len(ran) + 1 \in DOMAIN Issued, T!Msg.val = Issued[Len(ran) + 1]
      PROVE  Abstract!Run(val) /\ val \in T!Responses \cup {None}
  <2> DEFINE e == [by |-> T!Msg.val, val |-> val, obj |-> obj]
  <2>1. ran' = Append(ran, e) /\ e.by = T!Msg.val /\ e.val = val
    BY <1>3 DEF Logged
  <2> HIDE DEF e
  <2>2. /\ Len(ran') = Len(ran) + 1 /\ ran'[Len(ran) + 1] = e
        /\ \A i \in 1..Len(ran) : ran'[i] = ran[i]
    BY <2>1, Seen
  <2>3. Len(Ran) < Len(Issued)
    BY <1>3, Seen
  <2>4. Ran' = Append(Ran, [by |-> T!Msg.val, val |-> val])
    <3>1. Ran' = [i \in 1..(Len(ran) + 1) |-> [by |-> ran'[i].by, val |-> ran'[i].val]]
      BY <2>2, SeenNext DEF Ran, Counted
    <3>2. \A i \in 1..(Len(ran) + 1) :
            [by |-> ran'[i].by, val |-> ran'[i].val] =
              IF i = Len(ran) + 1 THEN [by |-> T!Msg.val, val |-> val] ELSE Ran[i]
      BY <2>1, <2>2, Seen
    <3> DEFINE f == [by |-> T!Msg.val, val |-> val]
    <3>3. Ran' = [i \in 1..(Len(Ran) + 1) |-> IF i = Len(Ran) + 1 THEN f ELSE Ran[i]]
      BY <3>1, <3>2, Seen
    <3> DEFINE S == [by : Callers, val : TP!Responses \cup {None}]
    <3>4. f \in S /\ Ran \in Seq(S)
      BY <1>3, Seen DEF TP!Records
    <3> HIDE DEF f, S
    <3>5. Ran' = Append(Ran, f)
      BY <3>3, <3>4, Appended
    <3> QED
      BY <3>5 DEF f
  <2> QED
    BY <1>1, <1>3, <2>3, <2>4, Seen DEF Abstract!Run, Logged
<1>4. ran' = ran \/ \E val : Abstract!Run(val) /\ val \in T!Responses \cup {None}
  BY <1>3, RunsLog DEF SInv, Agree
<1> QED
  BY <1>2, <1>4 DEF Abstract!Next

\* A request that is written is Issue.
LEMMA IssueMaps ==
  ASSUME SInv, Acts, NEW r \in Callers, CallerSends(r), link \in Clients, conn[link] = "open"
  PROVE  Abstract!Issue(r)
<1>t. pc \in [Tasks -> Labels] /\ r \in Tasks /\ TypeOK /\ \A q \in Callers : q \in Tasks
  BY DEF SInv, IdInv, TypeOK, TaskOK, Tasks
<1>1. IdInv /\ IdInv' /\ Wired
  BY IdsActs DEF SInv
<1>2. /\ nextId \notin DOMAIN Issued /\ nextId \in Nat \ {0}
      /\ DOMAIN Issued' = DOMAIN Issued \cup {nextId} /\ Issued'[nextId] = r
      /\ \A i \in DOMAIN Issued : Issued'[i] = Issued[i]
  BY <1>1, IssuedMore
<1>3. Len(Issued) = nextId - 1 /\ DOMAIN Issued = 1..Len(Issued) /\ Issued \in Seq(Callers)
  <2>1. PICK n \in 0..(nextId - 1) :
          DOMAIN Issued = 1..n /\ (n = nextId - 1 \/ (link \in Clients /\ conn[link] = "closed"))
    BY DEF SInv, Agree, Ordered
  <2>2. Issued \in Seq(Callers) /\ DOMAIN Issued = 1..Len(Issued) /\ Len(Issued) \in Nat
    BY Seen
  <2>3. n = nextId - 1 /\ n \in Nat
    BY <1>2, <2>1
  <2> QED
    BY <2>1, <2>2, <2>3
<1>4. Issued' = Append(Issued, r)
  <2>1. Issued' = [i \in 1..(Len(Issued) + 1) |-> IF i = Len(Issued) + 1 THEN r ELSE Issued[i]]
    <3>1. Issued' = [i \in DOMAIN Issued' |-> Issued'[i]]
      BY DEF Issued
    <3>2. DOMAIN Issued' = 1..(Len(Issued) + 1)
      BY <1>2, <1>3
    <3>3. \A i \in 1..(Len(Issued) + 1) :
            Issued'[i] = IF i = Len(Issued) + 1 THEN r ELSE Issued[i]
      BY <1>2, <1>3
    <3> QED
      BY <3>1, <3>2, <3>3
  <2> QED
    BY <1>3, <2>1, Appended
<1>5. r \notin Abstract!Range(Issued)
  <2> SUFFICES ASSUME NEW i \in DOMAIN Issued, Issued[i] = r PROVE FALSE
    BY DEF Abstract!Range
  <2>1. Names
    BY <1>1, IssuedNames
  <2>2. PICK c \in Clients : \E k \in Requests(c) : down[c][k].id = i
    BY <2>1 DEF Names
  <2>3. PICK k \in Requests(c) : down[c][k].id = i
    BY <2>2
  <2>4. down[c][k].val = r
    BY <2>1, <2>2, <2>3 DEF Names
  <2>5. pc[r] # "idle"
    BY <2>2, <2>3, <2>4 DEF SInv, Agree, Ordered
  <2> QED
    BY <2>5 DEF CallerSends, MayCall
<1>6. pc[r] = "idle" /\ pc' = [pc EXCEPT ![r] = "drain"] /\ fut' = [fut EXCEPT ![r].st = "waiting"]
  BY DEF CallerSends, MayCall, AtOn, At
<1>7. Outcome[r] = None
  BY <1>6 DEF Outcome
<1>8. Outcome' = Outcome
  BY <1>6, <1>t DEF Outcome, TypeOK, FutOK
<1>9. Ran' = Ran
  BY DEF Acts, target, Ran
<1> QED
  BY <1>4, <1>5, <1>7, <1>8, <1>9 DEF Abstract!Issue

\* What a caller is told is Return or Fail.
LEMMA TellMaps ==
  ASSUME SInv, Acts, Issued' = Issued
  PROVE  [Abstract!Next]_(Abstract!vars)
<1>t. FInv /\ TypeOK /\ Greeted /\ [Next]_vars /\ Settled /\ ran \in Seq(TP!Records)
  BY ActsNext DEF SInv, Agree, FInv, Executed
<1>1. Ran' = Ran
  BY DEF Acts, target, Ran
<1>2. PICK t \in Tasks : \A q \in Callers \ {t} : pc'[q] = pc[q]
  BY <1>t, Ways
<1>3. ASSUME NEW q \in Callers, pc'[q] = pc[q] PROVE Outcome'[q] = Outcome[q]
  <2>1. pc[q] = "returned" => fut'[q] = fut[q]
    <3>1. pc[q] = "returned" => fut[q].st = "answered"
      BY <1>t DEF Settled
    <3> QED
      BY <1>t, <3>1, EveryFutStep DEF FutStep
  <2> QED
    BY <1>3, <2>1 DEF Outcome
<1>4. CASE t \notin Callers
  <2>1. Outcome' = Outcome
    BY <1>2, <1>3, <1>4 DEF Outcome
  <2> QED
    BY <1>1, <2>1 DEF Abstract!vars
<1>5. CASE t \in Callers
  <2>1. \A q \in Callers : q # t => Outcome'[q] = Outcome[q]
    BY <1>2, <1>3
  <2>2. Outcome' = [Outcome EXCEPT ![t] = Outcome'[t]]
    BY <1>5, <2>1 DEF Outcome
  <2>3. CASE Outcome'[t] = Outcome[t]
    <3>1. Outcome' = Outcome
      BY <1>5, <2>1, <2>3 DEF Outcome
    <3> QED
      BY <1>1, <3>1 DEF Abstract!vars
  <2>4. CASE Outcome[t] = None /\ Outcome'[t] = Failed
    <3>1. Abstract!Fail(t)
      BY <1>1, <2>2, <2>4 DEF Abstract!Fail
    <3> QED
      BY <1>5, <3>1 DEF Abstract!Next
  <2>5. ASSUME Outcome[t] = None, NEW i \in 1..Len(ran), ran[i].by = t, ran[i].val = Outcome'[t]
        PROVE  [Abstract!Next]_(Abstract!vars)
    <3>1. i \in DOMAIN Ran /\ Ran[i].by = t /\ Ran[i].val = Outcome'[t]
      BY <1>t, <2>5 DEF Ran
    <3>2. Abstract!Return(t)
      BY <1>1, <2>2, <2>5, <3>1 DEF Abstract!Return
    <3> QED
      BY <1>5, <3>2 DEF Abstract!Next
  <2>6. CASE pc'[t] = pc[t]
    BY <1>3, <1>5, <2>3, <2>6
  <2>7. CASE /\ pc[t] \in {"idle", "drain", "await"}
             /\ pc'[t] \in {"drain", "await", "raised", "cancelled"}
    BY <1>5, <2>3, <2>4, <2>7 DEF Outcome
  <2>8. CASE CallerDone(t)
    <3>1. /\ pc[t] = "await" /\ fut' = fut
          /\ pc'[t] = IF fut[t].st = "answered" THEN "returned" ELSE "raised"
      BY <1>5, <1>t, <2>8 DEF CallerDone, At, calls, TypeOK, TaskOK, Tasks
    <3>2. Outcome[t] = None
      BY <1>5, <3>1 DEF Outcome
    <3>3. CASE fut[t].st = "answered"
      <4>1. Outcome'[t] = fut[t].val
        BY <1>5, <3>1, <3>3 DEF Outcome
      <4>2. \E i \in 1..Len(ran) : ran[i].by = t /\ ran[i].val = fut[t].val
        BY <1>5, <1>t, <3>3 DEF Settled
      <4> QED
        BY <2>5, <3>2, <4>1, <4>2
    <3>4. CASE fut[t].st # "answered"
      BY <1>5, <2>4, <3>1, <3>2, <3>4 DEF Outcome
    <3> QED
      BY <3>3, <3>4
  <2> QED
    BY <1>5, <1>t, <2>6, <2>7, <2>8, Ways
<1> QED
  BY <1>4, <1>5

\* Requests are executed in the order in which they were issued, each at most once,
\* and a call that returns, returns what the execution of its own request gave,
\* wherever the connection breaks and the child ends.
THEOREM SessionKeepsRpc == SessionSpec => Abstract!Safety
<1>1. SessionInit => Abstract!Init
  <2> SUFFICES ASSUME SessionInit PROVE Abstract!Init
    OBVIOUS
  <2>1. Issued = <<>>
    <3>1. DOMAIN Issued = {}
      BY DEF SessionInit, Init, Issued, Sent, Range
    <3>2. Issued \in Seq(Callers) /\ DOMAIN Issued = 1..Len(Issued)
      BY InitSInv, Seen
    <3>3. Len(Issued) = 0
      BY <3>1, <3>2
    <3> QED
      BY <3>2, <3>3
  <2>2. Ran = <<>>
    BY DEF SessionInit, T!TargetInit, Ran
  <2>3. Outcome = [r \in Callers |-> None]
    BY InitiatorAssumption DEF SessionInit, Init, Outcome, Tasks
  <2> QED
    BY <2>1, <2>2, <2>3 DEF Abstract!Init
<1>2. SInv /\ SInv' /\ [SessionNext]_all => [Abstract!Next]_(Abstract!vars)
  <2> SUFFICES ASSUME SInv, SInv', [SessionNext]_all PROVE [Abstract!Next]_(Abstract!vars)
    OBVIOUS
  <2>1. CASE Acts
    <3>1. CASE \E r \in Callers : CallerSends(r) /\ link \in Clients /\ conn[link] = "open"
      BY <2>1, <3>1, IssueMaps DEF Abstract!Next
    <3>2. CASE ~ \E r \in Callers : CallerSends(r) /\ link \in Clients /\ conn[link] = "open"
      BY <2>1, <3>2, IssuedOn, TellMaps DEF SInv
    <3> QED
      BY <3>1, <3>2
  <2>2. CASE Runs
    BY <2>2, RunMaps
  <2>3. CASE UNCHANGED all
    BY <2>3 DEF all, vars, calls, tasks, links, target, Issued, Sent, Ran, Outcome, Abstract!vars
  <2> QED
    BY <2>1, <2>2, <2>3, StepsOfSession
<1> QED
  BY <1>1, <1>2, InitSInv, NextSInv, PTL DEF SessionSpec, Abstract!Safety

=============================================================================
