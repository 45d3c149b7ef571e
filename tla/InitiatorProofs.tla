-------------------------- MODULE InitiatorProofs --------------------------
(***************************************************************************)
(* What is proved of AsyncInitiator, for any number of clients and         *)
(* callers, any peer and any bound on the frames in flight: who owns the   *)
(* transport and the reader loop, and what aclose leaves; then of          *)
(* _send_request and the dispatch of responses that outcomes and ids are   *)
(* not confused, whatever users, peers and the network do, and that the    *)
(* reader loop goes on and leaves no call waiting as long as users keep to *)
(* the order that the code expects.                                        *)
(***************************************************************************)
EXTENDS InitiatorProps, TLAPS

-----------------------------------------------------------------------------
(* Type correctness.                                                       *)

\* Writing keeps the logs of frames typed.
LEMMA WriteTyped ==
  ASSUME WireOK, NEW c, NEW f \in Frame, Write(c, f)
  PROVE  down' \in [Clients -> Seq(Frame)]
<1>1. CASE c \in Clients
  <2>1. Append(down[c], f) \in Seq(Frame)
    BY <1>1 DEF WireOK
  <2> QED
    BY <2>1 DEF WireOK, Write
<1>2. CASE c \notin Clients
  BY <1>2 DEF WireOK, Write
<1> QED
  BY <1>1, <1>2

\* What a reader takes off the wire is a frame, and the rest stays one.
LEMMA ReceiveTyped ==
  ASSUME TypeOK, NEW t \in Tasks, Receives(t)
  PROVE  on[t] \in Clients /\ Incoming(t) \in Frame /\ up' \in [Clients -> Seq(Frame)]
<1>1. on[t] \in Clients /\ up[on[t]] \in Seq(Frame) /\ up[on[t]] # <<>>
  BY DEF TypeOK, TaskOK, WireOK, Receives, Ready
<1>2. Head(up[on[t]]) \in Frame /\ Tail(up[on[t]]) \in Seq(Frame)
  BY <1>1
<1> QED
  BY <1>1, <1>2 DEF TypeOK, WireOK, Receives, Incoming

\* The except branch keeps the table and the futures typed.
LEMMA FailAllTyped ==
  ASSUME FutOK, NEW table, NEW lost, FailAll(table, lost), nextId \in Nat, nextId' = nextId
  PROVE  TableOK' /\ FutOK'
BY DEF FutOK, TableOK, FailAll

LEMMA CleanupTyped ==
  ASSUME TypeOK, ReaderCleanup, on' = on
  PROVE  TaskOK' /\ ConnOK' /\ transport' \in Clients \cup {None}
BY DEF TypeOK, AttrsOK, TaskOK, ConnOK, ReaderCleanup, Shut, Live, At, Tasks, Labels

LEMMA CloseTyped ==
  ASSUME TypeOK, on' = on,
         \/ CloseTransport
         \/ At("close", "awaitReader") /\ UNCHANGED <<transport, server, conn>>
  PROVE  /\ server' \in BOOLEAN /\ transport' \in Clients \cup {None}
         /\ ConnOK' /\ TaskOK'
<1> USE DEF TypeOK, AttrsOK, TaskOK, ConnOK, At, Tasks, Labels
<1>1. CASE CloseTransport /\ Live(transport)
  BY <1>1 DEF CloseTransport, Shut
<1>2. CASE CloseTransport /\ ~Live(transport)
  BY <1>2 DEF CloseTransport, CloseServer, ServerClosed
<1>3. CASE At("close", "awaitReader") /\ UNCHANGED <<transport, server, conn>>
  BY <1>3
<1> QED
  BY <1>1, <1>2, <1>3

LEMMA PoppedTyped ==
  ASSUME TableOK
  PROVE  /\ Popped \in [DOMAIN Popped -> Callers]
         /\ DOMAIN Popped \subseteq DOMAIN pending
         /\ \A i \in DOMAIN Popped : Popped[i] = pending[i]
BY DEF TableOK, Popped, Restrict

\* Every step keeps every part of the state typed.
LEMMA NextTypeOK == TypeOK /\ [Next]_vars => TypeOK'
<1> SUFFICES ASSUME TypeOK, [Next]_vars PROVE TypeOK'
  OBVIOUS
<1> USE InitiatorAssumption
    DEF TypeOK, AttrsOK, TableOK, FutOK, TaskOK, ConnOK, WireOK, Tasks, Labels,
        attrs, calls, links, tasks, At, AtOn
<1>1. CASE InitStart
  BY <1>1 DEF InitStart
<1>2. CASE InitAgain
  BY <1>2 DEF InitAgain
<1>3. CASE InitBind
  BY <1>3 DEF InitBind
<1>4. CASE InitSpawn
  BY <1>4 DEF InitSpawn
<1>5. CASE InitClientTimeout
  BY <1>5 DEF InitClientTimeout
<1>6. CASE InitGreet
  <2>1. Plain("hello") \in Frame
    BY DEF Plain, Frame, FrameTypes
  <2>2. WireOK'
    BY <1>6, <2>1, WriteTyped DEF InitGreet, TypeOK, WireOK
  <2> QED
    BY <1>6, <2>2 DEF InitGreet
<1>7. CASE InitGreeted
  BY <1>7 DEF InitGreeted
<1>8. CASE InitNoTransport
  BY <1>8 DEF InitNoTransport
<1>9. CASE InitRaises
  BY <1>9 DEF InitRaises, Shut
<1>10. CASE InitHello
  <2>1. "init" \in Tasks
    BY DEF Tasks
  <2>2. WireOK'
    BY <1>10, <2>1, ReceiveTyped DEF InitHello, TypeOK, WireOK
  <2> QED
    BY <1>10, <2>2 DEF InitHello
<1>11. CASE InitCancelled
  BY <1>11 DEF InitCancelled
<1>12. CASE ReaderStart
  BY <1>12 DEF ReaderStart
<1>13. CASE ReaderDispatches
  <2>1. "reader" \in Tasks
    BY DEF Tasks
  <2>2. Incoming("reader") \in Frame /\ WireOK'
    BY <1>13, <2>1, ReceiveTyped DEF ReaderDispatches, ReaderTakes, WireOK
  <2>3. TableOK'
    BY <1>13, PoppedTyped DEF ReaderDispatches, ReaderTakes, AttrsOK, TableOK
  <2>4. FutOK'
    <3>1. Answers => pending[Msg.id] \in Callers
      BY DEF Answers, TableOK
    <3>2. Msg.val \in Values \cup Callers \cup {None}
      BY <2>2 DEF Msg, Frame
    <3>3. [st |-> "answered", val |-> Msg.val] \in
            [st : {"none", "waiting", "answered", "failed", "cancelled", "dropped"},
             val : Values \cup Callers \cup {None}]
      BY <3>2
    <3> QED
      BY <1>13, <3>1, <3>3 DEF ReaderDispatches, FutOK
  <2> QED
    BY <1>13, <2>2, <2>3, <2>4 DEF ReaderDispatches, ReaderTakes, ReaderAt
<1>14. CASE ReaderCrashes
  <2>1. "reader" \in Tasks
    BY DEF Tasks
  <2>2. WireOK'
    BY <1>14, <2>1, ReceiveTyped DEF ReaderCrashes, ReaderTakes, WireOK
  <2>3. TableOK' /\ FutOK'
    BY <1>14, FailAllTyped DEF ReaderCrashes, ReaderTakes, AttrsOK
  <2>4. TaskOK' /\ ConnOK' /\ transport' \in Clients \cup {None}
    BY <1>14, CleanupTyped DEF ReaderCrashes
  <2> QED
    BY <1>14, <2>2, <2>3, <2>4 DEF ReaderCrashes, ReaderTakes, ReaderAt
<1>15. CASE ReaderLosesPeer
  BY <1>15 DEF ReaderLosesPeer, ReaderAt, Shut
<1>16. CASE ReaderRaises
  <2>1. TableOK' /\ FutOK'
    BY <1>16, FailAllTyped DEF ReaderRaises, AttrsOK
  <2>2. TaskOK' /\ ConnOK' /\ transport' \in Clients \cup {None}
    BY <1>16, CleanupTyped DEF ReaderRaises
  <2> QED
    BY <1>16, <2>1, <2>2 DEF ReaderRaises, ReaderAt
<1>17. CASE ReaderCleaned
  BY <1>17 DEF ReaderCleaned, ReaderAt
<1>18. CASE ReaderCancelled
  BY <1>18 DEF ReaderCancelled, ReaderCleanup, Shut, Live
<1>19. ASSUME NEW r \in Callers, CallerRejected(r) PROVE TypeOK'
  BY <1>19 DEF CallerRejected
<1>20. ASSUME NEW r \in Callers, CallerSends(r) PROVE TypeOK'
  <2>1. nextId \in Nat \ {0} /\ nextId' = nextId + 1
    BY <1>20 DEF CallerSends, NewId, AttrsOK
  <2>2. TableOK'
    BY <1>20, <2>1 DEF CallerSends, TableOK
  <2>3. FutOK'
    <3>1. fut' = [fut EXCEPT ![r].st = "waiting"]
      BY <1>20 DEF CallerSends
    <3> QED
      BY ONLY FutOK, <1>20, <3>1 DEF FutOK
  <2>4. Req(nextId, r) \in Frame
    BY <2>1 DEF Req, Frame, FrameTypes
  <2>5. WireOK'
    BY <1>20, <2>4, WriteTyped DEF CallerSends, TypeOK, WireOK
  <2> QED
    BY <1>20, <2>1, <2>2, <2>3, <2>5 DEF CallerSends
<1>21. ASSUME NEW r \in Callers, CallerDrained(r) PROVE TypeOK'
  BY <1>21 DEF CallerDrained
<1>22. ASSUME NEW r \in Callers, CallerDrainRaises(r) PROVE TypeOK'
  BY <1>22 DEF CallerDrainRaises, Shut
<1>23. ASSUME NEW r \in Callers, CallerDone(r) PROVE TypeOK'
  BY <1>23 DEF CallerDone
<1>24. ASSUME NEW r \in Callers, CallerCancelled(r) PROVE TypeOK'
  <2>1. FutOK'
    <3>1. fut' = [fut EXCEPT ![r].st = "cancelled"] \/ fut' = fut
      BY <1>24 DEF CallerCancelled
    <3> QED
      BY ONLY FutOK, <1>24, <3>1 DEF FutOK
  <2> QED
    BY <1>24, <2>1 DEF CallerCancelled
<1>25. CASE CloseStart
  <2>1. ReaderAlive \in BOOLEAN
    BY DEF ReaderAlive
  <2>2. /\ server' \in BOOLEAN /\ transport' \in Clients \cup {None}
        /\ ConnOK' /\ TaskOK'
    BY <1>25, CloseTyped DEF CloseStart
  <2> QED
    BY <1>25, <2>1, <2>2 DEF CloseStart
<1>26. CASE CloseReaderDone
  BY <1>26 DEF CloseReaderDone, CloseTransport, CloseServer, ServerClosed, Shut, Live
<1>27. CASE CloseCleaned
  BY <1>27 DEF CloseCleaned, CloseServer, ServerClosed
<1>28. CASE CloseServerClosed \/ CloseReaped
  BY <1>28 DEF CloseServerClosed, ServerClosed, CloseReaped
<1>29. ASSUME NEW c \in Clients, OnClient(c) PROVE TypeOK'
  BY <1>29 DEF OnClient, Vacant
<1>30. ASSUME NEW c \in Clients, ClientConnects(c) PROVE TypeOK'
  BY <1>30 DEF ClientConnects
<1>31. ASSUME NEW c \in Clients, NEW f \in PeerFrames, PeerSends(c, f) PROVE TypeOK'
  <2>1. Append(up[c], f) \in Seq(Frame)
    BY <1>31, InitiatorAssumption DEF WireOK
  <2> QED
    BY <1>31, <2>1 DEF PeerSends
<1>32. ASSUME NEW c \in Clients, PeerChanges(c) PROVE TypeOK'
  <2>1. peer[c] \in SUBSET {"eof", "stalled"}
    OBVIOUS
  <2>2. PICK S \in SUBSET {"eof", "stalled"} : peer' = [peer EXCEPT ![c] = S]
    <3>1. \/ peer' = [peer EXCEPT ![c] = peer[c] \cup {"eof"}]
          \/ peer' = [peer EXCEPT ![c] = peer[c] \cup {"stalled"}]
          \/ peer' = [peer EXCEPT ![c] = peer[c] \ {"stalled"}]
      BY <1>32 DEF PeerChanges
    <3>2. /\ peer[c] \cup {"eof"} \in SUBSET {"eof", "stalled"}
          /\ peer[c] \cup {"stalled"} \in SUBSET {"eof", "stalled"}
          /\ peer[c] \ {"stalled"} \in SUBSET {"eof", "stalled"}
      BY <2>1
    <3> QED
      BY <3>1, <3>2
  <2>3. WireOK'
    BY <1>32, <2>2 DEF PeerChanges
  <2> QED
    BY <1>32, <2>3 DEF PeerChanges
<1>33. CASE ChildExits
  BY <1>33 DEF ChildExits
<1>34. CASE UNCHANGED vars
  BY <1>34 DEF vars
<1> QED
  BY <1>1, <1>2, <1>3, <1>4, <1>5, <1>6, <1>7, <1>8, <1>9, <1>10, <1>11, <1>12,
     <1>13, <1>14, <1>15, <1>16, <1>17, <1>18, <1>19, <1>20, <1>21, <1>22, <1>23,
     <1>24, <1>25, <1>26, <1>27, <1>28, <1>29, <1>30, <1>31, <1>32, <1>33, <1>34
     DEF Next, Code, Users, World, InitStep, ReaderStep, CloseStep, CallerStep

LEMMA InitTypeOK == Init => TypeOK
<1> SUFFICES ASSUME Init PROVE TypeOK
  OBVIOUS
<1>1. AttrsOK
  <2>1. server \in BOOLEAN /\ closed \in BOOLEAN /\ cancelled \in BOOLEAN
    BY Zenon DEF Init
  <2> QED
    BY <2>1 DEF Init, AttrsOK
<1>2. TableOK /\ FutOK
  BY DEF Init, TableOK, FutOK
<1>3. TaskOK
  BY DEF Init, TaskOK, Tasks, Labels
<1>4. ConnOK /\ WireOK
  BY DEF Init, ConnOK, WireOK
<1> QED
  BY <1>1, <1>2, <1>3, <1>4 DEF TypeOK

\* Whatever users and peers do, every attribute keeps its type, and every id in
\* the table of pending requests has been handed out.
THEOREM TypeCorrect == Spec => []TypeOK
BY InitTypeOK, NextTypeOK, PTL DEF Spec

-----------------------------------------------------------------------------
(* _transport is never replaced while it is open, and never read twice at  *)
(* once, provided that aclose is not called while init_subprocess runs or  *)
(* calls are in flight: whatever the peers send, whenever connections and  *)
(* tasks fail, and however callers are cancelled.                          *)
(*                                                                         *)
(* Three coroutines set _transport to None.  The argument is that they do  *)
(* so one after the other: the reader task lives only between the end of   *)
(* the handshake and the closing of the server, and aclose touches the     *)
(* transport only when the reader task has ended.                          *)

\* The reader task and the rest of a started initiator live within the server.
WithinServer ==
  /\ pc["init"] \in {"spawn", "waitClient", "greet", "hello"} => server
  /\ ReaderAlive => server /\ pc["init"] = "ok"
  /\ pc["close"] \in {"awaitReader", "cleanup", "server"} => server /\ pc["init"] \in {"ok", "failed"}
  /\ pc["close"] = "idle" =>
       /\ server => pc["init"] \notin {"idle", "bind"}
       /\ \A c \in Clients : conn[c] \in {"accepted", "open"} => server

\* Whoever is closing the transport has it to himself.
OneCleanup ==
  /\ pc["close"] = "cleanup" => ~ReaderAlive /\ transport # None /\ ~Live(transport)
  /\ pc["close"] = "server" => ~ReaderAlive
  /\ pc["reader"] = "cleanup" => transport # None /\ ~Live(transport)
  /\ pc["reader"] = "recv" => transport # None /\ on["reader"] = transport

TInv == TypeOK /\ WithinServer /\ OneCleanup /\ OneLiveTransport

LEMMA InitTInv == Init => TInv
<1> SUFFICES ASSUME Init PROVE TInv
  OBVIOUS
<1>1. TypeOK
  BY InitTypeOK
<1>2. pc["init"] = "idle" /\ pc["close"] = "idle" /\ pc["reader"] = "none"
  BY InitiatorAssumption DEF Init, Tasks
<1> QED
  BY <1>1, <1>2 DEF Init, TInv, WithinServer, OneCleanup, OneLiveTransport, ReaderAlive

LEMMA NextTInv ==
  ASSUME "closeEarly" \notin Moves, TInv, [Next]_vars
  PROVE  TInv'
<1> USE DEF TInv, WithinServer, OneCleanup, OneLiveTransport, ReaderAlive, Live, At, AtOn,
            attrs, calls, links, tasks
<1>0. TypeOK' BY NextTypeOK
<1>t. /\ pc \in [Tasks -> Labels] /\ on \in [Tasks -> Clients \cup {None}]
      /\ conn \in [Clients -> {"unused", "accepted", "refused", "open", "closed"}]
      /\ transport \in Clients \cup {None} /\ None \notin Clients
      /\ {"init", "reader", "close"} \subseteq Tasks
      /\ \A r \in Callers : r \in Tasks /\ r \notin {"init", "reader", "close"}
  BY InitiatorAssumption DEF TypeOK, AttrsOK, TaskOK, ConnOK, Tasks
<1>1. CASE InitStart
  BY <1>1, <1>0, <1>t DEF InitStart
<1>2. CASE InitAgain
  BY <1>2, <1>0, <1>t DEF InitAgain
<1>3. CASE InitBind
  BY <1>3, <1>0, <1>t DEF InitBind
<1>4. CASE InitSpawn
  BY <1>4, <1>0, <1>t DEF InitSpawn
<1>5. CASE InitClientTimeout
  BY <1>5, <1>0, <1>t DEF InitClientTimeout
<1>6. CASE InitGreet
  BY <1>6, <1>0, <1>t DEF InitGreet
<1>7. CASE InitGreeted
  BY <1>7, <1>0, <1>t DEF InitGreeted
<1>8. CASE InitNoTransport
  BY <1>8, <1>0, <1>t DEF InitNoTransport
<1>9. CASE InitRaises
  BY <1>9, <1>0, <1>t DEF InitRaises, Shut
<1>10. CASE InitHello
  BY <1>10, <1>0, <1>t DEF InitHello
<1>11. CASE InitCancelled
  BY <1>11, <1>0, <1>t DEF InitCancelled
<1>12. CASE ReaderStart
  BY <1>12, <1>0, <1>t DEF ReaderStart
<1>13. CASE ReaderDispatches
  BY <1>13, <1>0, <1>t DEF ReaderDispatches, ReaderTakes, ReaderAt
<1>14. CASE ReaderCrashes
  BY <1>14, <1>0, <1>t DEF ReaderCrashes, ReaderTakes, ReaderAt, ReaderCleanup, Shut
<1>15. CASE ReaderLosesPeer
  BY <1>15, <1>0, <1>t DEF ReaderLosesPeer, ReaderAt, Shut
<1>16. CASE ReaderRaises
  BY <1>16, <1>0, <1>t DEF ReaderRaises, ReaderAt, ReaderCleanup, Shut
<1>17. CASE ReaderCleaned
  BY <1>17, <1>0, <1>t DEF ReaderCleaned, ReaderAt
<1>18. CASE ReaderCancelled
  BY <1>18, <1>0, <1>t DEF ReaderCancelled, ReaderCleanup, Shut
<1>19. ASSUME NEW r \in Callers, CallerRejected(r) PROVE TInv'
  BY <1>19, <1>0, <1>t DEF CallerRejected
<1>20. ASSUME NEW r \in Callers, CallerSends(r) PROVE TInv'
  BY <1>20, <1>0, <1>t DEF CallerSends
<1>21. ASSUME NEW r \in Callers, CallerDrained(r) PROVE TInv'
  BY <1>21, <1>0, <1>t DEF CallerDrained
<1>22. ASSUME NEW r \in Callers, CallerDrainRaises(r) PROVE TInv'
  BY <1>22, <1>0, <1>t DEF CallerDrainRaises, Shut
<1>23. ASSUME NEW r \in Callers, CallerDone(r) PROVE TInv'
  BY <1>23, <1>0, <1>t DEF CallerDone
<1>24. ASSUME NEW r \in Callers, CallerCancelled(r) PROVE TInv'
  BY <1>24, <1>0, <1>t DEF CallerCancelled
<1>25. CASE CloseStart
  <2>1. "closeEarly" \notin Moves => pc["init"] \in {"idle", "ok", "failed"}
    BY <1>25 DEF CloseStart, Quiet
  <2>2. CASE ReaderAlive
    BY <1>25, <1>0, <1>t, <2>2 DEF CloseStart
  <2>3. CASE ~ReaderAlive /\ Live(transport)
    <3>1. transport \in Clients /\ server /\ pc["init"] \in {"ok", "failed"}
      BY <1>25, <1>t, <2>1, <2>3 DEF CloseStart
    <3> QED
      BY <1>25, <1>0, <1>t, <2>3, <3>1 DEF CloseStart, CloseTransport, Shut
  <2>4. CASE ~ReaderAlive /\ ~Live(transport)
    BY <1>25, <1>0, <1>t, <2>1, <2>4 DEF CloseStart, CloseTransport, CloseServer, ServerClosed
  <2> QED
    BY <2>2, <2>3, <2>4
<1>26. CASE CloseReaderDone
  BY <1>26, <1>0, <1>t DEF CloseReaderDone, CloseTransport, CloseServer, ServerClosed, Shut
<1>27. CASE CloseCleaned
  BY <1>27, <1>0, <1>t DEF CloseCleaned, CloseServer, ServerClosed
<1>28. CASE CloseServerClosed \/ CloseReaped
  BY <1>28, <1>0, <1>t DEF CloseServerClosed, ServerClosed, CloseReaped
<1>29. ASSUME NEW c \in Clients, OnClient(c) PROVE TInv'
  BY <1>29, <1>0, <1>t DEF OnClient, Vacant
<1>30. ASSUME NEW c \in Clients, ClientConnects(c) PROVE TInv'
  BY <1>30, <1>0, <1>t DEF ClientConnects, Listening
<1>31. ASSUME NEW c \in Clients, NEW f \in PeerFrames, PeerSends(c, f) PROVE TInv'
  BY <1>31, <1>0, <1>t DEF PeerSends
<1>32. ASSUME NEW c \in Clients, PeerChanges(c) PROVE TInv'
  BY <1>32, <1>0, <1>t DEF PeerChanges
<1>33. CASE ChildExits
  BY <1>33, <1>0, <1>t DEF ChildExits
<1>34. CASE UNCHANGED vars
  BY <1>34, <1>0 DEF vars
<1> QED
  BY <1>1, <1>2, <1>3, <1>4, <1>5, <1>6, <1>7, <1>8, <1>9, <1>10, <1>11, <1>12,
     <1>13, <1>14, <1>15, <1>16, <1>17, <1>18, <1>19, <1>20, <1>21, <1>22, <1>23,
     <1>24, <1>25, <1>26, <1>27, <1>28, <1>29, <1>30, <1>31, <1>32, <1>33, <1>34
     DEF Next, Code, Users, World, InitStep, ReaderStep, CloseStep, CallerStep

LEMMA TInvariance == ASSUME "closeEarly" \notin Moves PROVE Spec => []TInv
<1>1. TInv /\ [Next]_vars => TInv'
  BY NextTInv
<1> QED
  BY <1>1, InitTInv, PTL DEF Spec

\* No open connection is ever lost from sight: it is the one _transport wraps.
THEOREM OneTransport == ASSUME "closeEarly" \notin Moves PROVE Spec => []OneLiveTransport
<1>1. TInv => OneLiveTransport
  BY DEF TInv
<1> QED
  BY <1>1, TInvariance, PTL

\* The reader loop reads the connection that calls are written to, and reads it alone.
THEOREM OneReader == ASSUME "closeEarly" \notin Moves PROVE Spec => []ReaderOwnsTransport
<1>1. TInv => ReaderOwnsTransport
  BY DEF TInv, WithinServer, OneCleanup, ReaderOwnsTransport, ReaderAlive
<1> QED
  BY <1>1, TInvariance, PTL

-----------------------------------------------------------------------------
(* aclose leaves nothing running, if init_subprocess is not called again.  *)

\* From the first step of aclose on, nothing starts; what it has stopped stays so.
Closing ==
  /\ pc["close"] # "idle" => closed /\ pc["init"] \in {"idle", "ok", "failed"}
  /\ pc["close"] \in {"child", "done"} => ~server
  /\ pc["close"] = "done" => proc # "running"

LEMMA NextClosing ==
  ASSUME {"closeEarly", "reinit"} \cap Moves = {}, TInv, Closing, [Next]_vars
  PROVE  Closing'
<1> USE DEF Closing, At, AtOn, attrs, calls, links, tasks
<1>t. /\ pc \in [Tasks -> Labels] /\ {"init", "reader", "close"} \subseteq Tasks
      /\ \A r \in Callers : r \in Tasks /\ r \notin {"init", "reader", "close"}
      /\ proc \in {"none", "running", "exited"}
  BY InitiatorAssumption DEF TInv, TypeOK, AttrsOK, TaskOK, Tasks
<1>m. "closeEarly" \notin Moves /\ "reinit" \notin Moves
  OBVIOUS
<1>1. CASE InitStep
  BY <1>1, <1>t
     DEF InitStep, InitBind, InitSpawn, InitClientTimeout, InitGreet, InitGreeted,
         InitNoTransport, InitRaises, InitHello
<1>2. CASE InitStart \/ InitAgain \/ InitCancelled
  BY <1>2, <1>t, <1>m DEF InitStart, InitAgain, InitCancelled
<1>3. CASE ReaderStep
  BY <1>3, <1>t DEF ReaderStep, ReaderStart, ReaderDispatches, ReaderCrashes, ReaderTakes,
                    ReaderLosesPeer, ReaderRaises, ReaderCleaned, ReaderCancelled, ReaderCleanup
<1>4. CASE CloseStart
  BY <1>4, <1>t, <1>m DEF CloseStart, CloseTransport, CloseServer, ServerClosed, Quiet
<1>5. CASE CloseReaderDone \/ CloseCleaned
  BY <1>5, <1>t DEF CloseReaderDone, CloseCleaned, CloseTransport, CloseServer, ServerClosed
<1>6. CASE CloseServerClosed \/ CloseReaped
  BY <1>6, <1>t DEF CloseServerClosed, ServerClosed, CloseReaped
<1>7. ASSUME NEW r \in Callers,
             CallerStep(r) \/ CallerRejected(r) \/ CallerSends(r) \/ CallerCancelled(r)
      PROVE  Closing'
  BY <1>7, <1>t DEF CallerStep, CallerRejected, CallerSends, CallerDrained, CallerDrainRaises,
                    CallerDone, CallerCancelled
<1>8. CASE World \/ UNCHANGED vars \/ \E c \in Clients : OnClient(c)
  BY <1>8, <1>t DEF World, ClientConnects, PeerSends, PeerChanges, ChildExits, OnClient, vars
<1> QED
  BY <1>1, <1>2, <1>3, <1>4, <1>5, <1>6, <1>7, <1>8 DEF Next, Code, Users, CloseStep

\* When aclose returns, the server is closed, the reader loop over and the child gone.
THEOREM Closed ==
  ASSUME {"closeEarly", "reinit"} \cap Moves = {}
  PROVE  Spec => []CloseComplete
<1>1. Init => Closing
  BY InitiatorAssumption DEF Init, Closing, Tasks
<1>2. TInv /\ Closing /\ [Next]_vars => Closing'
  BY NextClosing
<1>3. TInv /\ Closing => CloseComplete
  BY DEF TInv, WithinServer, Closing, CloseComplete
<1>4. Spec => []TInv
  BY TInvariance
<1> QED
  BY <1>1, <1>2, <1>3, <1>4, PTL DEF Spec

-----------------------------------------------------------------------------
(* A future is settled once.                                               *)

\* A caller that has not called has a future that has not been created.
Fresh == \A r \in Callers : pc[r] = "idle" => fut[r].st = "none"

FInv == TypeOK /\ Fresh

\* The future of a caller changes only while it is unsettled, or to begin to wait.
FutStep(r) ==
  \/ fut'[r] = fut[r]
  \/ fut[r].st \in {"waiting", "dropped"}
  \/ pc[r] = "idle" /\ pc'[r] # "idle"

LEMMA FailAllStep ==
  ASSUME FutOK, NEW table, NEW lost, FailAll(table, lost), NEW r \in Callers
  PROVE  FutStep(r)
BY DEF FutOK, FailAll, FutStep

LEMMA EveryFutStep ==
  ASSUME FInv, [Next]_vars, NEW r \in Callers
  PROVE  FutStep(r)
<1> USE DEF calls, FInv, TypeOK, FutOK
<1>1. CASE ReaderDispatches
  <2>1. CASE Answers
    <3>1. Msg.id \in DOMAIN pending /\ pending[Msg.id] \in Callers
      BY <2>1 DEF Answers, TableOK
    <3>2. fut[pending[Msg.id]].st = "waiting"
      BY <1>1, <2>1 DEF ReaderDispatches, Crashes
    <3>3. r # pending[Msg.id] => fut'[r] = fut[r]
      BY <1>1, <2>1, <3>1 DEF ReaderDispatches
    <3> QED
      BY <3>2, <3>3 DEF FutStep
  <2>2. CASE ~Answers
    BY <1>1, <2>2 DEF ReaderDispatches, FutStep
  <2> QED
    BY <2>1, <2>2
<1>2. CASE ReaderCrashes \/ ReaderRaises
  BY <1>2, FailAllStep DEF ReaderCrashes, ReaderRaises
<1>3. ASSUME NEW q \in Callers, CallerSends(q)
      PROVE  FutStep(r)
  BY <1>3 DEF CallerSends, MayCall, FutStep, AtOn, At, TaskOK, Tasks
<1>4. ASSUME NEW q \in Callers, CallerCancelled(q)
      PROVE  FutStep(r)
  BY <1>4 DEF CallerCancelled, FutStep
<1>5. CASE UNCHANGED fut
  BY <1>5 DEF FutStep
<1>6. \/ ReaderDispatches \/ ReaderCrashes \/ ReaderRaises
      \/ \E q \in Callers : CallerSends(q) \/ CallerCancelled(q)
      \/ UNCHANGED fut
  BY DEF Next, Code, Users, World, InitStep, ReaderStep, CloseStep, CallerStep, vars,
         InitStart, InitAgain, InitBind, InitSpawn, InitClientTimeout, InitGreet, InitGreeted,
         InitNoTransport, InitRaises, InitHello, InitCancelled, ReaderStart, ReaderLosesPeer,
         ReaderCleaned, ReaderCancelled, CallerRejected, CallerDrained, CallerDrainRaises,
         CallerDone, CloseStart, CloseReaderDone, CloseCleaned, CloseServerClosed, CloseReaped, OnClient,
         ClientConnects, PeerSends, PeerChanges, ChildExits
<1> QED
  BY <1>1, <1>2, <1>3, <1>4, <1>5, <1>6

\* A caller never becomes idle again.
LEMMA IdleStep ==
  ASSUME TypeOK, [Next]_vars, NEW r \in Callers, pc'[r] = "idle"
  PROVE  pc[r] = "idle"
<1>1. pc \in [Tasks -> Labels] /\ r \in Tasks
  BY DEF TypeOK, TaskOK, Tasks
<1>2. \/ \E t \in Tasks, l \in Labels \ {"idle"} : pc' = [pc EXCEPT ![t] = l]
      \/ pc' = [pc EXCEPT !["init"] = "ok", !["reader"] = "created"]
      \/ UNCHANGED pc
  <2> USE DEF At, AtOn, tasks, Tasks, Labels
  <2>1. CASE InitStep
    BY <2>1 DEF InitStep, InitBind, InitSpawn, InitClientTimeout, InitGreet, InitGreeted,
                InitNoTransport, InitRaises, InitHello
  <2>2. CASE InitStart \/ InitAgain \/ InitCancelled
    BY <2>2 DEF InitStart, InitAgain, InitCancelled
  <2>3. CASE ReaderStep
    BY <2>3 DEF ReaderStep, ReaderStart, ReaderDispatches, ReaderCrashes, ReaderLosesPeer,
                ReaderRaises, ReaderCleaned, ReaderCancelled, ReaderCleanup
  <2>4. CASE CloseStep \/ CloseStart \/ CloseServerClosed
    BY <2>4 DEF CloseStep, CloseStart, CloseReaderDone, CloseCleaned, CloseServerClosed, CloseReaped,
                CloseTransport, CloseServer, ServerClosed
  <2>5. ASSUME NEW q \in Callers,
               CallerStep(q) \/ CallerRejected(q) \/ CallerSends(q) \/ CallerCancelled(q)
        PROVE  \E t \in Tasks, l \in Labels \ {"idle"} : pc' = [pc EXCEPT ![t] = l]
    BY <2>5 DEF CallerStep, CallerRejected, CallerSends, CallerDrained, CallerDrainRaises,
                CallerDone, CallerCancelled
  <2>6. CASE World \/ UNCHANGED vars \/ \E c \in Clients : OnClient(c)
    BY <2>6 DEF World, ClientConnects, PeerSends, PeerChanges, ChildExits, OnClient, vars
  <2> QED
    BY <2>1, <2>2, <2>3, <2>4, <2>5, <2>6 DEF Next, Code, Users
<1> QED
  BY <1>1, <1>2

LEMMA NextFInv == FInv /\ [Next]_vars => FInv'
<1> SUFFICES ASSUME FInv, [Next]_vars PROVE FInv'
  OBVIOUS
<1>1. TypeOK'
  BY NextTypeOK DEF FInv
<1>2. ASSUME NEW r \in Callers, pc'[r] = "idle"
      PROVE  fut'[r].st = "none"
  <2>1. pc[r] = "idle" /\ fut[r].st = "none"
    BY <1>2, IdleStep DEF FInv, Fresh
  <2> QED
    BY <1>2, <2>1, EveryFutStep DEF FutStep
<1> QED
  BY <1>1, <1>2 DEF FInv, Fresh

LEMMA FInvariance == Spec => []FInv
<1>1. Init => FInv
  BY InitTypeOK DEF Init, FInv, Fresh
<1> QED
  BY <1>1, NextFInv, PTL DEF Spec

\* The outcome of a call, be it a response, a failure of the connection or its
\* cancellation, is never overwritten.
THEOREM SettledOnce == Spec => FutureSettledOnce
<1>1. FInv /\ [Next]_vars =>
        [\A r \in Callers :
           fut[r].st \in {"answered", "failed", "cancelled"} => fut'[r] = fut[r]]_vars
  <2> SUFFICES ASSUME FInv, Next, NEW r \in Callers,
                      fut[r].st \in {"answered", "failed", "cancelled"}
               PROVE  fut'[r] = fut[r]
    OBVIOUS
  <2>1. pc[r] # "idle"
    BY DEF FInv, Fresh
  <2> QED
    BY <2>1, EveryFutStep DEF FutStep
<1> QED
  BY <1>1, FInvariance, PTL DEF Spec, FutureSettledOnce

-----------------------------------------------------------------------------
(* A message id names one request.                                         *)

\* Every id on the wire has been handed out, so that the next one is new.
IdsHandedOut == \A c \in Clients : \A i \in Requests(c) : down[c][i].id \in 1..(nextId - 1)

\* Requests, their ids and the entries of the table agree.
IdInv == TypeOK /\ IdsHandedOut /\ IdsNameOneRequest

\* The log of one connection grows by a request with the next id, or by no request.
Grows(c, r) ==
  /\ nextId' = nextId + 1
  /\ pending' = [i \in DOMAIN pending \cup {nextId} |-> IF i = nextId THEN r ELSE pending[i]]
  /\ down' = [down EXCEPT ![c] = Append(@, Req(nextId, r))] \/ down' = down

LEMMA GrowsKeeps ==
  ASSUME IdInv, NEW c \in Clients, NEW r \in Callers, Grows(c, r)
  PROVE  IdsHandedOut' /\ IdsNameOneRequest'
<1> DEFINE n == Len(down[c]) + 1
<1>0. nextId \in Nat \ {0} /\ nextId' = nextId + 1
  BY DEF IdInv, TypeOK, AttrsOK, Grows
<1>1. \A d \in Clients : down[d] \in Seq(Frame) /\ Len(down[d]) \in Nat
  BY DEF IdInv, TypeOK, WireOK
<1>2. DOMAIN pending \subseteq 1..(nextId - 1)
  BY DEF IdInv, TypeOK, TableOK
<1>3. ASSUME NEW d \in Clients, NEW i \in Requests(d)'
      PROVE  \/ i \in Requests(d) /\ down'[d][i] = down[d][i]
             \/ d = c /\ i = n /\ down'[d][i].id = nextId /\ down'[d][i].val = r
  <2>1. CASE down' = down
    BY <1>3, <2>1 DEF Requests
  <2>2. CASE down' = [down EXCEPT ![c] = Append(@, Req(nextId, r))]
    <3>1. CASE d # c
      BY <1>1, <1>3, <2>2, <3>1 DEF Requests, IdInv, TypeOK, WireOK
    <3>2. CASE d = c
      <4>1. down'[d] = Append(down[c], Req(nextId, r))
        BY <2>2, <3>2 DEF IdInv, TypeOK, WireOK
      <4>2. i \in 1..n
        BY <1>1, <1>3, <4>1 DEF Requests
      <4>3. CASE i = n
        BY <1>1, <3>2, <4>1, <4>3 DEF Req
      <4>4. CASE i # n
        <5>1. i \in 1..Len(down[c]) /\ down'[d][i] = down[c][i]
          BY <1>1, <4>1, <4>2, <4>4
        <5> QED
          BY <1>3, <3>2, <5>1 DEF Requests
      <4> QED
        BY <4>3, <4>4
    <3> QED
      BY <3>1, <3>2
  <2> QED
    BY <2>1, <2>2 DEF Grows
<1>4. IdsHandedOut'
  <2> SUFFICES ASSUME NEW d \in Clients, NEW i \in Requests(d)'
               PROVE  down'[d][i].id \in 1..nextId
    BY <1>0 DEF IdsHandedOut
  <2>1. CASE i \in Requests(d) /\ down'[d][i] = down[d][i]
    BY <1>0, <2>1 DEF IdInv, IdsHandedOut
  <2>2. CASE down'[d][i].id = nextId
    BY <1>0, <2>2
  <2> QED
    BY <1>3, <2>1, <2>2
<1>5. IdsNameOneRequest'
  <2> SUFFICES ASSUME NEW d \in Clients, NEW e \in Clients,
                      NEW i \in Requests(d)', NEW j \in Requests(e)'
               PROVE  /\ down'[d][i].id = down'[e][j].id => d = e /\ i = j
                      /\ d = e /\ i < j => down'[d][i].id < down'[e][j].id
                      /\ down'[d][i].id \in DOMAIN pending' =>
                           pending'[down'[d][i].id] = down'[d][i].val
    BY DEF IdsNameOneRequest
  <2>1. \A k \in Requests(d) : down[d][k].id \in 1..(nextId - 1) /\ k \in 1..Len(down[d])
    BY DEF IdInv, IdsHandedOut, Requests
  <2>2. \A k \in Requests(e) : down[e][k].id \in 1..(nextId - 1) /\ k \in 1..Len(down[e])
    BY DEF IdInv, IdsHandedOut, Requests
  <2>3. /\ down'[d][i].id = down'[e][j].id => d = e /\ i = j
        /\ d = e /\ i < j => down'[d][i].id < down'[e][j].id
    <3>1. CASE i \in Requests(d) /\ down'[d][i] = down[d][i]
      <4>1. CASE j \in Requests(e) /\ down'[e][j] = down[e][j]
        BY <3>1, <4>1 DEF IdInv, IdsNameOneRequest
      <4>2. CASE e = c /\ j = n /\ down'[e][j].id = nextId
        <5>1. down'[d][i].id \in 1..(nextId - 1) /\ (d = e => i < j)
          BY <1>1, <2>1, <3>1, <4>2
        <5> QED
          BY <1>0, <4>2, <5>1
      <4> QED
        BY <1>3, <4>1, <4>2
    <3>2. CASE d = c /\ i = n /\ down'[d][i].id = nextId
      <4>1. CASE j \in Requests(e) /\ down'[e][j] = down[e][j]
        <5>1. down'[e][j].id \in 1..(nextId - 1) /\ (d = e => j < i)
          BY <1>1, <2>2, <3>2, <4>1
        <5>2. i \in Nat /\ j \in Nat
          BY <1>1, <2>2, <3>2, <4>1
        <5> QED
          BY <1>0, <3>2, <5>1, <5>2
      <4>2. CASE e = c /\ j = n
        BY <1>1, <3>2, <4>2
      <4> QED
        BY <1>3, <4>1, <4>2
    <3> QED
      BY <1>3, <3>1, <3>2
  <2>4. /\ DOMAIN pending' = DOMAIN pending \cup {nextId}
        /\ pending'[nextId] = r
        /\ \A k \in DOMAIN pending : k # nextId => pending'[k] = pending[k]
    BY DEF Grows
  <2>5. down'[d][i].id \in DOMAIN pending' => pending'[down'[d][i].id] = down'[d][i].val
    <3>1. CASE i \in Requests(d) /\ down'[d][i] = down[d][i]
      <4>1. down[d][i].id # nextId
        BY <1>0, <2>1, <3>1
      <4>2. down[d][i].id \in DOMAIN pending => pending[down[d][i].id] = down[d][i].val
        BY <3>1 DEF IdInv, IdsNameOneRequest
      <4> QED
        BY <3>1, <2>4, <4>1, <4>2
    <3>2. CASE down'[d][i].id = nextId /\ down'[d][i].val = r
      BY <3>2, <2>4
    <3> QED
      BY <1>3, <3>1, <3>2
  <2> QED
    BY <2>3, <2>5
<1> QED
  BY <1>4, <1>5

\* The table may lose entries; the logs may grow by a hello.
Shrinks ==
  /\ nextId' = nextId
  /\ DOMAIN pending' \subseteq DOMAIN pending
  /\ \A i \in DOMAIN pending' : pending'[i] = pending[i]
  /\ \/ down' = down
     \/ \E c \in Clients : down' = [down EXCEPT ![c] = Append(@, Plain("hello"))]

LEMMA ShrinksKeeps ==
  ASSUME IdInv, Shrinks
  PROVE  IdsHandedOut' /\ IdsNameOneRequest'
<1>1. ASSUME NEW d \in Clients, NEW i \in Requests(d)'
      PROVE  i \in Requests(d) /\ down'[d][i] = down[d][i]
  <2>1. CASE down' = down
    BY <1>1, <2>1 DEF Requests
  <2>2. ASSUME NEW c \in Clients, down' = [down EXCEPT ![c] = Append(@, Plain("hello"))]
        PROVE  i \in Requests(d) /\ down'[d][i] = down[d][i]
    <3>1. down[c] \in Seq(Frame) /\ down[d] \in Seq(Frame)
      BY DEF IdInv, TypeOK, WireOK
    <3>2. CASE d # c
      BY <1>1, <2>2, <3>2 DEF Requests, IdInv, TypeOK, WireOK
    <3>3. CASE d = c
      <4>1. down'[d] = Append(down[d], Plain("hello"))
        BY <2>2, <3>3 DEF IdInv, TypeOK, WireOK
      <4>2. i \in 1..(Len(down[d]) + 1) /\ down'[d][i].type = "req"
        BY <1>1, <3>1, <4>1 DEF Requests
      <4>3. i # Len(down[d]) + 1
        BY <3>1, <4>1, <4>2 DEF Plain
      <4> QED
        BY <3>1, <4>1, <4>2, <4>3 DEF Requests
    <3> QED
      BY <3>2, <3>3
  <2> QED
    BY <2>1, <2>2 DEF Shrinks
<1> QED
  BY <1>1 DEF Shrinks, IdInv, IdsHandedOut, IdsNameOneRequest

LEMMA EveryIdStep ==
  ASSUME IdInv, [Next]_vars
  PROVE  Shrinks \/ \E c \in Clients, r \in Callers : Grows(c, r)
<1> USE DEF attrs, calls, links
<1>1. CASE ReaderDispatches
  <2>1. nextId' = nextId /\ down' = down /\ pending' = Popped
    BY <1>1 DEF ReaderDispatches, ReaderTakes
  <2> QED
    BY <2>1, PoppedTyped DEF IdInv, TypeOK, Shrinks
<1>2. CASE ReaderCrashes \/ ReaderRaises
  BY <1>2 DEF ReaderCrashes, ReaderRaises, ReaderTakes, FailAll, Shrinks
<1>3. CASE InitGreet
  BY <1>3 DEF InitGreet, Write, Shrinks, IdInv, TypeOK, AttrsOK
<1>4. ASSUME NEW r \in Callers, CallerSends(r)
      PROVE  Grows(transport, r) /\ transport \in Clients
  BY <1>4 DEF CallerSends, NewId, Write, Grows, IdInv, TypeOK, AttrsOK
<1>5. CASE UNCHANGED <<nextId, pending, down>>
  BY <1>5 DEF Shrinks
<1>6. \/ ReaderDispatches \/ ReaderCrashes \/ ReaderRaises \/ InitGreet
      \/ \E r \in Callers : CallerSends(r)
      \/ UNCHANGED <<nextId, pending, down>>
  BY DEF Next, Code, Users, World, InitStep, ReaderStep, CloseStep, CallerStep, vars,
         InitStart, InitAgain, InitBind, InitSpawn, InitClientTimeout, InitGreeted,
         InitNoTransport, InitRaises, InitHello, InitCancelled, ReaderStart, ReaderLosesPeer,
         ReaderCleaned, ReaderCancelled, CallerRejected, CallerDrained, CallerDrainRaises,
         CallerDone, CallerCancelled, CloseStart, CloseReaderDone, CloseCleaned, CloseServerClosed, CloseReaped,
         OnClient, ClientConnects, PeerSends, PeerChanges, ChildExits
<1> QED
  BY <1>1, <1>2, <1>3, <1>4, <1>5, <1>6

LEMMA InitIdInv == Init => IdInv
BY InitTypeOK DEF Init, IdInv, IdsHandedOut, IdsNameOneRequest, Requests

LEMMA NextIdInv == IdInv /\ [Next]_vars => IdInv'
BY NextTypeOK, EveryIdStep, ShrinksKeeps, GrowsKeeps DEF IdInv

\* However many requests are pipelined, over however many connections, a response
\* is delivered to the caller of the one request that carried its id.
THEOREM IdsUnique == Spec => []IdsNameOneRequest
<1>1. IdInv => IdsNameOneRequest
  BY DEF IdInv
<1> QED
  BY <1>1, InitIdInv, NextIdInv, PTL DEF Spec

-----------------------------------------------------------------------------
(* Responses do not end the reader loop, if nobody is cancelled.           *)

\* The future of a pending request waits, and no caller has two requests.
Awaited ==
  \A i \in DOMAIN pending :
    /\ fut[pending[i]].st = "waiting" /\ pc[pending[i]] # "idle"
    /\ \A j \in DOMAIN pending : pending[i] = pending[j] => i = j

LEMMA NextAwaited ==
  ASSUME "cancel" \notin Moves, TypeOK, Awaited, [Next]_vars
  PROVE  Awaited'
<1>0. \A i \in DOMAIN pending : pending[i] \in Callers /\ pc'[pending[i]] # "idle"
  BY IdleStep DEF Awaited, TypeOK, TableOK
<1>1. CASE ReaderDispatches
  <2>1. /\ DOMAIN Popped \subseteq DOMAIN pending
        /\ \A i \in DOMAIN Popped : Popped[i] = pending[i]
    BY PoppedTyped DEF TypeOK
  <2>2. CASE Answers
    <3>1. Msg.id \in DOMAIN pending /\ Msg.id \notin DOMAIN Popped
      BY <2>2 DEF Answers, Popped, Restrict
    <3>2. \A i \in DOMAIN Popped : pending[i] # pending[Msg.id] /\ fut'[pending[i]] = fut[pending[i]]
      BY <1>0, <1>1, <2>1, <2>2, <3>1 DEF ReaderDispatches, Awaited, TypeOK, FutOK
    <3> QED
      BY <1>0, <1>1, <2>1, <3>2 DEF ReaderDispatches, Awaited
  <2>3. CASE ~Answers
    BY <1>0, <1>1, <2>1, <2>3 DEF ReaderDispatches, Awaited
  <2> QED
    BY <2>2, <2>3
<1>2. CASE ReaderCrashes \/ ReaderRaises
  BY <1>2 DEF ReaderCrashes, ReaderRaises, FailAll, Awaited
<1>3. ASSUME NEW r \in Callers, CallerSends(r)
      PROVE  Awaited'
  <2>1. /\ pc[r] = "idle" /\ pc'[r] = "drain" /\ fut'[r].st = "waiting"
        /\ \A q \in Callers : q # r => fut'[q] = fut[q]
        /\ DOMAIN pending' = DOMAIN pending \cup {nextId} /\ pending'[nextId] = r
        /\ \A i \in DOMAIN pending : i # nextId => pending'[i] = pending[i]
    BY <1>3 DEF CallerSends, MayCall, AtOn, At, TypeOK, FutOK, TaskOK, Tasks
  <2>2. \A i \in DOMAIN pending : pending[i] # r
    BY <2>1 DEF Awaited
  <2> QED
    BY <1>0, <2>1, <2>2 DEF Awaited
<1>4. CASE UNCHANGED <<pending, fut>>
  BY <1>0, <1>4 DEF Awaited
<1>5. \/ ReaderDispatches \/ ReaderCrashes \/ ReaderRaises
      \/ \E r \in Callers : CallerSends(r)
      \/ UNCHANGED <<pending, fut>>
  BY DEF Next, Code, Users, World, InitStep, ReaderStep, CloseStep, CallerStep, vars, calls,
         InitStart, InitAgain, InitBind, InitSpawn, InitClientTimeout, InitGreet, InitGreeted,
         InitNoTransport, InitRaises, InitHello, InitCancelled, ReaderStart, ReaderLosesPeer,
         ReaderCleaned, ReaderCancelled, CallerRejected, CallerDrained, CallerDrainRaises,
         CallerDone, CallerCancelled, CloseStart, CloseReaderDone, CloseCleaned, CloseServerClosed, CloseReaped,
         OnClient, ClientConnects, PeerSends, PeerChanges, ChildExits
<1> QED
  BY <1>1, <1>2, <1>3, <1>4, <1>5

\* No other step than the reader's own takes a frame from where it reads.
LEMMA OnlyReaderTakes ==
  ASSUME TInv, Next, ReaderTakes
  PROVE  ReaderDispatches \/ ReaderCrashes
<1>1. on["reader"] \in Clients /\ up \in [Clients -> Seq(Frame)] /\ up[on["reader"]] # <<>>
  BY DEF ReaderTakes, Receives, Ready, TInv, TypeOK, TaskOK, WireOK, Tasks
<1>2. up' # up /\ \A c \in Clients : \A f : up' # [up EXCEPT ![c] = Append(@, f)]
  <2>1. up'[on["reader"]] = Tail(up[on["reader"]])
    BY <1>1 DEF ReaderTakes, Receives
  <2>2. Len(up'[on["reader"]]) < Len(up[on["reader"]])
    BY <1>1, <2>1
  <2> QED
    BY <1>1, <2>2
<1>3. ~InitHello
  BY DEF InitHello, TInv, WithinServer, ReaderTakes, ReaderAt, ReaderAlive
<1> QED
  BY <1>2, <1>3 DEF Next, Code, Users, World, InitStep, ReaderStep, CloseStep, CallerStep, links,
         InitStart, InitAgain, InitBind, InitSpawn, InitClientTimeout, InitGreet, InitGreeted,
         InitNoTransport, InitRaises, InitCancelled, ReaderStart, ReaderLosesPeer,
         ReaderRaises, ReaderCleaned, ReaderCancelled, CallerRejected, CallerSends, CallerDrained,
         CallerDrainRaises, CallerDone, CallerCancelled, CloseStart, CloseReaderDone, CloseCleaned,
         CloseServerClosed, CloseReaped, OnClient, ClientConnects, PeerSends, PeerChanges, ChildExits

\* Well-formed responses that are late, repeated or unsolicited never end the reader
\* loop, if no call is cancelled and aclose finds none in flight; one whose error is
\* malformed does.
THEOREM ReaderKept ==
  ASSUME {"cancel", "closeEarly"} \cap Moves = {}
  PROVE  Spec => ResponsesKeepReader
<1> DEFINE Kept == [ReaderTakes /\ Msg.type = "res" /\ Msg.id # 0 => pc'["reader"] = "recv"]_vars
<1>1. Init => Awaited
  BY DEF Init, Awaited
<1>2. TInv /\ Awaited /\ [Next]_vars => Awaited'
  BY NextAwaited DEF TInv
<1>3. TInv /\ Awaited /\ [Next]_vars => Kept
  <2> SUFFICES ASSUME TInv, Awaited, Next, ReaderTakes, Msg.type = "res", Msg.id # 0
               PROVE  pc'["reader"] = "recv"
    OBVIOUS
  <2>1. ~Crashes
    BY DEF Crashes, Answers, Awaited
  <2>2. ReaderDispatches
    BY <2>1, OnlyReaderTakes DEF ReaderCrashes
  <2> QED
    BY <2>2 DEF ReaderDispatches, AtOn, At, TInv, TypeOK, TaskOK, Tasks
<1>4. Spec => []TInv
  BY TInvariance
<1> QED
  BY <1>1, <1>2, <1>3, <1>4, PTL DEF Spec, ResponsesKeepReader

-----------------------------------------------------------------------------
(* No call is orphaned, in orderly use.                                    *)

\* Whatever a coroutine or _transport refers to was adopted, and nobody stalls.
Adopted ==
  /\ \A c \in Clients : c = transport \/ (\E t \in Tasks : on[t] = c) =>
       conn[c] \in {"open", "closed"}
  /\ \A c \in Clients : "stalled" \notin peer[c]
  /\ pc["init"] \in {"greet", "hello"} => on["init"] # None /\ transport # None
  /\ pc["reader"] = "created" => transport # None
  /\ \A r \in Callers : pc[r] = "drain" => on[r] # None

\* The handshake has succeeded once, on the only connection, before there is a
\* reader or a call; after aclose, there is no connection to start again with.
Established ==
  /\ pc["init"] = "ok" => pc["reader"] # "none" /\ (closed \/ server)
  /\ pc["reader"] # "none" =>
       /\ \A c \in Clients : conn[c] \in {"open", "closed"}
       /\ ~server \/ pc["close"] = "server" \/ pc["init"] # "ok" => transport = None
  /\ pc["close"] # "idle" => closed
  /\ \A r \in Callers : pc[r] \in {"drain", "await"} => pc["init"] = "ok" /\ ~closed
  /\ cancelled => closed /\ ReaderAlive

\* Every future that waits is in the table, until the reader loop has ended; then
\* only those wait whose callers are about to fail, and no more calls are sent.
\* The malformed response that drops a future ends the loop.
Delivered ==
  /\ \A r, q \in Callers : fut[r].st = "dropped" /\ fut[q].st = "dropped" => r = q
  /\ \A r \in Callers : fut[r].st = "dropped" => pc["reader"] \in {"cleanup", "done"}
  /\ IF pc["reader"] \in {"cleanup", "done"}
     THEN \/ closed
          \/ /\ \A r \in Callers : pc[r] = "drain" /\ fut[r].st = "waiting" => conn[on[r]] = "closed"
             /\ \A r \in Callers : pc[r] = "await" => fut[r].st # "waiting"
             /\ pc["reader"] = "done" => transport = None
     ELSE \A r \in Callers : fut[r].st = "waiting" => r \in Range(pending)

Delivering == Adopted /\ Established /\ Delivered

\* Popping the entry of a response takes no waiting future out of the table,
\* other than the one that is settled.
LEMMA StillInTable ==
  ASSUME TypeOK, NEW r \in Callers, r \in Range(pending),
         ~Answers \/ pending[Msg.id] # r
  PROVE  r \in Range(Popped)
<1>1. PICK i \in DOMAIN pending : pending[i] = r
  BY DEF Range
<1>2. i \in DOMAIN Popped
  BY <1>1 DEF Popped, Restrict
<1> QED
  BY <1>1, <1>2, PoppedTyped DEF TypeOK, Range

LEMMA NextDelivering ==
  ASSUME {"closeEarly", "callEarly", "retry", "stall"} \cap Moves = {},
         \A c, d \in Clients : c = d,
         TInv, Delivering, [Next]_vars
  PROVE  Delivering'
<1> USE DEF Delivering, Adopted, Established, Delivered, ReaderAlive, Live, At, AtOn,
            attrs, calls, links, tasks, Writable, DrainReturns, DrainRaises
<1>0. /\ "closeEarly" \notin Moves /\ "callEarly" \notin Moves
      /\ "retry" \notin Moves /\ "stall" \notin Moves
  OBVIOUS
<1>t. /\ pc \in [Tasks -> Labels] /\ on \in [Tasks -> Clients \cup {None}]
      /\ conn \in [Clients -> {"unused", "accepted", "refused", "open", "closed"}]
      /\ peer \in [Clients -> SUBSET {"eof", "stalled"}]
      /\ transport \in Clients \cup {None} /\ None \notin Clients
      /\ {"init", "reader", "close"} \subseteq Tasks
      /\ \A r \in Callers : r \in Tasks /\ r \notin {"init", "reader", "close"}
  BY InitiatorAssumption DEF TInv, TypeOK, AttrsOK, TaskOK, ConnOK, WireOK, Tasks
<1>1. CASE InitStart
  BY <1>1, <1>0, <1>t DEF InitStart
<1>2. CASE InitAgain
  BY <1>2, <1>0, <1>t DEF InitAgain
<1>3. CASE InitBind
  BY <1>3, <1>0, <1>t DEF InitBind
<1>4. CASE InitSpawn
  BY <1>4, <1>0, <1>t DEF InitSpawn
<1>5. CASE InitClientTimeout
  BY <1>5, <1>0, <1>t DEF InitClientTimeout
<1>6. CASE InitGreet
  BY <1>6, <1>0, <1>t DEF InitGreet
<1>7. CASE InitGreeted
  BY <1>7, <1>0, <1>t DEF InitGreeted
<1>8. CASE InitNoTransport
  BY <1>8, <1>0, <1>t DEF InitNoTransport
<1>9. CASE InitRaises
  BY <1>9, <1>0, <1>t DEF InitRaises, Shut
<1>10. CASE InitHello
  BY <1>10, <1>0, <1>t DEF InitHello, Receives, Ready, TInv, WithinServer
<1>11. CASE InitCancelled
  BY <1>11, <1>0, <1>t DEF InitCancelled
<1>12. CASE ReaderStart
  BY <1>12, <1>0, <1>t DEF ReaderStart
<1>13. CASE ReaderLosesPeer
  BY <1>13, <1>0, <1>t DEF ReaderLosesPeer, ReaderAt, Shut
<1>14. CASE ReaderCleaned
  BY <1>14, <1>0, <1>t DEF ReaderCleaned, ReaderAt
<1>15. CASE ReaderCancelled
  <2>1. closed /\ closed' /\ ReaderAlive
    BY <1>15 DEF ReaderCancelled
  <2>2. Adopted' /\ Established'
    BY <1>15, <2>1, <1>0, <1>t DEF ReaderCancelled, ReaderCleanup, Shut
  <2>3. Delivered'
    BY <1>15, <2>1, <1>0, <1>t DEF ReaderCancelled, ReaderCleanup
  <2> QED
    BY <2>2, <2>3
<1>16. CASE CloseStart
  <2>1. /\ pc["init"] \in {"idle", "ok", "failed"}
        /\ \A r \in Callers : pc[r] \notin {"drain", "await"}
        /\ closed' = TRUE /\ cancelled' = ReaderAlive
    BY <1>16, <1>0 DEF CloseStart, Quiet
  <2>2. CASE ReaderAlive
    BY <1>16, <2>1, <2>2, <1>t DEF CloseStart
  <2>3. CASE ~ReaderAlive
    <3>1. /\ closed' /\ ~cancelled' /\ UNCHANGED <<fut, pending, on, peer>>
          /\ \/ transport' = None
             \/ transport' = transport /\ server' = server /\ pc'["close"] = "cleanup"
          /\ \E l \in Labels : pc' = [pc EXCEPT !["close"] = l]
          /\ \A c \in Clients : conn'[c] = conn[c] \/ (conn[c] = "open" /\ conn'[c] = "closed")
      BY <1>16, <2>1, <2>3, <1>t DEF CloseStart, CloseTransport, CloseServer, ServerClosed, Shut, Labels
    <3>2. Adopted'
      BY <2>1, <2>3, <3>1, <1>t
    <3>3. Established'
      BY <2>1, <2>3, <3>1, <1>t
    <3>4. Delivered'
      BY <2>1, <2>3, <3>1, <1>t
    <3> QED
      BY <3>2, <3>3, <3>4
  <2> QED
    BY <2>2, <2>3
<1>17. CASE CloseReaderDone
  <2>1. ~ReaderAlive /\ pc["init"] \in {"ok", "failed"}
    BY <1>17 DEF CloseReaderDone, TInv, WithinServer
  <2>2. CASE Live(transport)
    BY <1>17, <2>1, <2>2, <1>t DEF CloseReaderDone, CloseTransport, Shut
  <2>3. CASE ~Live(transport)
    BY <1>17, <2>1, <2>3, <1>t DEF CloseReaderDone, CloseTransport, CloseServer, ServerClosed
  <2> QED
    BY <2>2, <2>3
<1>18. CASE CloseCleaned
  <2>1. /\ transport' = None /\ UNCHANGED <<closed, fut, pending, on, cancelled, conn, peer>>
        /\ \E l \in Labels : pc' = [pc EXCEPT !["close"] = l]
        /\ ~ReaderAlive /\ closed /\ pc["init"] \in {"ok", "failed"}
    BY <1>18, <1>t DEF CloseCleaned, CloseServer, ServerClosed, Labels, TInv, WithinServer, OneCleanup
  <2> QED
    BY <2>1, <1>t
<1>19. CASE CloseServerClosed \/ CloseReaped
  BY <1>19, <1>0, <1>t DEF CloseServerClosed, ServerClosed, CloseReaped
<1>20. CASE ChildExits
  BY <1>20, <1>0, <1>t DEF ChildExits
<1>21. ASSUME NEW r \in Callers, CallerRejected(r) PROVE Delivering'
  BY <1>21, <1>0, <1>t DEF CallerRejected
<1>22. ASSUME NEW r \in Callers, CallerDrained(r) PROVE Delivering'
  BY <1>22, <1>0, <1>t DEF CallerDrained
<1>23. ASSUME NEW r \in Callers, CallerDrainRaises(r) PROVE Delivering'
  BY <1>23, <1>0, <1>t DEF CallerDrainRaises, Shut
<1>24. ASSUME NEW r \in Callers, CallerDone(r) PROVE Delivering'
  BY <1>24, <1>0, <1>t DEF CallerDone
<1>25. ASSUME NEW r \in Callers, CallerCancelled(r) PROVE Delivering'
  BY <1>25, <1>0, <1>t DEF CallerCancelled
<1>26. ASSUME NEW c \in Clients, OnClient(c) PROVE Delivering'
  BY <1>26, <1>0, <1>t DEF OnClient, Vacant
<1>27. ASSUME NEW c \in Clients, ClientConnects(c) PROVE Delivering'
  BY <1>27, <1>0, <1>t DEF ClientConnects
<1>28. ASSUME NEW c \in Clients, PeerChanges(c) PROVE Delivering'
  BY <1>28, <1>0, <1>t DEF PeerChanges
<1>29. ASSUME NEW c \in Clients, NEW f \in PeerFrames, PeerSends(c, f) PROVE Delivering'
  BY <1>29, <1>0, <1>t DEF PeerSends
<1>30. CASE UNCHANGED vars
  BY <1>30, <1>0 DEF vars
<1>31. CASE ReaderDispatches
  <2>1. Adopted' /\ Established'
    BY <1>31, <1>0, <1>t DEF ReaderDispatches, ReaderTakes, ReaderAt
  <2>2. ASSUME NEW r \in Callers, fut'[r].st = "waiting"
        PROVE  r \in Range(Popped)
    <3>1. fut[r].st = "waiting" /\ (~Answers \/ pending[Msg.id] # r)
      BY <1>31, <2>2 DEF ReaderDispatches, TInv, TypeOK, FutOK, TableOK, Answers
    <3> QED
      BY <1>31, <3>1, StillInTable DEF ReaderDispatches, ReaderTakes, ReaderAt, TInv
  <2> QED
    <3>1. \A r \in Callers : fut'[r].st # "dropped"
      BY <1>31, <1>t DEF ReaderDispatches, ReaderTakes, ReaderAt, TInv, TypeOK, FutOK, TableOK, Answers
    <3> QED
      BY <1>31, <2>1, <2>2, <3>1, <1>t DEF ReaderDispatches
<1>32. CASE ReaderCrashes
  <2>1. Adopted' /\ Established'
    BY <1>32, <1>0, <1>t DEF ReaderCrashes, ReaderTakes, ReaderAt, ReaderCleanup, Shut
  <2>2. ASSUME NEW r \in Callers, fut[r].st = "waiting"
        PROVE  r \in Range(Popped) \cup Lost
    <3>1. ~Answers \/ pending[Msg.id] # r \/ r \in Lost
      BY <1>32, <2>2 DEF ReaderCrashes, Crashes, Answers, Lost, TInv, TypeOK, TableOK
    <3> QED
      BY <1>32, <2>2, <3>1, StillInTable DEF ReaderCrashes, ReaderTakes, ReaderAt, TInv
  <2>3. \A r \in Callers : fut'[r].st # "waiting"
    BY <1>32, <2>2 DEF ReaderCrashes, FailAll, TInv, TypeOK, FutOK
  <2> QED
    <3>1. \A r \in Callers : fut'[r].st = "dropped" => r \in Lost
      BY <1>32, <1>t DEF ReaderCrashes, ReaderTakes, ReaderAt, FailAll, TInv, TypeOK, FutOK
    <3>2. pc'["reader"] \in {"cleanup", "done"}
      BY <1>32, <1>t DEF ReaderCrashes, ReaderCleanup
    <3>3. pc'["reader"] = "done" => transport' = None
      BY <1>32, <1>t DEF ReaderCrashes, ReaderCleanup
    <3>4. \A r, q \in Callers : fut'[r].st = "dropped" /\ fut'[q].st = "dropped" => r = q
      BY <3>1 DEF Lost
    <3> QED
      BY <2>1, <2>3, <3>2, <3>3, <3>4
<1>33. CASE ReaderRaises
  BY <1>33, <1>0, <1>t DEF ReaderRaises, ReaderAt, ReaderCleanup, Shut, FailAll
<1>34. ASSUME NEW r \in Callers, CallerSends(r) PROVE Delivering'
  <2>1. /\ ~closed /\ transport # None /\ pc["init"] = "ok" /\ pc[r] = "idle"
        /\ pc["reader"] # "none" /\ pc' = [pc EXCEPT ![r] = "drain"]
        /\ on' = [on EXCEPT ![r] = transport]
    BY <1>34, <1>0, <1>t DEF CallerSends, MayCall
  <2>2. Adopted' /\ Established'
    BY <1>34, <2>1, <1>0, <1>t DEF CallerSends
  <2>3. \A q \in Callers : q # r => fut'[q] = fut[q]
    BY <1>34 DEF CallerSends, TInv, TypeOK, FutOK
  <2>4. CASE pc["reader"] \in {"cleanup", "done"}
    <3>1. conn[transport] = "closed"
      BY <2>1, <2>4, <1>t DEF TInv, OneCleanup
    <3> QED
      BY <1>34, <2>1, <2>2, <2>3, <2>4, <3>1, <1>t DEF CallerSends
  <2>5. CASE pc["reader"] \notin {"cleanup", "done"}
    <3>1. fut'[r].st = "waiting"
      BY <1>34 DEF CallerSends, TInv, TypeOK, FutOK
    <3>2. \A q \in Range(pending) \cup {r} : q \in Range(pending')
      BY <1>34, <1>t DEF CallerSends, Range, TInv, TypeOK, TableOK, AttrsOK
    <3> QED
      BY <1>34, <2>1, <2>2, <2>3, <2>5, <3>1, <3>2, <1>t
  <2> QED
    BY <2>4, <2>5
<1> QED
  BY <1>1, <1>2, <1>3, <1>4, <1>5, <1>6, <1>7, <1>8, <1>9, <1>10, <1>11, <1>12, <1>13, <1>14, <1>15, <1>16, <1>17, <1>18, <1>19, <1>20, <1>21, <1>22, <1>23, <1>24, <1>25, <1>26, <1>27, <1>28, <1>29, <1>30, <1>31, <1>32, <1>33, <1>34
     DEF Next, Code, Users, World, InitStep, ReaderStep, CloseStep, CallerStep

\* Whoever awaits a response has someone to deliver it, if there is but one
\* connection, the handshake comes before the calls and aclose after them, and
\* the peer never stops reading; but for one call at most, whose own response had
\* a malformed error and so ended the reader loop.
THEOREM NoneOrphaned ==
  ASSUME {"closeEarly", "callEarly", "retry", "stall"} \cap Moves = {},
         \A c, d \in Clients : c = d
  PROVE  Spec => []NoOrphanedCall
<1>1. Init => Delivering
  BY InitiatorAssumption DEF Init, Delivering, Adopted, Established, Delivered, Tasks
<1>2. TInv /\ Delivering /\ [Next]_vars => Delivering'
  BY NextDelivering
<1>3. Delivering => NoOrphanedCall
  BY DEF Delivering, Established, Delivered, NoOrphanedCall
<1>4. Spec => []TInv
  BY TInvariance
<1> QED
  BY <1>1, <1>2, <1>3, <1>4, PTL DEF Spec

=============================================================================
