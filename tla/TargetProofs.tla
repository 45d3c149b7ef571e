---------------------------- MODULE TargetProofs ----------------------------
(***************************************************************************)
(* The handle registry is correct for every set of objects and addresses.  *)
(*                                                                         *)
(* HandleDesignates is not inductive: that the object found at an address  *)
(* is the one that was registered there rests on registered objects being  *)
(* alive, where they were, which is what Linked adds.                      *)
(*                                                                         *)
(* The target that serves from it only ever takes steps of the registry,   *)
(* so that what is proved of the registry holds of the target, and the     *)
(* handles it has answered keep their meaning.                             *)
(***************************************************************************)
EXTENDS Target, TLAPS

\* Two live objects never share an address.
Apart == \A o, p \in Alive : home[o] = home[p] => o = p

\* The two tables are inverse to each other, through the homes of the objects.
Linked ==
  /\ \A a \in DOMAIN objidToHandle : home[handleToObj[objidToHandle[a]]] = a
  /\ \A h \in DOMAIN handleToObj :
       /\ home[handleToObj[h]] \in DOMAIN objidToHandle
       /\ objidToHandle[home[handleToObj[h]]] = h

IInv == TypeOK /\ Apart /\ Linked

\* What the tables hold if an object that was not registered is given the next handle.
LEMMA NewEntry ==
  ASSUME NEW o, TypeOK, nextHandle' = NewNext, objidToHandle' = Indexed(o),
         handleToObj' = With(handleToObj, nextHandle, o)
  PROVE  /\ DOMAIN handleToObj' = 1..nextHandle
         /\ handleToObj'[nextHandle] = o
         /\ \A h \in 1..(nextHandle - 1) : handleToObj'[h] = handleToObj[h]
         /\ DOMAIN objidToHandle' = DOMAIN objidToHandle \cup {home[o]}
         /\ objidToHandle'[home[o]] = nextHandle
         /\ \A a \in DOMAIN objidToHandle : a # home[o] => objidToHandle'[a] = objidToHandle[a]
<1>1. DOMAIN handleToObj = 1..(nextHandle - 1) /\ nextHandle \in Nat \ {0}
  BY RegistryAssumption DEF TypeOK
<1>2. 1..(nextHandle - 1) \cup {nextHandle} = 1..nextHandle
  BY <1>1
<1> QED
  BY <1>1, <1>2 DEF With, Indexed

\* Registering a live object keeps both tables typed and inverse to each other.
LEMMA AllocKeeps ==
  ASSUME IInv, NEW o \in Objects, o \in Alive, Alloc(o), UNCHANGED home
  PROVE  IInv'
<1>1. CASE Known(o) /\ UNCHANGED tables
  BY <1>1 DEF IInv, TypeOK, Apart, Linked, Alive, tables
<1>2. CASE /\ ~Known(o) /\ nextHandle <= MaxHandle
           /\ nextHandle' = NewNext
           /\ objidToHandle' = Indexed(o)
           /\ handleToObj' = With(handleToObj, nextHandle, o)
  <2>1. /\ DOMAIN handleToObj' = 1..nextHandle
        /\ handleToObj'[nextHandle] = o
        /\ \A h \in 1..(nextHandle - 1) : handleToObj'[h] = handleToObj[h]
        /\ DOMAIN objidToHandle' = DOMAIN objidToHandle \cup {home[o]}
        /\ objidToHandle'[home[o]] = nextHandle
        /\ \A a \in DOMAIN objidToHandle : a # home[o] => objidToHandle'[a] = objidToHandle[a]
    BY <1>2, NewEntry DEF IInv
  <2>2. /\ nextHandle \in 1..MaxHandle /\ nextHandle' = nextHandle + 1
        /\ home[o] \in Addresses /\ home[o] \notin DOMAIN objidToHandle
    BY <1>2, RegistryAssumption DEF IInv, TypeOK, NewNext, Alive, Known
  <2>3. TypeOK'
    <3>1. handleToObj' \in [1..nextHandle -> Objects]
      <4>1. \A h \in 1..nextHandle : handleToObj'[h] \in Objects
        BY <2>1, <2>2 DEF IInv, TypeOK
      <4> QED
        BY <4>1, <2>1, <1>2 DEF With
    <3>2. objidToHandle' \in [DOMAIN objidToHandle' -> 1..nextHandle]
      <4>1. \A a \in DOMAIN objidToHandle' : objidToHandle'[a] \in 1..nextHandle
        BY <2>1, <2>2 DEF IInv, TypeOK
      <4> QED
        BY <4>1, <1>2 DEF With, Indexed
    <3> QED
      BY <3>1, <3>2, <2>1, <2>2, RegistryAssumption DEF IInv, TypeOK
  <2>4. Apart'
    BY DEF IInv, Apart, Alive
  <2>5. Linked'
    <3>1. ASSUME NEW a \in DOMAIN objidToHandle'
          PROVE  home[handleToObj'[objidToHandle'[a]]] = a
      BY <2>1, <2>2 DEF IInv, TypeOK, Linked
    <3>2. ASSUME NEW h \in DOMAIN handleToObj'
          PROVE  /\ home[handleToObj'[h]] \in DOMAIN objidToHandle'
                 /\ objidToHandle'[home[handleToObj'[h]]] = h
      BY <2>1, <2>2 DEF IInv, TypeOK, Linked
    <3> QED
      BY <3>1, <3>2 DEF Linked
  <2> QED
    BY <2>3, <2>4, <2>5 DEF IInv
<1> QED
  BY <1>1, <1>2 DEF Alloc

LEMMA InitIInv == RegistryInit => IInv
BY RegistryAssumption DEF RegistryInit, IInv, TypeOK, Apart, Linked, Alive

LEMMA NextIInv == IInv /\ [RegistryNext]_registry => IInv'
<1> SUFFICES ASSUME IInv, [RegistryNext]_registry PROVE IInv'
  OBVIOUS
<1>1. ASSUME NEW o \in Objects, NEW a \in Addresses, Create(o, a), UNCHANGED tables
      PROVE  IInv'
  <2>1. home' = [home EXCEPT ![o] = a] /\ home[o] = None /\ \A p \in Objects : home[p] # a
    BY <1>1 DEF Create, Alive, Range, IInv, TypeOK
  <2> QED
    BY <1>1, <2>1, RegistryAssumption DEF IInv, TypeOK, Apart, Linked, Alive, tables
<1>2. ASSUME NEW o \in Objects, Collect(o)
      PROVE  IInv'
  <2>1. /\ home' = [home EXCEPT ![o] = None]
        /\ \A h \in DOMAIN handleToObj : handleToObj[h] # o
    BY <1>2 DEF Collect, Held, Range
  <2> QED
    BY <1>2, <2>1, RegistryAssumption DEF Collect, IInv, TypeOK, Apart, Linked, Alive, tables
<1>3. ASSUME NEW o \in Objects, o \in Alive, Alloc(o), UNCHANGED home
      PROVE  IInv'
  BY <1>3, AllocKeeps
<1>4. CASE UNCHANGED registry
  BY <1>4 DEF IInv, TypeOK, Apart, Linked, Alive, registry, tables
<1> QED
  BY <1>1, <1>2, <1>3, <1>4 DEF RegistryNext

THEOREM Invariance == RegistrySpec => []IInv
BY InitIInv, NextIInv, PTL DEF RegistrySpec

\* The tables always have their types.
THEOREM TypeCorrect == RegistrySpec => []TypeOK
<1>1. IInv => TypeOK
  BY DEF IInv
<1> QED
  BY <1>1, Invariance, PTL

\* _alloc_handle_for never hands out, for one object, the handle of another:
\* not even for an object that took over the address of a dead one, nor a second
\* one.
THEOREM Designation == RegistrySpec => []HandleDesignates
<1>1. IInv => HandleDesignates
  BY RegistryAssumption
     DEF IInv, TypeOK, Apart, Linked, HandleDesignates, HandleFor, Known, Alive
<1> QED
  BY <1>1, Invariance, PTL

\* Handles in the table stay there, with their objects.
LEMMA StepStable ==
  ASSUME IInv, [RegistryNext]_registry
  PROVE  \A h \in DOMAIN handleToObj : Valid(h)' /\ handleToObj'[h] = handleToObj[h]
<1>1. CASE UNCHANGED tables
  BY <1>1 DEF tables, Valid
<1>2. ASSUME NEW o \in Objects, Alloc(o)
      PROVE  \A h \in DOMAIN handleToObj : Valid(h)' /\ handleToObj'[h] = handleToObj[h]
  <2>1. CASE /\ nextHandle' = NewNext /\ objidToHandle' = Indexed(o)
             /\ handleToObj' = With(handleToObj, nextHandle, o)
    <3>1. /\ DOMAIN handleToObj' = 1..nextHandle
          /\ \A h \in 1..(nextHandle - 1) : handleToObj'[h] = handleToObj[h]
      BY <2>1, NewEntry DEF IInv
    <3>2. DOMAIN handleToObj = 1..(nextHandle - 1) /\ nextHandle \in Nat
      BY RegistryAssumption DEF IInv, TypeOK
    <3> QED
      BY <3>1, <3>2 DEF Valid
  <2> QED
    BY <1>1, <1>2, <2>1 DEF Alloc
<1> QED
  BY <1>1, <1>2 DEF RegistryNext, Collect, registry

\* A handle never changes its meaning while the initiator holds it.
THEOREM Stability == RegistrySpec => HandlesStable
<1>1. IInv /\ [RegistryNext]_registry =>
        [\A h \in DOMAIN handleToObj : Valid(h)' /\ handleToObj'[h] = handleToObj[h]]_registry
  BY StepStable
<1> QED
  BY <1>1, Invariance, PTL DEF RegistrySpec, HandlesStable

-----------------------------------------------------------------------------
(* The target.                                                             *)

\* Whatever the target does, the tables change as in Registry, or not at all.
LEMMA StepsOfRegistry == [Next]_vars => [RegistryNext]_registry
<1> SUFFICES ASSUME [Next]_vars PROVE [RegistryNext]_registry
  OBVIOUS
<1> USE DEF registry, tables
<1>1. CASE Step
  <2>1. CASE Serve
    <3>1. CASE Open
      <4>1. PICK o \in Alive : Alloc(o)
        BY <3>1 DEF Open
      <4> QED
        BY <4>1, <3>1 DEF Open, RegistryNext, Alive
    <3> QED
      BY <2>1, <3>1 DEF Serve, Refuse
  <2> QED
    BY <1>1, <2>1 DEF Step, ConnectFails, Hello, StartCall, Ignore, Drained, DrainRaises, Leave
<1>2. CASE Interpreter
  BY <1>2 DEF Interpreter, RegistryNext
<1> QED
  BY <1>1, <1>2 DEF Next, Function, Connect, PeerSends, PeerCloses, vars

\* The target implements the registry: serving requests, losing the connection
\* and ending change no table in any other way than _alloc_handle_for does.
THEOREM ImplementsRegistry == Spec => RegistrySpec
<1>1. Init => RegistryInit
  BY DEF Init, TargetInit
<1> QED
  BY <1>1, StepsOfRegistry, PTL DEF Spec, RegistrySpec

\* So its handles designate what they should, and never change their meaning.
THEOREM TargetDesignation == Spec => []HandleDesignates /\ HandlesStable
BY ImplementsRegistry, Designation, Stability, PTL

\* What the initiator sends is well typed, and what was executed is recorded.
Frames  == [type : {"hello", "req", "notdict"}, id : Nat, val : Callers]
Records == [by : Callers, val : Responses \cup {None}, obj : Objects \cup {None}]

Served ==
  /\ down \in [Clients -> Seq(Frames)] /\ got \in Nat
  /\ tpc \notin {"start", "exited"} => link \in Clients
  /\ tpc = "busy" => More /\ Msg.type = "req" /\ Valid(Ask.on)
  /\ ran \in Seq(Records)

HInv == IInv /\ Served /\ HandlesHold

\* An object is not collected while it is in the table.
LEMMA EntriesStay ==
  ASSUME IInv, IInv', [RegistryNext]_registry,
         NEW h \in DOMAIN handleToObj
  PROVE  /\ h \in DOMAIN handleToObj' /\ handleToObj'[h] = handleToObj[h]
         /\ handleToObj[h] \in Alive'
<1>1. h \in DOMAIN handleToObj' /\ handleToObj'[h] = handleToObj[h]
  BY StepStable DEF Valid
<1>2. home'[handleToObj'[h]] \in Addresses /\ handleToObj[h] \in Objects
  BY <1>1 DEF IInv, TypeOK, Linked
<1> QED
  BY <1>1, <1>2, RegistryAssumption DEF Alive

\* HandlesHold outlives a step that records nothing.
LEMMA HoldsOn ==
  ASSUME IInv, IInv', [RegistryNext]_registry, HandlesHold, UNCHANGED ran
  PROVE  HandlesHold'
BY EntriesStay DEF HandlesHold, Valid

\* HandlesHold outlives a response, if it holds of that response.
LEMMA HoldsAfter ==
  ASSUME IInv, IInv', [RegistryNext]_registry, HandlesHold, ran \in Seq(Records),
         NEW e \in Records, ran' = Append(ran, e),
         e.val \in Responses /\ e.val.tag = "handle" =>
           e.val.of \in DOMAIN handleToObj' /\ handleToObj'[e.val.of] = e.obj
  PROVE  HandlesHold'
<1> SUFFICES ASSUME NEW i \in DOMAIN ran',
                    ran'[i].val \in Responses, ran'[i].val.tag = "handle"
             PROVE  LET h == ran'[i].val IN
                      /\ h.of \in DOMAIN handleToObj' /\ handleToObj'[h.of] = ran'[i].obj
                      /\ ran'[i].obj \in Alive'
  BY DEF HandlesHold, Valid
<1>1. ASSUME NEW h \in DOMAIN handleToObj' PROVE handleToObj'[h] \in Alive'
  BY <1>1, RegistryAssumption DEF IInv, TypeOK, Linked, Alive
<1>2. CASE i = Len(ran) + 1
  BY <1>1, <1>2 DEF Valid
<1>3. CASE i # Len(ran) + 1
  <2>1. i \in DOMAIN ran /\ ran'[i] = ran[i]
    BY <1>3
  <2> QED
    BY <2>1, EntriesStay DEF HandlesHold, Valid
<1> QED
  BY <1>2, <1>3

\* The handle that is answered designates the object it is given for.
LEMMA Registers ==
  ASSUME IInv, NEW o \in Alive, Alloc(o), UNCHANGED home
  PROVE  /\ HandleFor(o) \in 1..MaxHandle
         /\ HandleFor(o) \in DOMAIN handleToObj' /\ handleToObj'[HandleFor(o)] = o
<1>1. o \in Objects /\ o \in Alive /\ nextHandle \in 1..(MaxHandle + 1) /\ MaxHandle \in Nat
  BY RegistryAssumption DEF Alive, IInv, TypeOK
<1>2. CASE Known(o) /\ UNCHANGED tables
  <2>1. objidToHandle[home[o]] \in 1..(nextHandle - 1)
    BY <1>2 DEF IInv, TypeOK, Known
  <2>2. objidToHandle[home[o]] \in DOMAIN handleToObj
    BY <2>1 DEF IInv, TypeOK
  <2>3. handleToObj[objidToHandle[home[o]]] = o
    BY <1>1, <1>2, <2>2, RegistryAssumption DEF IInv, TypeOK, Linked, Apart, Known, Alive
  <2> QED
    BY <1>1, <1>2, <2>1, <2>2, <2>3 DEF HandleFor, Valid, tables
<1>3. CASE /\ ~Known(o) /\ nextHandle <= MaxHandle
           /\ nextHandle' = NewNext /\ objidToHandle' = Indexed(o)
           /\ handleToObj' = With(handleToObj, nextHandle, o)
  <2>1. DOMAIN handleToObj' = 1..nextHandle /\ handleToObj'[nextHandle] = o
    BY <1>3, NewEntry DEF IInv
  <2> QED
    BY <1>1, <1>3, <2>1 DEF HandleFor, Valid
<1> QED
  BY <1>2, <1>3 DEF Alloc

\* What the target has just executed.
LEMMA Recorded ==
  ASSUME IInv, IInv', [RegistryNext]_registry, Served, HandlesHold,
         link \in Clients, More, NEW val \in Responses \cup {None}, NEW obj \in Objects \cup {None},
         Recording(val, obj),
         val \in Responses /\ val.tag = "handle" =>
           val.of \in DOMAIN handleToObj' /\ handleToObj'[val.of] = obj
  PROVE  ran' \in Seq(Records) /\ HandlesHold'
<1>1. Msg \in Frames
  BY DEF Served, More, Msg
<1>2. [by |-> Msg.val, val |-> val, obj |-> obj] \in Records
  BY <1>1 DEF Frames, Records
<1>3. ran' = Append(ran, [by |-> Msg.val, val |-> val, obj |-> obj])
  BY DEF Recording
<1> QED
  BY <1>2, <1>3, HoldsAfter DEF Served

LEMMA InitHInv == Init => HInv
<1> SUFFICES ASSUME Init PROVE HInv
  OBVIOUS
<1>1. IInv
  BY InitIInv DEF Init, TargetInit
<1>2. Served
  BY DEF Init, TargetInit, Served
<1> QED
  BY <1>1, <1>2 DEF HInv, HandlesHold, Init, TargetInit

LEMMA NextHInv == HInv /\ [Next]_vars => HInv'
<1> SUFFICES ASSUME HInv, [Next]_vars PROVE HInv'
  OBVIOUS
<1>1. [RegistryNext]_registry /\ IInv /\ IInv'
  BY StepsOfRegistry, NextIInv DEF HInv
<1>2. CASE Served' /\ UNCHANGED ran
  BY <1>1, <1>2, HoldsOn DEF HInv
<1> USE DEF wire
<1>3. CASE Serve
  <2>1. /\ link \in Clients /\ More /\ Served /\ HandlesHold
        /\ down' = down /\ got' = got + 1 /\ link' = link /\ tpc' # "busy"
    BY <1>3 DEF Serve, Takes, HInv, Served, Open, Refuse, Respond, Draining
  <2>2. ran' \in Seq(Records) /\ HandlesHold'
    <3>1. CASE Open
      <4>1. PICK o \in Alive : Alloc(o) /\ Respond(Handle(HandleFor(o)), o) /\ UNCHANGED home
        BY <3>1 DEF Open
      <4>2. HandleFor(o) \in 1..MaxHandle /\ HandleFor(o) \in DOMAIN handleToObj' /\ handleToObj'[HandleFor(o)] = o
        BY <4>1, Registers, <1>1
      <4>3. /\ Handle(HandleFor(o)) \in Responses /\ Handle(HandleFor(o)).of = HandleFor(o)
            /\ o \in Objects
        BY <4>2 DEF Handle, Responses, Alive
      <4> QED
        BY <1>1, <2>1, <4>1, <4>2, <4>3, Recorded DEF Respond
    <3>2. CASE Refuse
      <4>1. Error \in Responses /\ Error.tag # "handle"
        BY DEF Error, Responses
      <4> QED
        BY <1>1, <2>1, <3>2, <4>1, Recorded DEF Refuse, Respond
    <3> QED
      BY <1>3, <3>1, <3>2 DEF Serve
  <2> QED
    BY <1>1, <2>1, <2>2 DEF HInv, Served
<1>4. CASE Function
  <2>1. /\ link \in Clients /\ More /\ Served /\ HandlesHold
        /\ down' = down /\ got' = got + 1 /\ link' = link /\ tpc' # "busy"
    BY <1>4 DEF Function, Takes, HInv, Served, Respond, Draining, Exits, Exit
  <2>2. ran' \in Seq(Records) /\ HandlesHold'
    <3>1. PICK val, obj : /\ Recording(val, obj)
                          /\ \/ val = Error /\ obj = None
                             \/ val \in {None, Result(handleToObj[Ask.on])} /\ obj = handleToObj[Ask.on]
      BY <1>4 DEF Function, Respond, Exits
    <3>2. handleToObj[Ask.on] \in Objects
      BY <1>4, <2>1 DEF Function, Served, Valid, HInv, IInv, TypeOK
    <3>3. /\ val \in Responses \cup {None} /\ obj \in Objects \cup {None}
          /\ ~(val \in Responses /\ val.tag = "handle")
      BY <3>1, <3>2, TargetAssumption DEF Error, Result, Responses
    <3> QED
      BY <1>1, <2>1, <3>1, <3>3, Recorded
  <2> QED
    BY <1>1, <2>1, <2>2 DEF HInv, Served
<1>5. ASSUME NEW c \in Clients, PeerSends(c) PROVE HInv'
  <2>1. PICK f \in Frames : down' = [down EXCEPT ![c] = Append(@, f)]
    <3>1. PICK f \in [type : {"hello", "req", "notdict"}, id : {Len(down[c])}, val : Callers] :
            down' = [down EXCEPT ![c] = Append(@, f)]
      BY <1>5 DEF PeerSends
    <3>2. Len(down[c]) \in Nat
      BY DEF HInv, Served
    <3>3. f \in Frames
      BY <3>1, <3>2 DEF Frames
    <3> QED
      BY <3>1, <3>3
  <2>2. down' \in [Clients -> Seq(Frames)]
    <3>1. down \in [Clients -> Seq(Frames)] /\ Append(down[c], f) \in Seq(Frames)
      BY DEF HInv, Served
    <3> QED
      BY <2>1, <3>1
  <2>3. /\ link' = link /\ got' = got /\ tpc' = tpc /\ ran' = ran /\ UNCHANGED registry
    BY <1>5 DEF PeerSends
  <2>4. tpc = "busy" => More' /\ Msg' = Msg
    BY <2>1, <2>3 DEF HInv, Served, More, Msg
  <2> QED
    BY <1>2, <2>2, <2>3, <2>4 DEF HInv, Served, Ask, Valid, registry, tables
<1>6. CASE StartCall
  BY <1>2, <1>6 DEF StartCall, HInv, Served, Ask, Msg, More, Valid, registry, tables
<1>7. CASE Hello \/ Ignore
  BY <1>2, <1>7 DEF Hello, Ignore, Takes, Exit, HInv, Served, registry, tables
<1>8. CASE ConnectFails \/ Drained \/ DrainRaises \/ Leave
  BY <1>2, <1>8 DEF ConnectFails, Drained, DrainRaises, Leave, Exit, HInv, Served
<1>9. CASE Interpreter
  BY <1>2, <1>9 DEF Interpreter, Collect, HInv, Served, Ask, Msg, More, Valid, registry, tables
<1>10. ASSUME NEW c \in Clients, Connect(c) \/ PeerCloses(c) PROVE HInv'
  BY <1>2, <1>10 DEF Connect, PeerCloses, HInv, Served, Ask, Msg, More, Valid, registry, tables
<1>11. CASE UNCHANGED vars
  BY <1>2, <1>11 DEF vars, HInv, Served, Ask, Msg, More, Valid, registry, tables
<1> QED
  BY <1>3, <1>4, <1>5, <1>6, <1>7, <1>8, <1>9, <1>10, <1>11 DEF Next, Step

\* However long the target serves, and whatever its initiator sends, a handle
\* it has answered designates the object it resolved for that request.
THEOREM HandlesKept == Spec => []HandlesHold
<1>1. HInv => HandlesHold
  BY DEF HInv
<1> QED
  BY <1>1, InitHInv, NextHInv, PTL DEF Spec

-----------------------------------------------------------------------------
(* The order of the responses.                                             *)

Replies == [type : {"hello", "res"}, id : Nat, val : Responses \cup {None}]

\* Requests are numbered by their positions, and those that are answered are
\* among the first got.
Numbered ==
  /\ \A c \in Clients : \A k \in 1..Len(down[c]) : down[c][k].id = k - 1
  /\ up \in [Clients -> Seq(Replies)]
  /\ \A c \in Clients : \A i \in 1..Len(up[c]) :
       c = link /\ (up[c][i].type = "res" => up[c][i].id < got)
  /\ tpc = "start" => link \notin Clients
  /\ tpc \in {"start", "hello"} => \A c \in Clients : up[c] = <<>>

\* While a result is being sent, its request has no error response yet.
Pending ==
  tpc = "drain" =>
    /\ got \in 1..Len(down[link])
    /\ \A i \in 1..Len(up[link]) :
         up[link][i].type = "res" /\ up[link][i].id = got - 1 => up[link][i].val # Error

Orderly == Numbered /\ Pending /\ AnswersInOrder
OInv    == HInv /\ Orderly

\* A frame is written, or dropped because the connection is gone.
LEMMA Writes ==
  ASSUME HInv, Orderly, link \in Clients, link' = link, NEW f \in Replies,
         \/ up' = up
         \/ up' = [up EXCEPT ![link] = Append(@, f)],
         \A i \in 1..Len(up[link]) : up[link][i].type = "res" =>
           /\ up[link][i].id <= f.id
           /\ up[link][i].id = f.id => up[link][i].val # Error /\ f.val = Error
  PROVE  /\ up' \in [Clients -> Seq(Replies)]
         /\ \A c \in Clients : \A i \in 1..Len(up'[c]) :
              c = link /\ (up'[c][i] = f \/ (i \in 1..Len(up[c]) /\ up'[c][i] = up[c][i]))
         /\ AnswersInOrder'
<1>1. up \in [Clients -> Seq(Replies)] /\ AnswersInOrder
  BY DEF Orderly, Numbered
<1>2. \A c \in Clients : DOMAIN up[c] = 1..Len(up[c]) /\ Len(up[c]) \in Nat
  BY <1>1
<1>3. CASE up' = up
  BY <1>1, <1>2, <1>3 DEF Orderly, Numbered, AnswersInOrder
<1>4. CASE up' = [up EXCEPT ![link] = Append(@, f)]
  <2>1. /\ up'[link] = Append(up[link], f) /\ Append(up[link], f) \in Seq(Replies)
        /\ Len(up'[link]) = Len(up[link]) + 1 /\ up'[link][Len(up[link]) + 1] = f
        /\ \A i \in 1..Len(up[link]) : up'[link][i] = up[link][i]
        /\ DOMAIN up'[link] = 1..(Len(up[link]) + 1)
    BY <1>1, <1>4
  <2>2. \A c \in Clients : c # link => up'[c] = up[c]
    BY <1>1, <1>4
  <2>3. up' \in [Clients -> Seq(Replies)]
    BY <1>1, <1>4, <2>1
  <2>4. AnswersInOrder'
    <3> SUFFICES ASSUME NEW c \in Clients, NEW i \in DOMAIN up'[c], NEW j \in DOMAIN up'[c],
                        i < j, up'[c][i].type = "res"
                 PROVE  /\ up'[c][i].id <= up'[c][j].id
                        /\ up'[c][i].id = up'[c][j].id =>
                             up'[c][i].val # Error /\ up'[c][j].val = Error
      BY DEF AnswersInOrder
    <3>1. CASE c # link
      BY <1>1, <2>2, <3>1 DEF AnswersInOrder
    <3>2. CASE c = link /\ j = Len(up[link]) + 1
      BY <1>2, <2>1, <3>2
    <3>3. CASE c = link /\ j \in 1..Len(up[link])
      <4>1. i \in DOMAIN up[link] /\ j \in DOMAIN up[link]
        BY <1>2, <2>1, <3>3
      <4> QED
        BY <1>1, <1>2, <2>1, <3>3, <4>1 DEF AnswersInOrder
    <3>4. c = link => j \in 1..(Len(up[link]) + 1)
      BY <2>1
    <3>5. Len(up[link]) \in Nat
      BY <1>2
    <3> QED
      BY <3>1, <3>2, <3>3, <3>4, <3>5
  <2> QED
    BY <1>2, <2>1, <2>2, <2>3, <2>4 DEF Orderly, Numbered
<1> QED
  BY <1>3, <1>4

\* The ids in what was written are numbers.
LEMMA Identified ==
  ASSUME Numbered PROVE \A c \in Clients : \A i \in 1..Len(up[c]) : up[c][i].id \in Nat
<1> SUFFICES ASSUME NEW c \in Clients, NEW i \in 1..Len(up[c]) PROVE up[c][i].id \in Nat
  OBVIOUS
<1>1. up[c] \in Seq(Replies)
  BY DEF Numbered
<1>2. up[c][i] \in Replies
  BY <1>1
<1> QED
  BY <1>2 DEF Replies

LEMMA NextOrderly == OInv /\ [Next]_vars => Orderly'
<1> SUFFICES ASSUME OInv, [Next]_vars PROVE Orderly'
  OBVIOUS
<1> USE DEF wire
<1>0. /\ HInv /\ Served /\ Numbered /\ Pending /\ AnswersInOrder /\ Orderly
      /\ \A c \in Clients : Len(down[c]) \in Nat /\ Len(up[c]) \in Nat
  BY DEF OInv, HInv, Orderly, Served, Numbered
<1>1. CASE UNCHANGED <<up, down, link, got>> /\ tpc' \notin {"start", "hello", "drain"}
  BY <1>0, <1>1 DEF Orderly, Numbered, Pending, AnswersInOrder
<1>2. CASE UNCHANGED <<up, down, link, got, tpc>>
  BY <1>0, <1>2 DEF Orderly, Numbered, Pending, AnswersInOrder
\* A request is answered: no response has its id yet.
<1>3. ASSUME link \in Clients, Takes, down' = down, link' = link, Msg.type = "req",
             NEW val \in Responses, NEW obj, Respond(val, obj)
      PROVE  Orderly'
  <2>1. /\ got \in Nat /\ got' = got + 1 /\ got + 1 \in 1..Len(down[link])
        /\ Msg.id = got /\ tpc' \notin {"start", "hello"}
        /\ tpc' = "drain" => val # Error
    BY <1>0, <1>3 DEF Served, Numbered, Takes, More, Msg, Respond, Draining
  <2> DEFINE f == [type |-> "res", id |-> Msg.id, val |-> val]
  <2>2. f \in Replies /\ f.id = got /\ f.val = val
    BY <2>1 DEF Replies
  <2>3. up' = up \/ up' = [up EXCEPT ![link] = Append(@, f)]
    BY <1>3 DEF Respond, Write
  <2>4. \A i \in 1..Len(up[link]) : up[link][i].type = "res" =>
          up[link][i].id < got /\ up[link][i].id \in Nat
    BY <1>0, <1>3, Identified DEF Numbered
  <2> HIDE DEF f
  <2>8. \A i \in 1..Len(up[link]) : up[link][i].type = "res" =>
          /\ up[link][i].id <= f.id
          /\ up[link][i].id = f.id => up[link][i].val # Error /\ f.val = Error
    BY <2>1, <2>2, <2>4
  <2>5. /\ up' \in [Clients -> Seq(Replies)]
        /\ \A c \in Clients : \A i \in 1..Len(up'[c]) :
             c = link /\ (up'[c][i] = f \/ (i \in 1..Len(up[c]) /\ up'[c][i] = up[c][i]))
        /\ AnswersInOrder'
    BY <1>0, <1>3, <2>2, <2>3, <2>8, Writes
  <2>6. Numbered'
    <3>1. ASSUME NEW c \in Clients, NEW i \in 1..Len(up'[c]), up'[c][i].type = "res"
          PROVE  up'[c][i].id < got'
      <4>1. CASE up'[c][i] = f
        BY <2>1, <2>2, <4>1
      <4>2. CASE i \in 1..Len(up[c]) /\ up'[c][i] = up[c][i]
        <5>1. up[c][i].id < got /\ up[c][i].id \in Nat
          BY <1>0, <3>1, <4>2, Identified DEF Numbered
        <5> QED
          BY <2>1, <4>2, <5>1
      <4> QED
        BY <2>5, <4>1, <4>2
    <3> QED
      BY <1>0, <1>3, <2>1, <2>5, <3>1 DEF Numbered
  <2>7. Pending'
    <3>1. ASSUME NEW i \in 1..Len(up'[link]), tpc' = "drain",
                 up'[link][i].type = "res", up'[link][i].id = got
          PROVE  up'[link][i].val # Error
      <4>1. CASE up'[link][i] = f
        BY <2>1, <2>2, <3>1, <4>1
      <4>2. CASE i \in 1..Len(up[link]) /\ up'[link][i] = up[link][i]
        BY <2>1, <2>4, <3>1, <4>2
      <4> QED
        BY <1>3, <2>5, <4>1, <4>2
    <3>2. got' \in 1..Len(down'[link']) /\ got' - 1 = got
      BY <1>3, <2>1
    <3> QED
      BY <1>3, <3>1, <3>2 DEF Pending
  <2> QED
    BY <2>5, <2>6, <2>7 DEF Orderly
<1>4. CASE Serve
  <2>1. /\ link \in Clients /\ Takes /\ down' = down /\ link' = link /\ Msg.type = "req"
    BY <1>0, <1>4 DEF Serve, Served
  <2>2. CASE Refuse
    BY <1>3, <2>1, <2>2 DEF Refuse, Responses
  <2>3. CASE Open
    <3>1. PICK o \in Alive : Alloc(o) /\ Respond(Handle(HandleFor(o)), o) /\ UNCHANGED home
      BY <2>3 DEF Open
    <3>2. Handle(HandleFor(o)) \in Responses
      BY <1>0, <3>1, Registers DEF HInv, Responses
    <3> QED
      BY <1>3, <2>1, <3>1, <3>2
  <2> QED
    BY <1>4, <2>2, <2>3 DEF Serve
<1>5. CASE Function
  <2>1. /\ link \in Clients /\ Takes /\ down' = down /\ link' = link
    BY <1>0, <1>5 DEF Function, Served
  <2>2. Msg.type = "req" /\ handleToObj[Ask.on] \in Objects
    BY <1>0, <1>5 DEF Function, Served, Valid, HInv, IInv, TypeOK
  <2>3. CASE Respond(Result(handleToObj[Ask.on]), handleToObj[Ask.on])
    <3>1. Result(handleToObj[Ask.on]) \in Responses
      BY <2>2 DEF Responses
    <3> QED
      BY <1>3, <2>1, <2>2, <2>3, <3>1
  <2>4. CASE Respond(Error, None)
    BY <1>3, <2>1, <2>2, <2>4 DEF Responses
  <2>5. CASE Exits
    <3>1. UNCHANGED <<up, down, link>> /\ got' = got + 1 /\ tpc' = "exited" /\ got \in Nat
      BY <1>0, <1>5, <2>1, <2>5 DEF Exits, Exit, Takes, Served
    <3>2. \A c \in Clients : \A i \in 1..Len(up[c]) :
            up[c][i].type = "res" => up[c][i].id < got + 1
      BY <1>0, <3>1, Identified DEF Numbered
    <3> QED
      BY <1>0, <3>1, <3>2 DEF Orderly, Numbered, Pending, AnswersInOrder
  <2> QED
    BY <1>5, <2>3, <2>4, <2>5 DEF Function
<1>6. CASE DrainRaises
  <2>1. /\ link \in Clients /\ got \in 1..Len(down[link])
        /\ down' = down /\ link' = link /\ got' = got /\ tpc' = "drainError"
    BY <1>0, <1>6 DEF DrainRaises, Served, Pending
  <2> DEFINE f == [type |-> "res", id |-> down[link][got].id, val |-> Error]
  <2>2. f \in Replies /\ f.id = got - 1 /\ f.val = Error
    BY <1>0, <2>1 DEF Numbered, Replies, Responses
  <2>3. up' = up \/ up' = [up EXCEPT ![link] = Append(@, f)]
    BY <1>6 DEF DrainRaises, Write
  <2> HIDE DEF f
  <2>4. \A i \in 1..Len(up[link]) : up[link][i].type = "res" =>
          /\ up[link][i].id <= f.id
          /\ up[link][i].id = f.id => up[link][i].val # Error /\ f.val = Error
    BY <1>0, <1>6, <2>1, <2>2, Identified DEF DrainRaises, Numbered, Pending
  <2>5. /\ up' \in [Clients -> Seq(Replies)]
        /\ \A c \in Clients : \A i \in 1..Len(up'[c]) :
             c = link /\ (up'[c][i] = f \/ (i \in 1..Len(up[c]) /\ up'[c][i] = up[c][i]))
        /\ AnswersInOrder'
    BY <1>0, <2>1, <2>2, <2>3, <2>4, Writes
  <2>6. ASSUME NEW c \in Clients, NEW i \in 1..Len(up'[c]), up'[c][i].type = "res"
        PROVE  up'[c][i].id < got
    <3>1. CASE up'[c][i] = f
      BY <1>0, <2>1, <2>2, <3>1
    <3>2. CASE i \in 1..Len(up[c]) /\ up'[c][i] = up[c][i]
      BY <1>0, <2>6, <3>2 DEF Numbered
    <3> QED
      BY <2>5, <3>1, <3>2
  <2> QED
    BY <1>0, <2>1, <2>5, <2>6 DEF Orderly, Numbered, Pending
<1>7. CASE Hello
  <2>1. /\ link \in Clients /\ got \in Nat /\ got' = got + 1
        /\ down' = down /\ link' = link /\ tpc' \in {"greeted", "exited"}
        /\ \A c \in Clients : Len(up[c]) = 0
    BY <1>0, <1>7 DEF Hello, Takes, Served, Exit, Numbered
  <2> DEFINE f == [type |-> "hello", id |-> 0, val |-> None]
  <2>2. f \in Replies /\ f.type = "hello"
    BY DEF Replies
  <2>3. up' = up \/ up' = [up EXCEPT ![link] = Append(@, f)]
    BY <1>7 DEF Hello, Write
  <2> HIDE DEF f
  <2>4. \A i \in 1..Len(up[link]) : FALSE
    BY <2>1
  <2>5. /\ up' \in [Clients -> Seq(Replies)]
        /\ \A c \in Clients : \A i \in 1..Len(up'[c]) :
             c = link /\ (up'[c][i] = f \/ (i \in 1..Len(up[c]) /\ up'[c][i] = up[c][i]))
        /\ AnswersInOrder'
    BY <1>0, <2>1, <2>2, <2>3, <2>4, Writes
  <2> QED
    BY <1>0, <2>1, <2>2, <2>5 DEF Orderly, Numbered, Pending
<1>8. CASE Ignore
  <2>1. UNCHANGED <<up, down, link>> /\ got' = got + 1 /\ tpc' = "recv" /\ got \in Nat
    BY <1>0, <1>8 DEF Ignore, Takes, Served
  <2>2. \A c \in Clients : \A i \in 1..Len(up[c]) :
          up[c][i].type = "res" => up[c][i].id < got + 1
    BY <1>0, <2>1, Identified DEF Numbered
  <2> QED
    BY <1>0, <2>1, <2>2 DEF Orderly, Numbered, Pending, AnswersInOrder
<1>9. CASE StartCall \/ ConnectFails \/ Drained \/ Leave
  BY <1>1, <1>9 DEF StartCall, ConnectFails, Drained, Leave, Exit
<1>10. CASE Interpreter \/ UNCHANGED vars
  BY <1>2, <1>10 DEF Interpreter, vars
<1>11. ASSUME NEW c \in Clients, Connect(c) PROVE Orderly'
  BY <1>0, <1>11 DEF Connect, Orderly, Numbered, Pending, AnswersInOrder
<1>12. ASSUME NEW c \in Clients, PeerCloses(c) PROVE Orderly'
  BY <1>2, <1>12 DEF PeerCloses
<1>13. ASSUME NEW c \in Clients, PeerSends(c) PROVE Orderly'
  <2>1. UNCHANGED <<up, link, got, tpc>>
    BY <1>13 DEF PeerSends
  <2>2. PICK f \in [type : {"hello", "req", "notdict"}, id : {Len(down[c])}, val : Callers] :
          down' = [down EXCEPT ![c] = Append(@, f)]
    BY <1>13 DEF PeerSends
  <2>3. /\ down \in [Clients -> Seq(Frames)] /\ f.id = Len(down[c]) /\ f \in Frames
    BY <1>0, <2>2 DEF Served, Frames
  <2>4. /\ Len(down'[c]) = Len(down[c]) + 1 /\ down'[c][Len(down[c]) + 1] = f
        /\ \A k \in 1..Len(down[c]) : down'[c][k] = down[c][k]
        /\ \A d \in Clients : d # c => down'[d] = down[d]
    <3>1. down[c] \in Seq(Frames) /\ down'[c] = Append(down[c], f)
      BY <2>2, <2>3
    <3> QED
      BY <2>2, <2>3, <3>1
  <2>5. \A d \in Clients : \A k \in 1..Len(down'[d]) : down'[d][k].id = k - 1
    <3> SUFFICES ASSUME NEW d \in Clients, NEW k \in 1..Len(down'[d])
                 PROVE  down'[d][k].id = k - 1
      OBVIOUS
    <3>1. CASE d # c
      BY <1>0, <2>4, <3>1 DEF Numbered
    <3>2. CASE d = c /\ k = Len(down[c]) + 1
      BY <1>0, <2>3, <2>4, <3>2
    <3>3. CASE d = c /\ k \in 1..Len(down[c])
      <4>1. down'[c][k] = down[c][k]
        BY <2>4, <3>3
      <4>2. down[c][k].id = k - 1
        BY <1>0, <3>3 DEF Numbered
      <4> QED
        BY <3>3, <4>1, <4>2
    <3> QED
      BY <1>0, <2>4, <3>1, <3>2, <3>3
  <2>6. tpc = "drain" => got \in 1..Len(down'[link])
    <3> SUFFICES ASSUME tpc = "drain" PROVE got \in 1..Len(down'[link])
      OBVIOUS
    <3>1. link \in Clients /\ got \in 1..Len(down[link])
      BY <1>0 DEF Served, Pending
    <3> QED
      BY <1>0, <2>4, <3>1
  <2> QED
    BY <1>0, <2>1, <2>5, <2>6 DEF Orderly, Numbered, Pending, AnswersInOrder
<1> QED
  BY <1>4, <1>5, <1>6, <1>7, <1>8, <1>9, <1>10, <1>11, <1>12, <1>13 DEF Next, Step

\* Responses leave in the order of the requests, one result for each, whatever
\* the initiator sends and whenever the connection breaks.
THEOREM InOrder == Spec => []AnswersInOrder
<1>1. Init => OInv
  <2> SUFFICES ASSUME Init PROVE OInv
    OBVIOUS
  <2>1. /\ up = [c \in Clients |-> <<>>] /\ down = [c \in Clients |-> <<>>]
        /\ link \notin Clients /\ tpc = "start"
    BY TargetAssumption DEF Init, TargetInit
  <2>2. \A c \in Clients : up[c] = <<>> /\ down[c] = <<>> /\ Len(up[c]) = 0 /\ Len(down[c]) = 0
    BY <2>1
  <2>3. Numbered
    BY <2>1, <2>2 DEF Numbered
  <2>4. Pending /\ AnswersInOrder
    BY <2>1, <2>2 DEF Pending, AnswersInOrder
  <2> QED
    BY <2>3, <2>4, InitHInv DEF OInv, Orderly
<1>2. OInv /\ [Next]_vars => OInv'
  BY NextHInv, NextOrderly DEF OInv
<1>3. OInv => AnswersInOrder
  BY DEF OInv, Orderly
<1> QED
  BY <1>1, <1>2, <1>3, PTL DEF Spec

=============================================================================
