------------------------------ MODULE Registry ------------------------------
(***************************************************************************)
(* The handle registry of AsyncTarget (python/remote_ffi/impl/target.py):  *)
(* _next_handle, _handle_to_obj and _objid_to_handle.                      *)
(*                                                                         *)
(* The registry looks an object up by id(obj), which in CPython is the     *)
(* address of the object: the address of an object that has died may be    *)
(* given to another one.  Attribute access may create an object for each   *)
(* access (a bound method), so objects come and go.                        *)
(***************************************************************************)
EXTENDS Integers, Functions

CONSTANTS
  Objects,     \* Python objects that symbol resolution may yield
  Addresses,   \* where the interpreter may put them
  MaxHandle,   \* bound on the handles given out
  None

ASSUME RegistryAssumption == None \notin Addresses /\ MaxHandle \in Nat

VARIABLES
  nextHandle,      \* _next_handle
  handleToObj,     \* _handle_to_obj
  objidToHandle,   \* _objid_to_handle
  home             \* the address of each live object, None for the others

tables   == <<nextHandle, handleToObj, objidToHandle>>
registry == <<tables, home>>

-----------------------------------------------------------------------------
(* The interpreter.                                                        *)

Alive == {o \in Objects : home[o] # None}

\* _handle_to_obj refers to the objects themselves and keeps them alive.
WeaklyHeld == {}   \* mutant: it does not
Held       == Range(handleToObj)

Create(o, a) ==
  /\ o \notin Alive /\ a \notin Range(home)
  /\ home' = [home EXCEPT ![o] = a]

Collect(o) ==
  /\ o \in Alive \ Held
  /\ home' = [home EXCEPT ![o] = None]
  /\ UNCHANGED tables

-----------------------------------------------------------------------------
(* _alloc_handle_for and _get_obj.                                         *)

Known(o) == home[o] \in DOMAIN objidToHandle

\* Mutant: the counter is read after the increment.
HandleAfter(o) == IF Known(o) THEN objidToHandle[home[o]] ELSE nextHandle + 1
HandleFor(o)   == IF Known(o) THEN objidToHandle[home[o]] ELSE nextHandle

SameNext == nextHandle   \* mutant: the increment is lost
NewNext  == nextHandle + 1

\* f with f[x] = y added or replaced.
With(f, x, y) == [z \in DOMAIN f \cup {x} |-> IF z = x THEN y ELSE f[z]]

Indexed(o) == With(objidToHandle, home[o], nextHandle)

Alloc(o) ==
  \/ Known(o) /\ UNCHANGED tables
  \/ /\ ~Known(o) /\ nextHandle <= MaxHandle
     /\ nextHandle' = NewNext
     /\ objidToHandle' = Indexed(o)
     /\ handleToObj' = With(handleToObj, nextHandle, o)

Valid(h) == h \in DOMAIN handleToObj

-----------------------------------------------------------------------------
RegistryInit ==
  /\ nextHandle = 1
  /\ handleToObj = [h \in {} |-> None]
  /\ objidToHandle = [a \in {} |-> None]
  /\ home = [o \in Objects |-> None]

RegistryNext ==
  \E o \in Objects :
    \/ \E a \in Addresses : Create(o, a) /\ UNCHANGED tables
    \/ Collect(o)
    \/ o \in Alive /\ Alloc(o) /\ UNCHANGED home

RegistrySpec == RegistryInit /\ [][RegistryNext]_registry

-----------------------------------------------------------------------------
TypeOK ==
  /\ nextHandle \in 1..(MaxHandle + 1)
  /\ handleToObj \in [1..(nextHandle - 1) -> Objects]
  /\ objidToHandle \in [DOMAIN objidToHandle -> 1..(nextHandle - 1)]
  /\ DOMAIN objidToHandle \subseteq Addresses
  /\ home \in [Objects -> Addresses \cup {None}]

\* A live object found in the registry is found under its own handle, and never
\* under that of an object that had its address before: what dlsym returns
\* designates what it resolved.  An object has one handle: resolving it again
\* returns the same one.
HandleDesignates ==
  /\ \A o \in Alive : Known(o) => handleToObj[HandleFor(o)] = o
  /\ \A h \in DOMAIN handleToObj : Known(handleToObj[h]) /\ HandleFor(handleToObj[h]) = h

\* A handle the initiator holds designates the same object for ever.
HandlesStable == [][\A h \in DOMAIN handleToObj : Valid(h)' /\ handleToObj'[h] = handleToObj[h]]_registry

=============================================================================
