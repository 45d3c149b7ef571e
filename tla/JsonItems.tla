------------------------------ MODULE JsonItems ------------------------------
(***************************************************************************)
(* The items of cJSON (src/cJSON.c) and the operations that link them.     *)
(*                                                                         *)
(* The children of an item form a list: child points to the first, next    *)
(* and prev link them, the last has no next, and prev of the first points  *)
(* to the last, so that appending does not walk the list.  Nothing checks  *)
(* this shape; every operation relies on those before it.                  *)
(*                                                                         *)
(* The client keeps the rules cJSON.h implies: it adds only items it holds, *)
(* to items of the right kind, never below themselves, leaves references   *)
(* alone and deletes only what it holds.                                   *)
(***************************************************************************)
EXTENDS Integers, Sequences, FiniteSets

CONSTANTS
  Nodes,      \* the blocks that hold items
  Keys,       \* names of members
  Fold,       \* what tolower makes of a name
  Scalars,    \* types of items without children, with their values
  MaxMarked,  \* bound on the items with a name or a constant one, and references
  None,       \* NULL
  Stale       \* a pointer of a reference to what was freed

ASSUME ItemsAssumption ==
  /\ None \notin Nodes /\ None \notin Keys /\ Stale \notin Nodes \cup {None}
  /\ IsFiniteSet(Nodes)

VARIABLES
  heap,       \* the items, with the pointers of each
  roots,      \* items that the client holds and has to delete
  lost        \* items that nobody can delete any more

Kinds    == {"array", "object"} \cup Scalars   \* of what the client creates
Pointers == Nodes \cup {None}

(* const and ref are the flags cJSON_StringIsConst and cJSON_IsReference of *)
(* type, strings counts the allocated names.                                *)
Heaps == [live : SUBSET Nodes, kind : [Nodes -> Kinds \cup Keys \cup {None}],
          child : [Nodes -> Pointers \cup {Stale}], next : [Nodes -> Pointers],
          prev : [Nodes -> Pointers], key : [Nodes -> Keys \cup {None}],
          const : SUBSET Nodes, ref : SUBSET Nodes, strings : Int]

Nulls == [n \in Nodes |-> None]
Empty == [live |-> {}, kind |-> Nulls, child |-> Nulls, next |-> Nulls, prev |-> Nulls,
          key |-> Nulls, const |-> {}, ref |-> {}, strings |-> 0]

Free(h)      == Nodes \ h.live
OwnsKey(h, n) == h.key[n] # None /\ n \notin h.const

-----------------------------------------------------------------------------
(* Constructors and cJSON_Delete.                                          *)

NewItem(h, n, k) == [h EXCEPT !.live = @ \cup {n}, !.kind[n] = k]

Reference(h, n, item) ==
  [h EXCEPT !.live = @ \cup {n}, !.kind[n] = h.kind[item], !.child[n] = h.child[item],
            !.ref = @ \cup {n}, !.const = IF item \in @ THEN @ \cup {n} ELSE @]

\* The items a deletion visits from n: by next, and by child but for references.
ClosedThroughAll(h, S) ==   \* mutant: references included
  \A m \in S : {h.next[m], h.child[m]} \subseteq S \cup {None}
Closed(h, S) ==
  \A m \in S : /\ h.next[m] \in S \cup {None}
               /\ m \notin h.ref => h.child[m] \in S \cup {None}

Visited(h, n) ==
  {m \in Nodes : \A S \in SUBSET Nodes : n \in S /\ m \notin S => ~Closed(h, S)}

Released(h, S) ==
  LET Cleared(f) == [n \in Nodes |-> IF n \in S THEN None ELSE f[n]]
      Spoiled(f) == [n \in Nodes |-> IF n \in h.ref /\ f[n] \in S THEN Stale ELSE f[n]]
  IN  [h EXCEPT !.live = @ \ S, !.kind = Cleared(@), !.child = Cleared(Spoiled(@)),
                !.next = Cleared(@), !.prev = Cleared(@), !.key = Cleared(@),
                !.const = @ \ S, !.ref = @ \ S,
                !.strings = @ - Cardinality({n \in S : OwnsKey(h, n)})]

Deleted(h, n) == Released(h, Visited(h, n))

-----------------------------------------------------------------------------
(* Looking items up.                                                       *)

Indices == 0..Cardinality(Nodes)

\* get_array_item, by a walk of index steps.
ItemAt(h, a, index) ==
  LET at[i \in Nat] == IF i = 0 THEN h.child[a]
                       ELSE IF at[i - 1] = None THEN None ELSE h.next[at[i - 1]]
  IN  at[index]

\* get_object_item.  The walk that minds the case ends at an item without a name,
\* the other one passes it.
Stops(h, n, k, strict) ==
  \/ n = None
  \/ strict /\ h.key[n] \in {None, k}
  \/ ~strict /\ h.key[n] # None /\ Fold[h.key[n]] = Fold[k]

Member(h, o, k, strict) ==
  LET Halts(i) == Stops(h, ItemAt(h, o, i), k, strict)
      found    == {m \in Nodes : /\ h.key[m] # None
                                 /\ \E i \in Indices : /\ m = ItemAt(h, o, i) /\ Halts(i)
                                                       /\ \A j \in 0..(i - 1) : ~Halts(j)}
  IN  IF found = {} THEN None ELSE CHOOSE m \in found : TRUE

-----------------------------------------------------------------------------
(* Linking and unlinking: each returns the heap it leaves.                 *)

\* add_item_to_array.  In a list without a last item, nothing is added.
Appended(h, a, item) ==
  LET first == h.child[a]
      last  == h.prev[first]
  IN  CASE first = None -> [h EXCEPT !.child[a] = item, !.prev[item] = item,
                                     !.next[item] = None]
        [] first # None /\ last = None -> h
        [] OTHER -> [h EXCEPT !.next[last] = item, !.prev[item] = last, !.prev[first] = item]

\* The name of an item replaced, in add_item_to_object and replace_item_in_object.
RenamedAlways(h, item, k, const) ==   \* mutant: a constant name is freed as well
  [h EXCEPT !.key[item] = k,
            !.const = IF const THEN @ \cup {item} ELSE @ \ {item},
            !.strings = @ + (IF const THEN 0 ELSE 1) - (IF h.key[item] # None THEN 1 ELSE 0)]
Renamed(h, item, k, const) ==
  [h EXCEPT !.key[item] = k,
            !.const = IF const THEN @ \cup {item} ELSE @ \ {item},
            !.strings = @ + (IF const THEN 0 ELSE 1) - (IF OwnsKey(h, item) THEN 1 ELSE 0)]

\* The items whose prev is item, as far as the code looks: the one after it, or the
\* first of the list if item is the last.
OnlyAfter(h, p, item) == {h.next[item]} \ {None}   \* mutant: the first keeps its prev
Behind(h, p, item) ==
  IF h.next[item] = None /\ item # h.child[p] THEN {h.child[p]} ELSE {h.next[item]} \ {None}

\* item of p unlinked, and with cJSON_ReplaceItemViaPointer new in its place:
\* next is what comes before it gets as next, and so on.
Relinked(h, p, item, next, prev) ==
  LET first == item = h.child[p]
      back  == Behind(h, p, item)
  IN  [h EXCEPT
        !.next = [n \in Nodes |-> IF n # item /\ ~first /\ n = h.prev[item] THEN next ELSE @[n]],
        !.prev = [n \in Nodes |-> IF n \in back THEN prev ELSE @[n]],
        !.child[p] = IF first THEN next ELSE @]

\* cJSON_DetachItemViaPointer.
DetachedLinked(h, p, item) ==   \* mutant: the item still has its siblings
  Relinked(h, p, item, h.next[item], h.prev[item])
Detached(h, p, item) ==
  [Relinked(h, p, item, h.next[item], h.prev[item])
     EXCEPT !.next[item] = None, !.prev[item] = None]

\* cJSON_ReplaceItemViaPointer, for an item and a replacement that are not the same.
Replaced(h, p, item, new) ==
  LET alone == item = h.child[p] /\ h.prev[item] = item
      taken == [h EXCEPT !.next[new] = h.next[item],
                         !.prev[new] = IF alone THEN new ELSE h.prev[item]]
      put   == Relinked(taken, p, item, new, new)
  IN  Deleted([put EXCEPT !.next[item] = None, !.prev[item] = None], item)

\* cJSON_InsertItemInArray.
InsertedBackwards(h, a, index, item) ==   \* mutant: the one before does not lead to it
  LET after == ItemAt(h, a, index)
  IN  IF after = None THEN Appended(h, a, item)
      ELSE [h EXCEPT !.next[item] = after, !.prev[item] = h.prev[after], !.prev[after] = item,
                     !.child[a] = IF @ = after THEN item ELSE @]
Inserted(h, a, index, item) ==
  LET after  == ItemAt(h, a, index)
      before == h.prev[after]
      linked == [h EXCEPT !.next[item] = after, !.prev[item] = before, !.prev[after] = item]
  IN  CASE after = None -> Appended(h, a, item)
        [] after # None /\ after = h.child[a] -> [linked EXCEPT !.child[a] = item]
        [] after # None /\ after # h.child[a] /\ before = None -> h
        [] OTHER -> [linked EXCEPT !.next[before] = item]

\* The loop of cJSON_CreateIntArray and its like: the first of ns is the array, the
\* others its items, and closed says that all were there.
Chained(h, ns, k, closed) ==
  LET At(n)  == CHOOSE i \in DOMAIN ns : ns[i] = n
      items  == {ns[i] : i \in 2..Len(ns)}
      made   == items \cup {ns[1]}
  IN  [h EXCEPT
        !.live = @ \cup made,
        !.kind = [n \in Nodes |-> IF n \in items THEN k ELSE IF n \in made THEN "array" ELSE @[n]],
        !.child[ns[1]] = IF Len(ns) > 1 THEN ns[2] ELSE None,
        !.next = [n \in Nodes |-> IF n \in items /\ At(n) < Len(ns) THEN ns[At(n) + 1] ELSE @[n]],
        !.prev = [n \in Nodes |-> CASE n \in items /\ At(n) > 2 -> ns[At(n) - 1]
                                    [] n \in items /\ At(n) = 2 /\ closed -> ns[Len(ns)]
                                    [] OTHER -> @[n]]]

-----------------------------------------------------------------------------
(* The client.  A call that is refused, or that cannot allocate what it    *)
(* needs first, changes nothing: those are stuttering steps.               *)

Containers == {n \in heap.live \ heap.ref : heap.kind[n] \in {"array", "object"}}
Arrays     == {n \in Containers : heap.kind[n] = "array"}
Objects    == Containers \ Arrays
Below(n)   == Visited(heap, n)

\* item may become a child of p.
MayJoin(item, p) == item \in roots /\ p \notin Below(item)

Create(n, k) ==
  /\ n \in Free(heap)
  /\ heap' = NewItem(heap, n, k)
  /\ roots' = roots \cup {n} /\ UNCHANGED lost

\* cJSON_CreateObjectReference, cJSON_CreateArrayReference.
CreateReference(n, k, child) ==
  /\ n \in Free(heap) /\ child \in heap.live
  /\ heap' = [NewItem(heap, n, k) EXCEPT !.ref = @ \cup {n}, !.child[n] = child]
  /\ roots' = roots \cup {n} /\ UNCHANGED lost

CreateArray(ns, k) ==
  /\ \A i, j \in DOMAIN ns : ns[i] \in Free(heap) /\ (ns[i] = ns[j] => i = j)
  /\ \/ /\ heap' = Chained(heap, ns, k, TRUE)
        /\ roots' = roots \cup {ns[1]} /\ UNCHANGED lost
     \/ \* there is no memory for one more
        /\ heap' = Deleted(Chained(heap, ns, k, FALSE), ns[1])
        /\ UNCHANGED <<roots, lost>>

Delete(n) ==
  /\ n \in roots
  /\ heap' = Deleted(heap, n)
  /\ roots' = roots \ {n} /\ UNCHANGED lost

AddItemToArray(a, item) ==
  /\ a \in Arrays /\ MayJoin(item, a)
  /\ heap' = Appended(heap, a, item)
  /\ roots' = roots \ {item} /\ UNCHANGED lost

AddItemToObject(o, k, item, const) ==
  /\ o \in Objects /\ MayJoin(item, o)
  /\ heap' = Appended(Renamed(heap, item, k, const), o, item)
  /\ roots' = roots \ {item} /\ UNCHANGED lost

\* cJSON_AddNumberToObject and its like; without memory for the name, the new item
\* is deleted.
AddNewToObject(o, name, n, k) ==
  LET created == NewItem(heap, n, k)
  IN  /\ o \in Objects /\ n \in Free(heap)
      /\ \/ heap' = Appended(Renamed(created, n, name, FALSE), o, n)
         \/ heap' = Deleted(created, n)
      /\ UNCHANGED <<roots, lost>>

AddItemReferenceToArray(a, n, item) ==
  /\ a \in Arrays /\ item \in heap.live /\ n \in Free(heap)
  /\ heap' = Appended(Reference(heap, n, item), a, n)
  /\ UNCHANGED <<roots, lost>>

\* Without memory for the name, nobody deletes the reference.
AddItemReferenceToObject(o, k, n, item) ==
  LET created == Reference(heap, n, item)
  IN  /\ o \in Objects /\ item \in heap.live /\ n \in Free(heap)
      /\ \/ heap' = Appended(Renamed(created, n, k, FALSE), o, n) /\ UNCHANGED lost
         \/ heap' = created /\ lost' = lost \cup {n}
      /\ UNCHANGED roots

\* cJSON_DetachItemFromArray, cJSON_DetachItemFromObject.
Detach(p, item) ==
  /\ item # None
  /\ heap' = Detached(heap, p, item)
  /\ roots' = roots \cup {item} /\ UNCHANGED lost

\* cJSON_DeleteItemFromArray, cJSON_DeleteItemFromObject.
DetachAndDelete(p, item) ==
  /\ item # None
  /\ heap' = Deleted(Detached(heap, p, item), item)
  /\ UNCHANGED <<roots, lost>>

\* Beyond the end, every index means the end.
InsertItemInArray(a, index, item) ==
  /\ a \in Arrays /\ MayJoin(item, a)
  /\ index > 0 => ItemAt(heap, a, index - 1) # None
  /\ heap' = Inserted(heap, a, index, item)
  /\ roots' = roots \ {item} /\ UNCHANGED lost

ReplaceItemInArray(a, index, new) ==
  /\ a \in Arrays /\ MayJoin(new, a) /\ ItemAt(heap, a, index) # None
  /\ heap' = Replaced(heap, a, ItemAt(heap, a, index), new)
  /\ roots' = roots \ {new} /\ UNCHANGED lost

\* replace_item_in_object renames the new item first, whether or not there is one to
\* replace; without memory for the name it has none.
ReplaceItemInObject(o, k, new, strict) ==
  LET named == Renamed(heap, new, k, FALSE)
      item  == Member(named, o, k, strict)
  IN  /\ o \in Objects /\ MayJoin(new, o)
      /\ \/ /\ item # None
            /\ heap' = Replaced(named, o, item, new)
            /\ roots' = roots \ {new}
         \/ item = None /\ heap' = named /\ UNCHANGED roots
         \/ /\ heap' = [heap EXCEPT !.key[new] = None,
                                    !.strings = @ - (IF OwnsKey(heap, new) THEN 1 ELSE 0)]
            /\ UNCHANGED roots
      /\ UNCHANGED lost

-----------------------------------------------------------------------------
Lists   == UNION {[1..l -> Nodes] : l \in 1..Cardinality(Nodes)}

Init ==
  heap = Empty /\ roots = {} /\ lost = {}

Grow ==
  \/ \E n \in Nodes, k \in Kinds : Create(n, k)
  \/ \E n \in Free(heap), k \in {"array", "object"}, child \in heap.live : CreateReference(n, k, child)
  \/ \E ns \in Lists, k \in Scalars : CreateArray(ns, k)
  \/ \E o \in Objects, n \in Free(heap), name \in Keys, k \in Kinds : AddNewToObject(o, name, n, k)
  \/ \E a \in Arrays, n \in Free(heap), item \in heap.live : AddItemReferenceToArray(a, n, item)
  \/ \E o \in Objects, n \in Free(heap), item \in heap.live, k \in Keys :
       AddItemReferenceToObject(o, k, n, item)

Link ==
  \/ \E a \in Arrays, item \in roots :
       AddItemToArray(a, item) \/ \E index \in Indices : InsertItemInArray(a, index, item)
  \/ \E o \in Objects, item \in roots, k \in Keys, const \in BOOLEAN :
       AddItemToObject(o, k, item, const)

Unlink ==
  \/ \E n \in roots : Delete(n)
  \/ \E a \in Arrays, index \in Indices :
       Detach(a, ItemAt(heap, a, index)) \/ DetachAndDelete(a, ItemAt(heap, a, index))
  \/ \E o \in Objects, k \in Keys, strict \in BOOLEAN :
       Detach(o, Member(heap, o, k, strict)) \/ DetachAndDelete(o, Member(heap, o, k, strict))

Exchange ==
  \/ \E a \in Arrays, new \in roots, index \in Indices : ReplaceItemInArray(a, index, new)
  \/ \E o \in Objects, new \in roots, k \in Keys, strict \in BOOLEAN :
       ReplaceItemInObject(o, k, new, strict)

Within ==
  Cardinality({n \in heap.live : heap.key[n] # None} \cup heap.const) + Cardinality(heap.ref)
    <= MaxMarked

Next == (Grow \/ Link \/ Unlink \/ Exchange) /\ Within'

Spec == Init /\ [][Next]_<<heap, roots, lost>>

-----------------------------------------------------------------------------
TypeOK ==
  /\ heap \in Heaps
  /\ roots \subseteq heap.live /\ lost \subseteq heap.live \ roots
  /\ heap.ref \cup heap.const \subseteq heap.live

\* The items from n on, by next.
Chain(h, n) ==
  {m \in Nodes : \A S \in SUBSET Nodes :
                   n \in S /\ m \notin S => \E k \in S : h.next[k] \notin S \cup {None}}

Children(h, p) == IF h.child[p] = None THEN {} ELSE Chain(h, h.child[p])

\* Every list is linked both ways and prev of its first item is its last, so that the
\* next append finds the end.
ListsSound ==
  \A p \in heap.live \ heap.ref : heap.child[p] # None =>
    LET last == heap.prev[heap.child[p]]
    IN  /\ last \in Children(heap, p) /\ heap.next[last] = None
        /\ \A n \in Children(heap, p) : heap.next[n] # None => heap.prev[heap.next[n]] = n

\* No item is a child of two items that are no references, nor of one while the
\* client holds it, nor was it freed while it is a child.
OneOwner ==
  \A p, q \in heap.live \ heap.ref :
    /\ Children(heap, p) \subseteq heap.live \ (roots \cup lost)
    /\ p # q => Children(heap, p) \cap Children(heap, q) = {}

\* What the client can delete is all that is allocated, but for the references that
\* AddItemReferenceToObject loses, and so are the names.
NothingLeaks ==
  /\ heap.live = UNION {Visited(heap, n) : n \in roots \cup lost}
  /\ lost \subseteq heap.ref
  /\ heap.strings = Cardinality({n \in heap.live : OwnsKey(heap, n)})

=============================================================================
