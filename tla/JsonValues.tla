------------------------------ MODULE JsonValues ------------------------------
(***************************************************************************)
(* What cJSON does along whole trees of items (cJSON_Duplicate,            *)
(* cJSON_Compare), what the items stand for, and what the operations of    *)
(* JsonItems and these have to do with that.                               *)
(***************************************************************************)
EXTENDS JsonItems, SequencesExt

CONSTANT CircularLimit   \* CJSON_CIRCULAR_LIMIT

-----------------------------------------------------------------------------
(* The children as a sequence, as cJSON_ArrayForEach has them, and           *)
(* cJSON_GetArraySize; of a list that does not end, more than there can be. *)
RECURSIVE From(_, _, _)
From(h, m, most) == IF m = None \/ most = 0 THEN <<>> ELSE <<m>> \o From(h, h.next[m], most - 1)

Elements(h, n)  == From(h, h.child[n], Cardinality(Nodes) + 1)
ArraySize(h, n) == Len(Elements(h, n))

-----------------------------------------------------------------------------
(* cJSON_Duplicate.  memory holds the blocks that malloc gives before it   *)
(* fails, and how many names it gives.  The result is the heap, the copy   *)
(* or None, and the memory left.                                           *)

Failed(h, memory) == [heap |-> h, item |-> None, memory |-> memory]

\* The copy of a child becomes the first of new, or follows the last one copied.
LinkedBack(h, new, last, copy) ==   \* mutant: the last one does not lead to it
  IF last = None THEN [h EXCEPT !.child[new] = copy] ELSE [h EXCEPT !.prev[copy] = last]
Linked(h, new, last, copy) ==
  IF last = None THEN [h EXCEPT !.child[new] = copy]
  ELSE [h EXCEPT !.next[last] = copy, !.prev[copy] = last]

RECURSIVE Copied(_, _, _, _, _), CopiedFrom(_, _, _, _, _)

Copied(h, n, memory, depth, recurse) ==
  LET new    == memory.blocks[1]
      named  == OwnsKey(h, n)
      left   == [blocks |-> Tail(memory.blocks),
                 names  |-> IF named THEN memory.names - 1 ELSE memory.names]
      made   == NewItem(h, new, h.kind[n])
      copy   == [made EXCEPT !.const = IF n \in @ THEN @ \cup {new} ELSE @,
                             !.key[new] = h.key[n],
                             !.strings = IF named THEN @ + 1 ELSE @]
  IN  CASE memory.blocks = <<>> -> Failed(h, memory)
        [] memory.blocks # <<>> /\ named /\ memory.names = 0 ->
             Failed(Deleted(made, new), [memory EXCEPT !.blocks = Tail(@)])
        [] memory.blocks # <<>> /\ (named => memory.names > 0) /\ ~recurse ->
             [heap |-> copy, item |-> new, memory |-> left]
        [] OTHER -> CopiedFrom([heap |-> copy, item |-> new, memory |-> left],
                               h.child[n], None, depth, new)

\* The loop over the children, child being the next and last the last one copied.
CopiedFrom(r, child, last, depth, new) ==
  LET c == Copied(r.heap, child, r.memory, depth + 1, TRUE)
  IN  CASE child = None /\ last = None -> r
        [] child = None /\ last # None ->
             [r EXCEPT !.heap = [@ EXCEPT !.prev[r.heap.child[new]] = last]]
        [] child # None /\ depth >= CircularLimit -> Failed(Deleted(r.heap, new), r.memory)
        [] child # None /\ depth < CircularLimit /\ c.item = None ->
             Failed(Deleted(c.heap, new), c.memory)
        [] OTHER -> CopiedFrom([r EXCEPT !.heap = Linked(c.heap, new, last, c.item), !.memory = c.memory],
                               r.heap.next[child], c.item, depth, new)

\* A reference whose list was freed must not be followed.
NoneStale == \A n \in heap.ref : heap.child[n] # Stale

\* Free blocks are all alike, so their order is any; without one nothing happens.
Memories ==
  {[blocks |-> SubSeq(SetToSeq(Free(heap)), 1, l), names |-> k] :
     l \in 1..Cardinality(Free(heap)), k \in 0..MaxMarked}

Duplicate(n, recurse) ==
  /\ n \in heap.live /\ NoneStale
  /\ \E memory \in Memories :
       LET c == Copied(heap, n, memory, 0, recurse)
       IN  /\ heap' = c.heap
           /\ roots' = IF c.item = None THEN roots ELSE roots \cup {c.item}
           /\ UNCHANGED lost

-----------------------------------------------------------------------------
(* What an item stands for, and cJSON_Compare.                             *)

NameOf(h, n, strict) == IF strict \/ h.key[n] = None THEN h.key[n] ELSE Fold[h.key[n]]

RECURSIVE Value(_, _, _)
Value(h, n, strict) ==
  CASE h.kind[n] = "array"  -> <<"array", [i \in DOMAIN Elements(h, n) |->
                                             Value(h, Elements(h, n)[i], strict)]>>
    [] h.kind[n] = "object" -> <<"object", {<<NameOf(h, m, strict), Value(h, m, strict)>> :
                                              m \in ToSet(Elements(h, n))}>>
    [] OTHER                -> <<"scalar", h.kind[n]>>

RECURSIVE Compare(_, _, _, _)
\* Every member of the object a has its equal in the object b.
Matched(h, a, b, strict) ==
  \A m \in ToSet(Elements(h, a)) :
    /\ h.key[m] # None /\ Member(h, b, h.key[m], strict) # None
    /\ Compare(h, m, Member(h, b, h.key[m], strict), strict)

MatchedOneWay(h, a, b, strict) == Matched(h, a, b, strict)   \* mutant: b may have more
MatchedBothWays(h, a, b, strict) == Matched(h, a, b, strict) /\ Matched(h, b, a, strict)

Compare(h, a, b, strict) ==
  LET x == Elements(h, a)
      y == Elements(h, b)
  IN  /\ h.kind[a] = h.kind[b]
      /\ CASE a = b -> TRUE
           [] a # b /\ h.kind[a] = "array" ->
                Len(x) = Len(y) /\ \A i \in DOMAIN x : Compare(h, x[i], y[i], strict)
           [] a # b /\ h.kind[a] = "object" -> MatchedBothWays(h, a, b, strict)
           [] OTHER -> TRUE

-----------------------------------------------------------------------------
ValuesNext == (Next \/ \E n \in Nodes, recurse \in BOOLEAN : Duplicate(n, recurse)) /\ Within'

\* However much memory there is, a copy stands for what the original stands for, what
\* references refer to included, in lists that are linked both ways; or there is none
\* and the heap is as before.
CopiesOrNothing ==
  NoneStale => \A n \in roots : \A memory \in Memories :
    LET c    == Copied(heap, n, memory, 0, TRUE)
        Prev(s, i) == IF i = 1 THEN s[Len(s)] ELSE s[i - 1]
        made == c.heap.live \ heap.live
    IN  IF c.item = None THEN c.heap = heap
        ELSE /\ Value(c.heap, c.item, TRUE) = Value(heap, n, TRUE)
             /\ c.heap.key[c.item] = heap.key[n]
             /\ \A p \in made : LET s == Elements(c.heap, p)
                              IN  \A i \in DOMAIN s : c.heap.prev[s[i]] = Prev(s, i)

\* Items without references, whose members have distinct names, compare equal just
\* when they stand for the same.
CompareExact ==
  LET plain(n, strict) ==
        \A m \in Visited(heap, n) :
          /\ m \notin heap.ref
          /\ heap.kind[m] = "object" =>
               \A j, k \in Children(heap, m) :
                 /\ heap.key[j] # None
                 /\ NameOf(heap, j, strict) = NameOf(heap, k, strict) => j = k
  IN  \A strict \in BOOLEAN : \A a, b \in {n \in roots : plain(n, strict)} :
        Compare(heap, a, b, strict) <=> Value(heap, a, strict) = Value(heap, b, strict)

=============================================================================
