--------------------------- MODULE JsonItemsProofs ---------------------------
(***************************************************************************)
(* The lists of cJSON stay sound and nothing is lost, for any number of    *)
(* items, names and calls.                                                 *)
(*                                                                         *)
(* The invariant names the owner of each item (owner[n], or None), and     *)
(* says that the items of an owner are all on its list (Reached) and that  *)
(* every item is below one that can be deleted (Rooted).  Both speak of    *)
(* sets that are closed under a step, as the definitions of the model do,  *)
(* so that only walks of a given length need a least counterexample.       *)
(***************************************************************************)
EXTENDS JsonItems, FiniteSetTheorems, WellFoundedInduction, TLAPS

-----------------------------------------------------------------------------
(* The shape of a heap h, R being the items that are on no list.           *)

Owners == [Nodes -> Pointers]

Wired(h, R) ==
  /\ h.live \in SUBSET Nodes /\ h.ref \subseteq h.live /\ R \subseteq h.live
  /\ h.next \in [Nodes -> Pointers] /\ h.prev \in [Nodes -> Pointers]
  /\ h.child \in [Nodes -> Pointers \cup {Stale}]

\* An item on a list was allocated, is not held, and its owner has children.
Placed(h, R, o) ==
  \A n \in Nodes : o[n] # None =>
    n \in h.live \ R /\ o[n] \in h.live \ h.ref /\ h.child[o[n]] # None

\* An item on no list has no siblings and is held, if it is allocated.
Loose(h, R, o) ==
  \A n \in Nodes :
    /\ o[n] = None => h.next[n] = None /\ h.prev[n] = None /\ (n \in h.live => n \in R)
    /\ n \notin h.live => h.child[n] = None

\* prev of the first child is the last one.
Heads(h, o) ==
  \A p \in h.live \ h.ref : h.child[p] # None =>
    /\ h.child[p] \in Nodes /\ o[h.child[p]] = p
    /\ h.prev[h.child[p]] \in Nodes /\ o[h.prev[h.child[p]]] = p
    /\ h.next[h.prev[h.child[p]]] = None

Linked(h, o) ==
  \A n \in Nodes : o[n] # None =>
    /\ h.prev[n] \in Nodes /\ o[h.prev[n]] = o[n]
    /\ h.next[n] # None =>
         o[h.next[n]] = o[n] /\ h.prev[h.next[n]] = n /\ h.next[n] # h.child[o[n]]
    /\ h.next[n] = None => n = h.prev[h.child[o[n]]]
    /\ n # h.child[o[n]] => h.next[h.prev[n]] = n

\* S has the first child of p and with each of its items the next.
Along(h, o, p, S) ==
  h.child[p] \in S /\ \A n \in S : o[n] = p => h.next[n] \in S \cup {None}

Reached(h, o) ==
  \A p \in h.live \ h.ref : \A S \in SUBSET Nodes :
    Along(h, o, p, S) => \A n \in Nodes : o[n] = p => n \in S

DownClosed(o, S) == \A n \in Nodes : o[n] \in S => n \in S

Rooted(h, R, o) ==
  \A S \in SUBSET Nodes : R \subseteq S /\ DownClosed(o, S) => h.live \subseteq S

Shape(h, R, o) ==
  /\ o \in Owners
  /\ Wired(h, R) /\ Placed(h, R, o) /\ Loose(h, R, o) /\ Heads(h, o) /\ Linked(h, o)
  /\ Reached(h, o) /\ Rooted(h, R, o)

-----------------------------------------------------------------------------
(* What a deletion visits.                                                 *)

LEMMA ChildTyped ==
  ASSUME NEW h, NEW R, NEW o, Shape(h, R, o), NEW m \in Nodes, m \notin h.ref
  PROVE  h.child[m] \in Pointers
<1>1. CASE m \notin h.live
  BY <1>1 DEF Shape, Loose, Pointers
<1>2. CASE m \in h.live /\ h.child[m] # None
  BY <1>2 DEF Shape, Heads, Pointers
<1> QED
  BY <1>1, <1>2 DEF Pointers

LEMMA VisitedClosed ==
  ASSUME NEW h, NEW R, NEW o, Shape(h, R, o), NEW n \in Nodes
  PROVE  Visited(h, n) \in SUBSET Nodes /\ n \in Visited(h, n) /\ Closed(h, Visited(h, n))
<1> DEFINE V == Visited(h, n)
<1>1. V \in SUBSET Nodes /\ n \in V
  BY DEF Visited
<1>2. ASSUME NEW m \in V, NEW x \in Nodes, NEW S \in SUBSET Nodes, n \in S, Closed(h, S), x \notin S
      PROVE  h.next[m] # x /\ (m \notin h.ref => h.child[m] # x)
  <2>1. m \in S
    BY <1>2 DEF Visited
  <2> QED
    BY <1>2, <2>1, ItemsAssumption DEF Closed
<1>3. \A m \in V : h.next[m] \in Nodes => h.next[m] \in V
  BY <1>2 DEF Visited
<1>4. \A m \in V : m \notin h.ref /\ h.child[m] \in Nodes => h.child[m] \in V
  BY <1>2 DEF Visited
<1>5. \A m \in V : h.next[m] \in Pointers /\ (m \notin h.ref => h.child[m] \in Pointers)
  BY <1>1, ChildTyped DEF Shape, Wired
<1> QED
  BY <1>1, <1>3, <1>4, <1>5 DEF Closed, Pointers

LEMMA VisitedLeast ==
  ASSUME NEW h, NEW n \in Nodes, NEW S \in SUBSET Nodes, n \in S, Closed(h, S)
  PROVE  Visited(h, n) \subseteq S
BY DEF Visited

\* What is allocated leads to nothing else.
LEMMA LiveClosed ==
  ASSUME NEW h, NEW R, NEW o, Shape(h, R, o)
  PROVE  Closed(h, h.live)
<1>1. h.live \in SUBSET Nodes /\ None \notin Nodes
  BY ItemsAssumption DEF Shape, Wired
<1>2. ASSUME NEW m \in h.live
      PROVE  h.next[m] \in h.live \cup {None} /\ (m \notin h.ref => h.child[m] \in h.live \cup {None})
  BY <1>1 DEF Shape, Wired, Placed, Loose, Heads, Linked, Pointers
<1> QED
  BY <1>2 DEF Closed

\* From an item on no list a deletion visits what is below it: nothing else, and all of it.
LEMMA VisitedBelow ==
  ASSUME NEW h, NEW R, NEW o, Shape(h, R, o), NEW n \in R
  PROVE  /\ Visited(h, n) \in SUBSET h.live /\ n \in Visited(h, n)
         /\ DownClosed(o, Visited(h, n))
         /\ \A m \in Visited(h, n) : m = n \/ o[m] \in Visited(h, n)
<1> DEFINE V == Visited(h, n)
<1>0. n \in h.live /\ n \in Nodes /\ h.live \in SUBSET Nodes /\ o[n] = None
  BY DEF Shape, Wired, Placed
<1>1. V \in SUBSET Nodes /\ n \in V /\ Closed(h, V)
  BY <1>0, VisitedClosed
<1>2. V \subseteq h.live
  BY <1>0, LiveClosed, VisitedLeast
<1>3. \A m \in V : m = n \/ o[m] \in V
  <2> DEFINE W == {m \in V : m = n \/ o[m] \in V}
  <2>1. ASSUME NEW m \in W
        PROVE  h.next[m] \in W \cup {None}
    BY <1>0, <1>1, ItemsAssumption DEF Closed, Shape, Wired, Loose, Linked
  <2>2. ASSUME NEW m \in W, m \notin h.ref
        PROVE  h.child[m] \in W \cup {None}
    BY <1>1, <1>2, <2>2 DEF Closed, Shape, Heads
  <2>3. Closed(h, W)
    BY <2>1, <2>2 DEF Closed
  <2> QED
    BY <1>0, <1>1, <2>3, VisitedLeast
<1>4. DownClosed(o, V)
  <2> SUFFICES ASSUME NEW m \in Nodes, o[m] \in V
               PROVE  m \in V
    BY DEF DownClosed
  <2>1. o[m] \in h.live \ h.ref /\ h.child[o[m]] # None
    BY <1>1, ItemsAssumption DEF Shape, Placed
  <2>2. Along(h, o, o[m], V)
    BY <1>1, <2>1 DEF Closed, Along
  <2> QED
    BY <1>1, <2>1, <2>2 DEF Shape, Reached
<1> QED
  BY <1>1, <1>2, <1>3, <1>4

-----------------------------------------------------------------------------
(* Joining a list.                                                         *)

\* When item becomes a child of p, what was below it is still below an item that is held.
LEMMA RootedJoined ==
  ASSUME NEW h, NEW R, NEW o, Shape(h, R, o),
         NEW item \in R, NEW p \in h.live, p \notin Visited(h, item),
         NEW S \in SUBSET Nodes, R \ {item} \subseteq S, DownClosed([o EXCEPT ![item] = p], S)
  PROVE  h.live \subseteq S
<1> DEFINE V == Visited(h, item)
<1>0. item \in Nodes /\ p \in Nodes /\ o \in Owners /\ o[item] = None
  BY DEF Shape, Wired, Placed
<1>1. V \in SUBSET Nodes /\ item \in V /\ DownClosed(o, V) /\ Closed(h, V)
      /\ (\A m \in V : m = item \/ o[m] \in V)
  BY <1>0, VisitedBelow, VisitedClosed
<1>2. \A m \in Nodes : m # item /\ o[m] \in S => m \in S
  BY <1>0 DEF DownClosed, Owners
<1>3. p \in S => item \in S
  BY <1>0 DEF DownClosed, Owners
<1>4. p \in S
  <2>1. R \subseteq S \cup V /\ DownClosed(o, S \cup V)
    BY <1>1, <1>2 DEF DownClosed
  <2> QED
    BY <1>1, <2>1 DEF Shape, Rooted
<1>5. V \subseteq S
  <2> DEFINE W == {m \in V : m \in S /\ (m = item \/ o[m] \in S)}
  <2>1. ASSUME NEW m \in W
        PROVE  h.next[m] \in W \cup {None}
    BY <1>0, <1>1, <1>2, ItemsAssumption DEF Closed, Shape, Wired, Loose, Linked
  <2>2. ASSUME NEW m \in W, m \notin h.ref
        PROVE  h.child[m] \in W \cup {None}
    <3>1. m \in h.live
      BY VisitedBelow DEF Shape
    <3> QED
      BY <1>0, <1>1, <1>2, <2>2, <3>1, ItemsAssumption DEF Closed, Shape, Heads
  <2> QED
    BY <1>0, <1>1, <1>3, <1>4, <2>1, <2>2, VisitedLeast DEF Closed
<1>6. R \subseteq S \cup V /\ DownClosed(o, S)
  BY <1>0, <1>1, <1>2, <1>3, <1>4, ItemsAssumption DEF DownClosed
<1> QED
  BY <1>3, <1>4, <1>6 DEF Shape, Rooted

\* The first child of an item.
LEMMA JoinedAlone ==
  ASSUME NEW h, NEW R, NEW o, Shape(h, R, o),
         NEW item \in R, NEW p \in h.live \ h.ref, p \notin Visited(h, item),
         h.child[p] = None,
         NEW g, g.live = h.live, g.ref = h.ref,
         g.child = [h.child EXCEPT ![p] = item], g.prev = [h.prev EXCEPT ![item] = item],
         g.next = h.next
  PROVE  Shape(g, R \ {item}, [o EXCEPT ![item] = p])
<1> DEFINE q == [o EXCEPT ![item] = p]
           Q == R \ {item}
<1>0. /\ item \in Nodes /\ p \in Nodes /\ None \notin Nodes /\ o[item] = None
      /\ h.next[item] = None /\ item # p
      /\ o \in Owners /\ \A n \in Nodes : o[n] # p
  BY VisitedBelow, ItemsAssumption DEF Shape, Wired, Placed, Loose
<1>1. q \in Owners /\ q[item] = p /\ \A n \in Nodes : n # item => q[n] = o[n]
  BY <1>0 DEF Owners, Pointers
<1>2. Wired(g, Q)
  BY <1>0 DEF Shape, Wired, Pointers
<1>3. Placed(g, Q, q)
  BY <1>0, <1>1 DEF Shape, Wired, Placed
<1>4. Loose(g, Q, q)
  BY <1>0, <1>1 DEF Shape, Wired, Loose
<1>5. Heads(g, q)
  BY <1>0, <1>1 DEF Shape, Wired, Heads
<1>6. Linked(g, q)
  <2> SUFFICES ASSUME NEW n \in Nodes, q[n] # None
               PROVE  /\ g.prev[n] \in Nodes /\ q[g.prev[n]] = q[n]
                      /\ g.next[n] # None => /\ q[g.next[n]] = q[n] /\ g.prev[g.next[n]] = n
                                             /\ g.next[n] # g.child[q[n]]
                      /\ g.next[n] = None => n = g.prev[g.child[q[n]]]
                      /\ n # g.child[q[n]] => g.next[g.prev[n]] = n
    BY DEF Linked
  <2>1. CASE n = item
    BY <1>0, <1>1, <2>1 DEF Shape, Wired
  <2>2. CASE n # item
    <3>1. /\ o[n] # None /\ h.prev[n] \in Nodes /\ o[h.prev[n]] = o[n]
          /\ h.next[n] # None => /\ o[h.next[n]] = o[n] /\ h.prev[h.next[n]] = n
                                 /\ h.next[n] # h.child[o[n]] /\ h.next[n] \in Nodes
          /\ h.next[n] = None => n = h.prev[h.child[o[n]]]
          /\ n # h.child[o[n]] => h.next[h.prev[n]] = n
          /\ o[n] \in h.live \ h.ref /\ h.child[o[n]] \in Nodes /\ o[h.child[o[n]]] = o[n]
      BY <1>1, <2>2 DEF Shape, Wired, Linked, Pointers, Placed, Heads
    <3> QED
      BY <1>0, <1>1, <2>2, <3>1 DEF Shape, Wired
  <2> QED
    BY <2>1, <2>2
<1>7. Reached(g, q)
  <2> SUFFICES ASSUME NEW k \in g.live \ g.ref, NEW S \in SUBSET Nodes, Along(g, q, k, S),
                      NEW n \in Nodes, q[n] = k
               PROVE  n \in S
    BY DEF Reached
  <2>1. CASE k = p
    BY <1>0, <1>1, <2>1 DEF Shape, Wired, Along
  <2>2. CASE k # p
    <3>1. Along(h, o, k, S) /\ o[n] = k
      BY <1>0, <1>1, <2>2 DEF Shape, Wired, Along
    <3> QED
      BY <3>1 DEF Shape, Reached
  <2> QED
    BY <2>1, <2>2
<1>8. Rooted(g, Q, q)
  BY RootedJoined DEF Rooted
<1> QED
  BY <1>1, <1>2, <1>3, <1>4, <1>5, <1>6, <1>7, <1>8 DEF Shape

\* One more child after the last.
LEMMA JoinedLast ==
  ASSUME NEW h, NEW R, NEW o, Shape(h, R, o),
         NEW item \in R, NEW p \in h.live \ h.ref, p \notin Visited(h, item),
         h.child[p] # None,
         NEW g, g.live = h.live, g.ref = h.ref, g.child = h.child,
         g.next = [h.next EXCEPT ![h.prev[h.child[p]]] = item],
         g.prev = [h.prev EXCEPT ![item] = h.prev[h.child[p]], ![h.child[p]] = item]
  PROVE  Shape(g, R \ {item}, [o EXCEPT ![item] = p])
<1> DEFINE q     == [o EXCEPT ![item] = p]
           Q     == R \ {item}
           first == h.child[p]
           last  == h.prev[first]
<1>0. /\ item \in Nodes /\ p \in Nodes /\ None \notin Nodes /\ o[item] = None
      /\ h.next[item] = None /\ item # p
      /\ o \in Owners /\ first \in Nodes /\ last \in Nodes /\ o[first] = p /\ o[last] = p
      /\ h.next[last] = None /\ first # item /\ last # item
  BY VisitedBelow, ItemsAssumption DEF Shape, Wired, Placed, Loose, Heads
<1>1. q \in Owners /\ q[item] = p /\ \A n \in Nodes : n # item => q[n] = o[n]
  BY <1>0 DEF Owners, Pointers
<1>2. Wired(g, Q)
  BY <1>0 DEF Shape, Wired, Pointers
<1>n. /\ g.next[last] = item /\ g.next[item] = None
      /\ \A n \in Nodes : n # last => g.next[n] = h.next[n]
      /\ g.prev[first] = item /\ g.prev[item] = last
      /\ \A n \in Nodes : n # first /\ n # item => g.prev[n] = h.prev[n]
  BY <1>0 DEF Shape, Wired
<1>3. Placed(g, Q, q)
  BY <1>0, <1>1 DEF Shape, Wired, Placed
<1>4. Loose(g, Q, q)
  BY <1>0, <1>1, <1>n DEF Shape, Wired, Loose
<1>5. Heads(g, q)
  <2> SUFFICES ASSUME NEW k \in h.live \ h.ref, h.child[k] # None
               PROVE  /\ h.child[k] \in Nodes /\ q[h.child[k]] = k
                      /\ g.prev[h.child[k]] \in Nodes /\ q[g.prev[h.child[k]]] = k
                      /\ g.next[g.prev[h.child[k]]] = None
    BY DEF Heads
  <2>1. CASE k = p
    BY <1>0, <1>1, <1>n, <2>1
  <2>2. CASE k # p
    <3>1. /\ h.child[k] \in Nodes /\ o[h.child[k]] = k
          /\ h.prev[h.child[k]] \in Nodes /\ o[h.prev[h.child[k]]] = k
          /\ h.next[h.prev[h.child[k]]] = None
      BY DEF Shape, Heads
    <3> QED
      BY <1>0, <1>1, <1>n, <2>2, <3>1 DEF Shape, Wired
  <2> QED
    BY <2>1, <2>2
<1>6. Linked(g, q)
  <2> SUFFICES ASSUME NEW n \in Nodes, q[n] # None
               PROVE  /\ g.prev[n] \in Nodes /\ q[g.prev[n]] = q[n]
                      /\ g.next[n] # None => /\ q[g.next[n]] = q[n] /\ g.prev[g.next[n]] = n
                                             /\ g.next[n] # h.child[q[n]]
                      /\ g.next[n] = None => n = g.prev[h.child[q[n]]]
                      /\ n # h.child[q[n]] => g.next[g.prev[n]] = n
    BY DEF Linked
  <2>1. CASE n = item
    BY <1>0, <1>1, <1>n, <2>1
  <2>2. CASE n # item
    <3>1. /\ o[n] # None /\ h.prev[n] \in Nodes /\ o[h.prev[n]] = o[n]
          /\ h.next[n] # None => /\ o[h.next[n]] = o[n] /\ h.prev[h.next[n]] = n
                                 /\ h.next[n] # h.child[o[n]] /\ h.next[n] \in Nodes
          /\ h.next[n] = None => n = h.prev[h.child[o[n]]]
          /\ n # h.child[o[n]] => h.next[h.prev[n]] = n
          /\ o[n] \in h.live \ h.ref /\ h.child[o[n]] \in Nodes /\ o[h.child[o[n]]] = o[n]
      BY <1>1, <2>2 DEF Shape, Wired, Linked, Pointers, Placed, Heads
    <3>2. CASE o[n] = p
      BY <1>0, <1>1, <1>n, <2>2, <3>1, <3>2
    <3>3. CASE o[n] # p
      BY <1>0, <1>1, <1>n, <2>2, <3>1, <3>3
    <3> QED
      BY <3>2, <3>3
  <2> QED
    BY <2>1, <2>2
<1>7. Reached(g, q)
  <2> SUFFICES ASSUME NEW k \in h.live \ h.ref, NEW S \in SUBSET Nodes, Along(g, q, k, S),
                      NEW n \in Nodes, q[n] = k
               PROVE  n \in S
    BY DEF Reached
  <2>1. Along(h, o, k, S \ {item})
    <3>1. h.child[k] \in S /\ h.child[k] # item
      BY <1>0, ItemsAssumption DEF Along, Shape, Wired, Heads
    <3>2. ASSUME NEW m \in S, m # item, o[m] = k
          PROVE  h.next[m] \in (S \ {item}) \cup {None}
      <4>1. o[m] # None /\ h.next[m] # item
        BY <1>0, <3>2 DEF Shape, Wired, Linked
      <4> QED
        BY <1>0, <1>1, <1>n, <3>2, <4>1 DEF Along
    <3> QED
      BY <3>1, <3>2 DEF Along
  <2>2. \A m \in Nodes : o[m] = k => m \in S \ {item}
    BY <2>1 DEF Shape, Reached
  <2>3. CASE k = p
    BY <1>0, <1>1, <1>n, <2>2, <2>3 DEF Along
  <2>4. CASE k # p
    BY <1>1, <2>2, <2>4
  <2> QED
    BY <2>3, <2>4
<1>8. Rooted(g, Q, q)
  BY RootedJoined DEF Rooted
<1> QED
  BY <1>1, <1>2, <1>3, <1>4, <1>5, <1>6, <1>7, <1>8 DEF Shape

BeforeFrom(h, p, after, item, b) ==
  /\ b \in Heaps
  /\ b.live = h.live /\ b.ref = h.ref /\ b.kind = h.kind
  /\ b.key = h.key /\ b.const = h.const /\ b.strings = h.strings
  /\ \A n \in Nodes :
       /\ b.child[n] = IF n = p /\ after = h.child[p] THEN item ELSE h.child[n]
       /\ b.next[n] = IF n = item THEN after
                      ELSE IF after # h.child[p] /\ n = h.prev[after] THEN item ELSE h.next[n]
       /\ b.prev[n] = IF n = item THEN h.prev[after] ELSE IF n = after THEN item ELSE h.prev[n]

\* A child before another one, which is the first or not.
LEMMA JoinedBefore ==
  ASSUME NEW h, NEW R, NEW o, Shape(h, R, o),
         NEW item \in R, NEW p \in h.live \ h.ref, p \notin Visited(h, item),
         NEW after \in Nodes, o[after] = p,
         NEW g, BeforeFrom(h, p, after, item, g)
  PROVE  Shape(g, R \ {item}, [o EXCEPT ![item] = p])
<1>g. /\ g.live = h.live /\ g.ref = h.ref
      /\ g.child \in [Nodes -> Pointers \cup {Stale}]
      /\ g.next \in [Nodes -> Pointers] /\ g.prev \in [Nodes -> Pointers]
      /\ \A n \in Nodes :
           /\ g.child[n] = IF n = p /\ after = h.child[p] THEN item ELSE h.child[n]
           /\ g.next[n] = IF n = item THEN after
                          ELSE IF after # h.child[p] /\ n = h.prev[after] THEN item ELSE h.next[n]
           /\ g.prev[n] = IF n = item THEN h.prev[after] ELSE IF n = after THEN item ELSE h.prev[n]
  BY DEF BeforeFrom, Heaps
<1> USE <1>g
<1> DEFINE q      == [o EXCEPT ![item] = p]
           Q      == R \ {item}
           before == h.prev[after]
<1>0. /\ item \in Nodes /\ p \in Nodes /\ None \notin Nodes /\ o[item] = None
      /\ h.next[item] = None /\ item # p /\ after # item
      /\ o \in Owners /\ before \in Nodes /\ o[before] = p /\ before # item
      /\ h.child[p] \in Nodes /\ o[h.child[p]] = p /\ h.child[p] # item
      /\ after # h.child[p] => h.next[before] = after
      /\ h.prev[h.child[p]] \in Nodes /\ o[h.prev[h.child[p]]] = p
      /\ h.next[h.prev[h.child[p]]] = None
  <2>1. /\ item \in Nodes /\ p \in Nodes /\ None \notin Nodes /\ o[item] = None
        /\ h.next[item] = None /\ item # p /\ o \in Owners /\ after # item
    BY VisitedBelow, ItemsAssumption DEF Shape, Wired, Placed, Loose
  <2>2. before \in Nodes /\ o[before] = p /\ (after # h.child[p] => h.next[before] = after)
    BY <2>1 DEF Shape, Linked
  <2>3. /\ h.child[p] \in Nodes /\ o[h.child[p]] = p
        /\ h.prev[h.child[p]] \in Nodes /\ o[h.prev[h.child[p]]] = p
        /\ h.next[h.prev[h.child[p]]] = None
    BY <2>1 DEF Shape, Placed, Heads
  <2> QED
    BY <2>1, <2>2, <2>3
<1>1. q \in Owners /\ q[item] = p /\ \A n \in Nodes : n # item => q[n] = o[n]
  BY <1>0 DEF Owners, Pointers
<1>2. Wired(g, Q)
  BY <1>0 DEF Shape, Wired
<1>3. Placed(g, Q, q)
  <2> SUFFICES ASSUME NEW n \in Nodes, q[n] # None
               PROVE  n \in h.live \ Q /\ q[n] \in h.live \ h.ref /\ g.child[q[n]] # None
    BY DEF Placed
  <2>1. CASE n = item
    BY <1>0, <1>1, <2>1 DEF Shape, Wired
  <2>2. CASE n # item
    BY <1>0, <1>1, <2>2 DEF Shape, Wired, Placed
  <2> QED
    BY <2>1, <2>2
<1>4. Loose(g, Q, q)
  <2> SUFFICES ASSUME NEW n \in Nodes
               PROVE  /\ q[n] = None => g.next[n] = None /\ g.prev[n] = None /\ (n \in h.live => n \in Q)
                      /\ n \notin h.live => g.child[n] = None
    BY DEF Loose
  <2>1. n # item /\ q[n] = None => o[n] = None /\ n # after /\ n # before
    BY <1>0, <1>1
  <2> QED
    BY <1>0, <1>1, <2>1 DEF Shape, Loose
<1>5. Heads(g, q)
  <2> SUFFICES ASSUME NEW k \in h.live \ h.ref, g.child[k] # None
               PROVE  /\ g.child[k] \in Nodes /\ q[g.child[k]] = k
                      /\ g.prev[g.child[k]] \in Nodes /\ q[g.prev[g.child[k]]] = k
                      /\ g.next[g.prev[g.child[k]]] = None
    BY DEF Heads
  <2>1. CASE k = p /\ after = h.child[p]
    <3>1. g.child[k] = item /\ g.prev[item] = before /\ g.next[before] = h.next[before]
      BY <1>0, <2>1
    <3> QED
      BY <1>0, <1>1, <2>1, <3>1
  <2>2. CASE k = p /\ after # h.child[p]
    <3>1. g.child[k] = h.child[p] /\ g.prev[h.child[p]] = h.prev[h.child[p]]
      BY <1>0, <2>2
    <3>2. h.prev[h.child[p]] # before /\ h.prev[h.child[p]] # item
      BY <1>0, <2>2
    <3>3. g.next[h.prev[h.child[p]]] = None
      BY <1>0, <2>2, <3>2
    <3> QED
      BY <1>0, <1>1, <2>2, <3>1, <3>2, <3>3
  <2>3. CASE k # p
    <3>1. /\ h.child[k] \in Nodes /\ o[h.child[k]] = k
          /\ h.prev[h.child[k]] \in Nodes /\ o[h.prev[h.child[k]]] = k
          /\ h.next[h.prev[h.child[k]]] = None /\ k \in Nodes /\ g.child[k] = h.child[k]
      BY <2>3 DEF Shape, Heads, Wired
    <3>2. g.prev[h.child[k]] = h.prev[h.child[k]]
      BY <1>0, <2>3, <3>1
    <3>3. g.next[h.prev[h.child[k]]] = None
      BY <1>0, <2>3, <3>1
    <3> QED
      BY <1>0, <1>1, <2>3, <3>1, <3>2, <3>3
  <2> QED
    BY <2>1, <2>2, <2>3
<1>6. Linked(g, q)
  <2> SUFFICES ASSUME NEW n \in Nodes, q[n] # None
               PROVE  /\ g.prev[n] \in Nodes /\ q[g.prev[n]] = q[n]
                      /\ g.next[n] # None => /\ q[g.next[n]] = q[n] /\ g.prev[g.next[n]] = n
                                             /\ g.next[n] # g.child[q[n]]
                      /\ g.next[n] = None => n = g.prev[g.child[q[n]]]
                      /\ n # g.child[q[n]] => g.next[g.prev[n]] = n
    BY DEF Linked
  <2>1. CASE n = item
    BY <1>0, <1>1, <2>1
  <2>2. CASE n # item
    <3>1. /\ o[n] # None /\ h.prev[n] \in Nodes /\ o[h.prev[n]] = o[n]
          /\ h.next[n] # None => /\ o[h.next[n]] = o[n] /\ h.prev[h.next[n]] = n
                                 /\ h.next[n] # h.child[o[n]] /\ h.next[n] \in Nodes
          /\ h.next[n] = None => n = h.prev[h.child[o[n]]]
          /\ n # h.child[o[n]] => h.next[h.prev[n]] = n
          /\ o[n] \in h.live \ h.ref /\ h.child[o[n]] \in Nodes /\ o[h.child[o[n]]] = o[n]
          /\ o[n] \in Nodes
      BY <1>1, <2>2 DEF Shape, Wired, Linked, Pointers, Placed, Heads
    <3>2. CASE o[n] = p /\ after = h.child[p]
      BY <1>0, <1>1, <2>2, <3>1, <3>2
    <3>3. CASE o[n] = p /\ after # h.child[p]
      BY <1>0, <1>1, <2>2, <3>1, <3>3
    <3>4. CASE o[n] # p
      BY <1>0, <1>1, <2>2, <3>1, <3>4
    <3> QED
      BY <3>2, <3>3, <3>4
  <2> QED
    BY <2>1, <2>2
<1>7. Reached(g, q)
  <2> SUFFICES ASSUME NEW k \in h.live \ h.ref, NEW S \in SUBSET Nodes, Along(g, q, k, S),
                      NEW n \in Nodes, q[n] = k
               PROVE  n \in S
    BY DEF Reached
  <2>0. g.child[k] \in S /\ k \in Nodes /\ \A m \in S : q[m] = k => g.next[m] \in S \cup {None}
    BY DEF Along, Shape, Wired
  <2>1. h.child[k] \in S \ {item}
    <3>1. CASE k = p /\ after = h.child[p]
      BY <1>0, <1>1, <2>0, <3>1
    <3>2. CASE k = p /\ after # h.child[p]
      BY <1>0, <2>0, <3>2
    <3>3. CASE k # p
      BY <1>0, <2>0, <3>3 DEF Shape, Heads
    <3> QED
      BY <3>1, <3>2, <3>3
  <2>2. ASSUME NEW m \in S, m # item, o[m] = k
        PROVE  h.next[m] \in (S \ {item}) \cup {None}
    <3>1. o[m] # None /\ h.next[m] # item /\ q[m] = k
      BY <1>0, <1>1, <2>0, <2>2 DEF Shape, Wired, Linked
    <3>2. CASE after # h.child[p] /\ m = before
      BY <1>0, <1>1, <2>0, <2>2, <3>1, <3>2
    <3>3. CASE ~(after # h.child[p] /\ m = before)
      BY <1>0, <1>1, <2>0, <2>2, <3>1, <3>3
    <3> QED
      BY <3>2, <3>3
  <2>3. \A m \in Nodes : o[m] = k => m \in S \ {item}
    BY <2>1, <2>2 DEF Shape, Reached, Along
  <2>4. CASE n = item
    BY <1>0, <1>1, <2>0, <2>3, <2>4
  <2>5. CASE n # item
    BY <1>1, <2>3, <2>5
  <2> QED
    BY <2>4, <2>5
<1>8. Rooted(g, Q, q)
  BY RootedJoined DEF Rooted
<1> QED
  BY <1>1, <1>2, <1>3, <1>4, <1>5, <1>6, <1>7, <1>8 DEF Shape

-----------------------------------------------------------------------------
(* Leaving a list.                                                         *)

LEMMA Left ==
  ASSUME NEW h, NEW R, NEW o, Shape(h, R, o),
         NEW item \in Nodes, NEW p \in Nodes, o[item] = p,
         NEW g, g.live = h.live, g.ref = h.ref,
         g.child \in [Nodes -> Pointers \cup {Stale}],
         g.next \in [Nodes -> Pointers], g.prev \in [Nodes -> Pointers],
         \A n \in Nodes :
           /\ g.child[n] = IF n = p /\ item = h.child[p] THEN h.next[item] ELSE h.child[n]
           /\ g.next[n] = IF n = item THEN None
                          ELSE IF item # h.child[p] /\ n = h.prev[item] THEN h.next[item] ELSE h.next[n]
           /\ g.prev[n] = IF n = item THEN None
                          ELSE IF n \in Behind(h, p, item) THEN h.prev[item] ELSE h.prev[n]
  PROVE  Shape(g, R \cup {item}, [o EXCEPT ![item] = None])
<1> DEFINE q     == [o EXCEPT ![item] = None]
           Q     == R \cup {item}
           first == h.child[p]
           last  == h.prev[first]
<1>0. /\ None \notin Nodes /\ o \in Owners /\ p \in h.live \ h.ref /\ item \in h.live /\ item \notin R
      /\ first \in Nodes /\ o[first] = p /\ last \in Nodes /\ o[last] = p /\ h.next[last] = None
      /\ h.prev[item] \in Nodes /\ o[h.prev[item]] = p
      /\ h.next[item] # None => /\ h.next[item] \in Nodes /\ o[h.next[item]] = p
                                /\ h.prev[h.next[item]] = item /\ h.next[item] # first
      /\ h.next[item] = None => item = last
      /\ item # first => h.next[h.prev[item]] = item
  <2>1. None \notin Nodes /\ o \in Owners /\ p \in h.live \ h.ref /\ item \in h.live /\ item \notin R
        /\ first # None
    BY ItemsAssumption DEF Shape, Placed
  <2>2. first \in Nodes /\ o[first] = p /\ last \in Nodes /\ o[last] = p /\ h.next[last] = None
    BY <2>1 DEF Shape, Heads
  <2> QED
    BY <2>1, <2>2 DEF Shape, Linked, Wired, Pointers
<1>1. q \in Owners /\ q[item] = None /\ \A n \in Nodes : n # item => q[n] = o[n]
  BY <1>0 DEF Owners, Pointers
<1>2. Wired(g, Q)
  BY <1>0 DEF Shape, Wired
<1>a. h.next[item] # item
  <2> SUFFICES ASSUME h.next[item] = item
               PROVE  FALSE
    OBVIOUS
  <2> DEFINE S == {m \in Nodes : o[m] = p} \ {item}
  <2>1. ASSUME NEW m \in S
        PROVE  h.next[m] \in S \cup {None}
    BY <1>0 DEF Shape, Wired, Linked, Pointers
  <2>2. Along(h, o, p, S)
    BY <1>0, <2>1 DEF Along
  <2> QED
    BY <1>0, <2>2 DEF Shape, Reached
<1>b. \A n \in Behind(h, p, item) : n \in Nodes /\ n # item /\ o[n] = p
  BY <1>0, <1>a DEF Behind
<1>3. Placed(g, Q, q)
  <2> SUFFICES ASSUME NEW n \in Nodes, q[n] # None
               PROVE  n \in h.live \ Q /\ q[n] \in h.live \ h.ref /\ g.child[q[n]] # None
    BY DEF Placed
  <2>1. n # item /\ q[n] = o[n] /\ n \in h.live \ Q /\ o[n] \in h.live \ h.ref /\ h.child[o[n]] # None
        /\ o[n] \in Nodes
    BY <1>0, <1>1 DEF Shape, Wired, Placed
  <2>2. ASSUME o[n] = p, item = first, h.next[item] = None
        PROVE  FALSE
    <3>1. Along(h, o, p, {item})
      BY <1>0, <2>2 DEF Along
    <3> QED
      BY <1>0, <2>1, <2>2, <3>1 DEF Shape, Reached
  <2> QED
    BY <1>0, <2>1, <2>2
<1>4. Loose(g, Q, q)
  <2> SUFFICES ASSUME NEW n \in Nodes
               PROVE  /\ q[n] = None => g.next[n] = None /\ g.prev[n] = None /\ (n \in h.live => n \in Q)
                      /\ n \notin h.live => g.child[n] = None
    BY DEF Loose
  <2>1. n # item /\ q[n] = None => o[n] = None /\ n \notin Behind(h, p, item) /\ n # h.prev[item]
    BY <1>0, <1>1, <1>b
  <2> QED
    BY <1>0, <1>1, <2>1 DEF Shape, Loose
<1>5. Heads(g, q)
  <2> SUFFICES ASSUME NEW k \in h.live \ h.ref, g.child[k] # None
               PROVE  /\ g.child[k] \in Nodes /\ q[g.child[k]] = k
                      /\ g.prev[g.child[k]] \in Nodes /\ q[g.prev[g.child[k]]] = k
                      /\ g.next[g.prev[g.child[k]]] = None
    BY DEF Heads
  <2>1. CASE k = p /\ item = first
    <3>1. /\ g.child[k] = h.next[item] /\ h.next[item] \in Nodes /\ h.next[item] # item
          /\ g.prev[h.next[item]] = last /\ last # item
      BY <1>0, <2>1 DEF Behind
    <3>2. g.next[last] = None
      BY <1>0, <2>1, <3>1
    <3> QED
      BY <1>0, <1>1, <2>1, <3>1, <3>2
  <2>2. CASE k = p /\ item # first /\ h.next[item] = None
    <3>1. /\ g.child[k] = first /\ first \in Behind(h, p, item)
          /\ g.prev[first] = h.prev[item] /\ h.prev[item] # item
      BY <1>0, <2>2 DEF Behind
    <3>2. g.next[h.prev[item]] = None
      BY <1>0, <2>2, <3>1
    <3> QED
      BY <1>0, <1>1, <2>2, <3>1, <3>2
  <2>3. CASE k = p /\ item # first /\ h.next[item] # None
    <3>1. g.child[k] = first /\ g.prev[first] = last
      BY <1>0, <2>3 DEF Behind
    <3>2. last # item /\ last # h.prev[item]
      BY <1>0, <2>3
    <3>3. g.next[last] = None
      BY <1>0, <2>3, <3>2
    <3> QED
      BY <1>0, <1>1, <2>3, <3>1, <3>2, <3>3
  <2>4. CASE k # p
    <3>1. /\ h.child[k] \in Nodes /\ o[h.child[k]] = k
          /\ h.prev[h.child[k]] \in Nodes /\ o[h.prev[h.child[k]]] = k
          /\ h.next[h.prev[h.child[k]]] = None /\ k \in Nodes /\ g.child[k] = h.child[k]
      BY <2>4 DEF Shape, Heads, Wired
    <3>2. g.prev[h.child[k]] = h.prev[h.child[k]]
      BY <1>0, <1>b, <2>4, <3>1
    <3>3. g.next[h.prev[h.child[k]]] = None
      BY <1>0, <2>4, <3>1
    <3> QED
      BY <1>0, <1>1, <2>4, <3>1, <3>2, <3>3
  <2> QED
    BY <2>1, <2>2, <2>3, <2>4
<1>6. Linked(g, q)
  <2> SUFFICES ASSUME NEW n \in Nodes, q[n] # None
               PROVE  /\ g.prev[n] \in Nodes /\ q[g.prev[n]] = q[n]
                      /\ g.next[n] # None => /\ q[g.next[n]] = q[n] /\ g.prev[g.next[n]] = n
                                             /\ g.next[n] # g.child[q[n]]
                      /\ g.next[n] = None => n = g.prev[g.child[q[n]]]
                      /\ n # g.child[q[n]] => g.next[g.prev[n]] = n
    BY DEF Linked
  <2>0. n # item /\ q[n] = o[n]
    BY <1>1
  <2>1. /\ o[n] # None /\ h.prev[n] \in Nodes /\ o[h.prev[n]] = o[n]
        /\ h.next[n] # None => /\ o[h.next[n]] = o[n] /\ h.prev[h.next[n]] = n
                               /\ h.next[n] # h.child[o[n]] /\ h.next[n] \in Nodes
        /\ h.next[n] = None => n = h.prev[h.child[o[n]]]
        /\ n # h.child[o[n]] => h.next[h.prev[n]] = n
        /\ o[n] \in h.live \ h.ref /\ h.child[o[n]] \in Nodes /\ o[h.child[o[n]]] = o[n]
        /\ o[n] \in Nodes
    BY <1>1, <2>0 DEF Shape, Wired, Linked, Pointers, Placed, Heads
  <2>2. CASE o[n] = p /\ item = first /\ h.next[item] = None
    <3>1. g.child[p] = None
      BY <2>2
    <3> QED
      BY <1>3, <2>0, <2>2, <3>1 DEF Placed
  <2>3. CASE o[n] = p /\ item = first /\ h.next[item] # None
    BY <1>0, <1>1, <2>0, <2>1, <2>3 DEF Behind
  <2>4. CASE o[n] = p /\ item # first /\ h.next[item] = None
    BY <1>0, <1>1, <2>0, <2>1, <2>4 DEF Behind
  <2>5. CASE o[n] = p /\ item # first /\ h.next[item] # None
    BY <1>0, <1>1, <2>0, <2>1, <2>5 DEF Behind
  <2>6. CASE o[n] # p
    BY <1>0, <1>1, <1>b, <2>0, <2>1, <2>6
  <2> QED
    BY <2>2, <2>3, <2>4, <2>5, <2>6
<1>7. Reached(g, q)
  <2> SUFFICES ASSUME NEW k \in h.live \ h.ref, NEW S \in SUBSET Nodes, Along(g, q, k, S),
                      NEW n \in Nodes, q[n] = k
               PROVE  n \in S
    BY DEF Reached
  <2>0. /\ g.child[k] \in S /\ k \in Nodes /\ \A m \in S : q[m] = k => g.next[m] \in S \cup {None}
        /\ n # item /\ o[n] = k
    BY <1>0, <1>1 DEF Along, Shape, Wired
  <2> DEFINE T == IF k = p /\ (item = first \/ h.prev[item] \in S) THEN S \cup {item}
                 ELSE S \ {item}
  <2>1. h.child[k] \in T
    <3>1. k # p => h.child[k] \in S /\ h.child[k] # item
      BY <1>0, <2>0 DEF Shape, Heads
    <3> QED
      BY <1>0, <2>0, <3>1
  <2>2. ASSUME NEW m \in T, o[m] = k
        PROVE  h.next[m] \in T \cup {None}
    <3>1. CASE m = item
      <4>2. k = p
        BY <2>2, <3>1
      <4>3. CASE item = first
        BY <1>0, <2>0, <3>1, <4>2, <4>3
      <4>4. CASE item # first /\ h.prev[item] \in S
        <5>1. h.prev[item] # item /\ q[h.prev[item]] = p /\ g.next[h.prev[item]] = h.next[item]
          BY <1>0, <1>1, <1>a, <4>4
        <5> QED
          BY <2>0, <3>1, <4>2, <4>4, <5>1
      <4> QED
        BY <2>2, <3>1, <4>2, <4>3, <4>4
    <3>2. CASE m # item
      <4>1. m \in S /\ q[m] = k
        BY <1>1, <2>2, <3>2
      <4>2. h.next[m] = item => k = p /\ m = h.prev[item]
        BY <1>0, <2>0, <2>2 DEF Shape, Linked
      <4>3. CASE h.next[m] = item
        BY <3>2, <4>1, <4>2, <4>3
      <4>4. CASE h.next[m] # item
        BY <1>0, <2>0, <3>2, <4>1, <4>4
      <4> QED
        BY <4>3, <4>4
    <3> QED
      BY <3>1, <3>2
  <2>3. \A m \in Nodes : o[m] = k => m \in T
    <3>1. T \in SUBSET Nodes /\ Along(h, o, k, T)
      BY <2>1, <2>2 DEF Along
    <3> QED
      BY <3>1 DEF Shape, Reached
  <2> QED
    BY <2>0, <2>3
<1>8. Rooted(g, Q, q)
  BY <1>0, <1>1 DEF Shape, Rooted, DownClosed, Wired
<1> QED
  BY <1>1, <1>2, <1>3, <1>4, <1>5, <1>6, <1>7, <1>8 DEF Shape

-----------------------------------------------------------------------------
(* Deletion.                                                               *)

\* V is all that is below some items that nobody owns, and below those in P.
AllBelow(h, o, V, P) ==
  /\ V \in SUBSET h.live /\ P \in SUBSET Nodes
  /\ DownClosed(o, V) /\ \A m \in V : o[m] \in V \cup P \cup {None}
  /\ \A m \in Nodes : o[m] \in P => m \in V

\* g is what is left of h when V was freed.
Without(h, V, P, g) ==
  /\ g.live = h.live \ V /\ g.ref = h.ref \ V
  /\ g.child \in [Nodes -> Pointers \cup {Stale}]
  /\ g.next \in [Nodes -> Pointers] /\ g.prev \in [Nodes -> Pointers]
  /\ \A m \in Nodes :
       /\ g.next[m] = IF m \in V THEN None ELSE h.next[m]
       /\ g.prev[m] = IF m \in V THEN None ELSE h.prev[m]
       /\ m \in V \cup P => g.child[m] = None
       /\ m \notin V \cup P \cup h.ref => g.child[m] = h.child[m]

LEMMA WithoutShape ==
  ASSUME NEW h, NEW R, NEW o, Shape(h, R, o), NEW V, NEW P, AllBelow(h, o, V, P),
         NEW g, Without(h, V, P, g)
  PROVE  Shape(g, R \ V, [m \in Nodes |-> IF m \in V THEN None ELSE o[m]])
<1> DEFINE q == [m \in Nodes |-> IF m \in V THEN None ELSE o[m]]
           Q == R \ V
<1>0. None \notin Nodes /\ o \in Owners /\ V \in SUBSET Nodes /\ h.live \in SUBSET Nodes
  BY ItemsAssumption DEF Shape, Wired, AllBelow
<1> USE DEF Without, AllBelow
<1>1. q \in Owners /\ \A m \in Nodes : (m \in V => q[m] = None) /\ (m \notin V => q[m] = o[m])
  BY <1>0 DEF Owners, Pointers
<1>2. \A m \in Nodes : m \notin V => o[m] \notin V \cup P
  BY <1>0 DEF DownClosed
<1>3. Wired(g, Q)
  BY <1>0 DEF Shape, Wired
<1>4. Placed(g, Q, q)
  BY <1>0, <1>1, <1>2 DEF Shape, Wired, Placed
<1>5. Loose(g, Q, q)
  <2> SUFFICES ASSUME NEW m \in Nodes
               PROVE  /\ q[m] = None => g.next[m] = None /\ g.prev[m] = None
                      /\ q[m] = None /\ m \in g.live => m \in Q
                      /\ m \notin g.live => g.child[m] = None
    BY DEF Loose
  <2>1. CASE m \in V
    BY <1>0, <2>1
  <2>2. CASE m \notin V
    BY <1>0, <1>1, <2>2 DEF Shape, Wired, Loose
  <2> QED
    BY <2>1, <2>2
<1>6. Heads(g, q)
  <2> SUFFICES ASSUME NEW k \in g.live \ g.ref, g.child[k] # None
               PROVE  /\ g.child[k] \in Nodes /\ q[g.child[k]] = k
                      /\ g.prev[g.child[k]] \in Nodes /\ q[g.prev[g.child[k]]] = k
                      /\ g.next[g.prev[g.child[k]]] = None
    BY DEF Heads
  <2>1. k \in Nodes /\ k \notin V \cup P /\ k \in h.live \ h.ref /\ g.child[k] = h.child[k]
    BY <1>0 DEF Shape, Wired
  <2>2. /\ h.child[k] \in Nodes /\ o[h.child[k]] = k
        /\ h.prev[h.child[k]] \in Nodes /\ o[h.prev[h.child[k]]] = k
        /\ h.next[h.prev[h.child[k]]] = None
    BY <2>1 DEF Shape, Heads
  <2>3. h.child[k] \notin V /\ h.prev[h.child[k]] \notin V
    BY <1>0, <2>1, <2>2
  <2> QED
    BY <1>1, <2>1, <2>2, <2>3
<1>7. Linked(g, q)
  <2> SUFFICES ASSUME NEW m \in Nodes, q[m] # None
               PROVE  /\ g.prev[m] \in Nodes /\ q[g.prev[m]] = q[m]
                      /\ g.next[m] # None => /\ q[g.next[m]] = q[m] /\ g.prev[g.next[m]] = m
                                             /\ g.next[m] # g.child[q[m]]
                      /\ g.next[m] = None => m = g.prev[g.child[q[m]]]
                      /\ m # g.child[q[m]] => g.next[g.prev[m]] = m
    BY DEF Linked
  <2>0. m \notin V /\ q[m] = o[m] /\ o[m] \notin V \cup P
    BY <1>1, <1>2
  <2>1. /\ h.prev[m] \in Nodes /\ o[h.prev[m]] = o[m]
        /\ h.next[m] # None => /\ o[h.next[m]] = o[m] /\ h.prev[h.next[m]] = m
                               /\ h.next[m] # h.child[o[m]] /\ h.next[m] \in Nodes
        /\ h.next[m] = None => m = h.prev[h.child[o[m]]]
        /\ m # h.child[o[m]] => h.next[h.prev[m]] = m
        /\ o[m] \in h.live \ h.ref /\ h.child[o[m]] \in Nodes /\ o[h.child[o[m]]] = o[m]
        /\ o[m] \in Nodes
    BY <1>1, <2>0 DEF Shape, Wired, Linked, Pointers, Placed, Heads
  <2>2. \A k \in Nodes : o[k] = o[m] => k \notin V
    BY <1>0, <2>0, <2>1
  <2>3. g.child[o[m]] = h.child[o[m]]
    BY <2>0, <2>1
  <2> QED
    BY <1>1, <2>0, <2>1, <2>2, <2>3
<1>8. Reached(g, q)
  <2> SUFFICES ASSUME NEW k \in g.live \ g.ref, NEW S \in SUBSET Nodes, Along(g, q, k, S),
                      NEW m \in Nodes, q[m] = k
               PROVE  m \in S
    BY DEF Reached
  <2>1. k \in Nodes /\ k \notin V \cup P /\ k \in h.live \ h.ref /\ g.child[k] = h.child[k]
    BY <1>0 DEF Shape, Wired
  <2>2. \A j \in Nodes : o[j] = k => j \notin V /\ q[j] = k /\ g.next[j] = h.next[j]
    BY <1>0, <1>1, <2>1
  <2>3. Along(h, o, k, S)
    BY <2>1, <2>2 DEF Along
  <2> QED
    BY <1>0, <1>1, <2>1, <2>3 DEF Shape, Reached
<1>9. Rooted(g, Q, q)
  <2> SUFFICES ASSUME NEW S \in SUBSET Nodes, Q \subseteq S, DownClosed(q, S)
               PROVE  g.live \subseteq S
    BY DEF Rooted
  <2>1. R \subseteq S \cup V /\ DownClosed(o, S \cup V)
    BY <1>0, <1>1 DEF DownClosed
  <2>2. S \cup V \in SUBSET Nodes
    BY <1>0
  <2> QED
    BY <2>1, <2>2 DEF Shape, Rooted
<1> QED
  BY <1>1, <1>3, <1>4, <1>5, <1>6, <1>7, <1>8, <1>9 DEF Shape

LEMMA DeletedShape ==
  ASSUME NEW h, NEW R, NEW o, Shape(h, R, o), NEW n \in R,
         NEW g, g.live = h.live \ Visited(h, n), g.ref = h.ref \ Visited(h, n),
         g.child \in [Nodes -> Pointers \cup {Stale}],
         g.next \in [Nodes -> Pointers], g.prev \in [Nodes -> Pointers],
         \A m \in Nodes :
           /\ g.next[m] = IF m \in Visited(h, n) THEN None ELSE h.next[m]
           /\ g.prev[m] = IF m \in Visited(h, n) THEN None ELSE h.prev[m]
           /\ m \in Visited(h, n) => g.child[m] = None
           /\ m \notin Visited(h, n) \cup h.ref => g.child[m] = h.child[m]
  PROVE  Shape(g, R \ {n}, [m \in Nodes |-> IF m \in Visited(h, n) THEN None ELSE o[m]])
<1> DEFINE V == Visited(h, n)
           P == {}
<1>1. /\ n \in Nodes /\ None \notin Nodes /\ V \in SUBSET h.live /\ n \in V /\ DownClosed(o, V)
      /\ o[n] = None /\ R \in SUBSET Nodes /\ \A m \in V : m = n \/ o[m] \in V
  BY VisitedBelow, ItemsAssumption DEF Shape, Wired, Placed
<1>2. R \ V = R \ {n}
  <2>1. \A r \in R : o[r] = None
    BY <1>1 DEF Shape, Placed
  <2> QED
    BY <1>1, <2>1 DEF Shape, Wired
<1>3. \A m \in V : o[m] \in V \cup P \cup {None}
  BY <1>1
<1>4. AllBelow(h, o, V, P)
  BY <1>1, <1>3 DEF AllBelow
<1>5. Without(h, V, P, g)
  BY DEF Without
<1> HIDE DEF V, P
<1>6. Shape(g, R \ V, [m \in Nodes |-> IF m \in V THEN None ELSE o[m]])
  BY <1>4, <1>5, WithoutShape
<1> QED
  BY <1>2, <1>6 DEF V

IsFirst(h, p, n) == h.child[p] = n

\* From the first child of p a deletion visits all that is below p, and not p.
LEMMA VisitedList ==
  ASSUME NEW h, NEW R, NEW o, Shape(h, R, o), NEW p \in h.live \ h.ref,
         NEW n \in Nodes, IsFirst(h, p, n)
  PROVE  /\ AllBelow(h, o, Visited(h, n), {p})
         /\ p \notin Visited(h, n) /\ R \cap Visited(h, n) = {} /\ n \in Visited(h, n)
<1> DEFINE V == Visited(h, n)
<1>0. /\ None \notin Nodes /\ h.live \in SUBSET Nodes /\ o[n] = p /\ p \in Nodes
      /\ R \in SUBSET Nodes
  BY ItemsAssumption DEF Shape, Wired, Heads, IsFirst
<1> USE DEF IsFirst
<1>1. V \in SUBSET Nodes /\ n \in V /\ Closed(h, V)
  BY <1>0, VisitedClosed
<1>2. V \subseteq h.live
  <2>1. n \in h.live
    BY <1>0 DEF Shape, Placed
  <2> QED
    BY <1>0, <2>1, LiveClosed, VisitedLeast
<1>3. \A m \in V : o[m] = p \/ o[m] \in V
  <2> DEFINE W == {m \in V : o[m] = p \/ o[m] \in V}
  <2>1. ASSUME NEW m \in W
        PROVE  h.next[m] \in W \cup {None}
    BY <1>0, <1>1 DEF Closed, Shape, Wired, Linked
  <2>2. ASSUME NEW m \in W, m \notin h.ref
        PROVE  h.child[m] \in W \cup {None}
    BY <1>1, <1>2, <2>2 DEF Closed, Shape, Heads
  <2>3. Closed(h, W)
    BY <2>1, <2>2 DEF Closed
  <2> QED
    BY <1>0, <1>1, <2>3, VisitedLeast
<1>4. \A k \in V \cup {p} : \A m \in Nodes : o[m] = k => m \in V
  <2> SUFFICES ASSUME NEW k \in V \cup {p}, NEW m \in Nodes, o[m] = k
               PROVE  m \in V
    OBVIOUS
  <2>1. k \in h.live \ h.ref /\ h.child[k] # None
    BY <1>0, <1>1 DEF Shape, Placed
  <2>2. Along(h, o, k, V)
    BY <1>1, <2>1 DEF Closed, Along
  <2> QED
    BY <1>1, <2>1, <2>2 DEF Shape, Reached
<1>5. R \cap V = {}
  <2>1. \A r \in R : o[r] = None
    BY <1>0 DEF Shape, Placed
  <2> QED
    BY <1>0, <1>1, <1>3, <2>1
<1>6. p \notin V
  <2> SUFFICES ASSUME p \in V
               PROVE  FALSE
    OBVIOUS
  <2> DEFINE S == h.live \ V
  <2>1. R \subseteq S
    BY <1>5 DEF Shape, Wired
  <2>2. DownClosed(o, S)
    BY <1>0, <1>3 DEF DownClosed, Shape, Placed
  <2>3. h.live \subseteq S
    BY <1>0, <2>1, <2>2 DEF Shape, Rooted
  <2> QED
    BY <1>1, <1>2, <2>3
<1>7. DownClosed(o, V)
  BY <1>4 DEF DownClosed
<1>8. AllBelow(h, o, V, {p})
  BY <1>0, <1>2, <1>3, <1>4, <1>7 DEF AllBelow
<1> QED
  BY <1>1, <1>5, <1>6, <1>8

-----------------------------------------------------------------------------
(* Creation.                                                               *)

LEMMA NewShape ==
  ASSUME NEW h, NEW R, NEW o, Shape(h, R, o), NEW n \in Nodes \ h.live,
         NEW g, g.live = h.live \cup {n}, g.next = h.next, g.prev = h.prev,
         g.ref \ {n} = h.ref, g.child \in [Nodes -> Pointers \cup {Stale}],
         \A m \in Nodes : m # n => g.child[m] = h.child[m],
         n \notin g.ref => g.child[n] = None
  PROVE  Shape(g, R \cup {n}, o)
<1>0. n \notin h.ref /\ n \notin R /\ o[n] = None /\ n # None /\ (\A m \in Nodes : o[m] # n)
      /\ h.live \in SUBSET Nodes
  BY ItemsAssumption DEF Shape, Wired, Placed
<1>1. Wired(g, R \cup {n})
  BY <1>0 DEF Shape, Wired
<1>2. Placed(g, R \cup {n}, o)
  BY <1>0 DEF Shape, Wired, Placed
<1>3. Loose(g, R \cup {n}, o)
  BY <1>0 DEF Shape, Wired, Loose
<1>4. Heads(g, o)
  BY <1>0 DEF Shape, Wired, Heads
<1>5. Linked(g, o)
  <2> SUFFICES ASSUME NEW m \in Nodes, o[m] # None
               PROVE  g.child[o[m]] = h.child[o[m]]
    BY DEF Shape, Linked
  <2> QED
    BY <1>0 DEF Shape, Placed
<1>6. Reached(g, o)
  <2> SUFFICES ASSUME NEW k \in g.live \ g.ref, NEW S \in SUBSET Nodes, Along(g, o, k, S),
                      NEW m \in Nodes, o[m] = k
               PROVE  m \in S
    BY DEF Reached
  <2>1. k \in h.live \ h.ref /\ g.child[k] = h.child[k]
    BY <1>0
  <2> QED
    BY <2>1 DEF Shape, Reached, Along
<1>7. Rooted(g, R \cup {n}, o)
  BY DEF Shape, Rooted
<1> QED
  BY <1>1, <1>2, <1>3, <1>4, <1>5, <1>6, <1>7 DEF Shape

\* The shape depends on the links only, and not on those of references.
LEMMA SameShape ==
  ASSUME NEW h, NEW R, NEW o, Shape(h, R, o),
         NEW g, g.live = h.live, g.ref = h.ref, g.next = h.next, g.prev = h.prev,
         g.child \in [Nodes -> Pointers \cup {Stale}],
         \A m \in Nodes \ h.ref : g.child[m] = h.child[m]
  PROVE  /\ Shape(g, R, o)
         /\ \A n \in Nodes : Visited(g, n) = Visited(h, n)
<1>0. h.live \in SUBSET Nodes /\ h.ref \subseteq h.live
  BY DEF Shape, Wired
<1>1. Shape(g, R, o)
  <2>1. Wired(g, R)
    BY DEF Shape, Wired
  <2>2. Placed(g, R, o)
    BY <1>0 DEF Shape, Placed
  <2>3. Loose(g, R, o)
    BY <1>0 DEF Shape, Loose
  <2>4. Heads(g, o)
    BY <1>0 DEF Shape, Heads
  <2>5. Linked(g, o)
    <3>1. \A n \in Nodes : o[n] # None => g.child[o[n]] = h.child[o[n]]
      BY <1>0 DEF Shape, Placed
    <3> QED
      BY <3>1 DEF Shape, Linked
  <2>6. Reached(g, o)
    <3>1. \A k \in h.live \ h.ref : g.child[k] = h.child[k]
      BY <1>0
    <3> QED
      BY <3>1 DEF Shape, Reached, Along
  <2>7. Rooted(g, R, o)
    BY DEF Shape, Rooted
  <2> QED
    BY <2>1, <2>2, <2>3, <2>4, <2>5, <2>6, <2>7 DEF Shape
<1>2. \A S \in SUBSET Nodes : Closed(g, S) = Closed(h, S)
  BY DEF Closed
<1>3. \A n \in Nodes : Visited(g, n) = Visited(h, n)
  BY <1>2 DEF Visited
<1> QED
  BY <1>1, <1>3

-----------------------------------------------------------------------------
(* Arrays that are created with their items.                               *)

\* Any set of numbers has a least one.
LEMMA LeastExists ==
  ASSUME NEW S \in SUBSET Nat, S # {}
  PROVE  \E i \in S : \A j \in S : i <= j
<1>1. IsWellFoundedOn(OpToRel(<, Nat), Nat)
  BY NatLessThanWellFounded
<1>2. PICK i \in S : \A j \in S : <<j, i>> \notin OpToRel(<, Nat)
  BY <1>1, WFMin, Zenon
<1>3. \A j \in S : ~(j < i)
  BY <1>2 DEF OpToRel
<1> QED
  BY <1>3

\* What holds of the second entry, and with each of the next, holds of all but the first.
LEMMA AllReached ==
  ASSUME NEW l \in Nat, NEW ns, NEW S, 2 <= l => ns[2] \in S,
         \A i \in 2..l : i < l /\ ns[i] \in S => ns[i + 1] \in S
  PROVE  \A i \in 2..l : ns[i] \in S
<1> SUFFICES ASSUME NEW k \in 2..l, ns[k] \notin S
             PROVE  FALSE
  OBVIOUS
<1> DEFINE Out == {i \in 2..l : ns[i] \notin S}
<1>1. Out \in SUBSET Nat /\ k \in Out
  OBVIOUS
<1>2. PICK i \in Out : \A j \in Out : i <= j
  BY <1>1, LeastExists
<1>3. i # 2
  BY <1>2
<1>4. i - 1 \in 2..l /\ i - 1 < l /\ (i - 1) + 1 = i
  BY <1>2, <1>3
<1>5. ns[i - 1] \in S
  BY <1>2, <1>4
<1> QED
  BY <1>2, <1>4, <1>5

\* The items of an array of l - 1 of them, and the links that the loop makes.
ItemsOf(l, ns) == {ns[i] : i \in 2..l}

LinkedUp(h, l, ns, k, closed, g) ==
  /\ g.live = h.live \cup (ItemsOf(l, ns) \cup {ns[1]}) /\ g.ref = h.ref
  /\ g.key = h.key /\ g.const = h.const /\ g.strings = h.strings
  /\ g.kind = [n \in Nodes |-> IF n \in ItemsOf(l, ns) THEN k ELSE IF n = ns[1] THEN "array" ELSE h.kind[n]]
  /\ g.child = [h.child EXCEPT ![ns[1]] = IF l > 1 THEN ns[2] ELSE None]
  /\ g.next \in [Nodes -> Pointers] /\ g.prev \in [Nodes -> Pointers]
  /\ \A n \in Nodes \ ItemsOf(l, ns) : g.next[n] = h.next[n] /\ g.prev[n] = h.prev[n]
  /\ \A i \in 2..l :
       /\ g.next[ns[i]] = IF i < l THEN ns[i + 1] ELSE None
       /\ g.prev[ns[i]] = IF i > 2 THEN ns[i - 1] ELSE IF closed THEN ns[l] ELSE None

LEMMA ChainedLinks ==
  ASSUME NEW h, NEW R, NEW o, Shape(h, R, o), h \in Heaps,
         NEW l \in Nat \ {0}, NEW ns \in [1..l -> Nodes \ h.live],
         \A i, j \in 1..l : ns[i] = ns[j] => i = j,
         NEW k, NEW closed \in BOOLEAN
  PROVE  LinkedUp(h, l, ns, k, closed, Chained(h, ns, k, closed))
<1> DEFINE g     == Chained(h, ns, k, closed)
           items == {ns[i] : i \in 2..l}
           At(n) == CHOOSE i \in DOMAIN ns : ns[i] = n
<1>1. DOMAIN ns = 1..l /\ Len(ns) = l
  OBVIOUS
<1>2. \A i \in 1..l : At(ns[i]) = i
  BY <1>1
<1>3. ns[1] \notin items
  OBVIOUS
<1>4. \A n \in Nodes \ h.live : h.next[n] = None /\ h.prev[n] = None
  BY DEF Shape, Placed, Loose
<1>5. /\ g.live = h.live \cup (items \cup {ns[1]}) /\ g.ref = h.ref
      /\ g.key = h.key /\ g.const = h.const /\ g.strings = h.strings
      /\ g.kind = [n \in Nodes |-> IF n \in items THEN k
                                   ELSE IF n \in items \cup {ns[1]} THEN "array" ELSE h.kind[n]]
      /\ g.child = [h.child EXCEPT ![ns[1]] = IF l > 1 THEN ns[2] ELSE None]
  BY <1>1 DEF Chained, Heaps
<1>6. /\ g.next = [n \in Nodes |-> IF n \in items /\ At(n) < l THEN ns[At(n) + 1] ELSE h.next[n]]
      /\ g.prev = [n \in Nodes |-> CASE n \in items /\ At(n) > 2 -> ns[At(n) - 1]
                                     [] n \in items /\ At(n) = 2 /\ closed -> ns[l]
                                     [] OTHER -> h.prev[n]]
  BY <1>1 DEF Chained, Heaps
<1>7. ASSUME NEW i \in 2..l
      PROVE  /\ g.next[ns[i]] = IF i < l THEN ns[i + 1] ELSE None
             /\ g.prev[ns[i]] = IF i > 2 THEN ns[i - 1] ELSE IF closed THEN ns[l] ELSE None
  <2>1. ns[i] \in items /\ At(ns[i]) = i /\ ns[i] \in Nodes \ h.live
    BY <1>2
  <2> QED
    BY <1>4, <1>6, <2>1
<1>8. \A n \in Nodes \ items : g.next[n] = h.next[n] /\ g.prev[n] = h.prev[n]
  BY <1>6
<1>9. g.next \in [Nodes -> Pointers] /\ g.prev \in [Nodes -> Pointers]
  <2>1. \A n \in Nodes : g.next[n] \in Pointers /\ g.prev[n] \in Pointers
    BY <1>7, <1>8 DEF Pointers, Shape, Wired
  <2> QED
    BY <1>6, <2>1
<1> QED
  BY <1>5, <1>7, <1>8, <1>9 DEF LinkedUp, ItemsOf

OwnedToo(o, l, ns) == [n \in Nodes |-> IF n \in ItemsOf(l, ns) THEN ns[1] ELSE o[n]]

LEMMA ChainedShape ==
  ASSUME NEW h, NEW R, NEW o, Shape(h, R, o), h \in Heaps,
         NEW l \in Nat \ {0}, NEW ns \in [1..l -> Nodes \ h.live],
         \A i, j \in 1..l : ns[i] = ns[j] => i = j,
         NEW k
  PROVE  Shape(Chained(h, ns, k, TRUE), R \cup {ns[1]}, OwnedToo(o, l, ns))
<1> DEFINE g     == Chained(h, ns, k, TRUE)
           items == ItemsOf(l, ns)
           p     == ns[1]
           q     == [n \in Nodes |-> IF n \in items THEN p ELSE o[n]]
           Q     == R \cup {p}
<1>i. /\ \A n \in items : \E i \in 2..l : n = ns[i]
      /\ \A i \in 2..l : ns[i] \in items
  BY DEF ItemsOf
<1>j. p \in Nodes \ h.live /\ items \in SUBSET (Nodes \ h.live) /\ p \notin items
  <2>1. \A i \in 2..l : ns[i] \in Nodes \ h.live /\ ns[i] # ns[1]
    OBVIOUS
  <2> QED
    BY <1>i, <2>1
<1>0. /\ p \in Nodes \ h.live /\ items \in SUBSET (Nodes \ h.live) /\ p \notin items
      /\ h.live \in SUBSET Nodes /\ h.ref \subseteq h.live /\ R \subseteq h.live
      /\ None \notin Nodes /\ o \in Owners
      /\ \A n \in Nodes \ h.live : /\ o[n] = None /\ h.next[n] = None /\ h.prev[n] = None
                                   /\ h.child[n] = None
      /\ \A n \in Nodes : o[n] # None => o[n] \in h.live \ h.ref
  BY <1>j, ItemsAssumption DEF Shape, Wired, Placed, Loose
<1>1. /\ q \in Owners /\ \A n \in items : q[n] = p
      /\ \A n \in Nodes : n \notin items => q[n] = o[n] /\ q[n] # p
  <2>1. q \in Owners
    BY <1>0 DEF Owners, Pointers
  <2> QED
    BY <1>0, <2>1
<1>2. /\ g.live = h.live \cup items \cup {p} /\ g.ref = h.ref
      /\ g.child = [h.child EXCEPT ![p] = IF l > 1 THEN ns[2] ELSE None]
      /\ g.next \in [Nodes -> Pointers] /\ g.prev \in [Nodes -> Pointers]
      /\ \A n \in Nodes \ items : g.next[n] = h.next[n] /\ g.prev[n] = h.prev[n]
      /\ \A i \in 2..l :
           /\ g.next[ns[i]] = IF i < l THEN ns[i + 1] ELSE None
           /\ g.prev[ns[i]] = IF i > 2 THEN ns[i - 1] ELSE ns[l]
  <2>1. LinkedUp(h, l, ns, k, TRUE, g)
    BY ChainedLinks
  <2> QED
    BY <2>1 DEF LinkedUp
<1> HIDE DEF g, q, items
<1>c. /\ g.child \in [Nodes -> Pointers \cup {Stale}]
      /\ g.child[p] = IF l > 1 THEN ns[2] ELSE None
      /\ \A n \in Nodes : n # p => g.child[n] = h.child[n]
  BY <1>0, <1>2 DEF Shape, Wired, Pointers
<1>3. Wired(g, Q)
  BY <1>0, <1>2, <1>c DEF Shape, Wired
<1>4. Placed(g, Q, q)
  <2> SUFFICES ASSUME NEW n \in Nodes, q[n] # None
               PROVE  n \in g.live \ Q /\ q[n] \in g.live \ g.ref /\ g.child[q[n]] # None
    BY DEF Placed
  <2>1. CASE n \in items
    BY <1>i, <1>0, <1>1, <1>2, <1>c, <2>1
  <2>2. CASE n \notin items
    BY <1>i, <1>0, <1>1, <1>2, <1>c, <2>2 DEF Shape, Placed
  <2> QED
    BY <2>1, <2>2
<1>5. Loose(g, Q, q)
  <2> SUFFICES ASSUME NEW n \in Nodes
               PROVE  /\ q[n] = None => g.next[n] = None /\ g.prev[n] = None /\ (n \in g.live => n \in Q)
                      /\ n \notin g.live => g.child[n] = None
    BY DEF Loose
  <2> QED
    BY <1>i, <1>0, <1>1, <1>2, <1>c DEF Shape, Loose
<1>6. Heads(g, q)
  <2> SUFFICES ASSUME NEW m \in g.live \ g.ref, g.child[m] # None
               PROVE  /\ g.child[m] \in Nodes /\ q[g.child[m]] = m
                      /\ g.prev[g.child[m]] \in Nodes /\ q[g.prev[g.child[m]]] = m
                      /\ g.next[g.prev[g.child[m]]] = None
    BY DEF Heads
  <2>1. CASE m = p
    <3>1. 2 \in 2..l /\ l \in 2..l /\ g.child[p] = ns[2] /\ g.prev[ns[2]] = ns[l] /\ g.next[ns[l]] = None
      BY <1>2, <1>c, <2>1
    <3> QED
      BY <1>i, <1>0, <1>1, <2>1, <3>1
  <2>2. CASE m # p
    <3>1. m \in h.live
      BY <1>0, <1>2, <1>c, <2>2
    <3>2. /\ h.child[m] \in Nodes /\ o[h.child[m]] = m
          /\ h.prev[h.child[m]] \in Nodes /\ o[h.prev[h.child[m]]] = m
          /\ h.next[h.prev[h.child[m]]] = None /\ g.child[m] = h.child[m] /\ m # None
      BY <1>0, <1>2, <1>c, <2>2, <3>1 DEF Shape, Heads
    <3>3. h.child[m] \notin items /\ h.prev[h.child[m]] \notin items
      BY <1>0, <3>2
    <3> QED
      BY <1>1, <1>2, <3>2, <3>3
  <2> QED
    BY <2>1, <2>2
<1>7. Linked(g, q)
  <2> SUFFICES ASSUME NEW n \in Nodes, q[n] # None
               PROVE  /\ g.prev[n] \in Nodes /\ q[g.prev[n]] = q[n]
                      /\ g.next[n] # None => /\ q[g.next[n]] = q[n] /\ g.prev[g.next[n]] = n
                                             /\ g.next[n] # g.child[q[n]]
                      /\ g.next[n] = None => n = g.prev[g.child[q[n]]]
                      /\ n # g.child[q[n]] => g.next[g.prev[n]] = n
    BY DEF Linked
  <2>1. CASE n \in items
    <3>1. PICK i \in 2..l : n = ns[i]
      BY <1>i, <2>1
    <3>2. q[n] = p /\ g.child[p] = ns[2] /\ 2 \in 2..l /\ l \in 2..l
      BY <1>1, <1>c, <2>1, <3>1
    <3>3. g.prev[n] \in items
      <4>1. CASE i = 2
        BY <1>i, <1>2, <3>1, <3>2, <4>1
      <4>2. CASE i > 2
        <5>1. i - 1 \in 2..l
          BY <4>2
        <5> QED
          BY <1>i, <1>2, <3>1, <4>2, <5>1
      <4> QED
        BY <4>1, <4>2
    <3>4. CASE i = l
      <4>1. g.next[n] = None /\ g.prev[ns[2]] = ns[l]
        BY <1>2, <3>1, <3>2, <3>4
      <4>2. i # 2 => i - 1 \in 2..l /\ g.prev[n] = ns[i - 1] /\ g.next[ns[i - 1]] = n
        BY <1>2, <3>1
      <4> QED
        BY <1>0, <1>1, <3>1, <3>2, <3>3, <3>4, <4>1, <4>2
    <3>5. CASE i < l
      <4>1. i + 1 \in 2..l /\ g.next[n] = ns[i + 1] /\ g.prev[ns[i + 1]] = n /\ ns[i + 1] # ns[2]
        BY <1>2, <3>1, <3>5
      <4>2. i # 2 => i - 1 \in 2..l /\ g.prev[n] = ns[i - 1] /\ g.next[ns[i - 1]] = n
        BY <1>2, <3>1
      <4>3. g.next[n] \in items /\ g.next[n] # None
        BY <1>i, <1>0, <4>1
      <4> QED
        BY <1>0, <1>1, <3>1, <3>2, <3>3, <4>1, <4>2, <4>3
    <3> QED
      BY <3>4, <3>5
  <2>2. CASE n \notin items
    <3>0. q[n] = o[n] /\ o[n] # None
      BY <1>1, <2>2
    <3>1. /\ h.prev[n] \in Nodes /\ o[h.prev[n]] = o[n]
          /\ h.next[n] # None => /\ o[h.next[n]] = o[n] /\ h.prev[h.next[n]] = n
                                 /\ h.next[n] # h.child[o[n]] /\ h.next[n] \in Nodes
          /\ h.next[n] = None => n = h.prev[h.child[o[n]]]
          /\ n # h.child[o[n]] => h.next[h.prev[n]] = n
          /\ o[n] \in h.live \ h.ref /\ h.child[o[n]] \in Nodes /\ o[h.child[o[n]]] = o[n]
          /\ o[n] \in Nodes
      BY <3>0 DEF Shape, Wired, Linked, Pointers, Placed, Heads
    <3>2. \A m \in Nodes : o[m] = o[n] => m \notin items
      BY <1>0, <3>0
    <3>3. g.child[o[n]] = h.child[o[n]]
      BY <1>0, <1>c, <3>1
    <3> QED
      BY <1>1, <1>2, <2>2, <3>0, <3>1, <3>2, <3>3
  <2> QED
    BY <2>1, <2>2
<1>8. Reached(g, q)
  <2> SUFFICES ASSUME NEW m \in g.live \ g.ref, NEW S \in SUBSET Nodes, Along(g, q, m, S),
                      NEW n \in Nodes, q[n] = m
               PROVE  n \in S
    BY DEF Reached
  <2>1. CASE m = p
    <3>1. n \in items /\ l > 1 /\ ns[2] \in S
      BY <1>0, <1>1, <1>c, <2>1 DEF Along
    <3>2. ASSUME NEW i \in 2..l, i < l, ns[i] \in S
          PROVE  ns[i + 1] \in S
      <4>1. g.next[ns[i]] = ns[i + 1] /\ ns[i + 1] # None /\ q[ns[i]] = p
        BY <1>i, <1>0, <1>1, <1>2, <3>2
      <4> QED
        BY <1>i, <2>1, <3>2, <4>1 DEF Along
    <3>3. \A i \in 2..l : i < l /\ ns[i] \in S => ns[i + 1] \in S
      BY <3>2
    <3>4. \A i \in 2..l : ns[i] \in S
      BY <3>1, <3>3, AllReached
    <3> QED
      BY <1>i, <3>1, <3>4
  <2>2. CASE m # p
    <3>1. o[n] = m /\ n \notin items /\ m # None
      BY <1>i, <1>0, <1>1, <1>2, <2>2
    <3>2. m \in h.live \ h.ref /\ g.child[m] = h.child[m]
      BY <1>0, <1>2, <1>c, <2>2, <3>1
    <3>3. \A j \in Nodes : o[j] = m => j \notin items /\ q[j] = m /\ g.next[j] = h.next[j]
      BY <1>i, <1>0, <1>1, <1>2, <3>1
    <3> QED
      BY <3>1, <3>2, <3>3 DEF Shape, Reached, Along
  <2> QED
    BY <2>1, <2>2
<1>9. Rooted(g, Q, q)
  <2> SUFFICES ASSUME NEW S \in SUBSET Nodes, Q \subseteq S, DownClosed(q, S)
               PROVE  g.live \subseteq S
    BY DEF Rooted
  <2>1. items \subseteq S
    BY <1>0, <1>1 DEF DownClosed
  <2>2. DownClosed(o, S)
    BY <1>1, <2>1 DEF DownClosed
  <2> QED
    BY <1>2, <2>1, <2>2 DEF Shape, Rooted
<1> QED
  BY <1>1, <1>3, <1>4, <1>5, <1>6, <1>7, <1>8, <1>9 DEF Shape, g, q, items, OwnedToo

-----------------------------------------------------------------------------
(* Names, and the operations as a whole.                                   *)

Named(h) ==
  /\ h \in Heaps /\ h.const \subseteq h.live
  /\ \A n \in Nodes \ h.live : h.key[n] = None
  /\ h.strings = Cardinality({n \in h.live : OwnsKey(h, n)})

Good(h, R, o) == Named(h) /\ Shape(h, R, o)

LEMMA NamesFinite ==
  ASSUME NEW h, Named(h)
  PROVE  /\ IsFiniteSet({n \in h.live : OwnsKey(h, n)})
         /\ Cardinality({n \in h.live : OwnsKey(h, n)}) \in Nat
<1>1. {n \in h.live : OwnsKey(h, n)} \in SUBSET Nodes
  BY DEF Named, Heaps
<1> QED
  BY <1>1, ItemsAssumption, FS_Subset, FS_CardinalityType

\* The links do not matter to the names.
LEMMA SameNames ==
  ASSUME NEW h, Named(h), NEW g \in Heaps,
         g.live = h.live, g.key = h.key, g.const = h.const, g.strings = h.strings
  PROVE  Named(g)
BY DEF Named, OwnsKey

LEMMA NewNames ==
  ASSUME NEW h, Named(h), NEW n \in Nodes \ h.live, NEW g \in Heaps,
         g.live = h.live \cup {n}, g.key = h.key, g.strings = h.strings,
         g.const \in {h.const, h.const \cup {n}}
  PROVE  Named(g)
<1>1. {m \in g.live : OwnsKey(g, m)} = {m \in h.live : OwnsKey(h, m)}
  BY DEF Named, OwnsKey
<1> QED
  BY <1>1 DEF Named

LEMMA RenamedNames ==
  ASSUME NEW h, Named(h), NEW item \in h.live, NEW k \in Keys, NEW const \in BOOLEAN
  PROVE  Named(Renamed(h, item, k, const))
<1> DEFINE g   == Renamed(h, item, k, const)
           Old == {n \in h.live : OwnsKey(h, n)}
           New == {n \in g.live : OwnsKey(g, n)}
<1>0. /\ item \in Nodes /\ h.key \in [Nodes -> Keys \cup {None}] /\ h.strings \in Int
      /\ h.live \in SUBSET Nodes /\ h.const \in SUBSET Nodes /\ k # None
  BY ItemsAssumption DEF Named, Heaps
<1>1. /\ g.live = h.live /\ g.key = [h.key EXCEPT ![item] = k]
      /\ g.const = IF const THEN h.const \cup {item} ELSE h.const \ {item}
      /\ g.strings = h.strings + (IF const THEN 0 ELSE 1) - (IF OwnsKey(h, item) THEN 1 ELSE 0)
      /\ g \in Heaps
  <2>1. /\ g = [h EXCEPT !.key = g.key, !.const = g.const, !.strings = g.strings]
        /\ g.key = [h.key EXCEPT ![item] = k]
        /\ g.const = IF const THEN h.const \cup {item} ELSE h.const \ {item}
        /\ g.strings = h.strings + (IF const THEN 0 ELSE 1) - (IF OwnsKey(h, item) THEN 1 ELSE 0)
    BY DEF Renamed, Named, Heaps
  <2>2. g.key \in [Nodes -> Keys \cup {None}] /\ g.const \in SUBSET Nodes /\ g.strings \in Int
    BY <1>0, <2>1
  <2>3. g.live = h.live /\ g \in Heaps
    BY <2>1, <2>2 DEF Named, Heaps
  <2> QED
    BY <2>1, <2>3
<1>2. New = IF const THEN Old \ {item} ELSE Old \cup {item}
  BY <1>0, <1>1 DEF OwnsKey
<1>3. item \in Old <=> OwnsKey(h, item)
  OBVIOUS
<1>4. IsFiniteSet(Old) /\ Cardinality(Old) \in Nat
  BY NamesFinite
<1>7. h.strings = Cardinality(Old)
  BY DEF Named
<1> HIDE DEF Old, New, g
<1>5. Cardinality(New) = Cardinality(Old) + (IF const THEN 0 ELSE 1) - (IF OwnsKey(h, item) THEN 1 ELSE 0)
  <2>1. CASE const
    <3>1. Cardinality(Old \ {item}) = IF item \in Old THEN Cardinality(Old) - 1 ELSE Cardinality(Old)
      BY <1>4, FS_RemoveElement
    <3> QED
      BY <1>2, <1>3, <1>4, <2>1, <3>1
  <2>2. CASE ~const
    <3>1. Cardinality(Old \cup {item}) = IF item \in Old THEN Cardinality(Old) ELSE Cardinality(Old) + 1
      BY <1>4, FS_AddElement
    <3> QED
      BY <1>2, <1>3, <1>4, <2>2, <3>1
  <2> QED
    BY <2>1, <2>2
<1>6. g.const \subseteq g.live /\ \A n \in Nodes \ g.live : g.key[n] = None
  BY <1>0, <1>1 DEF Named
<1> QED
  BY <1>1, <1>5, <1>6, <1>7 DEF Named, g, New

\* An item whose name could not be allocated.
LEMMA UnnamedNames ==
  ASSUME NEW h, Named(h), NEW item \in h.live,
         NEW g, g = [h EXCEPT !.key[item] = None,
                              !.strings = @ - (IF OwnsKey(h, item) THEN 1 ELSE 0)]
  PROVE  Named(g)
<1> DEFINE Old == {n \in h.live : OwnsKey(h, n)}
           New == {n \in g.live : OwnsKey(g, n)}
<1>0. /\ item \in Nodes /\ h.key \in [Nodes -> Keys \cup {None}] /\ h.strings \in Int
      /\ h.live \in SUBSET Nodes
  BY DEF Named, Heaps
<1>1. /\ g.live = h.live /\ g.key = [h.key EXCEPT ![item] = None] /\ g.const = h.const
      /\ g.strings = h.strings - (IF OwnsKey(h, item) THEN 1 ELSE 0)
      /\ g \in Heaps
  <2>1. /\ g = [h EXCEPT !.key = g.key, !.strings = g.strings]
        /\ g.key = [h.key EXCEPT ![item] = None]
        /\ g.strings = h.strings - (IF OwnsKey(h, item) THEN 1 ELSE 0)
    BY DEF Named, Heaps
  <2>2. g.key \in [Nodes -> Keys \cup {None}] /\ g.strings \in Int
    BY <1>0, <2>1
  <2>3. g.live = h.live /\ g.const = h.const /\ g \in Heaps
    BY <2>1, <2>2 DEF Named, Heaps
  <2> QED
    BY <2>1, <2>3
<1>2. New = Old \ {item}
  BY <1>0, <1>1 DEF OwnsKey
<1>3. item \in Old <=> OwnsKey(h, item)
  OBVIOUS
<1>4. IsFiniteSet(Old) /\ Cardinality(Old) \in Nat
  BY NamesFinite
<1>5. g.const \subseteq g.live /\ \A n \in Nodes \ g.live : g.key[n] = None
  BY <1>0, <1>1 DEF Named
<1>6. h.strings = Cardinality(Old)
  BY DEF Named
<1> HIDE DEF Old, New
<1>7. Cardinality(Old \ {item}) = IF item \in Old THEN Cardinality(Old) - 1 ELSE Cardinality(Old)
  BY <1>4, FS_RemoveElement
<1>8. g.strings = Cardinality(New)
  BY <1>1, <1>2, <1>3, <1>4, <1>6, <1>7
<1> QED
  BY <1>1, <1>5, <1>8 DEF Named, New

\* What is left of h when S was freed.
FreedFrom(h, S, g) ==
  /\ g \in Heaps
  /\ g.live = h.live \ S /\ g.ref = h.ref \ S /\ g.const = h.const \ S
  /\ g.strings = h.strings - Cardinality({n \in S : OwnsKey(h, n)})
  /\ \A m \in Nodes :
       /\ g.next[m] = IF m \in S THEN None ELSE h.next[m]
       /\ g.prev[m] = IF m \in S THEN None ELSE h.prev[m]
       /\ g.key[m] = IF m \in S THEN None ELSE h.key[m]
       /\ m \in S => g.child[m] = None
       /\ m \notin S \cup h.ref => g.child[m] = h.child[m]

LEMMA ReleasedFields ==
  ASSUME NEW h \in Heaps, NEW S \in SUBSET Nodes
  PROVE  FreedFrom(h, S, Released(h, S))
<1> DEFINE g == Released(h, S)
           Cleared(f) == [n \in Nodes |-> IF n \in S THEN None ELSE f[n]]
           Spoiled(f) == [n \in Nodes |-> IF n \in h.ref /\ f[n] \in S THEN Stale ELSE f[n]]
           lostNames  == Cardinality({n \in S : OwnsKey(h, n)})
<1>1. {n \in S : OwnsKey(h, n)} \in SUBSET Nodes
  OBVIOUS
<1>2. lostNames \in Int
  BY <1>1, ItemsAssumption, FS_Subset, FS_CardinalityType
<1> HIDE DEF lostNames
<1>3. g = [h EXCEPT !.live = h.live \ S, !.kind = Cleared(h.kind), !.child = Cleared(Spoiled(h.child)),
                    !.next = Cleared(h.next), !.prev = Cleared(h.prev), !.key = Cleared(h.key),
                    !.const = h.const \ S, !.ref = h.ref \ S, !.strings = h.strings - lostNames]
  BY DEF Released, Heaps, lostNames
<1>4. /\ h.live \ S \in SUBSET Nodes /\ h.const \ S \in SUBSET Nodes /\ h.ref \ S \in SUBSET Nodes
      /\ Cleared(h.kind) \in [Nodes -> Kinds \cup Keys \cup {None}]
      /\ Cleared(Spoiled(h.child)) \in [Nodes -> Pointers \cup {Stale}]
      /\ Cleared(h.next) \in [Nodes -> Pointers] /\ Cleared(h.prev) \in [Nodes -> Pointers]
      /\ Cleared(h.key) \in [Nodes -> Keys \cup {None}] /\ h.strings - lostNames \in Int
  BY <1>2 DEF Heaps, Pointers
<1>5. /\ g.live = h.live \ S /\ g.ref = h.ref \ S /\ g.const = h.const \ S
      /\ g.strings = h.strings - lostNames
      /\ g.next = Cleared(h.next) /\ g.prev = Cleared(h.prev) /\ g.key = Cleared(h.key)
      /\ g.child = Cleared(Spoiled(h.child)) /\ g.kind = Cleared(h.kind)
  BY <1>3 DEF Heaps
<1>6. g \in Heaps
  BY <1>3, <1>4 DEF Heaps
<1>7. \A m \in Nodes :
        /\ g.next[m] = IF m \in S THEN None ELSE h.next[m]
        /\ g.prev[m] = IF m \in S THEN None ELSE h.prev[m]
        /\ g.key[m] = IF m \in S THEN None ELSE h.key[m]
        /\ m \in S => g.child[m] = None
        /\ m \notin S \cup h.ref => g.child[m] = h.child[m]
  BY <1>5
<1> QED
  BY <1>5, <1>6, <1>7 DEF lostNames, FreedFrom

LEMMA ReleasedNames ==
  ASSUME NEW h, Named(h), NEW S \in SUBSET h.live
  PROVE  Named(Released(h, S))
<1> DEFINE g    == Released(h, S)
           Old  == {n \in h.live : OwnsKey(h, n)}
           Gone == {n \in S : OwnsKey(h, n)}
           New  == {n \in g.live : OwnsKey(g, n)}
<1>0. h \in Heaps /\ S \in SUBSET Nodes /\ h.live \in SUBSET Nodes
  BY DEF Named, Heaps
<1>1. /\ g \in Heaps /\ g.live = h.live \ S /\ g.const = h.const \ S
      /\ g.strings = h.strings - Cardinality(Gone)
      /\ \A m \in Nodes : g.key[m] = IF m \in S THEN None ELSE h.key[m]
  BY <1>0, ReleasedFields DEF FreedFrom
<1> HIDE DEF g
<1>2. New = Old \ Gone /\ Old \cap Gone = Gone
  BY <1>0, <1>1 DEF OwnsKey
<1>3. IsFiniteSet(Old) /\ Cardinality(Old) \in Nat /\ h.strings = Cardinality(Old)
  BY NamesFinite DEF Named
<1>4. g.const \subseteq g.live /\ \A n \in Nodes \ g.live : g.key[n] = None
  BY <1>0, <1>1 DEF Named
<1> HIDE DEF Old, New, Gone
<1>5. Cardinality(Old \ Gone) = Cardinality(Old) - Cardinality(Old \cap Gone)
  BY <1>3, FS_Difference
<1>6. g.strings = Cardinality(New)
  BY <1>1, <1>2, <1>3, <1>5
<1> QED
  BY <1>1, <1>4, <1>6 DEF Named, New, g

LEMMA DeletedGood ==
  ASSUME NEW h, NEW R, NEW o, Good(h, R, o), NEW n \in R
  PROVE  /\ \E q : Good(Deleted(h, n), R \ {n}, q)
         /\ Deleted(h, n).live = h.live \ Visited(h, n)
         /\ Deleted(h, n).ref = h.ref \ Visited(h, n)
<1> DEFINE V == Visited(h, n)
           g == Released(h, V)
<1>1. V \in SUBSET h.live /\ V \in SUBSET Nodes /\ h \in Heaps
  BY VisitedBelow DEF Good, Named, Heaps
<1> HIDE DEF V
<1>2. /\ g \in Heaps /\ g.live = h.live \ V /\ g.ref = h.ref \ V
      /\ \A m \in Nodes :
           /\ g.next[m] = IF m \in V THEN None ELSE h.next[m]
           /\ g.prev[m] = IF m \in V THEN None ELSE h.prev[m]
           /\ m \in V => g.child[m] = None
           /\ m \notin V \cup h.ref => g.child[m] = h.child[m]
  <2>1. FreedFrom(h, V, g)
    BY <1>1, ReleasedFields
  <2> QED
    BY <2>1 DEF FreedFrom
<1>3. Named(g)
  BY <1>1, ReleasedNames DEF Good
<1>4. /\ g.child \in [Nodes -> Pointers \cup {Stale}]
      /\ g.next \in [Nodes -> Pointers] /\ g.prev \in [Nodes -> Pointers]
  BY <1>2 DEF Heaps
<1> HIDE DEF g
<1>5. Shape(g, R \ {n}, [m \in Nodes |-> IF m \in V THEN None ELSE o[m]])
  BY <1>2, <1>4, DeletedShape DEF Good, V
<1> QED
  BY <1>2, <1>3, <1>5 DEF Deleted, Good, g, V

LEMMA AppendedGood ==
  ASSUME NEW h, NEW R, NEW o, Good(h, R, o),
         NEW item \in R, NEW p \in h.live \ h.ref, p \notin Visited(h, item)
  PROVE  /\ \E q : Good(Appended(h, p, item), R \ {item}, q)
         /\ Appended(h, p, item).ref = h.ref
<1> DEFINE g     == Appended(h, p, item)
           first == h.child[p]
           last  == h.prev[first]
<1>0. /\ h \in Heaps /\ item \in Nodes /\ p \in Nodes /\ h.next[item] = None
      /\ h.child \in [Nodes -> Pointers \cup {Stale}]
      /\ h.next \in [Nodes -> Pointers] /\ h.prev \in [Nodes -> Pointers]
  BY DEF Good, Named, Heaps, Shape, Wired, Placed, Loose
<1>1. CASE first = None
  <2> DEFINE child == [h.child EXCEPT ![p] = item]
             prev  == [h.prev EXCEPT ![item] = item]
  <2>1. g = [h EXCEPT !.child = child, !.next = h.next, !.prev = prev]
    <3>1. [h.next EXCEPT ![item] = None] = h.next
      BY <1>0
    <3> QED
      BY <1>0, <1>1, <3>1 DEF Appended, Heaps
  <2>2. child \in [Nodes -> Pointers \cup {Stale}] /\ prev \in [Nodes -> Pointers]
    BY <1>0 DEF Pointers
  <2> HIDE DEF child, prev, g
  <2>3. /\ g \in Heaps /\ g.live = h.live /\ g.ref = h.ref /\ g.child = child
        /\ g.next = h.next /\ g.prev = prev
        /\ g.key = h.key /\ g.const = h.const /\ g.strings = h.strings
    BY <1>0, <2>1, <2>2 DEF Heaps
  <2>4. Named(g)
    BY <2>3, SameNames DEF Good
  <2>5. Shape(g, R \ {item}, [o EXCEPT ![item] = p])
    BY <1>1, <2>3, JoinedAlone DEF Good, child, prev
  <2> QED
    BY <2>3, <2>4, <2>5 DEF Good, g
<1>2. CASE first # None
  <2> DEFINE next == [h.next EXCEPT ![last] = item]
             prev == [h.prev EXCEPT ![item] = last, ![first] = item]
  <2>0. first \in Nodes /\ last \in Nodes /\ last # None
    BY <1>2, ItemsAssumption DEF Good, Shape, Heads
  <2>1. g = [h EXCEPT !.child = h.child, !.next = next, !.prev = prev]
    BY <1>0, <1>2, <2>0 DEF Appended, Heaps
  <2>2. next \in [Nodes -> Pointers] /\ prev \in [Nodes -> Pointers]
    BY <1>0, <2>0 DEF Pointers
  <2> HIDE DEF next, prev, g
  <2>3. /\ g \in Heaps /\ g.live = h.live /\ g.ref = h.ref /\ g.child = h.child
        /\ g.next = next /\ g.prev = prev
        /\ g.key = h.key /\ g.const = h.const /\ g.strings = h.strings
    BY <1>0, <2>1, <2>2 DEF Heaps
  <2>4. Named(g)
    BY <2>3, SameNames DEF Good
  <2>5. Shape(g, R \ {item}, [o EXCEPT ![item] = p])
    BY <1>2, <2>3, JoinedLast DEF Good, next, prev
  <2> QED
    BY <2>3, <2>4, <2>5 DEF Good, g
<1> QED
  BY <1>1, <1>2

DetachedFrom(h, p, item, g) ==
  /\ g \in Heaps
  /\ g.live = h.live /\ g.ref = h.ref /\ g.kind = h.kind
  /\ g.key = h.key /\ g.const = h.const /\ g.strings = h.strings
  /\ \A n \in Nodes :
       /\ g.child[n] = IF n = p /\ item = h.child[p] THEN h.next[item] ELSE h.child[n]
       /\ g.next[n] = IF n = item THEN None
                      ELSE IF item # h.child[p] /\ n = h.prev[item] THEN h.next[item] ELSE h.next[n]
       /\ g.prev[n] = IF n = item THEN None
                      ELSE IF n \in Behind(h, p, item) THEN h.prev[item] ELSE h.prev[n]

LEMMA DetachedFields ==
  ASSUME NEW h \in Heaps, NEW p \in Nodes, NEW item \in Nodes, h.child[p] \in Pointers
  PROVE  DetachedFrom(h, p, item, Detached(h, p, item))
<1> DEFINE g     == Detached(h, p, item)
           first == item = h.child[p]
           back  == Behind(h, p, item)
           next  == [n \in Nodes |-> IF n # item /\ ~first /\ n = h.prev[item] THEN h.next[item]
                                     ELSE h.next[n]]
           prev  == [n \in Nodes |-> IF n \in back THEN h.prev[item] ELSE h.prev[n]]
           child == [h.child EXCEPT ![p] = IF first THEN h.next[item] ELSE h.child[p]]
<1>2. /\ next \in [Nodes -> Pointers] /\ prev \in [Nodes -> Pointers]
      /\ child \in [Nodes -> Pointers \cup {Stale}]
  BY DEF Heaps
<1>1. g = [h EXCEPT !.child = child, !.next = [next EXCEPT ![item] = None],
                    !.prev = [prev EXCEPT ![item] = None]]
  BY DEF Detached, Relinked, Heaps
<1> HIDE DEF next, prev, child, g
<1>3. [next EXCEPT ![item] = None] \in [Nodes -> Pointers] /\ [prev EXCEPT ![item] = None] \in [Nodes -> Pointers]
  BY <1>2 DEF Pointers
<1>4. /\ g \in Heaps /\ g.live = h.live /\ g.ref = h.ref /\ g.kind = h.kind
      /\ g.key = h.key /\ g.const = h.const /\ g.strings = h.strings
      /\ g.next = [next EXCEPT ![item] = None] /\ g.prev = [prev EXCEPT ![item] = None]
      /\ g.child = child
  BY <1>1, <1>2, <1>3 DEF Heaps
<1>5. \A n \in Nodes :
        /\ g.child[n] = IF n = p /\ first THEN h.next[item] ELSE h.child[n]
        /\ g.next[n] = IF n = item THEN None ELSE IF ~first /\ n = h.prev[item] THEN h.next[item] ELSE h.next[n]
        /\ g.prev[n] = IF n = item THEN None ELSE IF n \in back THEN h.prev[item] ELSE h.prev[n]
  <2>1. \A n \in Nodes : n # item => g.next[n] = next[n] /\ g.prev[n] = prev[n]
    BY <1>2, <1>4
  <2>2. g.next[item] = None /\ g.prev[item] = None
    BY <1>2, <1>4
  <2> QED
    BY <1>4, <2>1, <2>2 DEF next, prev, child, Heaps
<1> QED
  BY <1>4, <1>5 DEF g, DetachedFrom

LEMMA DetachedFromGood ==
  ASSUME NEW h, NEW R, NEW o, Good(h, R, o), NEW item \in Nodes, NEW p \in Nodes, o[item] = p,
         NEW g, DetachedFrom(h, p, item, g)
  PROVE  Good(g, R \cup {item}, [o EXCEPT ![item] = None])
<1>1. /\ g \in Heaps
      /\ g.live = h.live /\ g.ref = h.ref /\ g.kind = h.kind
      /\ g.key = h.key /\ g.const = h.const /\ g.strings = h.strings
      /\ \A n \in Nodes :
           /\ g.child[n] = IF n = p /\ item = h.child[p] THEN h.next[item] ELSE h.child[n]
           /\ g.next[n] = IF n = item THEN None
                          ELSE IF item # h.child[p] /\ n = h.prev[item] THEN h.next[item]
                          ELSE h.next[n]
           /\ g.prev[n] = IF n = item THEN None
                          ELSE IF n \in Behind(h, p, item) THEN h.prev[item] ELSE h.prev[n]
  BY DEF DetachedFrom
<1>2. /\ g.child \in [Nodes -> Pointers \cup {Stale}]
      /\ g.next \in [Nodes -> Pointers] /\ g.prev \in [Nodes -> Pointers]
  BY <1>1 DEF Heaps
<1>3. Named(g)
  BY <1>1, SameNames DEF Good
<1>4. Shape(g, R \cup {item}, [o EXCEPT ![item] = None])
  BY <1>1, <1>2, Left DEF Good
<1> QED
  BY <1>3, <1>4 DEF Good

LEMMA DetachedGood ==
  ASSUME NEW h, NEW R, NEW o, Good(h, R, o), NEW item \in Nodes, NEW p \in Nodes, o[item] = p
  PROVE  /\ \E q : Good(Detached(h, p, item), R \cup {item}, q)
         /\ Detached(h, p, item).ref = h.ref
<1>1. h \in Heaps /\ h.child[p] \in Pointers
  <2>1. p \in h.live \ h.ref
    BY ItemsAssumption DEF Good, Shape, Placed
  <2> QED
    BY <2>1, ChildTyped DEF Good, Named
<1>2. DetachedFrom(h, p, item, Detached(h, p, item))
  BY <1>1, DetachedFields
<1>3. Good(Detached(h, p, item), R \cup {item}, [o EXCEPT ![item] = None])
  BY <1>2, DetachedFromGood
<1> QED
  BY <1>2, <1>3 DEF DetachedFrom

-----------------------------------------------------------------------------
(* Walks along a list.                                                     *)

After(h, m) == IF m = None THEN None ELSE h.next[m]

IsWalk(h, x, n, w) == w = [i \in 0..n |-> IF i = 0 THEN x ELSE After(h, w[i - 1])]

\* Walks of any lengths from one item agree.
LEMMA WalksAgree ==
  ASSUME NEW h, NEW x, NEW n \in Nat, NEW m \in Nat, NEW v, NEW w,
         IsWalk(h, x, n, v), IsWalk(h, x, m, w)
  PROVE  \A i \in 0..n : i \in 0..m => v[i] = w[i]
<1> SUFFICES ASSUME NEW k \in 0..n, k \in 0..m, v[k] # w[k]
             PROVE  FALSE
  OBVIOUS
<1> DEFINE Bad == {i \in 0..n : i \in 0..m /\ v[i] # w[i]}
<1>1. Bad \in SUBSET Nat /\ k \in Bad
  OBVIOUS
<1>2. PICK i \in Bad : \A j \in Bad : i <= j
  BY <1>1, LeastExists
<1>3. CASE i = 0
  BY <1>2, <1>3 DEF IsWalk
<1>4. CASE i # 0
  <2>1. i - 1 \in 0..n /\ i - 1 \in 0..m /\ i - 1 < i
    BY <1>2, <1>4
  <2>2. v[i - 1] = w[i - 1]
    BY <1>2, <2>1
  <2>3. v[i] = After(h, v[i - 1]) /\ w[i] = After(h, w[i - 1])
    BY <1>2, <1>4 DEF IsWalk
  <2> QED
    BY <1>2, <2>2, <2>3
<1> QED
  BY <1>3, <1>4

LEMMA WalksExist ==
  ASSUME NEW h, NEW x, NEW n \in Nat
  PROVE  \E w : IsWalk(h, x, n, w)
<1> SUFFICES ASSUME ~ \E w : IsWalk(h, x, n, w)
             PROVE  FALSE
  OBVIOUS
<1> DEFINE None0 == {k \in Nat : ~ \E w : IsWalk(h, x, k, w)}
<1>1. None0 \in SUBSET Nat /\ n \in None0
  OBVIOUS
<1>2. PICK k \in None0 : \A j \in None0 : k <= j
  BY <1>1, LeastExists
<1>3. CASE k = 0
  <2>1. IsWalk(h, x, 0, [i \in 0..0 |-> x])
    BY DEF IsWalk
  <2> QED
    BY <1>2, <1>3, <2>1
<1>4. CASE k # 0
  <2>1. k - 1 \in Nat /\ k - 1 < k
    BY <1>2, <1>4
  <2>2. PICK w : IsWalk(h, x, k - 1, w)
    BY <1>2, <2>1
  <2> DEFINE v == [i \in 0..k |-> IF i = 0 THEN x ELSE After(h, w[i - 1])]
  <2>3. \A i \in 0..(k - 1) : v[i] = w[i]
    <3> TAKE i \in 0..(k - 1)
    <3>1. w[i] = IF i = 0 THEN x ELSE After(h, w[i - 1])
      BY <2>2 DEF IsWalk
    <3>2. i \in 0..k
      BY <1>2
    <3> QED
      BY <3>1, <3>2
  <2>4. \A i \in 0..k : i # 0 => v[i - 1] = w[i - 1]
    <3> HIDE DEF v
    <3> TAKE i \in 0..k
    <3>1. i # 0 => i - 1 \in 0..(k - 1)
      BY <1>2
    <3> QED
      BY <2>3, <3>1
  <2>5. IsWalk(h, x, k, v)
    BY <2>4 DEF IsWalk
  <2> QED
    BY <1>2, <2>5
<1> QED
  BY <1>3, <1>4

\* The function that get_array_item computes.
LEMMA ItemAtSteps ==
  ASSUME NEW h, NEW a
  PROVE  /\ ItemAt(h, a, 0) = h.child[a]
         /\ \A i \in Nat : ItemAt(h, a, i + 1) = After(h, ItemAt(h, a, i))
<1> DEFINE W(i)  == CHOOSE w : IsWalk(h, h.child[a], i, w)
           Is(g) == g = [i \in Nat |-> IF i = 0 THEN h.child[a]
                                       ELSE IF g[i - 1] = None THEN None ELSE h.next[g[i - 1]]]
           at    == CHOOSE g : Is(g)
           walk  == [i \in Nat |-> W(i)[i]]
<1>1. \A i \in Nat : IsWalk(h, h.child[a], i, W(i))
  BY WalksExist
<1>2. ASSUME NEW i \in Nat
      PROVE  W(i)[i] = IF i = 0 THEN h.child[a] ELSE After(h, W(i)[i - 1])
  <2>1. ASSUME NEW w, IsWalk(h, h.child[a], i, w)
        PROVE  w[i] = IF i = 0 THEN h.child[a] ELSE After(h, w[i - 1])
    <3>1. i \in 0..i
      OBVIOUS
    <3> QED
      BY <2>1, <3>1 DEF IsWalk
  <2> HIDE DEF W
  <2> QED
    BY <1>1, <2>1
<1>3. \A i \in Nat : i # 0 => W(i)[i - 1] = W(i - 1)[i - 1]
  <2> SUFFICES ASSUME NEW i \in Nat, i # 0
               PROVE  W(i)[i - 1] = W(i - 1)[i - 1]
    OBVIOUS
  <2>1. i - 1 \in Nat /\ i - 1 \in 0..i /\ i - 1 \in 0..(i - 1)
    OBVIOUS
  <2>2. IsWalk(h, h.child[a], i, W(i)) /\ IsWalk(h, h.child[a], i - 1, W(i - 1))
    BY <1>1, <2>1
  <2> HIDE DEF W
  <2> QED
    BY <2>1, <2>2, WalksAgree
<1> HIDE DEF W
<1>4. \A i \in Nat : walk[i] = IF i = 0 THEN h.child[a] ELSE After(h, walk[i - 1])
  BY <1>2, <1>3
<1>5. Is(walk)
  BY <1>4 DEF After
<1>6. Is(at)
  BY <1>5
<1>7. \A i \in Nat : ItemAt(h, a, i) = at[i]
  BY DEF ItemAt
<1> HIDE DEF at
<1>8. at[0] = h.child[a] /\ \A i \in Nat : at[i + 1] = After(h, at[i])
  BY <1>6 DEF After
<1> QED
  BY <1>7, <1>8

\* What is found at an index is a child.
LEMMA ItemAtOwned ==
  ASSUME NEW h, NEW R, NEW o, Shape(h, R, o), NEW a \in h.live \ h.ref, NEW index \in Nat,
         ItemAt(h, a, index) # None
  PROVE  ItemAt(h, a, index) \in Nodes /\ o[ItemAt(h, a, index)] = a
<1> DEFINE Child(i) == ItemAt(h, a, i) # None => ItemAt(h, a, i) \in Nodes /\ o[ItemAt(h, a, i)] = a
           Bad == {i \in Nat : ~Child(i)}
<1>0. a # None /\ a \in Nodes
  BY ItemsAssumption DEF Shape, Wired
<1>1. Child(0)
  BY ItemAtSteps DEF Shape, Heads
<1>2. ASSUME NEW i \in Nat, Child(i)
      PROVE  Child(i + 1)
  <2>1. ItemAt(h, a, i + 1) = After(h, ItemAt(h, a, i))
    BY ItemAtSteps
  <2> QED
    BY <1>0, <1>2, <2>1 DEF After, Shape, Wired, Linked, Pointers
<1> HIDE DEF Child
<1>3. Bad = {}
  <2> SUFFICES ASSUME Bad # {}
               PROVE  FALSE
    OBVIOUS
  <2>1. PICK i \in Bad : \A j \in Bad : i <= j
    BY LeastExists
  <2>2. i # 0 /\ i - 1 \in Nat /\ i - 1 < i /\ (i - 1) + 1 = i
    BY <1>1, <2>1
  <2>3. Child(i - 1)
    BY <2>1, <2>2
  <2>4. Child((i - 1) + 1)
    BY <1>2, <2>2, <2>3
  <2> QED
    BY <2>1, <2>2, <2>4
<1>4. Child(index)
  BY <1>3
<1> QED
  BY <1>4 DEF Child

LEMMA MemberOwned ==
  ASSUME NEW h, NEW R, NEW o, Shape(h, R, o), NEW p \in h.live \ h.ref, NEW k, NEW strict,
         Member(h, p, k, strict) # None
  PROVE  Member(h, p, k, strict) \in Nodes /\ o[Member(h, p, k, strict)] = p
<1> DEFINE m == Member(h, p, k, strict)
<1>1. m \in Nodes /\ \E i \in Indices : m = ItemAt(h, p, i)
  BY DEF Member
<1>2. Indices \subseteq Nat
  BY ItemsAssumption, FS_CardinalityType DEF Indices
<1>3. m # None
  OBVIOUS
<1> HIDE DEF m
<1> QED
  BY <1>1, <1>2, <1>3, ItemAtOwned DEF m

-----------------------------------------------------------------------------
(* Inserting and replacing.                                                *)

\* What insertion before a child is, whether or not that is the first.
InsertedBefore(h, p, after, item) ==
  [h EXCEPT
     !.child = [n \in Nodes |-> IF n = p /\ after = h.child[p] THEN item ELSE h.child[n]],
     !.next  = [n \in Nodes |-> IF n = item THEN after
                                ELSE IF after # h.child[p] /\ n = h.prev[after] THEN item
                                ELSE h.next[n]],
     !.prev  = [n \in Nodes |-> IF n = item THEN h.prev[after]
                                ELSE IF n = after THEN item ELSE h.prev[n]]]

LEMMA BeforeFields ==
  ASSUME NEW h \in Heaps, NEW p \in Nodes, NEW after \in Nodes, NEW item \in Nodes
  PROVE  BeforeFrom(h, p, after, item, InsertedBefore(h, p, after, item))
<1> DEFINE b     == InsertedBefore(h, p, after, item)
           child == [n \in Nodes |-> IF n = p /\ after = h.child[p] THEN item ELSE h.child[n]]
           next  == [n \in Nodes |-> IF n = item THEN after
                                     ELSE IF after # h.child[p] /\ n = h.prev[after] THEN item
                                     ELSE h.next[n]]
           prev  == [n \in Nodes |-> IF n = item THEN h.prev[after]
                                     ELSE IF n = after THEN item ELSE h.prev[n]]
<1>1. b = [h EXCEPT !.child = child, !.next = next, !.prev = prev]
  BY DEF InsertedBefore
<1>2. /\ next \in [Nodes -> Pointers] /\ prev \in [Nodes -> Pointers]
      /\ child \in [Nodes -> Pointers \cup {Stale}]
  BY DEF Heaps, Pointers
<1>3. \A n \in Nodes :
        /\ child[n] = IF n = p /\ after = h.child[p] THEN item ELSE h.child[n]
        /\ next[n] = IF n = item THEN after
                     ELSE IF after # h.child[p] /\ n = h.prev[after] THEN item ELSE h.next[n]
        /\ prev[n] = IF n = item THEN h.prev[after] ELSE IF n = after THEN item ELSE h.prev[n]
  OBVIOUS
<1> HIDE DEF child, next, prev, b
<1>4. /\ b \in Heaps /\ b.live = h.live /\ b.ref = h.ref /\ b.kind = h.kind
      /\ b.key = h.key /\ b.const = h.const /\ b.strings = h.strings
      /\ b.child = child /\ b.next = next /\ b.prev = prev
  BY <1>1, <1>2 DEF Heaps
<1> QED
  BY <1>3, <1>4 DEF b, BeforeFrom

LEMMA BeforeGood ==
  ASSUME NEW h, NEW R, NEW o, Good(h, R, o),
         NEW item \in R, NEW p \in h.live \ h.ref, p \notin Visited(h, item),
         NEW after \in Nodes, o[after] = p
  PROVE  Good(InsertedBefore(h, p, after, item), R \ {item}, [o EXCEPT ![item] = p])
<1> DEFINE b == InsertedBefore(h, p, after, item)
<1>1. h \in Heaps /\ item \in Nodes /\ p \in Nodes
  BY DEF Good, Named, Shape, Wired
<1>2. BeforeFrom(h, p, after, item, b)
  BY <1>1, BeforeFields
<1> HIDE DEF b
<1>3. Named(b)
  BY <1>2, SameNames DEF Good, BeforeFrom
<1>4. Shape(b, R \ {item}, [o EXCEPT ![item] = p])
  BY <1>2, JoinedBefore DEF Good
<1> QED
  BY <1>3, <1>4 DEF Good, b

LEMMA InsertedGood ==
  ASSUME NEW h, NEW R, NEW o, Good(h, R, o),
         NEW item \in R, NEW p \in h.live \ h.ref, p \notin Visited(h, item), NEW index \in Nat
  PROVE  /\ \E q : Good(Inserted(h, p, index, item), R \ {item}, q)
         /\ Inserted(h, p, index, item).ref = h.ref
<1> DEFINE after  == ItemAt(h, p, index)
           before == h.prev[after]
           g      == Inserted(h, p, index, item)
           b      == InsertedBefore(h, p, after, item)
<1>0. /\ h \in Heaps /\ item \in Nodes /\ p \in Nodes /\ None \notin Nodes /\ o[item] = None
  BY ItemsAssumption DEF Good, Named, Shape, Wired, Placed
<1>1. CASE after = None
  <2>1. g = Appended(h, p, item)
    BY <1>1 DEF Inserted
  <2>2. /\ \E q : Good(Appended(h, p, item), R \ {item}, q)
        /\ Appended(h, p, item).ref = h.ref
    BY AppendedGood
  <2> HIDE DEF g
  <2> QED
    BY <2>1, <2>2 DEF g
<1>2. CASE after # None
  <2>1. after \in Nodes /\ o[after] = p
    BY <1>2, ItemAtOwned DEF Good
  <2>2. /\ before \in Nodes /\ o[before] = p /\ before # None /\ before # item /\ after # item
    BY <1>0, <2>1 DEF Good, Shape, Linked
  <2> HIDE DEF after
  <2> DEFINE child == [n \in Nodes |-> IF n = p /\ after = h.child[p] THEN item ELSE h.child[n]]
             next  == [n \in Nodes |-> IF n = item THEN after
                                       ELSE IF after # h.child[p] /\ n = h.prev[after] THEN item
                                       ELSE h.next[n]]
             prev  == [n \in Nodes |-> IF n = item THEN h.prev[after]
                                       ELSE IF n = after THEN item ELSE h.prev[n]]
  <2>3. g = b
    <3>0. b = [h EXCEPT !.child = child, !.next = next, !.prev = prev]
      BY DEF InsertedBefore
    <3>p. [h.prev EXCEPT ![item] = before, ![after] = item] = prev
      BY <1>0, <2>1, <2>2 DEF Heaps
    <3>1. CASE after = h.child[p]
      <4>1. g = [h EXCEPT !.child[p] = item, !.next[item] = after,
                          !.prev = [h.prev EXCEPT ![item] = before, ![after] = item]]
        BY <1>0, <1>2, <3>1 DEF Inserted, after, Heaps
      <4>2. [h.next EXCEPT ![item] = after] = next /\ [h.child EXCEPT ![p] = item] = child
        BY <1>0, <3>1 DEF Heaps
      <4> HIDE DEF child, next, prev, g, b
      <4>3. g = [h EXCEPT !.child = child, !.next = next, !.prev = prev]
        BY <1>0, <3>p, <4>1, <4>2 DEF Heaps
      <4> QED
        BY <3>0, <4>3
    <3>2. CASE after # h.child[p]
      <4>1. g = [h EXCEPT !.child = h.child, !.next = [h.next EXCEPT ![item] = after, ![before] = item],
                          !.prev = [h.prev EXCEPT ![item] = before, ![after] = item]]
        BY <1>0, <1>2, <2>2, <3>2 DEF Inserted, after, Heaps
      <4>2. [h.next EXCEPT ![item] = after, ![before] = item] = next
        BY <1>0, <2>2, <3>2 DEF Heaps
      <4>3. h.child = child
        BY <1>0, <3>2 DEF Heaps
      <4> HIDE DEF child, next, prev, g, b
      <4> QED
        BY <3>0, <3>p, <4>1, <4>2, <4>3
    <3> QED
      BY <3>1, <3>2
  <2>4. Good(b, R \ {item}, [o EXCEPT ![item] = p])
    BY <2>1, BeforeGood
  <2>5. b.ref = h.ref
    BY <1>0, <2>1, BeforeFields DEF BeforeFrom
  <2> QED
    BY <2>3, <2>4, <2>5
<1> QED
  BY <1>1, <1>2

\* A replacement in place is an insertion before the item and its detachment.
LEMMA ReplacedLinks ==
  ASSUME NEW h, NEW R, NEW o, Good(h, R, o),
         NEW new \in R, NEW p \in h.live \ h.ref, NEW item \in Nodes, o[item] = p
  PROVE  LET alone == item = h.child[p] /\ h.prev[item] = item
             taken == [h EXCEPT !.next[new] = h.next[item],
                                !.prev[new] = IF alone THEN new ELSE h.prev[item]]
             put   == Relinked(taken, p, item, new, new)
         IN  DetachedFrom(InsertedBefore(h, p, item, new), p, item,
                          [put EXCEPT !.next[item] = None, !.prev[item] = None])
<1> DEFINE alone == item = h.child[p] /\ h.prev[item] = item
           first == item = h.child[p]
           taken == [h EXCEPT !.next[new] = h.next[item],
                              !.prev[new] = IF alone THEN new ELSE h.prev[item]]
           put   == Relinked(taken, p, item, new, new)
           g     == [put EXCEPT !.next[item] = None, !.prev[item] = None]
           b     == InsertedBefore(h, p, item, new)
           back  == IF h.next[item] = None /\ ~first THEN {h.child[p]} ELSE {h.next[item]} \ {None}
           child == [h.child EXCEPT ![p] = IF first THEN new ELSE h.child[p]]
           nexts == [h.next EXCEPT ![new] = h.next[item]]
           prevs == [h.prev EXCEPT ![new] = IF alone THEN new ELSE h.prev[item]]
           next  == [n \in Nodes |-> IF n # item /\ ~first /\ n = h.prev[item] THEN new ELSE nexts[n]]
           prev  == [n \in Nodes |-> IF n \in back THEN new ELSE prevs[n]]
<1>0. /\ h \in Heaps /\ new \in Nodes /\ p \in Nodes /\ None \notin Nodes
      /\ o[new] = None /\ new # item
  BY ItemsAssumption DEF Good, Named, Shape, Wired, Placed
<1>1. /\ h.child[p] \in Nodes /\ o[h.child[p]] = p
      /\ h.next[h.prev[h.child[p]]] = None
      /\ h.prev[item] \in Nodes /\ o[h.prev[item]] = p
      /\ h.next[item] \in Nodes \cup {None} /\ h.next[item] # new
      /\ h.next[item] # None => h.prev[h.next[item]] = item
      /\ h.next[item] = None => item = h.prev[h.child[p]]
      /\ ~first => h.next[h.prev[item]] = item
  <2>1. p \in h.live \ h.ref /\ h.child[p] # None
    BY <1>0 DEF Good, Shape, Placed
  <2>2. h.child[p] \in Nodes /\ o[h.child[p]] = p /\ h.next[h.prev[h.child[p]]] = None
    BY <2>1 DEF Good, Shape, Heads
  <2> QED
    BY <1>0, <2>2 DEF Good, Shape, Linked, Wired, Pointers
<1>2. h.next[item] # item
  <2> SUFFICES ASSUME h.next[item] = item
               PROVE  FALSE
    OBVIOUS
  <2> DEFINE S == {m \in Nodes : o[m] = p} \ {item}
  <2>1. ASSUME NEW m \in S
        PROVE  h.next[m] \in S \cup {None}
    BY <1>0, <1>1 DEF Good, Shape, Wired, Linked, Pointers
  <2>2. h.child[p] # item
    BY <1>0, <1>1 DEF Good, Shape, Linked
  <2>3. Along(h, o, p, S)
    BY <1>1, <2>1, <2>2 DEF Along
  <2> QED
    BY <1>0, <2>3 DEF Good, Shape, Reached
<1>3. first /\ h.next[item] = None <=> alone
  BY <1>0, <1>1
<1>4. taken \in Heaps /\ taken = [h EXCEPT !.next = nexts, !.prev = prevs]
      /\ nexts \in [Nodes -> Pointers] /\ prevs \in [Nodes -> Pointers]
  <2>1. nexts \in [Nodes -> Pointers] /\ prevs \in [Nodes -> Pointers]
    BY <1>0 DEF Heaps, Pointers
  <2>2. taken = [h EXCEPT !.next = nexts, !.prev = prevs]
    BY <1>0 DEF Heaps
  <2> HIDE DEF nexts, prevs, taken
  <2> QED
    BY <1>0, <2>1, <2>2 DEF Heaps
<1>5. /\ taken.child = h.child /\ taken.next = nexts /\ taken.prev = prevs
      /\ nexts[item] = h.next[item] /\ prevs[item] = h.prev[item]
  <2>1. nexts[item] = h.next[item] /\ prevs[item] = h.prev[item]
    BY <1>0 DEF Heaps
  <2> HIDE DEF nexts, prevs, taken
  <2> QED
    BY <1>0, <1>4, <2>1 DEF Heaps
<1>6. put = [taken EXCEPT !.next = next, !.prev = prev, !.child = child]
  <2>1. Behind(taken, p, item) = back
    BY <1>5 DEF Behind
  <2> HIDE DEF nexts, prevs, taken, back
  <2>2. Relinked(taken, p, item, new, new) =
          [taken EXCEPT
             !.next = [n \in Nodes |-> IF n # item /\ ~first /\ n = h.prev[item] THEN new ELSE nexts[n]],
             !.prev = [n \in Nodes |-> IF n \in back THEN new ELSE prevs[n]],
             !.child[p] = IF first THEN new ELSE h.child[p]]
    <3>1. Relinked(taken, p, item, new, new) =
            [taken EXCEPT
               !.next = [n \in Nodes |-> IF n # item /\ item # taken.child[p] /\ n = taken.prev[item]
                                         THEN new ELSE taken.next[n]],
               !.prev = [n \in Nodes |-> IF n \in back THEN new ELSE taken.prev[n]],
               !.child[p] = IF item = taken.child[p] THEN new ELSE taken.child[p]]
      BY <1>4, <2>1 DEF Relinked, Heaps
    <3>2. taken.child = h.child /\ taken.next = nexts /\ taken.prev = prevs /\ prevs[item] = h.prev[item]
      BY <1>5
    <3>3. /\ [n \in Nodes |-> IF n # item /\ item # taken.child[p] /\ n = taken.prev[item]
                              THEN new ELSE taken.next[n]]
             = [n \in Nodes |-> IF n # item /\ ~first /\ n = h.prev[item] THEN new ELSE nexts[n]]
          /\ [n \in Nodes |-> IF n \in back THEN new ELSE taken.prev[n]]
             = [n \in Nodes |-> IF n \in back THEN new ELSE prevs[n]]
          /\ (IF item = taken.child[p] THEN new ELSE taken.child[p])
             = (IF first THEN new ELSE h.child[p])
      BY <3>2
    <3> QED
      BY <3>1, <3>3, Zenon
  <2> QED
    BY <1>4, <1>5, <2>2 DEF Heaps
<1>7. /\ next \in [Nodes -> Pointers] /\ prev \in [Nodes -> Pointers]
      /\ child \in [Nodes -> Pointers \cup {Stale}]
  <2>1. child \in [Nodes -> Pointers \cup {Stale}]
    BY <1>0 DEF Heaps, Pointers
  <2> HIDE DEF nexts, prevs, back
  <2> QED
    BY <1>0, <1>4, <2>1 DEF Pointers
<1>8. /\ g \in Heaps /\ g.live = h.live /\ g.ref = h.ref /\ g.kind = h.kind
      /\ g.key = h.key /\ g.const = h.const /\ g.strings = h.strings
      /\ g.child = child /\ g.next = [next EXCEPT ![item] = None] /\ g.prev = [prev EXCEPT ![item] = None]
  <2>1. [next EXCEPT ![item] = None] \in [Nodes -> Pointers] /\ [prev EXCEPT ![item] = None] \in [Nodes -> Pointers]
    BY <1>7 DEF Pointers
  <2> HIDE DEF nexts, prevs, taken, next, prev, child, put
  <2>2. g = [h EXCEPT !.next = [next EXCEPT ![item] = None], !.prev = [prev EXCEPT ![item] = None],
                      !.child = child]
    BY <1>0, <1>4, <1>6 DEF Heaps
  <2> HIDE DEF g
  <2> QED
    BY <1>0, <1>7, <2>1, <2>2 DEF Heaps
<1>9. BeforeFrom(h, p, item, new, b)
  BY <1>0, BeforeFields
<1>a. /\ b.live = h.live /\ b.ref = h.ref /\ b.kind = h.kind
      /\ b.key = h.key /\ b.const = h.const /\ b.strings = h.strings
      /\ \A n \in Nodes :
           /\ b.child[n] = IF n = p /\ first THEN new ELSE h.child[n]
           /\ b.next[n] = IF n = new THEN item ELSE IF ~first /\ n = h.prev[item] THEN new ELSE h.next[n]
           /\ b.prev[n] = IF n = new THEN h.prev[item] ELSE IF n = item THEN new ELSE h.prev[n]
  BY <1>9 DEF BeforeFrom
<1>b. \A n \in Nodes :
        /\ g.child[n] = IF n = p /\ first THEN new ELSE h.child[n]
        /\ n # item => g.next[n] = IF ~first /\ n = h.prev[item] THEN new ELSE nexts[n]
        /\ n # item => g.prev[n] = IF n \in back THEN new ELSE prevs[n]
        /\ n # new => nexts[n] = h.next[n] /\ prevs[n] = h.prev[n]
  <2>1. \A n \in Nodes : n # new => nexts[n] = h.next[n] /\ prevs[n] = h.prev[n]
    BY <1>0 DEF Heaps
  <2>2. \A n \in Nodes : child[n] = IF n = p /\ first THEN new ELSE h.child[n]
    BY <1>0 DEF Heaps
  <2>3. \A n \in Nodes : /\ next[n] = IF n # item /\ ~first /\ n = h.prev[item] THEN new ELSE nexts[n]
                         /\ prev[n] = IF n \in back THEN new ELSE prevs[n]
    OBVIOUS
  <2> HIDE DEF g, nexts, prevs, next, prev, child, back
  <2> QED
    BY <1>7, <1>8, <2>1, <2>2, <2>3
<1>c. g.next[item] = None /\ g.prev[item] = None
  <2> HIDE DEF g, next, prev
  <2> QED
    BY <1>7, <1>8
<1>d. nexts[new] = h.next[item] /\ prevs[new] = IF alone THEN new ELSE h.prev[item]
  BY <1>0 DEF Heaps
<1> HIDE DEF g, b, nexts, prevs
<1>e. b.child[p] # item /\ b.prev[item] = new /\ b.next[item] = h.next[item]
  <2>1. ~first => h.prev[item] # item
    BY <1>1, <1>2
  <2> QED
    BY <1>0, <1>a, <2>1
<1>f. ASSUME NEW n \in Nodes
      PROVE  /\ g.child[n] = IF n = p /\ item = b.child[p] THEN b.next[item] ELSE b.child[n]
             /\ g.next[n] = IF n = item THEN None
                            ELSE IF item # b.child[p] /\ n = b.prev[item] THEN b.next[item] ELSE b.next[n]
             /\ g.prev[n] = IF n = item THEN None
                            ELSE IF n \in Behind(b, p, item) THEN b.prev[item] ELSE b.prev[n]
  <2>1. g.child[n] = b.child[n]
    BY <1>a, <1>b
  <2>2. n # item => g.next[n] = IF n = new THEN h.next[item] ELSE b.next[n]
    BY <1>0, <1>1, <1>a, <1>b, <1>d
  <2>3. n # item => g.prev[n] = IF n \in Behind(b, p, item) THEN new ELSE b.prev[n]
    <3>1. CASE first /\ h.next[item] = None
      <4>1. Behind(b, p, item) = {new} /\ back = {}
        BY <1>0, <1>a, <1>e, <3>1 DEF Behind
      <4> QED
        BY <1>0, <1>3, <1>a, <1>b, <1>d, <3>1, <4>1
    <3>2. CASE ~first /\ h.next[item] = None
      <4>1. Behind(b, p, item) = {h.child[p]} /\ back = {h.child[p]} /\ h.child[p] # new
        BY <1>0, <1>1, <1>a, <1>e, <3>2 DEF Behind
      <4> QED
        BY <1>0, <1>3, <1>a, <1>b, <1>d, <3>2, <4>1
    <3>3. CASE h.next[item] # None
      <4>1. Behind(b, p, item) = {h.next[item]} /\ back = {h.next[item]}
        BY <1>0, <1>1, <1>a, <1>e, <3>3 DEF Behind
      <4> QED
        BY <1>0, <1>1, <1>3, <1>a, <1>b, <1>d, <3>3, <4>1
    <3> QED
      BY <3>1, <3>2, <3>3
  <2> QED
    BY <1>c, <1>e, <2>1, <2>2, <2>3
<1>g. DetachedFrom(b, p, item, g)
  BY <1>8, <1>a, <1>f DEF DetachedFrom, g
<1> QED
  BY <1>g DEF g, b

LEMMA ReplacedGood ==
  ASSUME NEW h, NEW R, NEW o, Good(h, R, o),
         NEW new \in R, NEW p \in h.live \ h.ref, p \notin Visited(h, new),
         NEW item \in Nodes, o[item] = p
  PROVE  /\ \E q : Good(Replaced(h, p, item, new), R \ {new}, q)
         /\ h.ref \cap (R \ {new}) \subseteq Replaced(h, p, item, new).ref
<1> DEFINE alone == item = h.child[p] /\ h.prev[item] = item
           taken == [h EXCEPT !.next[new] = h.next[item],
                              !.prev[new] = IF alone THEN new ELSE h.prev[item]]
           put   == Relinked(taken, p, item, new, new)
           g     == [put EXCEPT !.next[item] = None, !.prev[item] = None]
           b     == InsertedBefore(h, p, item, new)
           q     == [o EXCEPT ![new] = p]
<1>0. /\ h \in Heaps /\ new \in Nodes /\ p \in Nodes /\ o \in Owners
      /\ o[new] = None /\ new # item /\ item \notin R
  BY ItemsAssumption DEF Good, Named, Shape, Wired, Placed
<1>1. Good(b, R \ {new}, q) /\ b.ref = h.ref
  <2>1. Good(b, R \ {new}, q)
    BY <1>0, BeforeGood
  <2>2. BeforeFrom(h, p, item, new, b)
    BY <1>0, BeforeFields
  <2> QED
    BY <2>1, <2>2 DEF BeforeFrom
<1>2. q[item] = p
  BY <1>0 DEF Owners
<1>3. DetachedFrom(b, p, item, g)
  BY ReplacedLinks
<1>4. Replaced(h, p, item, new) = Deleted(g, item)
  BY DEF Replaced
<1> HIDE DEF g, b, q
<1>5. Good(g, (R \ {new}) \cup {item}, [q EXCEPT ![item] = None]) /\ g.ref = h.ref
  BY <1>0, <1>1, <1>2, <1>3, DetachedFromGood DEF DetachedFrom
<1>6. /\ \E r : Good(Deleted(g, item), ((R \ {new}) \cup {item}) \ {item}, r)
      /\ Deleted(g, item).live = g.live \ Visited(g, item)
      /\ Deleted(g, item).ref = g.ref \ Visited(g, item)
  <2> DEFINE Q == (R \ {new}) \cup {item}
  <2>1. item \in Q /\ \E r : Good(g, Q, r)
    BY <1>5
  <2> HIDE DEF Q
  <2>2. /\ \E r : Good(Deleted(g, item), Q \ {item}, r)
        /\ Deleted(g, item).live = g.live \ Visited(g, item)
        /\ Deleted(g, item).ref = g.ref \ Visited(g, item)
    BY <2>1, DeletedGood
  <2> QED
    BY <2>2 DEF Q
<1>7. ((R \ {new}) \cup {item}) \ {item} = R \ {new}
  BY <1>0
<1>8. PICK r : Good(Deleted(g, item), R \ {new}, r)
  BY <1>6, <1>7
<1>9. R \ {new} \subseteq Deleted(g, item).live
  BY <1>8 DEF Good, Shape, Wired
<1> QED
  BY <1>4, <1>5, <1>6, <1>8, <1>9

-----------------------------------------------------------------------------
(* New items and names.                                                    *)

Fresh(h, R, o, n, refs, g) ==
  /\ Good(g, R \cup {n}, o) /\ g.live = h.live \cup {n} /\ g.ref = refs
  /\ Visited(g, n) = {n}

LEMMA NewItemGood ==
  ASSUME NEW h, NEW R, NEW o, Good(h, R, o), NEW n \in Free(h),
         NEW k \in Kinds \cup Keys \cup {None}
  PROVE  Fresh(h, R, o, n, h.ref, NewItem(h, n, k))
<1> DEFINE g == NewItem(h, n, k)
<1>0. /\ h \in Heaps /\ n \in Nodes \ h.live /\ n \notin h.ref /\ o[n] = None
      /\ h.next[n] = None /\ h.child[n] = None /\ n \notin R
  BY DEF Good, Named, Free, Shape, Wired, Placed, Loose
<1>1. /\ g \in Heaps /\ g.live = h.live \cup {n} /\ g.ref = h.ref /\ g.key = h.key
      /\ g.child = h.child /\ g.next = h.next /\ g.prev = h.prev
      /\ g.const = h.const /\ g.strings = h.strings
  <2> DEFINE live == h.live \cup {n}
             kind == [h.kind EXCEPT ![n] = k]
  <2>1. g = [h EXCEPT !.live = live, !.kind = kind]
    BY <1>0 DEF NewItem, Heaps
  <2>2. live \in SUBSET Nodes /\ kind \in [Nodes -> Kinds \cup Keys \cup {None}]
    BY <1>0 DEF Heaps
  <2> HIDE DEF kind
  <2> QED
    BY <1>0, <2>1, <2>2 DEF Heaps
<1> HIDE DEF g
<1>2. Named(g)
  BY <1>0, <1>1, NewNames DEF Good
<1>3. h.child \in [Nodes -> Pointers \cup {Stale}]
  BY <1>0 DEF Heaps
<1>4. Shape(g, R \cup {n}, o)
  BY <1>0, <1>1, <1>3, NewShape DEF Good
<1>5. Closed(g, {n})
  BY <1>0, <1>1 DEF Closed
<1>6. Visited(g, n) = {n}
  <2>1. n \in Visited(g, n)
    BY <1>0, <1>4, VisitedClosed
  <2> QED
    BY <1>0, <1>5, <2>1, VisitedLeast
<1> QED
  BY <1>1, <1>2, <1>4, <1>6 DEF Good, g, Fresh

\* A new item that refers to the children of others.
Referring(h, n, k, child, named) ==
  [h EXCEPT !.live = h.live \cup {n}, !.kind = [h.kind EXCEPT ![n] = k],
            !.child = [h.child EXCEPT ![n] = child], !.ref = h.ref \cup {n},
            !.const = IF named THEN h.const \cup {n} ELSE h.const]

LEMMA NewReferenceGood ==
  ASSUME NEW h, NEW R, NEW o, Good(h, R, o), NEW n \in Free(h),
         NEW k \in Kinds \cup Keys \cup {None}, NEW child \in Pointers \cup {Stale},
         NEW named \in BOOLEAN
  PROVE  Fresh(h, R, o, n, h.ref \cup {n}, Referring(h, n, k, child, named))
<1> DEFINE g == Referring(h, n, k, child, named)
<1>0. /\ h \in Heaps /\ n \in Nodes \ h.live /\ n \notin h.ref /\ o[n] = None
      /\ h.next[n] = None /\ h.child[n] = None /\ n \notin R
      /\ h.child \in [Nodes -> Pointers \cup {Stale}]
  BY DEF Good, Named, Free, Shape, Wired, Placed, Loose
<1>1. /\ g \in Heaps /\ g.live = h.live \cup {n} /\ g.ref = h.ref \cup {n} /\ g.key = h.key
      /\ g.child = [h.child EXCEPT ![n] = child] /\ g.next = h.next /\ g.prev = h.prev
      /\ g.const = (IF named THEN h.const \cup {n} ELSE h.const) /\ g.strings = h.strings
  <2> DEFINE live  == h.live \cup {n}
             kind  == [h.kind EXCEPT ![n] = k]
             kids  == [h.child EXCEPT ![n] = child]
             refs  == h.ref \cup {n}
             const == IF named THEN h.const \cup {n} ELSE h.const
  <2>1. g = [h EXCEPT !.live = live, !.kind = kind, !.child = kids, !.ref = refs, !.const = const]
    BY DEF Referring
  <2>2. /\ live \in SUBSET Nodes /\ kind \in [Nodes -> Kinds \cup Keys \cup {None}]
        /\ kids \in [Nodes -> Pointers \cup {Stale}] /\ refs \in SUBSET Nodes
        /\ const \in SUBSET Nodes
    BY <1>0 DEF Heaps
  <2> HIDE DEF live, kind, kids, refs, const
  <2>3. /\ g \in Heaps /\ g.live = live /\ g.ref = refs /\ g.key = h.key
        /\ g.child = kids /\ g.next = h.next /\ g.prev = h.prev
        /\ g.const = const /\ g.strings = h.strings
    BY <1>0, <2>1, <2>2 DEF Heaps
  <2> QED
    BY <2>3 DEF live, kids, refs, const
<1> HIDE DEF g
<1>2. Named(g)
  BY <1>0, <1>1, NewNames DEF Good
<1>3. /\ g.child \in [Nodes -> Pointers \cup {Stale}]
      /\ \A m \in Nodes : m # n => g.child[m] = h.child[m]
      /\ g.ref \ {n} = h.ref /\ n \in g.ref
  BY <1>0, <1>1 DEF Heaps
<1>4. Shape(g, R \cup {n}, o)
  BY <1>0, <1>1, <1>3, NewShape DEF Good
<1>5. Closed(g, {n})
  BY <1>0, <1>1, <1>3 DEF Closed
<1>6. Visited(g, n) = {n}
  <2>1. n \in Visited(g, n)
    BY <1>0, <1>4, VisitedClosed
  <2> QED
    BY <1>0, <1>5, <2>1, VisitedLeast
<1> QED
  BY <1>1, <1>2, <1>4, <1>6 DEF Good, g, Fresh

\* The same shape, whatever the names are.
Alike(h, R, o, g) ==
  /\ Good(g, R, o) /\ g.live = h.live /\ g.ref = h.ref
  /\ \A n \in Nodes : Visited(g, n) = Visited(h, n)

LEMMA RenamedGood ==
  ASSUME NEW h, NEW R, NEW o, Good(h, R, o), NEW item \in h.live, NEW k \in Keys, NEW const \in BOOLEAN
  PROVE  Alike(h, R, o, Renamed(h, item, k, const))
<1> DEFINE g == Renamed(h, item, k, const)
<1>1. Named(g)
  BY RenamedNames DEF Good
<1>2. /\ g.live = h.live /\ g.ref = h.ref /\ g.next = h.next /\ g.prev = h.prev /\ g.child = h.child
  BY DEF Renamed, Good, Named, Heaps
<1>3. g.child \in [Nodes -> Pointers \cup {Stale}]
  BY <1>1 DEF Named, Heaps
<1> HIDE DEF g
<1>4. Shape(g, R, o) /\ \A n \in Nodes : Visited(g, n) = Visited(h, n)
  BY <1>2, <1>3, SameShape DEF Good
<1> QED
  BY <1>1, <1>2, <1>4 DEF Good, g, Alike

LEMMA ChainedHeaps ==
  ASSUME NEW h, NEW R, NEW o, Good(h, R, o),
         NEW l \in Nat \ {0}, NEW ns \in [1..l -> Nodes \ h.live],
         \A i, j \in 1..l : ns[i] = ns[j] => i = j,
         NEW k \in Kinds, NEW closed \in BOOLEAN
  PROVE  Chained(h, ns, k, closed) \in Heaps /\ LinkedUp(h, l, ns, k, closed, Chained(h, ns, k, closed))
<1> DEFINE g == Chained(h, ns, k, closed)
<1>1. h \in Heaps
  BY DEF Good, Named
<1>2. LinkedUp(h, l, ns, k, closed, g)
  BY <1>1, ChainedLinks DEF Good
<1>3. g = [h EXCEPT !.live = g.live, !.kind = g.kind, !.child = g.child, !.next = g.next, !.prev = g.prev]
  <2>1. \A a, b, c, d, e :
          LET f == [h EXCEPT !.live = a, !.kind = b, !.child = c, !.next = d, !.prev = e]
          IN  f = [h EXCEPT !.live = f.live, !.kind = f.kind, !.child = f.child, !.next = f.next,
                            !.prev = f.prev]
    BY <1>1 DEF Heaps
  <2>2. \E a, b, c, d, e : g = [h EXCEPT !.live = a, !.kind = b, !.child = c, !.next = d, !.prev = e]
    BY <1>1 DEF Chained
  <2> HIDE DEF g
  <2> QED
    BY <2>1, <2>2
<1> HIDE DEF g
<1>4. /\ g.live \in SUBSET Nodes /\ g.kind \in [Nodes -> Kinds \cup Keys \cup {None}]
      /\ g.child \in [Nodes -> Pointers \cup {Stale}]
      /\ g.next \in [Nodes -> Pointers] /\ g.prev \in [Nodes -> Pointers]
  <2>1. g.live \in SUBSET Nodes
    BY <1>1, <1>2 DEF LinkedUp, ItemsOf, Heaps
  <2>2. "array" \in Kinds
    BY DEF Kinds
  <2>3. g.kind \in [Nodes -> Kinds \cup Keys \cup {None}]
    BY <1>1, <1>2, <2>2 DEF LinkedUp, Heaps
  <2>4. g.child \in [Nodes -> Pointers \cup {Stale}]
    <3>1. l > 1 => ns[2] \in Nodes
      OBVIOUS
    <3>2. (IF l > 1 THEN ns[2] ELSE None) \in Pointers
      BY <3>1 DEF Pointers
    <3>3. g.child = [h.child EXCEPT ![ns[1]] = IF l > 1 THEN ns[2] ELSE None]
      BY <1>2 DEF LinkedUp
    <3> HIDE DEF Pointers
    <3> QED
      BY <1>1, <3>2, <3>3 DEF Heaps
  <2>5. g.next \in [Nodes -> Pointers] /\ g.prev \in [Nodes -> Pointers]
    BY <1>2 DEF LinkedUp
  <2> QED
    BY <2>1, <2>3, <2>4, <2>5
<1>5. g \in Heaps
  BY <1>1, <1>3, <1>4 DEF Heaps
<1> QED
  BY <1>2, <1>5 DEF g

LEMMA ChainedGood ==
  ASSUME NEW h, NEW R, NEW o, Good(h, R, o),
         NEW l \in Nat \ {0}, NEW ns \in [1..l -> Nodes \ h.live],
         \A i, j \in 1..l : ns[i] = ns[j] => i = j,
         NEW k \in Kinds
  PROVE  /\ \E q : Good(Chained(h, ns, k, TRUE), R \cup {ns[1]}, q)
         /\ Chained(h, ns, k, TRUE).ref = h.ref
<1> DEFINE g == Chained(h, ns, k, TRUE)
<1>0. h \in Heaps
  BY DEF Good, Named
<1>1. g \in Heaps /\ LinkedUp(h, l, ns, k, TRUE, g)
  BY ChainedHeaps
<1>2. Shape(g, R \cup {ns[1]}, OwnedToo(o, l, ns))
  <2>1. Shape(h, R, o)
    BY DEF Good
  <2> QED
    BY <1>0, <2>1, ChainedShape
<1>3. Named(g)
  <2> HIDE DEF g
  <2>1. /\ g.live = h.live \cup (ItemsOf(l, ns) \cup {ns[1]})
        /\ g.key = h.key /\ g.const = h.const /\ g.strings = h.strings
    BY <1>1 DEF LinkedUp
  <2>2. {n \in g.live : OwnsKey(g, n)} = {n \in h.live : OwnsKey(h, n)}
    <3>1. \A n \in ItemsOf(l, ns) \cup {ns[1]} : n \in Nodes \ h.live
      BY DEF ItemsOf
    <3>2. \A n \in Nodes \ h.live : ~OwnsKey(h, n)
      BY DEF Good, Named, OwnsKey
    <3> QED
      BY <2>1, <3>1, <3>2 DEF OwnsKey
  <2> QED
    BY <1>1, <2>1, <2>2 DEF Good, Named
<1> QED
  BY <1>1, <1>2, <1>3 DEF Good, LinkedUp

\* Without memory for one more, all that was made is deleted, and nothing else changed.
LEMMA UnchainedGood ==
  ASSUME NEW h, NEW R, NEW o, Good(h, R, o),
         NEW l \in Nat \ {0}, NEW ns \in [1..l -> Nodes \ h.live],
         \A i, j \in 1..l : ns[i] = ns[j] => i = j,
         NEW k \in Kinds
  PROVE  /\ \E q : Good(Deleted(Chained(h, ns, k, FALSE), ns[1]), R, q)
         /\ Deleted(Chained(h, ns, k, FALSE), ns[1]).ref = h.ref
<1> DEFINE g    == Chained(h, ns, k, FALSE)
           made == ItemsOf(l, ns) \cup {ns[1]}
           f    == Released(g, made)
<1>0. /\ h \in Heaps /\ h.live \in SUBSET Nodes /\ h.const \subseteq h.live /\ h.ref \subseteq h.live
      /\ \A n \in Nodes \ h.live : /\ h.next[n] = None /\ h.prev[n] = None /\ h.child[n] = None
                                   /\ h.key[n] = None
  BY DEF Good, Named, Shape, Wired, Placed, Loose
<1>1. made \in SUBSET (Nodes \ h.live) /\ (\A i \in 1..l : ns[i] \in made)
      /\ (\A m \in made : \E i \in 1..l : m = ns[i])
  <2>1. \A m \in made : \E i \in 1..l : m = ns[i]
    BY DEF ItemsOf
  <2>2. \A i \in 1..l : ns[i] \in made
    BY DEF ItemsOf
  <2> QED
    BY <2>1, <2>2
<1>2. g \in Heaps /\ LinkedUp(h, l, ns, k, FALSE, g)
  BY ChainedHeaps
<1>3. /\ g.live = h.live \cup made /\ g.ref = h.ref
      /\ g.key = h.key /\ g.const = h.const /\ g.strings = h.strings
      /\ g.child = [h.child EXCEPT ![ns[1]] = IF l > 1 THEN ns[2] ELSE None]
      /\ \A n \in Nodes \ made : g.next[n] = h.next[n] /\ g.prev[n] = h.prev[n]
      /\ g.next[ns[1]] = None
      /\ \A i \in 2..l : g.next[ns[i]] = IF i < l THEN ns[i + 1] ELSE None
  <2> HIDE DEF g
  <2>1. ns[1] \in Nodes \ h.live /\ ns[1] \notin ItemsOf(l, ns)
    BY DEF ItemsOf
  <2>2. g.next[ns[1]] = None
    BY <1>0, <1>2, <2>1 DEF LinkedUp
  <2> QED
    BY <1>2, <2>2 DEF LinkedUp
<1> HIDE DEF g, made
<1>4. /\ g.child[ns[1]] = IF l > 1 THEN ns[2] ELSE None
      /\ \A n \in Nodes : n # ns[1] => g.child[n] = h.child[n]
  BY <1>0, <1>3 DEF Heaps
<1>5. Visited(g, ns[1]) = made
  <2>0. ns[1] \in Nodes \ h.live /\ ns[1] \in made
    BY <1>1
  <2>1. Closed(g, made)
    <3> SUFFICES ASSUME NEW m \in made
                 PROVE  g.next[m] \in made \cup {None} /\ g.child[m] \in made \cup {None}
      BY DEF Closed
    <3>1. PICK i \in 1..l : m = ns[i]
      BY <1>1
    <3>2. CASE i = 1
      <4>1. l > 1 => ns[2] \in made
        BY <1>1
      <4> QED
        BY <1>3, <1>4, <3>1, <3>2, <4>1
    <3>3. CASE i # 1
      <4>1. i \in 2..l /\ m # ns[1] /\ m \in Nodes \ h.live
        BY <1>1, <3>1, <3>3
      <4>2. i < l => ns[i + 1] \in made
        BY <1>1, <4>1
      <4> QED
        BY <1>0, <1>3, <1>4, <3>1, <4>1, <4>2
    <3> QED
      BY <3>2, <3>3
  <2>2. ASSUME NEW m \in made, NEW S \in SUBSET Nodes, ns[1] \in S, Closed(g, S)
        PROVE  m \in S
    <3>1. ns[1] \notin g.ref
      BY <1>0, <1>3, <2>0
    <3>2. 2 <= l => ns[2] \in S
      <4> SUFFICES ASSUME 2 <= l
                   PROVE  ns[2] \in S
        OBVIOUS
      <4>1. g.child[ns[1]] = ns[2] /\ ns[2] \in Nodes
        BY <1>4
      <4> QED
        BY <2>2, <3>1, <4>1, ItemsAssumption DEF Closed
    <3>3. ASSUME NEW i \in 2..l, i < l, ns[i] \in S
          PROVE  ns[i + 1] \in S
      <4>1. g.next[ns[i]] = ns[i + 1] /\ ns[i + 1] \in Nodes
        BY <1>3, <3>3
      <4> QED
        BY <2>2, <3>3, <4>1, ItemsAssumption DEF Closed
    <3>4. \A i \in 2..l : i < l /\ ns[i] \in S => ns[i + 1] \in S
      BY <3>3
    <3>5. \A i \in 2..l : ns[i] \in S
      BY <3>2, <3>4, AllReached
    <3>6. PICK i \in 1..l : m = ns[i]
      BY <1>1
    <3> QED
      BY <2>2, <3>5, <3>6
  <2>3. made \in SUBSET Nodes
    BY <1>1
  <2>4. Visited(g, ns[1]) \subseteq made
    BY <2>0, <2>1, <2>3, VisitedLeast
  <2>5. made \subseteq Visited(g, ns[1])
    BY <2>2, <2>3 DEF Visited
  <2> QED
    BY <2>4, <2>5
<1>6. FreedFrom(g, made, f)
  BY <1>1, <1>2, ReleasedFields
<1> HIDE DEF f
<1>7. /\ f \in Heaps /\ f.live = h.live /\ f.ref = h.ref /\ f.const = h.const
      /\ f.next = h.next /\ f.prev = h.prev /\ f.key = h.key
      /\ f.child \in [Nodes -> Pointers \cup {Stale}]
      /\ \A m \in Nodes \ h.ref : f.child[m] = h.child[m]
  <2>1. f \in Heaps /\ f.live = h.live /\ f.ref = h.ref /\ f.const = h.const
    BY <1>0, <1>1, <1>3, <1>6 DEF FreedFrom
  <2>2. \A m \in Nodes : f.next[m] = h.next[m] /\ f.prev[m] = h.prev[m] /\ f.key[m] = h.key[m]
    <3> TAKE m \in Nodes
    <3>1. CASE m \in made
      BY <1>0, <1>1, <1>6, <3>1 DEF FreedFrom
    <3>2. CASE m \notin made
      BY <1>3, <1>6, <3>2 DEF FreedFrom
    <3> QED
      BY <3>1, <3>2
  <2>3. \A m \in Nodes \ h.ref : f.child[m] = h.child[m]
    <3> TAKE m \in Nodes \ h.ref
    <3>1. CASE m \in made
      BY <1>0, <1>1, <1>6, <3>1 DEF FreedFrom
    <3>2. CASE m \notin made
      BY <1>1, <1>3, <1>4, <1>6, <3>2 DEF FreedFrom
    <3> QED
      BY <3>1, <3>2
  <2>4. f.next = h.next /\ f.prev = h.prev /\ f.key = h.key
    BY <1>0, <2>1, <2>2 DEF Heaps
  <2>5. f.child \in [Nodes -> Pointers \cup {Stale}]
    BY <2>1 DEF Heaps
  <2> QED
    BY <2>1, <2>3, <2>4, <2>5
<1>8. f.strings = h.strings
  <2> DEFINE gone == {n \in made : OwnsKey(g, n)}
  <2>1. gone = {}
    BY <1>0, <1>1, <1>3 DEF OwnsKey
  <2>2. f.strings = g.strings - Cardinality(gone)
    BY <1>6 DEF FreedFrom
  <2>3. h.strings \in Int
    BY <1>0 DEF Heaps
  <2> HIDE DEF gone
  <2>4. Cardinality(gone) = 0
    BY <2>1, FS_EmptySet
  <2> QED
    BY <1>3, <2>2, <2>3, <2>4
<1>9. Named(f)
  BY <1>7, <1>8, SameNames DEF Good
<1>a. Shape(f, R, o)
  BY <1>7, SameShape DEF Good
<1>b. Deleted(g, ns[1]) = f
  BY <1>5 DEF Deleted, f
<1> QED
  BY <1>7, <1>9, <1>a, <1>b DEF Good, g

-----------------------------------------------------------------------------
(* The invariant, and the steps that preserve it.                          *)

Held == roots \cup lost

ItemsInv == lost \subseteq heap.ref \ roots /\ \E o : Good(heap, Held, o)

LEMMA InvFrom ==
  ASSUME NEW g, NEW Q, NEW o, Good(g, Q, o),
         heap' = g, roots' \cup lost' = Q, lost' \subseteq g.ref \ roots'
  PROVE  ItemsInv'
BY DEF ItemsInv, Held

LEMMA InvFacts ==
  ASSUME ItemsInv
  PROVE  /\ heap \in Heaps /\ Held \subseteq heap.live /\ heap.live \in SUBSET Nodes
         /\ lost \subseteq heap.ref /\ lost \cap roots = {} /\ heap.ref \subseteq heap.live
         /\ Containers \subseteq heap.live \ heap.ref
         /\ Arrays \subseteq Containers /\ Objects \subseteq Containers
         /\ Indices \subseteq Nat
<1>1. Indices \subseteq Nat
  BY ItemsAssumption, FS_CardinalityType DEF Indices
<1>2. PICK o : Good(heap, Held, o)
  BY DEF ItemsInv
<1>3. heap \in Heaps /\ Held \subseteq heap.live /\ heap.live \in SUBSET Nodes
      /\ heap.ref \subseteq heap.live
  BY <1>2 DEF Good, Named, Shape, Wired
<1> QED
  BY <1>1, <1>3 DEF ItemsInv, Containers, Arrays, Objects

LEMMA InitInv == Init => ItemsInv
<1> SUFFICES ASSUME Init
             PROVE  ItemsInv
  OBVIOUS
<1>0. heap = Empty /\ roots = {} /\ lost = {}
  BY DEF Init
<1>1. Nulls \in [Nodes -> Pointers] /\ \A n \in Nodes : Nulls[n] = None
  BY DEF Nulls, Pointers
<1>2. /\ Empty.live = {} /\ Empty.ref = {} /\ Empty.const = {} /\ Empty.strings = 0
      /\ Empty.next = Nulls /\ Empty.prev = Nulls /\ Empty.child = Nulls /\ Empty.key = Nulls
  BY DEF Empty
<1>3. Empty \in Heaps
  BY DEF Empty, Heaps, Nulls, Pointers
<1>4. Named(Empty)
  <2>1. {n \in Empty.live : OwnsKey(Empty, n)} = {}
    BY <1>2
  <2> QED
    BY <1>1, <1>2, <1>3, <2>1, FS_EmptySet DEF Named
<1>5. Shape(Empty, {}, Nulls)
  <2>1. Nulls \in Owners /\ Wired(Empty, {})
    BY <1>1, <1>2, <1>3 DEF Owners, Wired, Heaps
  <2>2. Placed(Empty, {}, Nulls) /\ Loose(Empty, {}, Nulls) /\ Heads(Empty, Nulls)
        /\ Linked(Empty, Nulls) /\ Reached(Empty, Nulls) /\ Rooted(Empty, {}, Nulls)
    BY <1>1, <1>2 DEF Placed, Loose, Heads, Linked, Reached, Rooted
  <2> QED
    BY <2>1, <2>2 DEF Shape
<1> QED
  BY <1>0, <1>2, <1>4, <1>5 DEF ItemsInv, Held, Good

LEMMA CreateStep ==
  ASSUME ItemsInv, NEW n \in Nodes, NEW k \in Kinds, Create(n, k)
  PROVE  ItemsInv'
<1>1. PICK o : Good(heap, Held, o)
  BY DEF ItemsInv
<1>2. n \in Free(heap) /\ n \in Nodes \ heap.live
  BY DEF Create, Free
<1>3. Good(NewItem(heap, n, k), Held \cup {n}, o) /\ NewItem(heap, n, k).ref = heap.ref
  <2>1. Fresh(heap, Held, o, n, heap.ref, NewItem(heap, n, k))
    BY <1>1, <1>2, NewItemGood
  <2> QED
    BY <2>1 DEF Fresh
<1>4. /\ heap' = NewItem(heap, n, k) /\ roots' \cup lost' = Held \cup {n}
      /\ lost' \subseteq heap.ref \ roots'
  BY <1>2, InvFacts DEF Create, Held
<1> QED
  BY <1>3, <1>4, InvFrom

LEMMA CreateReferenceStep ==
  ASSUME ItemsInv, NEW n \in Free(heap), NEW k \in Kinds, NEW child \in heap.live,
         CreateReference(n, k, child)
  PROVE  ItemsInv'
<1>1. PICK o : Good(heap, Held, o)
  BY DEF ItemsInv
<1>2. n \in Nodes \ heap.live /\ child \in Pointers /\ heap \in Heaps
  BY InvFacts DEF Free, Pointers
<1> DEFINE g == Referring(heap, n, k, child, FALSE)
<1>3. Good(g, Held \cup {n}, o) /\ g.ref = heap.ref \cup {n}
  <2>1. k \in Kinds \cup Keys \cup {None} /\ child \in Pointers \cup {Stale}
    BY <1>2
  <2> QED
    <3>1. Fresh(heap, Held, o, n, heap.ref \cup {n}, g)
      BY <1>1, <2>1, NewReferenceGood
    <3> QED
      BY <3>1 DEF Fresh
<1>4. heap' = g
  BY <1>2 DEF CreateReference, NewItem, Referring, Heaps
<1>5. roots' \cup lost' = Held \cup {n} /\ lost' \subseteq (heap.ref \cup {n}) \ roots'
  BY <1>2, InvFacts DEF CreateReference, Held
<1> HIDE DEF g
<1> QED
  BY <1>3, <1>4, <1>5, InvFrom

LEMMA CreateArrayStep ==
  ASSUME ItemsInv, NEW ns \in Lists, NEW k \in Scalars, CreateArray(ns, k)
  PROVE  ItemsInv'
<1>1. PICK o : Good(heap, Held, o)
  BY DEF ItemsInv
<1>2. PICK l \in 1..Cardinality(Nodes) : ns \in [1..l -> Nodes]
  BY DEF Lists
<1>3. l \in Nat \ {0}
  BY ItemsAssumption, FS_CardinalityType
<1>4. /\ ns \in [1..l -> Nodes \ heap.live] /\ \A i, j \in 1..l : ns[i] = ns[j] => i = j
  BY <1>2, <1>3 DEF CreateArray, Free
<1>5. k \in Kinds
  BY DEF Kinds
<1>6. CASE heap' = Chained(heap, ns, k, TRUE) /\ roots' = roots \cup {ns[1]} /\ UNCHANGED lost
  <2> DEFINE g == Chained(heap, ns, k, TRUE)
  <2>1. PICK q : Good(g, Held \cup {ns[1]}, q)
    BY <1>1, <1>3, <1>4, <1>5, ChainedGood
  <2>2. g.ref = heap.ref
    BY <1>1, <1>3, <1>4, <1>5, ChainedGood
  <2>3. ns[1] \notin heap.live
    BY <1>3, <1>4
  <2>4. heap' = g /\ roots' \cup lost' = Held \cup {ns[1]} /\ lost' \subseteq heap.ref \ roots'
    BY <1>6, <2>3, InvFacts DEF Held
  <2> HIDE DEF g
  <2> QED
    BY <2>1, <2>2, <2>4, InvFrom
<1>7. CASE heap' = Deleted(Chained(heap, ns, k, FALSE), ns[1]) /\ UNCHANGED <<roots, lost>>
  <2> DEFINE g == Deleted(Chained(heap, ns, k, FALSE), ns[1])
  <2>1. PICK q : Good(g, Held, q)
    BY <1>1, <1>3, <1>4, <1>5, UnchainedGood
  <2>2. g.ref = heap.ref
    BY <1>1, <1>3, <1>4, <1>5, UnchainedGood
  <2>3. heap' = g /\ roots' \cup lost' = Held /\ lost' \subseteq heap.ref \ roots'
    BY <1>7, InvFacts DEF Held
  <2> HIDE DEF g
  <2> QED
    BY <2>1, <2>2, <2>3, InvFrom
<1> QED
  BY <1>6, <1>7 DEF CreateArray

LEMMA DeleteStep ==
  ASSUME ItemsInv, NEW n \in roots, Delete(n)
  PROVE  ItemsInv'
<1>1. PICK o : Good(heap, Held, o)
  BY DEF ItemsInv
<1> DEFINE g == Deleted(heap, n)
<1>2. n \in Held
  BY DEF Held
<1>3. PICK q : Good(g, Held \ {n}, q)
  BY <1>1, <1>2, DeletedGood
<1>4. g.live = heap.live \ Visited(heap, n) /\ g.ref = heap.ref \ Visited(heap, n)
  BY <1>1, <1>2, DeletedGood
<1> HIDE DEF g
<1>5. Held \ {n} \subseteq g.live
  BY <1>3 DEF Good, Shape, Wired
<1>6. heap' = g /\ roots' \cup lost' = Held \ {n} /\ lost' \subseteq g.ref \ roots'
  BY <1>4, <1>5, InvFacts DEF Delete, Held, g
<1> QED
  BY <1>3, <1>6, InvFrom

LEMMA AddItemToArrayStep ==
  ASSUME ItemsInv, NEW a \in Arrays, NEW item \in roots, AddItemToArray(a, item)
  PROVE  ItemsInv'
<1>1. PICK o : Good(heap, Held, o)
  BY DEF ItemsInv
<1> DEFINE g == Appended(heap, a, item)
<1>2. item \in Held /\ a \in heap.live \ heap.ref /\ a \notin Visited(heap, item)
  BY InvFacts DEF Held, AddItemToArray, MayJoin, Below
<1>3. PICK q : Good(g, Held \ {item}, q)
  BY <1>1, <1>2, AppendedGood
<1>4. g.ref = heap.ref
  BY <1>1, <1>2, AppendedGood
<1>5. heap' = g /\ roots' \cup lost' = Held \ {item} /\ lost' \subseteq heap.ref \ roots'
  BY InvFacts DEF AddItemToArray, Held
<1> HIDE DEF g
<1> QED
  BY <1>3, <1>4, <1>5, InvFrom

LEMMA AddItemToObjectStep ==
  ASSUME ItemsInv, NEW p \in Objects, NEW k \in Keys, NEW item \in roots, NEW const \in BOOLEAN,
         AddItemToObject(p, k, item, const)
  PROVE  ItemsInv'
<1>1. PICK o : Good(heap, Held, o)
  BY DEF ItemsInv
<1> DEFINE named == Renamed(heap, item, k, const)
           g     == Appended(named, p, item)
<1>2. item \in Held /\ item \in heap.live /\ item \in Nodes
      /\ p \in heap.live \ heap.ref /\ p \notin Visited(heap, item)
  BY InvFacts DEF Held, AddItemToObject, MayJoin, Below
<1>3. Good(named, Held, o) /\ p \in named.live \ named.ref /\ p \notin Visited(named, item)
      /\ named.ref = heap.ref
  BY <1>1, <1>2, RenamedGood DEF Alike
<1>6. heap' = g
  BY DEF AddItemToObject
<1> HIDE DEF named
<1>4. PICK q : Good(g, Held \ {item}, q)
  BY <1>2, <1>3, AppendedGood
<1>5. g.ref = heap.ref
  BY <1>2, <1>3, AppendedGood
<1>7. roots' \cup lost' = Held \ {item} /\ lost' \subseteq heap.ref \ roots'
  BY InvFacts DEF AddItemToObject, Held
<1> HIDE DEF g
<1> QED
  BY <1>4, <1>5, <1>6, <1>7, InvFrom

LEMMA AddNewToObjectStep ==
  ASSUME ItemsInv, NEW p \in Objects, NEW n \in Free(heap), NEW name \in Keys, NEW k \in Kinds,
         AddNewToObject(p, name, n, k)
  PROVE  ItemsInv'
<1>1. PICK o : Good(heap, Held, o)
  BY DEF ItemsInv
<1> DEFINE created == NewItem(heap, n, k)
           named   == Renamed(created, n, name, FALSE)
           R       == Held \cup {n}
<1>2. /\ n \in Nodes \ heap.live /\ p \in heap.live \ heap.ref /\ p # n
      /\ n \notin Held /\ n \notin heap.ref
  BY InvFacts DEF Free
<1>3. /\ Good(created, R, o) /\ created.live = heap.live \cup {n} /\ created.ref = heap.ref
      /\ Visited(created, n) = {n}
  BY <1>1, NewItemGood DEF Fresh
<1>4. CASE heap' = Appended(named, p, n)
  <2> HIDE DEF created
  <2>1. Good(named, R, o) /\ p \in named.live \ named.ref /\ p \notin Visited(named, n)
        /\ named.ref = heap.ref
    <3>1. Alike(created, R, o, named)
      BY <1>3, RenamedGood
    <3> QED
      BY <1>2, <1>3, <3>1 DEF Alike
  <2> DEFINE g == Appended(named, p, n)
  <2>2. n \in R
    OBVIOUS
  <2> HIDE DEF named, R
  <2>3. PICK q : Good(g, R \ {n}, q)
    BY <2>1, <2>2, AppendedGood
  <2>4. g.ref = heap.ref
    BY <2>1, <2>2, AppendedGood
  <2>5. heap' = g /\ roots' \cup lost' = R \ {n} /\ lost' \subseteq heap.ref \ roots'
    BY <1>2, <1>4, InvFacts DEF AddNewToObject, Held, R
  <2> HIDE DEF g
  <2> QED
    BY <2>3, <2>4, <2>5, InvFrom
<1>5. CASE heap' = Deleted(created, n)
  <2> DEFINE g == Deleted(created, n)
  <2> HIDE DEF created
  <2>1. n \in R
    OBVIOUS
  <2> HIDE DEF R
  <2>2. PICK q : Good(g, R \ {n}, q)
    BY <1>3, <2>1, DeletedGood
  <2>3. g.ref = heap.ref
    <3>1. g.ref = created.ref \ Visited(created, n)
      BY <1>3, <2>1, DeletedGood
    <3> QED
      BY <1>2, <1>3, <3>1
  <2>4. heap' = g /\ roots' \cup lost' = R \ {n} /\ lost' \subseteq heap.ref \ roots'
    BY <1>2, <1>5, InvFacts DEF AddNewToObject, Held, R
  <2> HIDE DEF g
  <2> QED
    BY <2>2, <2>3, <2>4, InvFrom
<1> QED
  BY <1>4, <1>5 DEF AddNewToObject

LEMMA ReferenceGood ==
  ASSUME ItemsInv, NEW o, Good(heap, Held, o), NEW n \in Free(heap), NEW item \in heap.live
  PROVE  Fresh(heap, Held, o, n, heap.ref \cup {n}, Reference(heap, n, item))
<1> DEFINE k     == heap.kind[item]
           child == heap.child[item]
           named == item \in heap.const
<1>1. heap \in Heaps /\ item \in Nodes
  BY InvFacts
<1>2. /\ k \in Kinds \cup Keys \cup {None} /\ child \in Pointers \cup {Stale}
      /\ named \in BOOLEAN
  BY <1>1 DEF Heaps
<1>3. Reference(heap, n, item) = Referring(heap, n, k, child, named)
  BY <1>1 DEF Reference, Referring, Heaps
<1> HIDE DEF k, child, named
<1> QED
  BY <1>2, <1>3, NewReferenceGood

LEMMA AddItemReferenceToArrayStep ==
  ASSUME ItemsInv, NEW a \in Arrays, NEW n \in Free(heap), NEW item \in heap.live,
         AddItemReferenceToArray(a, n, item)
  PROVE  ItemsInv'
<1>1. PICK o : Good(heap, Held, o)
  BY DEF ItemsInv
<1> DEFINE created == Reference(heap, n, item)
           R       == Held \cup {n}
           g       == Appended(created, a, n)
<1>2. /\ n \in Nodes \ heap.live /\ a \in heap.live \ heap.ref /\ a # n
      /\ n \notin Held /\ n \notin heap.ref
  BY InvFacts DEF Free
<1>3. /\ Good(created, R, o) /\ created.live = heap.live \cup {n} /\ created.ref = heap.ref \cup {n}
      /\ Visited(created, n) = {n}
  BY <1>1, ReferenceGood DEF Fresh
<1>4. heap' = g
  BY DEF AddItemReferenceToArray
<1> HIDE DEF created
<1>5. n \in R /\ a \in created.live \ created.ref /\ a \notin Visited(created, n)
  BY <1>2, <1>3
<1> HIDE DEF R
<1>6. PICK q : Good(g, R \ {n}, q)
  BY <1>3, <1>5, AppendedGood
<1>7. g.ref = heap.ref \cup {n}
  BY <1>3, <1>5, AppendedGood
<1>8. roots' \cup lost' = R \ {n} /\ lost' \subseteq heap.ref \ roots'
  BY <1>2, InvFacts DEF AddItemReferenceToArray, Held, R
<1> HIDE DEF g
<1> QED
  BY <1>4, <1>6, <1>7, <1>8, InvFrom

LEMMA AddItemReferenceToObjectStep ==
  ASSUME ItemsInv, NEW p \in Objects, NEW n \in Free(heap), NEW item \in heap.live, NEW k \in Keys,
         AddItemReferenceToObject(p, k, n, item)
  PROVE  ItemsInv'
<1>1. PICK o : Good(heap, Held, o)
  BY DEF ItemsInv
<1> DEFINE created == Reference(heap, n, item)
           named   == Renamed(created, n, k, FALSE)
           R       == Held \cup {n}
<1>2. /\ n \in Nodes \ heap.live /\ p \in heap.live \ heap.ref /\ p # n
      /\ n \notin Held /\ n \notin heap.ref
  BY InvFacts DEF Free
<1>3. /\ Good(created, R, o) /\ created.live = heap.live \cup {n} /\ created.ref = heap.ref \cup {n}
      /\ Visited(created, n) = {n}
  BY <1>1, ReferenceGood DEF Fresh
<1>4. CASE heap' = Appended(named, p, n) /\ UNCHANGED lost
  <2> DEFINE g == Appended(named, p, n)
  <2> HIDE DEF created
  <2>1. Good(named, R, o) /\ p \in named.live \ named.ref /\ p \notin Visited(named, n)
        /\ named.ref = heap.ref \cup {n}
    <3>1. Alike(created, R, o, named)
      BY <1>3, RenamedGood
    <3> QED
      BY <1>2, <1>3, <3>1 DEF Alike
  <2>2. n \in R
    OBVIOUS
  <2> HIDE DEF named, R
  <2>3. PICK q : Good(g, R \ {n}, q)
    BY <2>1, <2>2, AppendedGood
  <2>4. g.ref = heap.ref \cup {n}
    BY <2>1, <2>2, AppendedGood
  <2>5. heap' = g /\ roots' \cup lost' = R \ {n} /\ lost' \subseteq heap.ref \ roots'
    BY <1>2, <1>4, InvFacts DEF AddItemReferenceToObject, Held, R
  <2> HIDE DEF g
  <2> QED
    BY <2>3, <2>4, <2>5, InvFrom
<1>5. CASE heap' = created /\ lost' = lost \cup {n}
  <2>1. roots' \cup lost' = R /\ lost' \subseteq (heap.ref \cup {n}) \ roots'
    BY <1>2, <1>5, InvFacts DEF AddItemReferenceToObject, Held
  <2> HIDE DEF created, R
  <2> QED
    BY <1>3, <1>5, <2>1, InvFrom
<1> QED
  BY <1>4, <1>5 DEF AddItemReferenceToObject

\* item is a child of p.
IsChild(p, item) ==
  \A o : Shape(heap, Held, o) => item \in Nodes /\ o[item] = p

LEMMA FoundIsChild ==
  ASSUME ItemsInv, NEW p \in Containers
  PROVE  /\ \A index \in Indices : ItemAt(heap, p, index) # None => IsChild(p, ItemAt(heap, p, index))
         /\ \A k, strict : Member(heap, p, k, strict) # None => IsChild(p, Member(heap, p, k, strict))
<1>1. p \in heap.live \ heap.ref /\ Indices \subseteq Nat
  BY InvFacts
<1>2. \A index \in Indices : ItemAt(heap, p, index) # None => IsChild(p, ItemAt(heap, p, index))
  BY <1>1, ItemAtOwned DEF IsChild
<1>3. \A k, strict : Member(heap, p, k, strict) # None => IsChild(p, Member(heap, p, k, strict))
  BY <1>1, MemberOwned DEF IsChild
<1> QED
  BY <1>2, <1>3

LEMMA DetachStep ==
  ASSUME ItemsInv, NEW p \in Containers, NEW item, IsChild(p, item), Detach(p, item)
  PROVE  ItemsInv'
<1>1. PICK o : Good(heap, Held, o)
  BY DEF ItemsInv
<1> DEFINE g == Detached(heap, p, item)
<1>2. item \in Nodes /\ p \in Nodes /\ o[item] = p
  BY <1>1, InvFacts DEF IsChild, Good
<1>d. (\E q : Good(g, Held \cup {item}, q)) /\ g.ref = heap.ref
  BY <1>1, <1>2, DetachedGood
<1>3. PICK q : Good(g, Held \cup {item}, q)
  BY <1>d
<1>4. g.ref = heap.ref
  BY <1>d
<1>5. item \notin Held
  BY <1>1, <1>2, InvFacts, ItemsAssumption DEF Good, Shape, Placed
<1>6. heap' = g /\ roots' \cup lost' = Held \cup {item} /\ lost' \subseteq heap.ref \ roots'
  BY <1>5, InvFacts DEF Detach, Held
<1> HIDE DEF g
<1> QED
  BY <1>3, <1>4, <1>6, InvFrom

LEMMA DetachAndDeleteStep ==
  ASSUME ItemsInv, NEW p \in Containers, NEW item, IsChild(p, item), DetachAndDelete(p, item)
  PROVE  ItemsInv'
<1>1. PICK o : Good(heap, Held, o)
  BY DEF ItemsInv
<1> DEFINE d == Detached(heap, p, item)
           g == Deleted(d, item)
           R == Held \cup {item}
<1>2. item \in Nodes /\ p \in Nodes /\ o[item] = p
  BY <1>1, InvFacts DEF IsChild, Good
<1>d. (\E q : Good(d, R, q)) /\ d.ref = heap.ref
  BY <1>1, <1>2, DetachedGood
<1>3. PICK q : Good(d, R, q)
  BY <1>d
<1>4. d.ref = heap.ref
  BY <1>d
<1>5. item \notin Held
  BY <1>1, <1>2, InvFacts, ItemsAssumption DEF Good, Shape, Placed
<1>6. heap' = g /\ item \in R
  BY DEF DetachAndDelete
<1>7. R \ {item} = Held
  BY <1>5
<1> HIDE DEF d, R
<1>8. PICK r : Good(g, R \ {item}, r)
  BY <1>3, <1>6, DeletedGood
<1>9. g.live = d.live \ Visited(d, item) /\ g.ref = d.ref \ Visited(d, item)
  BY <1>3, <1>6, DeletedGood
<1> HIDE DEF g
<1>a. Held \subseteq g.live
  BY <1>7, <1>8 DEF Good, Shape, Wired
<1>b. roots' \cup lost' = R \ {item} /\ lost' \subseteq g.ref \ roots'
  BY <1>4, <1>7, <1>9, <1>a, InvFacts DEF DetachAndDelete, Held
<1> QED
  BY <1>6, <1>8, <1>b, InvFrom

LEMMA InsertStep ==
  ASSUME ItemsInv, NEW a \in Arrays, NEW index \in Indices, NEW item \in roots,
         InsertItemInArray(a, index, item)
  PROVE  ItemsInv'
<1>1. PICK o : Good(heap, Held, o)
  BY DEF ItemsInv
<1> DEFINE g == Inserted(heap, a, index, item)
<1>2. item \in Held /\ a \in heap.live \ heap.ref /\ a \notin Visited(heap, item) /\ index \in Nat
  BY InvFacts DEF Held, InsertItemInArray, MayJoin, Below
<1>3. PICK q : Good(g, Held \ {item}, q)
  BY <1>1, <1>2, InsertedGood
<1>4. g.ref = heap.ref
  BY <1>1, <1>2, InsertedGood
<1>5. heap' = g /\ roots' \cup lost' = Held \ {item} /\ lost' \subseteq heap.ref \ roots'
  BY InvFacts DEF InsertItemInArray, Held
<1> HIDE DEF g
<1> QED
  BY <1>3, <1>4, <1>5, InvFrom

LEMMA ReplaceInArrayStep ==
  ASSUME ItemsInv, NEW a \in Arrays, NEW index \in Indices, NEW new \in roots,
         ReplaceItemInArray(a, index, new)
  PROVE  ItemsInv'
<1>1. PICK o : Good(heap, Held, o)
  BY DEF ItemsInv
<1> DEFINE item == ItemAt(heap, a, index)
           g    == Replaced(heap, a, item, new)
<1>2. new \in Held /\ a \in heap.live \ heap.ref /\ a \notin Visited(heap, new) /\ a \in Containers
  BY InvFacts DEF Held, ReplaceItemInArray, MayJoin, Below
<1>3. item \in Nodes /\ o[item] = a
  <2>1. IsChild(a, item)
    BY <1>2, FoundIsChild DEF ReplaceItemInArray
  <2> QED
    BY <1>1, <2>1 DEF IsChild, Good
<1>4. heap' = g
  BY DEF ReplaceItemInArray
<1> HIDE DEF item
<1>5. PICK q : Good(g, Held \ {new}, q)
  BY <1>1, <1>2, <1>3, ReplacedGood
<1>6. heap.ref \cap (Held \ {new}) \subseteq g.ref
  BY <1>1, <1>2, <1>3, ReplacedGood
<1>7. roots' \cup lost' = Held \ {new} /\ lost' \subseteq (heap.ref \cap (Held \ {new})) \ roots'
  BY InvFacts DEF ReplaceItemInArray, Held
<1> HIDE DEF g
<1> QED
  BY <1>4, <1>5, <1>6, <1>7, InvFrom

LEMMA ReplaceInObjectStep ==
  ASSUME ItemsInv, NEW p \in Objects, NEW new \in roots, NEW k \in Keys, NEW strict \in BOOLEAN,
         ReplaceItemInObject(p, k, new, strict)
  PROVE  ItemsInv'
<1>1. PICK o : Good(heap, Held, o)
  BY DEF ItemsInv
<1> DEFINE named == Renamed(heap, new, k, FALSE)
           item  == Member(named, p, k, strict)
           bare  == [heap EXCEPT !.key[new] = None,
                                 !.strings = @ - (IF OwnsKey(heap, new) THEN 1 ELSE 0)]
<1>2. /\ new \in Held /\ new \in heap.live /\ new \in Nodes
      /\ p \in heap.live \ heap.ref /\ p \notin Visited(heap, new)
  BY InvFacts DEF Held, ReplaceItemInObject, MayJoin, Below
<1>3. /\ Good(named, Held, o) /\ p \in named.live \ named.ref /\ p \notin Visited(named, new)
      /\ named.ref = heap.ref
  <2>1. Alike(heap, Held, o, named)
    BY <1>1, <1>2, RenamedGood
  <2> QED
    BY <1>2, <2>1 DEF Alike
<1>4. CASE item # None /\ heap' = Replaced(named, p, item, new) /\ roots' = roots \ {new}
  <2> HIDE DEF named
  <2>1. item \in Nodes /\ o[item] = p
    BY <1>3, <1>4, MemberOwned DEF Good
  <2> DEFINE g == Replaced(named, p, item, new)
  <2> HIDE DEF item
  <2>2. PICK q : Good(g, Held \ {new}, q)
    BY <1>2, <1>3, <2>1, ReplacedGood
  <2>3. heap.ref \cap (Held \ {new}) \subseteq g.ref
    BY <1>2, <1>3, <2>1, ReplacedGood
  <2>4. /\ heap' = g /\ roots' \cup lost' = Held \ {new}
        /\ lost' \subseteq (heap.ref \cap (Held \ {new})) \ roots'
    BY <1>4, InvFacts DEF ReplaceItemInObject, Held
  <2> HIDE DEF g
  <2> QED
    BY <2>2, <2>3, <2>4, InvFrom
<1>5. CASE heap' = named /\ UNCHANGED roots
  <2>1. roots' \cup lost' = Held /\ lost' \subseteq heap.ref \ roots'
    BY <1>5, InvFacts DEF ReplaceItemInObject, Held
  <2> HIDE DEF named
  <2> QED
    BY <1>3, <1>5, <2>1, InvFrom
<1>6. CASE heap' = bare /\ UNCHANGED roots
  <2>1. Named(bare)
    BY <1>1, <1>2, UnnamedNames DEF Good
  <2>2. /\ bare.live = heap.live /\ bare.ref = heap.ref /\ bare.next = heap.next
        /\ bare.prev = heap.prev /\ bare.child = heap.child
        /\ heap.child \in [Nodes -> Pointers \cup {Stale}]
    BY InvFacts DEF Heaps
  <2>3. roots' \cup lost' = Held /\ lost' \subseteq heap.ref \ roots'
    BY <1>6, InvFacts DEF ReplaceItemInObject, Held
  <2> HIDE DEF bare
  <2>4. Shape(bare, Held, o)
    BY <1>1, <2>2, SameShape DEF Good
  <2>5. Good(bare, Held, o)
    BY <2>1, <2>4 DEF Good
  <2> QED
    BY <1>6, <2>2, <2>3, <2>5, InvFrom
<1> QED
  BY <1>4, <1>5, <1>6 DEF ReplaceItemInObject

LEMMA NextInv == ItemsInv /\ [Next]_<<heap, roots, lost>> => ItemsInv'
<1> SUFFICES ASSUME ItemsInv, [Next]_<<heap, roots, lost>>
             PROVE  ItemsInv'
  OBVIOUS
<1>1. CASE Grow
  <2>1. CASE \E n \in Nodes, k \in Kinds : Create(n, k)
    BY <2>1, CreateStep
  <2>2. CASE \E n \in Free(heap), k \in {"array", "object"}, child \in heap.live :
               CreateReference(n, k, child)
    <3>1. {"array", "object"} \subseteq Kinds
      BY DEF Kinds
    <3> QED
      BY <2>2, <3>1, CreateReferenceStep
  <2>3. CASE \E ns \in Lists, k \in Scalars : CreateArray(ns, k)
    BY <2>3, CreateArrayStep
  <2>4. CASE \E o \in Objects, n \in Free(heap), name \in Keys, k \in Kinds :
               AddNewToObject(o, name, n, k)
    BY <2>4, AddNewToObjectStep
  <2>5. CASE \E a \in Arrays, n \in Free(heap), item \in heap.live : AddItemReferenceToArray(a, n, item)
    BY <2>5, AddItemReferenceToArrayStep
  <2>6. CASE \E o \in Objects, n \in Free(heap), item \in heap.live, k \in Keys :
               AddItemReferenceToObject(o, k, n, item)
    BY <2>6, AddItemReferenceToObjectStep
  <2> QED
    BY <1>1, <2>1, <2>2, <2>3, <2>4, <2>5, <2>6 DEF Grow
<1>2. CASE Link
  <2>1. CASE \E a \in Arrays, item \in roots : AddItemToArray(a, item)
    BY <2>1, AddItemToArrayStep
  <2>2. CASE \E a \in Arrays, item \in roots : \E index \in Indices : InsertItemInArray(a, index, item)
    BY <2>2, InsertStep
  <2>3. CASE \E o \in Objects, item \in roots, k \in Keys, const \in BOOLEAN :
               AddItemToObject(o, k, item, const)
    BY <2>3, AddItemToObjectStep
  <2> QED
    BY <1>2, <2>1, <2>2, <2>3 DEF Link
<1>3. CASE Unlink
  <2>0. Arrays \subseteq Containers /\ Objects \subseteq Containers
    BY InvFacts
  <2>1. CASE \E n \in roots : Delete(n)
    BY <2>1, DeleteStep
  <2>2. ASSUME NEW a \in Arrays, NEW index \in Indices,
               Detach(a, ItemAt(heap, a, index)) \/ DetachAndDelete(a, ItemAt(heap, a, index))
        PROVE  ItemsInv'
    <3>1. IsChild(a, ItemAt(heap, a, index))
      BY <2>0, <2>2, FoundIsChild DEF Detach, DetachAndDelete
    <3> QED
      BY <2>0, <2>2, <3>1, DetachStep, DetachAndDeleteStep
  <2>3. ASSUME NEW o \in Objects, NEW k \in Keys, NEW strict \in BOOLEAN,
               Detach(o, Member(heap, o, k, strict)) \/ DetachAndDelete(o, Member(heap, o, k, strict))
        PROVE  ItemsInv'
    <3>1. IsChild(o, Member(heap, o, k, strict))
      BY <2>0, <2>3, FoundIsChild DEF Detach, DetachAndDelete
    <3> QED
      BY <2>0, <2>3, <3>1, DetachStep, DetachAndDeleteStep
  <2> QED
    BY <1>3, <2>1, <2>2, <2>3 DEF Unlink
<1>4. CASE Exchange
  <2>1. CASE \E a \in Arrays, new \in roots, index \in Indices : ReplaceItemInArray(a, index, new)
    BY <2>1, ReplaceInArrayStep
  <2>2. CASE \E o \in Objects, new \in roots, k \in Keys, strict \in BOOLEAN :
               ReplaceItemInObject(o, k, new, strict)
    BY <2>2, ReplaceInObjectStep
  <2> QED
    BY <1>4, <2>1, <2>2 DEF Exchange
<1>5. CASE UNCHANGED <<heap, roots, lost>>
  BY <1>5 DEF ItemsInv, Held
<1> QED
  BY <1>1, <1>2, <1>3, <1>4, <1>5 DEF Next

\* The invariant holds, whatever the client calls.
THEOREM Invariance == Spec => []ItemsInv
<1> QED
  BY InitInv, NextInv, PTL DEF Spec

-----------------------------------------------------------------------------
(* What the invariant means.                                               *)

\* The children of p, which the lists lead to, are the items that p owns.
LEMMA ChildrenOwned ==
  ASSUME NEW h, NEW R, NEW o, Shape(h, R, o), NEW p \in h.live \ h.ref
  PROVE  Children(h, p) = {n \in Nodes : o[n] = p}
<1> DEFINE Own == {n \in Nodes : o[n] = p}
<1>0. p \in Nodes /\ p # None
  BY ItemsAssumption DEF Shape, Wired
<1>1. CASE h.child[p] = None
  <2>1. Own = {}
    BY <1>0, <1>1 DEF Shape, Placed
  <2> QED
    BY <1>1, <2>1 DEF Children
<1>2. CASE h.child[p] # None
  <2>1. h.child[p] \in Own
    BY <1>2 DEF Shape, Heads
  <2>2. \A n \in Own : h.next[n] \in Own \cup {None}
    BY <1>0 DEF Shape, Linked, Wired, Pointers
  <2>3. Children(h, p) \subseteq Own
    BY <1>2, <2>1, <2>2 DEF Children, Chain
  <2>4. ASSUME NEW m \in Own, NEW S \in SUBSET Nodes, h.child[p] \in S, m \notin S
        PROVE  \E k \in S : h.next[k] \notin S \cup {None}
    BY <2>4 DEF Shape, Reached, Along
  <2>5. Own \subseteq Children(h, p)
    BY <1>2, <2>4 DEF Children, Chain
  <2> QED
    BY <2>3, <2>5
<1> QED
  BY <1>1, <1>2

LEMMA InvType == ItemsInv => TypeOK
<1> SUFFICES ASSUME ItemsInv
             PROVE  TypeOK
  OBVIOUS
<1>1. PICK o : Good(heap, Held, o)
  BY DEF ItemsInv
<1> QED
  BY <1>1, InvFacts DEF TypeOK, Held, Good, Named

LEMMA InvLists == ItemsInv => ListsSound
<1> SUFFICES ASSUME ItemsInv, NEW p \in heap.live \ heap.ref, heap.child[p] # None
             PROVE  LET last == heap.prev[heap.child[p]]
                    IN  /\ last \in Children(heap, p) /\ heap.next[last] = None
                        /\ \A n \in Children(heap, p) : heap.next[n] # None => heap.prev[heap.next[n]] = n
  BY DEF ListsSound
<1>1. PICK o : Shape(heap, Held, o)
  BY DEF ItemsInv, Good
<1>2. Children(heap, p) = {n \in Nodes : o[n] = p} /\ p # None
  BY <1>1, ChildrenOwned, ItemsAssumption DEF Shape, Wired
<1> QED
  BY <1>1, <1>2 DEF Shape, Heads, Linked

LEMMA InvOwner == ItemsInv => OneOwner
<1> SUFFICES ASSUME ItemsInv, NEW p \in heap.live \ heap.ref, NEW q \in heap.live \ heap.ref
             PROVE  /\ Children(heap, p) \subseteq heap.live \ (roots \cup lost)
                    /\ p # q => Children(heap, p) \cap Children(heap, q) = {}
  BY DEF OneOwner
<1>1. PICK o : Shape(heap, Held, o)
  BY DEF ItemsInv, Good
<1>2. /\ Children(heap, p) = {n \in Nodes : o[n] = p} /\ p # None
      /\ Children(heap, q) = {n \in Nodes : o[n] = q}
  BY <1>1, ChildrenOwned, ItemsAssumption DEF Shape, Wired
<1> QED
  BY <1>1, <1>2 DEF Shape, Placed, Held

LEMMA InvLeaks == ItemsInv => NothingLeaks
<1> SUFFICES ASSUME ItemsInv
             PROVE  NothingLeaks
  OBVIOUS
<1>1. PICK o : Good(heap, Held, o)
  BY DEF ItemsInv
<1> DEFINE All == UNION {Visited(heap, n) : n \in Held}
<1>2. \A n \in Held : /\ Visited(heap, n) \in SUBSET heap.live /\ n \in Visited(heap, n)
                      /\ DownClosed(o, Visited(heap, n))
  BY <1>1, VisitedBelow DEF Good
<1>3. All \subseteq heap.live /\ Held \subseteq All
  BY <1>2
<1>4. DownClosed(o, All)
  BY <1>2 DEF DownClosed
<1>5. All \in SUBSET Nodes
  BY <1>3, InvFacts
<1>6. heap.live = All
  BY <1>1, <1>3, <1>4, <1>5 DEF Good, Shape, Rooted
<1> QED
  BY <1>1, <1>6, InvFacts DEF NothingLeaks, Held, Good, Named

\* The heap, what is held and what is lost keep their types, and no flag of an item is
\* left set when it was freed.
THEOREM TypeCorrect == Spec => []TypeOK
<1> QED
  BY Invariance, InvType, PTL

\* Every list of cJSON.c stays linked both ways, with the last item behind the first.
THEOREM ListsStaySound == Spec => []ListsSound
<1> QED
  BY Invariance, InvLists, PTL

\* No item has two owners, so cJSON_Delete frees none twice.
THEOREM OwnersStayApart == Spec => []OneOwner
<1> QED
  BY Invariance, InvOwner, PTL

\* Whatever is allocated can be reached from an item that the client holds or that
\* AddItemReferenceToObject lost, and every name has its item.
THEOREM LeaksAreKnown == Spec => []NothingLeaks
<1> QED
  BY Invariance, InvLeaks, PTL

=============================================================================
