------------------------------- MODULE JsonTree -------------------------------
(* What the operations of cJSON on items promise: each item has a sequence *)
(* of children, and some items are held by the client.                     *)
EXTENDS Integers, SequencesExt

CONSTANTS Items, None

VARIABLES
  kids,       \* the children of each item that exists
  held        \* the items that nobody has as a child

Exist == DOMAIN kids

RECURSIVE Under(_)
Under(n) == {n} \cup UNION {Under(kids[n][i]) : i \in DOMAIN kids[n]}

\* kids without the items S, and with the children s of p.
Without(S)      == [n \in Exist \ S |-> kids[n]]
With(f, p, s)   == [n \in DOMAIN f \cup {p} |-> IF n = p THEN s ELSE f[n]]

Init == kids = [n \in {} |-> None] /\ held = {}

\* A tree of new items.
New(n) ==
  /\ n \notin Exist /\ held' = held \cup {n}
  /\ n \in DOMAIN kids' /\ Under(n)' \cap Exist = {}
  /\ DOMAIN kids' = Exist \cup Under(n)'
  /\ \A m \in Exist : kids'[m] = kids[m]

NewIn(p, n) ==
  /\ n \notin Exist /\ UNCHANGED held
  /\ kids' = With(With(kids, n, <<>>), p, Append(kids[p], n))

Insert(p, n, at) ==
  /\ n \in held /\ held' = held \ {n}
  /\ at \in 1..(Len(kids[p]) + 1) /\ p \notin Under(n)
  /\ kids' = With(kids, p, InsertAt(kids[p], at, n))

Take(p, at) ==
  /\ at \in DOMAIN kids[p] /\ held' = held \cup {kids[p][at]}
  /\ kids' = With(kids, p, RemoveAt(kids[p], at))

Discard(p, at) ==
  /\ at \in DOMAIN kids[p] /\ UNCHANGED held
  /\ kids' = With(Without(Under(kids[p][at])), p, RemoveAt(kids[p], at))

Replace(p, n, at) ==
  /\ n \in held /\ held' = held \ {n}
  /\ at \in DOMAIN kids[p] /\ p \notin Under(n)
  /\ kids' = With(Without(Under(kids[p][at])), p, ReplaceAt(kids[p], at, n))

Drop(n) ==
  /\ n \in held /\ held' = held \ {n}
  /\ kids' = Without(Under(n))

Next ==
  \/ \E n \in Items : New(n) \/ Drop(n)
  \/ \E p \in Exist, n \in Items : NewIn(p, n)
  \/ \E p \in Exist : \E at \in 1..(Len(kids[p]) + 1) :
       Take(p, at) \/ Discard(p, at) \/ \E n \in held : Insert(p, n, at) \/ Replace(p, n, at)

Spec == Init /\ [][Next]_<<kids, held>>

=============================================================================
