-------------------------------- MODULE Json --------------------------------
(***************************************************************************)
(* cJSON as rffi.c uses it: one call at a time, from an empty heap.  The   *)
(* client edits items, or parses a text, or prints into a buffer; the      *)
(* strings, whose bytes the rest abstracts from, are converted apart.      *)
(***************************************************************************)
EXTENDS JsonPrinter, JsonStrings

CONSTANT Spare   \* more blocks, for copies only

ASSUME SpareAssumption == Spare \cap (Nodes \cup {None, Stale}) = {}

Edits == <<heap, roots, lost>>

JsonInit == ParserInit /\ PrintInit /\ StringsInit

\* Nobody parses or prints.
Editing == parse = Idle /\ out = NoBuffer

JsonNext ==
  \/ /\ StringsInit /\ UNCHANGED Strings
     /\ \/ /\ Editing
           /\ ValuesNext /\ UNCHANGED <<Parsing, out>>
        \/ /\ out = NoBuffer
           /\ ParserNext /\ UNCHANGED out
        \/ /\ parse = Idle /\ heap = Empty
           /\ PrintNext /\ UNCHANGED <<Edits, Parsing>>
  \/ /\ Editing /\ heap = Empty
     /\ StringsNext /\ UNCHANGED <<Edits, Parsing, out>>

JsonSpec == JsonInit /\ [][JsonNext]_<<Edits, Parsing, out, Strings>>

-----------------------------------------------------------------------------
\* The sequences of children; what a parser has built so far does not count.
Tree == INSTANCE JsonTree WITH
  Items <- Nodes,
  held  <- IF parse = Idle THEN roots \cup lost ELSE {},
  kids  <- [n \in IF parse = Idle THEN heap.live ELSE {} |->
              IF n \in heap.ref THEN <<>> ELSE Elements(heap, n)]

\* The operations on lists do what they promise of the sequences of children.
ImplementsTree == Tree!Spec

\* The heap with more blocks, so that there is room for a copy of all it holds.
Roomier(f) == [n \in Nodes \cup Spare |-> IF n \in Nodes THEN f[n] ELSE None]
Roomy == INSTANCE JsonValues WITH
  Nodes <- Nodes \cup Spare,
  heap  <- [heap EXCEPT !.kind = Roomier(@), !.child = Roomier(@), !.next = Roomier(@),
                        !.prev = Roomier(@), !.key = Roomier(@)]

\* However much memory there is, a copy stands for what the original stands for, what
\* references refer to included, in lists that are linked both ways; or there is none
\* and the heap is as before.
CopyEqual == Editing => Roomy!CopiesOrNothing

=============================================================================
