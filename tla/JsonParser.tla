------------------------------ MODULE JsonParser ------------------------------
(***************************************************************************)
(* cJSON_ParseWithLengthOpts and the recursive descent of parse_value,     *)
(* parse_array and parse_object, which build items from a text.            *)
(*                                                                         *)
(* A text is a sequence of brackets, commas, colons, whitespace, bytes NUL *)
(* and words; a word is the text of a string or of another scalar, "#" one *)
(* of nothing.  It becomes known as far as the parser looks.               *)
(*                                                                         *)
(* parse.frames is the C stack: for each call of parse_array or            *)
(* parse_object its item, the list head and the current item, and the      *)
(* bracket it waits for.                                                   *)
(***************************************************************************)
EXTENDS JsonItems

CONSTANTS
  Words,         \* texts of scalars and strings
  MaxText,       \* bound on the length of a text
  MaxBlanks,     \* and on the blanks in it
  NestingLimit   \* CJSON_NESTING_LIMIT

ASSUME ParserAssumption ==
  /\ MaxText \in Nat /\ MaxBlanks \in Nat /\ NestingLimit \in Nat
  /\ Words \subseteq Keys \cup Scalars

VARIABLES
  text,          \* the buffer as far as it is known
  ended,         \* it ends there
  parse          \* the state of the call

Alphabet == Words \cup {"[", "]", "{", "}", ",", ":", " ", "NUL", "#"}
Blank    == {" ", "NUL"}     \* bytes up to 32
Idle     == [pc |-> "idle", offset |-> 0, depth |-> 0, frames |-> <<>>, item |-> None,
             strict |-> FALSE, why |-> "ok"]

-----------------------------------------------------------------------------
(* The buffer.                                                             *)

Length       == Len(text)
CanAccess(i) == i < Length
At(i)        == text[i + 1]
Blanks       == Cardinality({i \in 1..Length : text[i] \in Blank})

\* The first byte from i on that is not blank, or the end.
NonBlank(i) ==
  LET S == {k \in i..Length : k = Length \/ At(k) \notin Blank}
  IN  CHOOSE k \in S : \A j \in S : k <= j

\* buffer_skip_whitespace: from within the buffer, it does not leave it.
SkipsOut(i) == IF CanAccess(i) THEN NonBlank(i) ELSE i   \* mutant: no step back
Skip(i) == IF CanAccess(i) /\ NonBlank(i) = Length THEN Length - 1
           ELSE IF CanAccess(i) THEN NonBlank(i) ELSE i

\* Where the next step looks.
Place == IF parse.pc = "item" THEN parse.offset + 1 ELSE Skip(parse.offset)

\* More of the text has to be known before the next step.
Known == ended \/ IF parse.pc = "item" THEN CanAccess(Place) ELSE NonBlank(parse.offset) < Length

Sees(c) == CanAccess(Place) /\ At(Place) = c

-----------------------------------------------------------------------------
Top    == Head(parse.frames)
Called == parse.frames # <<>>
Target == IF Called THEN Top.last ELSE parse.item   \* the item that parse_value fills

\* Control goes to pc with the offset at i.
To(pc, i)  == [parse EXCEPT !.pc = pc, !.offset = i]
Fail(i, why) == [To("fail", i) EXCEPT !.why = why]

Start(n, strict) ==
  /\ parse = Idle /\ heap = Empty /\ n \in Free(heap)
  /\ heap' = NewItem(heap, n, None) /\ roots' = {n}
  /\ parse' = [Idle EXCEPT !.pc = "value", !.item = n, !.strict = strict]
  /\ text' = <<>> /\ ended' = FALSE

Reveal ==
  /\ parse.pc \in {"value", "first", "item", "name", "colon", "next"} /\ ~Known
  /\ \/ /\ Length < MaxText
        /\ \E c \in Alphabet : Blanks + (IF c \in Blank THEN 1 ELSE 0) <= MaxBlanks /\ text' = Append(text, c)
        /\ UNCHANGED ended
     \/ Length > 0 /\ ended' = TRUE /\ UNCHANGED text
  /\ UNCHANGED <<heap, roots, parse>>

\* parse_array and parse_object begin, unless that is too deep.
Begun(open) ==
  LET call == [item |-> Target, head |-> None, last |-> None,
               close |-> IF open = "[" THEN "]" ELSE "}"]
  IN  IF parse.depth >= NestingLimit THEN Fail(Place, "depth")
      ELSE [To("first", Place + 1) EXCEPT !.depth = @ + 1, !.frames = <<call>> \o @]

\* parse_value.
ParseValue ==
  /\ parse.pc = "value" /\ Known
  /\ \/ /\ \E w \in Words : Sees(w) /\ heap' = [heap EXCEPT !.kind[Target] = w]
        /\ parse' = To("next", Place + 1)
     \/ /\ \E w \in Words : Sees(w)
        /\ parse' = Fail(Place, "memory") /\ UNCHANGED heap
     \/ /\ \E open \in {"[", "{"} : Sees(open) /\ parse' = Begun(open)
        /\ UNCHANGED heap
     \/ /\ ~\E c \in Words \cup {"[", "{"} : Sees(c)
        /\ parse' = Fail(Place, "text") /\ UNCHANGED heap
  /\ UNCHANGED <<text, ended, roots>>

\* The end of parse_array and parse_object where the closing bracket is.
Succeed ==
  LET kind    == IF Top.close = "]" THEN "array" ELSE "object"
      closing == [heap EXCEPT !.kind[Top.item] = kind, !.child[Top.item] = Top.head]
  IN  /\ heap' = IF Top.head = None THEN closing
                 ELSE [closing EXCEPT !.prev[Top.head] = Top.last]
      /\ roots' = roots \ {Top.head}
      /\ parse' = [To("next", Place + 1) EXCEPT !.depth = @ - 1, !.frames = Tail(@)]

\* After the opening bracket.
First ==
  /\ parse.pc = "first" /\ Known
  /\ \/ Sees(Top.close) /\ Succeed
     \/ /\ ~CanAccess(Place)
        /\ parse' = Fail(Place - 1, "text") /\ UNCHANGED <<heap, roots>>
     \/ /\ CanAccess(Place) /\ ~Sees(Top.close)
        /\ parse' = To("item", Place - 1) /\ UNCHANGED <<heap, roots>>
  /\ UNCHANGED <<text, ended>>

\* The head of the loop: a new item, then the name in an object, else the value.
Entered(n) == [parse EXCEPT !.frames[1].head = IF @ = None THEN n ELSE @, !.frames[1].last = n]

NothingFollowsIgnored == FALSE   \* mutant: what comes after the comma is not tested
NothingFollows == Top.close = "}" /\ ~CanAccess(Place)

Item ==
  /\ parse.pc = "item" /\ Known
  /\ \/ /\ \E n \in Free(heap) :
             LET created == NewItem(heap, n, None)
             IN  /\ heap' = IF Top.head = None THEN created
                            ELSE [created EXCEPT !.next[Top.last] = n, !.prev[n] = Top.last]
                 /\ roots' = IF Top.head = None THEN roots \cup {n} ELSE roots
                 /\ parse' = IF NothingFollows
                             THEN [Entered(n) EXCEPT !.pc = "fail", !.why = "text"]
                             ELSE [Entered(n) EXCEPT
                                     !.pc = IF Top.close = "}" THEN "name" ELSE "value",
                                     !.offset = Place]
     \/ parse' = Fail(parse.offset, "memory") /\ UNCHANGED <<heap, roots>>
  /\ UNCHANGED <<text, ended>>

\* parse_string looks at its first byte without asking whether it is there.
Name ==
  /\ parse.pc = "name" /\ Known
  /\ \/ /\ \E k \in Keys : Sees(k) /\ heap' = [heap EXCEPT !.key[Top.last] = k, !.strings = @ + 1]
        /\ parse' = To("colon", Place + 1)
     \/ /\ \E k \in Keys : Sees(k)
        /\ parse' = Fail(Place, "memory") /\ UNCHANGED heap
     \/ /\ ~\E k \in Keys : Sees(k)
        /\ parse' = IF CanAccess(Place) THEN Fail(Place, "text") ELSE To("overrun", Place)
        /\ UNCHANGED heap
  /\ UNCHANGED <<text, ended, roots>>

Colon ==
  /\ parse.pc = "colon" /\ Known
  /\ parse' = IF Sees(":") THEN To("value", Place + 1) ELSE Fail(Place, "text")
  /\ UNCHANGED <<text, ended, heap, roots>>

\* After a value: the rest of the loop, or of the call.
Proceed ==
  /\ parse.pc = "next" /\ (Called \/ parse.strict => Known)
  /\ \/ Called /\ Sees(",") /\ parse' = To("item", Place) /\ UNCHANGED <<heap, roots>>
     \/ Called /\ Sees(Top.close) /\ Succeed
     \/ /\ Called /\ ~Sees(",") /\ ~Sees(Top.close)
        /\ parse' = Fail(Place, "text") /\ UNCHANGED <<heap, roots>>
     \/ /\ ~Called
        /\ parse' = IF parse.strict /\ ~Sees("NUL") THEN Fail(Place, "text")
                    ELSE To("done", IF parse.strict THEN Place ELSE parse.offset)
        /\ UNCHANGED <<heap, roots>>
  /\ UNCHANGED <<text, ended>>

\* The fail labels: each call deletes its list, the first one the item.
Unwind ==
  LET n == IF Called THEN Top.head ELSE parse.item
  IN  /\ parse.pc = "fail"
      /\ heap' = IF n = None THEN heap ELSE Deleted(heap, n)
      /\ roots' = roots \ {n}
      /\ parse' = IF Called THEN [parse EXCEPT !.frames = Tail(@)]
                  ELSE [To("done", parse.offset) EXCEPT !.item = None]
      /\ UNCHANGED <<text, ended>>

\* A bound: the trees with scalars that the client also makes itself.
Familiar == \A n \in heap.live : heap.kind[n] \in Words => heap.kind[n] \in Scalars

\* The client goes on with the tree as with any other that it holds.
Keep ==
  /\ parse.pc = "done" /\ Familiar /\ UNCHANGED <<heap, roots>>
  /\ parse' = Idle /\ text' = <<>> /\ ended' = FALSE

\* Or it deletes it at once.
Finish ==
  /\ parse.pc = "done"
  /\ heap' = IF parse.item = None THEN heap ELSE Deleted(heap, parse.item)
  /\ roots' = {} /\ parse' = Idle /\ text' = <<>> /\ ended' = FALSE

ParserNext ==
  /\ \/ \E n \in Nodes, strict \in BOOLEAN : Start(n, strict)
     \/ Reveal \/ ParseValue \/ First \/ Item \/ Name \/ Colon \/ Proceed \/ Unwind \/ Keep \/ Finish
  /\ UNCHANGED lost

ParserInit == Init /\ text = <<>> /\ ended = FALSE /\ parse = Idle

\* The parser, whatever else happens to the heap between its steps.
Parsing    == <<text, ended, parse>>
ParserSpec == ParserInit /\ [][ParserNext]_Parsing

\* The parser and the client, who waits for it and for what it returns.
HeapNext == (parse = Idle /\ Next /\ UNCHANGED Parsing) \/ ParserNext
HeapSpec == ParserInit /\ [][HeapNext]_<<heap, roots, lost, Parsing>>

-----------------------------------------------------------------------------
\* The parser reads nothing outside the buffer.
WithinBuffer == parse.pc # "overrun" /\ parse.offset <= Length

=============================================================================
