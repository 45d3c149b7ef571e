-------------------------- MODULE JsonParserProofs --------------------------
(***************************************************************************)
(* The parser reads nothing outside its buffer and does not nest deeper    *)
(* than CJSON_NESTING_LIMIT, for every text and limit.                     *)
(*                                                                         *)
(* It does not test whether there is a byte everywhere: parse_string looks *)
(* at the first byte of a name, and the loops at the byte after a step     *)
(* back.  What makes up for it is that buffer_skip_whitespace, begun       *)
(* within the buffer, ends within it (SkipWithin), and that the loop of    *)
(* parse_object goes on to a name only from within the buffer (Offsets).   *)
(*                                                                         *)
(* Of the heap it never makes a state that an edit could not have made,    *)
(* once the list of every call that has not ended is given to the item of  *)
(* the call (Completes).  So what is proved about the lists of JsonItems   *)
(* holds while the parser builds them as well, and after it failed (LInv). *)
(***************************************************************************)
EXTENDS JsonParser, JsonItemsProofs, SequenceTheorems

Labels ==
  {"idle", "value", "first", "item", "name", "colon", "next", "fail", "done", "overrun"}

Opening == {"[", "{"}
Closing == {"]", "}"}

Frame == [item : Nodes, head : Pointers, last : Pointers, close : Closing]

\* The state of a call has its type, and parse_value has an item to fill.
Typed ==
  /\ text \in Seq(Alphabet) /\ ended \in BOOLEAN
  /\ parse \in [pc : Labels, offset : Nat, depth : Int, frames : Seq(Frame), item : Pointers,
                strict : BOOLEAN, why : {"ok", "text", "depth", "memory"}]
  /\ parse.pc \in {"value", "name", "colon"} => Target \in Nodes

\* depth counts the calls until an error; then they only return.
Nested ==
  /\ Len(parse.frames) <= NestingLimit
  /\ parse.pc \notin {"fail", "done"} => parse.depth = Len(parse.frames)

\* Where the offset may be.  After a bracket there is one to step back to, and where
\* a name or an item is begun, there is a byte.
Offsets ==
  /\ parse.pc \in {"first", "item", "name", "colon"} => Called
  /\ parse.pc = "first" => parse.offset >= 1
  /\ parse.pc \in {"item", "name"} => parse.offset < Length
  /\ WithinBuffer

PInv == Typed /\ Nested /\ Offsets

-----------------------------------------------------------------------------
(* The buffer.                                                             *)

\* Skipping blanks from within the buffer does not leave it, nor go back.
LEMMA SkipWithin ==
  ASSUME text \in Seq(Alphabet), NEW i \in 0..Length
  PROVE  /\ Length \in Nat /\ Skip(i) \in i..Length
         /\ i < Length => Skip(i) < Length
<1>1. Length \in Nat
  BY LenProperties DEF Length
<1> DEFINE S == {k \in i..Length : k = Length \/ At(k) \notin Blank}
<1>2. S \in SUBSET Nat /\ S # {}
  <2>1. Length \in i..Length
    BY <1>1
  <2>2. Length \in S
    BY <2>1
  <2>3. i..Length \subseteq Nat
    BY <1>1
  <2> QED BY <2>2, <2>3
<1>3. PICK k \in S : \A j \in S : k <= j
  BY <1>2, LeastExists
<1>4. NonBlank(i) \in S
  BY <1>3 DEF NonBlank
<1>5. NonBlank(i) \in i..Length
  BY <1>4
<1> QED
  BY <1>1, <1>5 DEF Skip, CanAccess

\* Where the next step looks is within the buffer or at its end.
LEMMA PlaceWithin ==
  ASSUME PInv
  PROVE  /\ Length \in Nat /\ Place \in Nat /\ Place <= Length /\ parse.offset <= Place
         /\ parse.pc = "item" => Place = parse.offset + 1
         /\ parse.pc = "name" => Place < Length
<1>1. parse.offset \in 0..Length /\ Length \in Nat
  BY LenProperties DEF PInv, Typed, Offsets, WithinBuffer, Length
<1>2. Skip(parse.offset) \in parse.offset..Length
  BY <1>1, SkipWithin DEF PInv, Typed
<1>3. parse.offset < Length => Skip(parse.offset) < Length
  BY <1>1, SkipWithin DEF PInv, Typed
<1>4. parse.pc \in {"item", "name"} => parse.offset < Length
  BY DEF PInv, Offsets
<1> QED
  BY <1>1, <1>2, <1>3, <1>4 DEF Place

-----------------------------------------------------------------------------
(* The steps.                                                              *)

\* The innermost call, and what remains when it returns.
LEMMA TopCall ==
  ASSUME PInv, Called
  PROVE  /\ Top \in Frame /\ Top = parse.frames[1]
         /\ Tail(parse.frames) \in Seq(Frame) /\ Len(Tail(parse.frames)) = Len(parse.frames) - 1
         /\ Len(parse.frames) \in Nat \ {0}
BY HeadTailProperties, LenProperties, EmptySeq DEF PInv, Typed, Called, Top

\* A step that leaves the calls and the buffer alone, and the item in place.
LEMMA Moves ==
  ASSUME PInv, NEW pc \in Labels, NEW i \in Nat, parse' = To(pc, i),
         UNCHANGED <<text, ended>>,
         i <= Length, pc \notin {"fail", "done", "overrun"}, parse.pc \notin {"fail", "done"},
         pc \in {"value", "name", "colon"} => Target \in Nodes,
         pc \in {"first", "item", "name", "colon"} => Called,
         pc = "first" => i >= 1,
         pc \in {"item", "name"} => i < Length
  PROVE  PInv'
BY DEF PInv, Typed, Nested, Offsets, WithinBuffer, To, Target, Top, Called, Length

\* A failure, wherever it is noticed.
LEMMA Fails ==
  ASSUME PInv, NEW i \in Nat, NEW why \in {"text", "depth", "memory"}, parse' = Fail(i, why),
         UNCHANGED <<text, ended>>, i <= Length
  PROVE  PInv'
BY DEF PInv, Typed, Nested, Offsets, WithinBuffer, To, Fail, Labels, Length

LEMMA StartPInv ==
  ASSUME PInv, NEW n \in Nodes, NEW strict \in BOOLEAN, Start(n, strict)
  PROVE  PInv'
<1>1. parse' = [Idle EXCEPT !.pc = "value", !.item = n, !.strict = strict] /\ text' = <<>>
      /\ ended' = FALSE
  BY DEF Start
<1>2. /\ parse'.pc = "value" /\ parse'.offset = 0 /\ parse'.depth = 0 /\ parse'.frames = <<>>
      /\ parse'.item = n /\ parse' \in [pc : Labels, offset : Nat, depth : Int,
           frames : Seq(Frame), item : Pointers, strict : BOOLEAN,
           why : {"ok", "text", "depth", "memory"}]
  <2>1. parse' = [pc |-> "value", offset |-> 0, depth |-> 0, frames |-> <<>>, item |-> n,
                  strict |-> strict, why |-> "ok"]
    BY <1>1 DEF Idle
  <2>2. <<>> \in Seq(Frame) /\ "value" \in Labels /\ n \in Pointers
    BY DEF Labels, Pointers
  <2> HIDE DEF Frame
  <2> QED BY <2>1, <2>2
<1>3. text' \in Seq(Alphabet) /\ Len(text') = 0 /\ Len(parse'.frames) = 0
  BY <1>1, <1>2, EmptySeq
<1>4. ended' \in BOOLEAN /\ Target' = n
  BY <1>1, <1>2 DEF Target, Called
<1>5. Typed'
  BY <1>2, <1>3, <1>4 DEF Typed
<1>6. Nested'
  BY <1>2, <1>3, ParserAssumption DEF Nested
<1>7. Offsets'
  BY <1>2, <1>3 DEF Offsets, WithinBuffer, Length
<1> QED
  BY <1>5, <1>6, <1>7 DEF PInv

LEMMA RevealPInv ==
  ASSUME PInv, Reveal
  PROVE  PInv'
<1>1. text' \in Seq(Alphabet) /\ Len(text') >= Len(text) /\ Len(text) \in Nat /\ Len(text') \in Nat
  <2>1. ASSUME NEW c \in Alphabet, text' = Append(text, c)
        PROVE  text' \in Seq(Alphabet) /\ Len(text') = Len(text) + 1
    BY <2>1, AppendProperties DEF PInv, Typed
  <2> QED
    BY <2>1, LenProperties DEF PInv, Typed, Reveal
<1>2. ended' \in BOOLEAN /\ parse' = parse
  BY DEF Reveal, PInv, Typed
<1> QED
  BY <1>1, <1>2
     DEF PInv, Typed, Nested, Offsets, WithinBuffer, Target, Top, Called, Length

\* A call is pushed onto the stack.
LEMMA Push ==
  ASSUME NEW f \in Frame, NEW s \in Seq(Frame)
  PROVE  /\ <<f>> \o s \in Seq(Frame) /\ <<f>> \o s # <<>>
         /\ Len(<<f>> \o s) = Len(s) + 1 /\ Len(s) \in Nat
<1>1. <<f>> \in Seq(Frame) /\ Len(<<f>>) = 1
  OBVIOUS
<1>2. <<f>> \o s \in Seq(Frame) /\ Len(<<f>> \o s) = 1 + Len(s) /\ Len(s) \in Nat
  BY <1>1, ConcatProperties, LenProperties
<1> QED
  BY <1>2, EmptySeq

LEMMA BegunPInv ==
  ASSUME PInv, NEW open \in Opening, Sees(open), parse.pc = "value", parse' = Begun(open),
         UNCHANGED <<text, ended>>
  PROVE  PInv'
<1>0. Length \in Nat /\ Place \in Nat /\ Place < Length /\ Place <= Length
  BY PlaceWithin DEF Sees, CanAccess
<1>1. PICK close \in Closing :
        parse' = IF parse.depth >= NestingLimit THEN Fail(Place, "depth")
                 ELSE [To("first", Place + 1) EXCEPT
                         !.depth = @ + 1,
                         !.frames = <<[item |-> Target, head |-> None, last |-> None,
                                       close |-> close]>> \o @]
  <2>1. (IF open = "[" THEN "]" ELSE "}") \in Closing
    BY Zenon DEF Closing
  <2> QED BY <2>1, Zenon DEF Begun
<1> DEFINE f == [item |-> Target, head |-> None, last |-> None, close |-> close]
           s == <<f>> \o parse.frames
<1>2. f \in Frame /\ parse.frames \in Seq(Frame)
  BY DEF PInv, Typed, Frame, Pointers
<1>3. parse.depth \in Int /\ NestingLimit \in Nat
  BY ParserAssumption DEF PInv, Typed
<1>t. parse' = IF parse.depth >= NestingLimit THEN Fail(Place, "depth")
               ELSE [To("first", Place + 1) EXCEPT !.depth = parse.depth + 1, !.frames = s]
  <2>1. To("first", Place + 1).frames = parse.frames /\ To("first", Place + 1).depth = parse.depth
    BY DEF To, PInv, Typed
  <2> QED BY <1>1, <2>1
<1> HIDE DEF f
<1>4. s \in Seq(Frame) /\ s # <<>> /\ Len(s) = Len(parse.frames) + 1 /\ Len(parse.frames) \in Nat
  BY <1>2, Push
<1> HIDE DEF s
<1>5. CASE parse.depth >= NestingLimit
  BY <1>0, <1>t, <1>5, Fails
<1>6. CASE parse.depth < NestingLimit
  <2>1. parse' = [parse EXCEPT !.pc = "first", !.offset = Place + 1, !.depth = parse.depth + 1,
                               !.frames = s]
    <3>1. parse' = [To("first", Place + 1) EXCEPT !.depth = parse.depth + 1, !.frames = s]
      BY <1>3, <1>t, <1>6
    <3> QED BY <3>1 DEF To, PInv, Typed
  <2>2. Typed'
    <3>1. /\ Place + 1 \in Nat /\ parse.depth + 1 \in Int /\ "first" \in Labels
          /\ text' \in Seq(Alphabet) /\ ended' \in BOOLEAN
      BY <1>0 DEF PInv, Typed, Labels
    <3> QED BY <1>4, <2>1, <3>1 DEF PInv, Typed
  <2>3. /\ parse'.pc = "first" /\ parse'.offset = Place + 1 /\ parse'.depth = parse.depth + 1
        /\ parse'.frames = s
    BY <2>1 DEF PInv, Typed
  <2>4. Nested'
    BY <1>3, <1>4, <1>6, <2>3 DEF PInv, Nested
  <2>5. Offsets'
    BY <1>0, <1>4, <2>3 DEF Offsets, WithinBuffer, Called, Length
  <2> QED
    BY <2>2, <2>4, <2>5 DEF PInv
<1> QED
  BY <1>3, <1>5, <1>6

\* A value in the text.
LEMMA ParseValuePInv ==
  ASSUME PInv, ParseValue
  PROVE  PInv'
<1>0. /\ Length \in Nat /\ Place \in Nat /\ Place <= Length /\ UNCHANGED <<text, ended>>
      /\ parse.pc = "value"
  BY PlaceWithin DEF ParseValue
<1>1. CASE (\E w \in Words : Sees(w)) /\ parse' = To("next", Place + 1)
  BY <1>0, <1>1, Moves DEF Sees, CanAccess, Labels
<1>2. CASE \E why \in {"text", "depth", "memory"} : parse' = Fail(Place, why)
  BY <1>0, <1>2, Fails
<1>3. CASE \E open \in Opening : Sees(open) /\ parse' = Begun(open)
  BY <1>0, <1>3, BegunPInv
<1> QED
  BY <1>1, <1>2, <1>3, Zenon DEF ParseValue, Opening

\* A call of parse_array or parse_object returns.
LEMMA SucceedPInv ==
  ASSUME PInv, Called, parse.pc \in {"first", "next"}, NEW c, Sees(c), Succeed,
         UNCHANGED <<text, ended>>
  PROVE  PInv'
<1>0. Length \in Nat /\ Place \in Nat /\ Place < Length
  BY PlaceWithin DEF Sees, CanAccess
<1> DEFINE s == Tail(parse.frames)
<1>1. s \in Seq(Frame) /\ Len(s) = Len(parse.frames) - 1 /\ Len(parse.frames) \in Nat \ {0}
  BY TopCall
<1>2. parse' = [To("next", Place + 1) EXCEPT !.depth = @ - 1, !.frames = Tail(@)]
  BY Zenon DEF Succeed
<1>3. parse' = [parse EXCEPT !.pc = "next", !.offset = Place + 1, !.depth = parse.depth - 1,
                             !.frames = s]
  BY <1>2 DEF To, PInv, Typed
<1> HIDE DEF s
<1>4. Typed'
  <2>1. /\ Place + 1 \in Nat /\ parse.depth - 1 \in Int /\ "next" \in Labels
        /\ text' \in Seq(Alphabet) /\ ended' \in BOOLEAN
    BY <1>0 DEF PInv, Typed, Labels
  <2> QED BY <1>1, <1>3, <2>1 DEF PInv, Typed
<1>5. /\ parse'.pc = "next" /\ parse'.offset = Place + 1 /\ parse'.depth = parse.depth - 1
      /\ parse'.frames = s
  BY <1>3 DEF PInv, Typed
<1>6. Nested'
  BY <1>1, <1>5, ParserAssumption DEF PInv, Nested, Typed
<1>7. Offsets'
  BY <1>0, <1>5 DEF Offsets, WithinBuffer, Length
<1> QED
  BY <1>4, <1>6, <1>7 DEF PInv

LEMMA FirstPInv ==
  ASSUME PInv, First
  PROVE  PInv'
<1>0. /\ Length \in Nat /\ Place \in Nat /\ Place <= Length /\ parse.offset <= Place
      /\ UNCHANGED <<text, ended>> /\ parse.pc = "first"
  BY PlaceWithin DEF First
<1>1. Called /\ Place - 1 \in Nat
  BY <1>0 DEF PInv, Offsets, Typed
<1>2. CASE Sees(Top.close) /\ Succeed
  BY <1>0, <1>1, <1>2, SucceedPInv
<1>3. CASE parse' = Fail(Place - 1, "text")
  BY <1>0, <1>1, <1>3, Fails
<1>4. CASE CanAccess(Place) /\ parse' = To("item", Place - 1)
  BY <1>0, <1>1, <1>4, Moves DEF CanAccess, Labels
<1> QED
  BY <1>2, <1>3, <1>4 DEF First

\* A new item at the end of the innermost list.
LEMMA EnteredFrames ==
  ASSUME PInv, Called, NEW n \in Nodes
  PROVE  \E s \in Seq(Frame) :
           /\ Entered(n) = [parse EXCEPT !.frames = s]
           /\ Len(s) = Len(parse.frames) /\ s # <<>> /\ Head(s).last = n
<1> DEFINE h == IF Top.head = None THEN n ELSE Top.head
           f == [Top EXCEPT !.head = h, !.last = n]
           s == [parse.frames EXCEPT ![1] = f]
<1>1. /\ Top \in Frame /\ Top = parse.frames[1] /\ parse.frames \in Seq(Frame)
      /\ Len(parse.frames) \in Nat \ {0}
  BY TopCall DEF PInv, Typed
<1>2. f \in Frame /\ f.last = n
  BY <1>1 DEF Frame, Pointers
<1>3. Entered(n) = [parse EXCEPT !.frames = s]
  <2>1. /\ "frames" \in DOMAIN parse /\ 1 \in DOMAIN parse.frames
        /\ DOMAIN Top = {"item", "head", "last", "close"}
    BY <1>1 DEF PInv, Typed, Frame
  <2> QED
    BY <1>1, <2>1 DEF Entered
<1> HIDE DEF f
<1>4. s \in Seq(Frame) /\ Len(s) = Len(parse.frames) /\ s[1] = f
  BY <1>1, <1>2
<1> HIDE DEF s
<1>5. s # <<>> /\ Head(s) = f
  BY <1>1, <1>4
<1> QED
  BY <1>2, <1>3, <1>4, <1>5

\* A new item joins the list of a call.
Added(h, call, n) ==
  IF call.head = None THEN NewItem(h, n, None)
  ELSE [NewItem(h, n, None) EXCEPT !.next[call.last] = n, !.prev[n] = call.last]

\* What Item does: there is no memory, nothing follows, or a name or a value does.
ItemAdded(n) ==
  /\ heap' = Added(heap, Top, n)
  /\ roots' = IF Top.head = None THEN roots \cup {n} ELSE roots
  /\ \/ parse' = [Entered(n) EXCEPT !.pc = "fail", !.why = "text"]
     \/ \E pc \in {"name", "value"} :
          /\ pc = "name" => CanAccess(Place)
          /\ parse' = [Entered(n) EXCEPT !.pc = pc, !.offset = Place]

LEMMA ItemCases ==
  ASSUME Item
  PROVE  \/ parse' = Fail(parse.offset, "memory") /\ UNCHANGED <<heap, roots>>
         \/ \E n \in Free(heap) : ItemAdded(n)
<1>1. ASSUME NEW n \in Free(heap), heap' = Added(heap, Top, n),
             roots' = IF Top.head = None THEN roots \cup {n} ELSE roots,
             parse' = IF NothingFollows
                      THEN [Entered(n) EXCEPT !.pc = "fail", !.why = "text"]
                      ELSE [Entered(n) EXCEPT !.pc = IF Top.close = "}" THEN "name" ELSE "value",
                                              !.offset = Place]
      PROVE  ItemAdded(n)
  <2>1. CASE NothingFollows
    BY <1>1, <2>1, Zenon DEF ItemAdded
  <2>2. CASE ~NothingFollows /\ Top.close = "}"
    <3>1. CanAccess(Place) /\ parse' = [Entered(n) EXCEPT !.pc = "name", !.offset = Place]
      BY <1>1, <2>2, Zenon DEF NothingFollows
    <3> QED BY <1>1, <3>1, Zenon DEF ItemAdded
  <2>3. CASE ~NothingFollows /\ Top.close # "}"
    <3>1. parse' = [Entered(n) EXCEPT !.pc = "value", !.offset = Place]
      BY <1>1, <2>3, Zenon
    <3>2. "value" # "name"
      OBVIOUS
    <3> QED BY <1>1, <3>1, <3>2, Zenon DEF ItemAdded
  <2> QED
    BY <2>1, <2>2, <2>3
<1> QED
  BY <1>1, Zenon DEF Item, Added

LEMMA ItemPInv ==
  ASSUME PInv, Item
  PROVE  PInv'
<1>0. /\ Length \in Nat /\ Place \in Nat /\ Place <= Length /\ Place = parse.offset + 1
      /\ parse.offset \in Nat /\ UNCHANGED <<text, ended>> /\ parse.pc = "item" /\ Called
  BY PlaceWithin DEF Item, PInv, Offsets, Typed
<1>1. CASE parse' = Fail(parse.offset, "memory")
  BY <1>0, <1>1, Fails
<1>2. ASSUME NEW n \in Nodes, parse' = [Entered(n) EXCEPT !.pc = "fail", !.why = "text"]
      PROVE  PInv'
  <2>1. PICK s \in Seq(Frame) : /\ Entered(n) = [parse EXCEPT !.frames = s]
                                /\ Len(s) = Len(parse.frames)
    BY <1>0, EnteredFrames
  <2>2. parse' = [parse EXCEPT !.pc = "fail", !.why = "text", !.frames = s]
    BY <1>2, <2>1 DEF PInv, Typed
  <2>3. "fail" \in Labels /\ text' \in Seq(Alphabet) /\ ended' \in BOOLEAN
    BY <1>0 DEF PInv, Typed, Labels
  <2>4. Typed'
    BY <2>2, <2>3 DEF PInv, Typed
  <2>5. parse'.pc = "fail" /\ parse'.offset = parse.offset /\ parse'.frames = s
    BY <2>2 DEF PInv, Typed
  <2> QED
    BY <1>0, <2>1, <2>4, <2>5 DEF PInv, Nested, Offsets, WithinBuffer, Length
<1>3. ASSUME NEW n \in Nodes, NEW pc \in {"name", "value"}, pc = "name" => CanAccess(Place),
             parse' = [Entered(n) EXCEPT !.pc = pc, !.offset = Place]
      PROVE  PInv'
  <2>1. PICK s \in Seq(Frame) : /\ Entered(n) = [parse EXCEPT !.frames = s]
                                /\ Len(s) = Len(parse.frames) /\ s # <<>> /\ Head(s).last = n
    BY <1>0, EnteredFrames
  <2>2. parse' = [parse EXCEPT !.pc = pc, !.offset = Place, !.frames = s]
    BY <1>3, <2>1 DEF PInv, Typed
  <2>3. /\ parse'.pc = pc /\ parse'.offset = Place /\ parse'.frames = s
        /\ parse'.depth = parse.depth
    BY <2>2 DEF PInv, Typed
  <2>4. pc \in Labels /\ text' \in Seq(Alphabet) /\ ended' \in BOOLEAN /\ Target' \in Nodes
    BY <1>0, <2>1, <2>3 DEF PInv, Typed, Labels, Target, Top, Called
  <2>5. Typed'
    BY <1>0, <2>2, <2>4 DEF PInv, Typed
  <2>6. Nested'
    BY <1>0, <2>1, <2>3 DEF PInv, Nested
  <2>7. Offsets'
    BY <1>0, <1>3, <2>1, <2>3 DEF Offsets, WithinBuffer, Called, Length, CanAccess
  <2> QED
    BY <2>5, <2>6, <2>7 DEF PInv
<1> QED
  <2>1. ASSUME NEW n \in Free(heap), ItemAdded(n)
        PROVE  PInv'
    <3>1. n \in Nodes
      BY DEF Free
    <3> QED
      BY <1>2, <1>3, <2>1, <3>1, Zenon DEF ItemAdded
  <2> QED
    BY <1>1, <2>1, ItemCases

LEMMA NamePInv ==
  ASSUME PInv, Name
  PROVE  PInv'
<1>n. parse.pc = "name" /\ UNCHANGED <<text, ended>>
  BY Zenon DEF Name
<1>0. /\ Length \in Nat /\ Place \in Nat /\ Place < Length /\ UNCHANGED <<text, ended>>
      /\ parse.pc = "name" /\ Called /\ Target \in Nodes /\ Place + 1 <= Length
  BY <1>n, PlaceWithin DEF PInv, Offsets, Typed
<1>1. CASE parse' = To("colon", Place + 1)
  BY <1>0, <1>1, Moves DEF Labels
<1>2. CASE \E why \in {"text", "memory"} : parse' = Fail(Place, why)
  BY <1>0, <1>2, Fails
<1> QED
  BY <1>0, <1>1, <1>2 DEF Name, CanAccess

LEMMA ColonPInv ==
  ASSUME PInv, Colon
  PROVE  PInv'
<1>0. /\ Length \in Nat /\ Place \in Nat /\ Place <= Length /\ UNCHANGED <<text, ended>>
      /\ parse.pc = "colon" /\ Target \in Nodes
  BY PlaceWithin DEF Colon, PInv, Typed
<1>1. CASE Sees(":") /\ parse' = To("value", Place + 1)
  BY <1>0, <1>1, Moves DEF Labels, Sees, CanAccess
<1>2. CASE parse' = Fail(Place, "text")
  BY <1>0, <1>2, Fails
<1> QED
  BY <1>1, <1>2 DEF Colon

\* The outermost call is over.
LEMMA Ends ==
  ASSUME PInv, ~Called, NEW i \in Nat, i <= Length, UNCHANGED <<text, ended>>,
         NEW item \in Pointers, parse' = [To("done", i) EXCEPT !.item = item]
  PROVE  PInv'
<1>1. parse' = [parse EXCEPT !.pc = "done", !.offset = i, !.item = item]
  BY DEF To, PInv, Typed
<1>2. "done" \in Labels
  BY DEF Labels
<1>3. Typed' /\ parse'.pc = "done" /\ parse'.offset = i /\ parse'.frames = parse.frames
  BY <1>1, <1>2 DEF PInv, Typed
<1> QED
  BY <1>3 DEF PInv, Nested, Offsets, WithinBuffer, Length

LEMMA ProceedPInv ==
  ASSUME PInv, Proceed
  PROVE  PInv'
<1>0. /\ Length \in Nat /\ Place \in Nat /\ Place <= Length /\ UNCHANGED <<text, ended>>
      /\ parse.pc = "next" /\ parse.offset \in Nat /\ parse.offset <= Length
      /\ parse.item \in Pointers
  BY PlaceWithin DEF Proceed, PInv, Typed, Offsets, WithinBuffer
<1>1. CASE Called /\ CanAccess(Place) /\ parse' = To("item", Place)
  BY <1>0, <1>1, Moves DEF Labels, CanAccess
<1>2. CASE Called /\ Sees(Top.close) /\ Succeed
  BY <1>0, <1>2, SucceedPInv
<1>3. CASE parse' = Fail(Place, "text")
  BY <1>0, <1>3, Fails
<1>4. ASSUME NEW i \in {Place, parse.offset}, ~Called, parse' = To("done", i)
      PROVE  PInv'
  <2>1. parse' = [To("done", i) EXCEPT !.item = parse.item]
    BY <1>4 DEF To, PInv, Typed
  <2> QED BY <1>0, <1>4, <2>1, Ends
<1>5. \/ Called /\ CanAccess(Place) /\ parse' = To("item", Place)
      \/ Called /\ Sees(Top.close) /\ Succeed
      \/ parse' = Fail(Place, "text")
      \/ \E i \in {Place, parse.offset} : ~Called /\ parse' = To("done", i)
  BY Zenon DEF Proceed, Sees
<1> QED
  BY <1>1, <1>2, <1>3, <1>4, <1>5

LEMMA UnwindPInv ==
  ASSUME PInv, Unwind
  PROVE  PInv'
<1>0. /\ UNCHANGED <<text, ended>> /\ parse.pc = "fail"
      /\ parse.offset \in Nat /\ parse.offset <= Length
  BY DEF Unwind, PInv, Typed, Offsets, WithinBuffer
<1>1. CASE Called
  <2>1. parse' = [parse EXCEPT !.frames = Tail(parse.frames)]
    BY <1>1 DEF Unwind
  <2>2. /\ Tail(parse.frames) \in Seq(Frame) /\ Len(Tail(parse.frames)) = Len(parse.frames) - 1
        /\ Len(parse.frames) \in Nat \ {0}
    BY <1>1, TopCall
  <2> DEFINE s == Tail(parse.frames)
  <2> HIDE DEF s
  <2>3. parse' = [parse EXCEPT !.frames = s] /\ s \in Seq(Frame) /\ Len(s) = Len(parse.frames) - 1
    BY <2>1, <2>2 DEF s
  <2>4. Typed' /\ parse'.pc = "fail" /\ parse'.offset = parse.offset /\ parse'.frames = s
    BY <1>0, <2>3 DEF PInv, Typed
  <2> QED
    BY <1>0, <2>2, <2>3, <2>4, ParserAssumption DEF PInv, Nested, Offsets, WithinBuffer, Length
<1>2. CASE ~Called
  <2>1. parse' = [To("done", parse.offset) EXCEPT !.item = None] /\ None \in Pointers
    BY <1>2 DEF Unwind, Pointers
  <2> QED BY <1>0, <1>2, <2>1, Ends
<1> QED
  BY <1>1, <1>2

\* Before a call, and after the client has deleted what came of one.
Between == parse = Idle /\ text = <<>> /\ ended = FALSE

LEMMA IdlePInv == Between => PInv
<1> SUFFICES ASSUME Between PROVE PInv
  OBVIOUS
<1>1. parse = [pc |-> "idle", offset |-> 0, depth |-> 0, frames |-> <<>>, item |-> None,
               strict |-> FALSE, why |-> "ok"]
  BY DEF Between, Idle
<1>2. <<>> \in Seq(Frame) /\ "idle" \in Labels /\ None \in Pointers
  BY DEF Labels, Pointers
<1>3. parse \in [pc : Labels, offset : Nat, depth : Int, frames : Seq(Frame), item : Pointers,
                 strict : BOOLEAN, why : {"ok", "text", "depth", "memory"}]
  BY <1>1, <1>2
<1>4. /\ text \in Seq(Alphabet) /\ ended \in BOOLEAN /\ Len(text) = 0
      /\ Len(parse.frames) = 0
  <2>1. parse.frames = <<>> /\ text = <<>> /\ ended = FALSE
    BY <1>1 DEF Between
  <2>2. <<>> \in Seq(Alphabet) /\ Len(<<>>) = 0
    BY EmptySeq
  <2> QED BY <2>1, <2>2
<1>5. parse.pc = "idle" /\ parse.offset = 0 /\ parse.depth = 0
  BY <1>1
<1>6. Typed
  BY <1>3, <1>4, <1>5 DEF Typed
<1>7. Nested
  BY <1>4, <1>5, ParserAssumption DEF Nested
<1>8. Offsets
  BY <1>4, <1>5 DEF Offsets, WithinBuffer, Length
<1> QED
  BY <1>6, <1>7, <1>8 DEF PInv

LEMMA ParserInvariance == ParserSpec => []PInv
<1>1. ParserInit => PInv
  BY IdlePInv DEF ParserInit, Between
<1>2. ASSUME PInv, ParserNext
      PROVE  PInv'
  <2>1. ASSUME Finish
        PROVE  PInv'
    <3>1. Between'
      BY <2>1 DEF Finish, Between, Idle
    <3> QED BY <3>1, IdlePInv, PTL
  <2>2. ASSUME Keep
        PROVE  PInv'
    <3>1. Between'
      BY <2>2 DEF Keep, Between, Idle
    <3> QED BY <3>1, IdlePInv, PTL
  <2> QED
    BY <1>2, <2>1, <2>2, StartPInv, RevealPInv, ParseValuePInv, FirstPInv, ItemPInv, NamePInv,
       ColonPInv, ProceedPInv, UnwindPInv DEF ParserNext
<1>3. PInv /\ UNCHANGED Parsing => PInv'
  BY DEF Parsing, PInv, Typed, Nested, Offsets, WithinBuffer, Target, Top, Called, Length
<1> QED
  BY <1>1, <1>2, <1>3, PTL DEF ParserSpec

-----------------------------------------------------------------------------
(* The theorems.                                                           *)

\* No step reads at or moves to an offset outside the buffer, not even parse_string,
\* which looks at the first byte of a name untested.
THEOREM StaysWithin == ParserSpec => []WithinBuffer
<1>1. PInv => WithinBuffer
  BY DEF PInv, Offsets
<1> QED
  BY <1>1, ParserInvariance, PTL

\* parse_value, parse_array and parse_object call each other no deeper than
\* CJSON_NESTING_LIMIT, also while a failure unwinds the calls.
THEOREM NestingBounded == ParserSpec => [](Len(parse.frames) <= NestingLimit)
<1>1. PInv => Len(parse.frames) <= NestingLimit
  BY DEF PInv, Nested
<1> QED
  BY <1>1, ParserInvariance, PTL

-----------------------------------------------------------------------------
(* The items that the calls have built.                                    *)

Open(F)   == {F[k].item : k \in 1..Len(F)}
Firsts(F) == {F[k].head : k \in 1..Len(F)}

\* Each call is for the last item of the call around it, the outermost one for top.
Stacked(F, top) ==
  /\ F \in Seq(Frame)
  /\ \A i, j \in 1..Len(F) : F[i].item = F[j].item => i = j
  /\ \A k \in 1..Len(F) : F[k].head = None <=> F[k].last = None
  /\ \A k \in 1..Len(F) : k # 1 => F[k].last = F[k - 1].item
  /\ F # <<>> => F[Len(F)].item = top

\* c is h as if all calls had come to their ends: each item has its list.
Completes(c, h, F) ==
  /\ c \in Heaps /\ h \in Heaps
  /\ c.live = h.live /\ c.kind = h.kind /\ c.next = h.next /\ c.key = h.key
  /\ c.const = h.const /\ c.ref = h.ref /\ c.strings = h.strings
  /\ \A k \in 1..Len(F) :
       /\ F[k].item \in h.live /\ h.child[F[k].item] = None
       /\ c.child[F[k].item] = F[k].head
       /\ F[k].head # None => c.prev[F[k].head] = F[k].last
  /\ \A n \in Nodes : /\ n \notin Open(F) => c.child[n] = h.child[n]
                      /\ n \notin Firsts(F) => c.prev[n] = h.prev[n]

\* Without the innermost call.
LEMMA Popped ==
  ASSUME NEW F \in Seq(Frame), F # <<>>
  PROVE  /\ Tail(F) \in Seq(Frame) /\ Head(F) = F[1] /\ F[1] \in Frame
         /\ Len(F) \in Nat \ {0} /\ Len(Tail(F)) = Len(F) - 1
         /\ \A k \in 1..Len(Tail(F)) : Tail(F)[k] = F[k + 1]
         /\ Open(F) = Open(Tail(F)) \cup {F[1].item}
         /\ Firsts(F) = Firsts(Tail(F)) \cup {F[1].head}
<1> DEFINE s == Tail(F)
<1>1. /\ s \in Seq(Frame) /\ Head(F) = F[1] /\ F[1] \in Frame /\ Len(F) \in Nat \ {0}
      /\ Len(s) = Len(F) - 1
  BY HeadTailProperties, LenProperties, EmptySeq
<1>2. \A k \in 1..Len(s) : s[k] = F[k + 1]
  BY <1>1
<1> HIDE DEF s
<1>3. \A k \in 1..Len(F) : k = 1 \/ (k - 1 \in 1..Len(s) /\ F[k] = s[k - 1])
  BY <1>1, <1>2
<1>4. 1 \in 1..Len(F) /\ \A k \in 1..Len(s) : k + 1 \in 1..Len(F)
  BY <1>1
<1>5. Open(F) = Open(s) \cup {F[1].item}
  BY <1>2, <1>3, <1>4 DEF Open
<1>6. Firsts(F) = Firsts(s) \cup {F[1].head}
  BY <1>2, <1>3, <1>4 DEF Firsts
<1> QED
  BY <1>1, <1>2, <1>5, <1>6 DEF s

LEMMA PoppedStack ==
  ASSUME NEW F, NEW top, Stacked(F, top), F # <<>>
  PROVE  /\ Stacked(Tail(F), top)
         /\ F[1].item \notin Open(Tail(F))
         /\ Tail(F) # <<>> => Tail(F)[1].last = F[1].item
         /\ Tail(F) = <<>> => F[1].item = top
<1> DEFINE s == Tail(F)
<1>0. F \in Seq(Frame)
  BY DEF Stacked
<1>1. /\ s \in Seq(Frame) /\ Len(F) \in Nat \ {0} /\ Len(s) = Len(F) - 1
      /\ \A k \in 1..Len(s) : s[k] = F[k + 1]
  BY <1>0, Popped
<1>e. s # <<>> => Len(s) \in Nat \ {0}
  BY <1>1, EmptySeq
<1>f. s = <<>> => Len(F) = 1
  BY <1>1, EmptySeq
<1> HIDE DEF s
<1>2. \A k \in 1..Len(s) : k + 1 \in 1..Len(F) /\ k + 1 # 1
  BY <1>1
<1>3. \A i, j \in 1..Len(s) : s[i].item = s[j].item => i = j
  <2> SUFFICES ASSUME NEW i \in 1..Len(s), NEW j \in 1..Len(s), s[i].item = s[j].item
               PROVE  i = j
    OBVIOUS
  <2>1. i + 1 = j + 1
    BY <1>1, <1>2 DEF Stacked
  <2> QED
    BY <2>1
<1>4. ASSUME NEW k \in 1..Len(s)
      PROVE  s[k].head = None <=> s[k].last = None
  <2>1. s[k] = F[k + 1] /\ k + 1 \in 1..Len(F)
    BY <1>1, <1>2
  <2>2. \A j \in 1..Len(F) : F[j].head = None <=> F[j].last = None
    BY DEF Stacked
  <2> QED
    BY <2>1, <2>2
<1>5. ASSUME NEW k \in 1..Len(s)
      PROVE  s[k].last = F[k].item
  <2>1. k + 1 \in 1..Len(F) /\ k + 1 # 1 /\ (k + 1) - 1 = k
    BY <1>2
  <2>2. F[k + 1].last = F[(k + 1) - 1].item
    BY <2>1 DEF Stacked
  <2> QED
    BY <1>1, <2>1, <2>2
<1>6. \A k \in 1..Len(s) : k # 1 => s[k].last = s[k - 1].item
  <2> SUFFICES ASSUME NEW k \in 1..Len(s), k # 1
               PROVE  s[k].last = s[k - 1].item
    OBVIOUS
  <2>1. k - 1 \in 1..Len(s) /\ (k - 1) + 1 = k
    BY <1>1
  <2>2. s[k - 1] = F[k]
    BY <1>1, <2>1
  <2> QED
    BY <1>5, <2>2
<1>7. s # <<>> => s[Len(s)].item = top
  <2> SUFFICES ASSUME s # <<>>
               PROVE  s[Len(s)].item = top
    OBVIOUS
  <2>1. Len(s) \in 1..Len(s) /\ Len(s) + 1 = Len(F)
    BY <1>1, <1>e
  <2>2. s[Len(s)] = F[Len(F)]
    BY <1>1, <2>1
  <2>3. F # <<>>
    OBVIOUS
  <2> QED
    BY <2>2, <2>3 DEF Stacked
<1>8. F[1].item \notin Open(s)
  <2> SUFFICES ASSUME NEW k \in 1..Len(s), F[1].item = s[k].item
               PROVE  FALSE
    BY DEF Open
  <2>1. 1 \in 1..Len(F) /\ F[k + 1].item = F[1].item
    BY <1>1
  <2> QED
    BY <1>2, <2>1 DEF Stacked
<1>9. s # <<>> => s[1].last = F[1].item
  BY <1>e, <1>5
<1>a. s = <<>> => F[1].item = top
  BY <1>f DEF Stacked
<1>b. Stacked(s, top)
  BY <1>1, <1>3, <1>4, <1>6, <1>7 DEF Stacked
<1> QED
  BY <1>8, <1>9, <1>a, <1>b DEF s

\* One more call.
LEMMA PushedStack ==
  ASSUME NEW F, NEW top, Stacked(F, top), NEW f \in Frame, f.head = None, f.last = None,
         f.item \notin Open(F), F = <<>> => f.item = top, F # <<>> => F[1].last = f.item
  PROVE  /\ Stacked(<<f>> \o F, top)
         /\ Len(<<f>> \o F) = Len(F) + 1 /\ (<<f>> \o F)[1] = f
         /\ \A k \in 1..Len(F) : (<<f>> \o F)[k + 1] = F[k]
         /\ Open(<<f>> \o F) = Open(F) \cup {f.item}
         /\ Firsts(<<f>> \o F) = Firsts(F) \cup {None}
<1> DEFINE s == <<f>> \o F
<1>0. F \in Seq(Frame)
  BY DEF Stacked
<1>1. /\ s \in Seq(Frame) /\ Len(s) = Len(F) + 1 /\ Len(F) \in Nat /\ s # <<>>
      /\ s[1] = f /\ \A k \in 1..Len(F) : s[k + 1] = F[k]
  <2>1. s \in Seq(Frame) /\ Len(s) = Len(F) + 1 /\ Len(F) \in Nat /\ s # <<>>
    BY <1>0, Push
  <2>2. <<f>> \in Seq(Frame) /\ Len(<<f>>) = 1 /\ <<f>>[1] = f
    OBVIOUS
  <2>3. s[1] = f /\ \A k \in 1..Len(F) : s[k + 1] = F[k]
    BY <1>0, <2>1, <2>2
  <2> QED
    BY <2>1, <2>3
<1> HIDE DEF s
<1>2. \A k \in 1..Len(s) : k = 1 \/ (k - 1 \in 1..Len(F) /\ s[k] = F[k - 1] /\ k # 1)
  <2> SUFFICES ASSUME NEW k \in 1..Len(s), k # 1
               PROVE  k - 1 \in 1..Len(F) /\ s[k] = F[k - 1]
    OBVIOUS
  <2>1. k - 1 \in 1..Len(F) /\ (k - 1) + 1 = k
    BY <1>1
  <2>2. s[(k - 1) + 1] = F[k - 1]
    BY <1>1, <2>1
  <2> QED
    BY <2>1, <2>2
<1>3. 1 \in 1..Len(s) /\ \A k \in 1..Len(F) : k + 1 \in 1..Len(s)
  BY <1>1
<1>4. \A k \in 1..Len(F) : F[k].item # f.item
  BY DEF Open
<1>5. \A i, j \in 1..Len(s) : s[i].item = s[j].item => i = j
  <2> SUFFICES ASSUME NEW i \in 1..Len(s), NEW j \in 1..Len(s), s[i].item = s[j].item
               PROVE  i = j
    OBVIOUS
  <2>1. CASE i # 1 /\ j # 1
    <3>1. i - 1 = j - 1
      BY <1>2, <2>1 DEF Stacked
    <3> QED
      BY <3>1
  <2> QED
    BY <1>1, <1>2, <1>4, <2>1
<1>6. ASSUME NEW k \in 1..Len(s)
      PROVE  s[k].head = None <=> s[k].last = None
  <2>1. \A j \in 1..Len(F) : F[j].head = None <=> F[j].last = None
    BY DEF Stacked
  <2> QED
    BY <1>1, <1>2, <2>1
<1>7. ASSUME NEW k \in 1..Len(s), k # 1
      PROVE  s[k].last = s[k - 1].item
  <2>1. k - 1 \in 1..Len(F) /\ s[k] = F[k - 1]
    BY <1>2, <1>7
  <2>2. CASE k - 1 = 1
    <3>1. F # <<>>
      BY <1>1, <2>1
    <3> QED
      BY <1>1, <2>1, <2>2, <3>1
  <2>3. CASE k - 1 # 1
    <3>1. k - 1 \in 1..Len(s) /\ s[k - 1] = F[(k - 1) - 1]
      BY <1>1, <1>2, <2>1, <2>3
    <3>2. F[k - 1].last = F[(k - 1) - 1].item
      BY <2>1, <2>3 DEF Stacked
    <3> QED
      BY <2>1, <3>1, <3>2
  <2> QED
    BY <2>2, <2>3
<1>8. s[Len(s)].item = top
  <2>1. CASE F = <<>>
    BY <1>0, <1>1, <2>1, EmptySeq
  <2>2. CASE F # <<>>
    <3>1. Len(F) \in 1..Len(F) /\ Len(s) = Len(F) + 1
      BY <1>0, <1>1, <2>2, EmptySeq
    <3> QED
      BY <1>1, <2>2, <3>1 DEF Stacked
  <2> QED
    BY <2>1, <2>2
<1>9. Stacked(s, top)
  BY <1>1, <1>5, <1>6, <1>7, <1>8 DEF Stacked
<1>a. Open(s) = Open(F) \cup {f.item}
  <2>1. \A k \in 1..Len(s) : s[k].item \in Open(F) \cup {f.item}
    BY <1>1, <1>2 DEF Open
  <2>2. \A k \in 1..Len(F) : F[k].item \in Open(s)
    BY <1>1, <1>3 DEF Open
  <2>3. f.item \in Open(s)
    BY <1>1, <1>3 DEF Open
  <2> QED
    BY <2>1, <2>2, <2>3 DEF Open
<1>b. Firsts(s) = Firsts(F) \cup {None}
  <2>1. \A k \in 1..Len(s) : s[k].head \in Firsts(F) \cup {None}
    BY <1>1, <1>2 DEF Firsts
  <2>2. \A k \in 1..Len(F) : F[k].head \in Firsts(s)
    BY <1>1, <1>3 DEF Firsts
  <2>3. None \in Firsts(s)
    BY <1>1, <1>3 DEF Firsts
  <2> QED
    BY <2>1, <2>2, <2>3 DEF Firsts
<1> QED
  BY <1>1, <1>9, <1>a, <1>b DEF s

\* The innermost call has a new last item.
LEMMA EnteredStack ==
  ASSUME NEW F, NEW top, Stacked(F, top), F # <<>>, NEW f \in Frame,
         f.item = F[1].item, f.head # None, f.last # None
  PROVE  LET s == [F EXCEPT ![1] = f]
         IN  /\ Stacked(s, top) /\ Len(s) = Len(F) /\ s[1] = f
             /\ \A k \in 1..Len(F) : k # 1 => s[k] = F[k]
             /\ Open(s) = Open(F)
             /\ Firsts(s) = Firsts(Tail(F)) \cup {f.head}
<1> DEFINE s == [F EXCEPT ![1] = f]
<1>0. F \in Seq(Frame) /\ Len(F) \in Nat \ {0}
  BY Popped DEF Stacked
<1>1. /\ s \in Seq(Frame) /\ Len(s) = Len(F) /\ s[1] = f
      /\ \A k \in 1..Len(F) : k # 1 => s[k] = F[k]
  BY <1>0
<1> HIDE DEF s
<1>2. 1 \in 1..Len(F) /\ s # <<>>
  BY <1>0, <1>1
<1>3. \A k \in 1..Len(F) : s[k].item = F[k].item
  BY <1>1
<1>4. Open(s) = Open(F)
  BY <1>1, <1>3 DEF Open
<1>5. Firsts(s) = Firsts(Tail(F)) \cup {f.head}
  <2>1. /\ Len(Tail(F)) = Len(F) - 1
        /\ \A k \in 1..Len(Tail(F)) : Tail(F)[k] = F[k + 1]
    BY <1>0, Popped
  <2>2. \A k \in 1..Len(Tail(F)) : k + 1 \in 1..Len(F) /\ k + 1 # 1 /\ s[k + 1] = Tail(F)[k]
    BY <1>0, <1>1, <2>1
  <2>3. \A k \in 1..Len(F) : k # 1 => k - 1 \in 1..Len(Tail(F)) /\ (k - 1) + 1 = k
    BY <1>0, <2>1
  <2>4. \A k \in 1..Len(F) : k # 1 => k - 1 \in 1..Len(Tail(F)) /\ s[k] = Tail(F)[k - 1]
    BY <2>2, <2>3
  <2>5. \A k \in 1..Len(F) : s[k].head \in Firsts(Tail(F)) \cup {f.head}
    BY <1>1, <2>4 DEF Firsts
  <2>6. \A k \in 1..Len(Tail(F)) : Tail(F)[k].head \in Firsts(s)
    BY <1>1, <2>2 DEF Firsts
  <2>7. f.head \in Firsts(s)
    BY <1>1, <1>2 DEF Firsts
  <2> QED
    BY <1>1, <2>5, <2>6, <2>7 DEF Firsts
<1>6. \A i, j \in 1..Len(F) : s[i].item = s[j].item => i = j
  BY <1>3 DEF Stacked
<1>7. ASSUME NEW k \in 1..Len(F)
      PROVE  s[k].head = None <=> s[k].last = None
  <2>1. \A j \in 1..Len(F) : F[j].head = None <=> F[j].last = None
    BY DEF Stacked
  <2> QED
    BY <1>1, <2>1
<1>8. ASSUME NEW k \in 1..Len(F), k # 1
      PROVE  s[k].last = s[k - 1].item
  <2>1. k - 1 \in 1..Len(F)
    BY <1>0, <1>8
  <2>2. s[k] = F[k] /\ s[k - 1].item = F[k - 1].item
    BY <1>1, <1>3, <1>8, <2>1
  <2> QED
    BY <1>8, <2>2 DEF Stacked
<1>9. s[Len(s)].item = top
  <2>1. Len(F) \in 1..Len(F)
    BY <1>0
  <2> QED
    BY <1>1, <1>3, <2>1 DEF Stacked
<1>a. Stacked(s, top)
  BY <1>1, <1>6, <1>7, <1>8, <1>9 DEF Stacked
<1> QED
  BY <1>1, <1>4, <1>5, <1>a DEF s

-----------------------------------------------------------------------------
(* The heap while the parser builds.                                       *)

\* The innermost calls hold their lists by the first items; once they have ended, all
\* items are below top.
Building(h, F, top, held) ==
  /\ top \in Nodes /\ Stacked(F, top) /\ h.ref = {} /\ h.const = {}
  /\ held = ({top} \cup Firsts(F)) \ {None}
  /\ \E c, o : Good(c, {top}, o) /\ Completes(c, h, F)

\* The list of a call has the item of the call for its owner.
Owned(o, f) == f.head # None => o[f.head] = f.item /\ o[f.last] = f.item

\* The items of a call, and those of its list.
LEMMA FrameLinks ==
  ASSUME NEW c, NEW h, NEW F, NEW top, NEW o, Good(c, {top}, o), Completes(c, h, F),
         Stacked(F, top), h.ref = {}, NEW k \in 1..Len(F)
  PROVE  /\ F[k].item \in c.live \ c.ref /\ F[k].item \in Nodes
         /\ F[k].head # None =>
              /\ F[k].head \in Nodes /\ F[k].last \in Nodes /\ F[k].last # None
              /\ F[k].head \in c.live /\ F[k].last \in c.live
         /\ Owned(o, F[k])
<1>1. /\ F[k].item \in c.live \ c.ref /\ c.child[F[k].item] = F[k].head
      /\ F[k].head # None => c.prev[F[k].head] = F[k].last
  BY DEF Completes
<1>2. c.live \in SUBSET Nodes /\ None \notin Nodes
  BY ItemsAssumption DEF Good, Shape, Wired
<1>3. F[k].head # None => /\ F[k].head \in Nodes /\ o[F[k].head] = F[k].item
                          /\ F[k].last \in Nodes /\ o[F[k].last] = F[k].item
  BY <1>1 DEF Good, Shape, Heads
<1>4. \A n \in Nodes : o[n] = F[k].item => n \in c.live
  BY <1>1, <1>2 DEF Good, Shape, Placed
<1> QED
  BY <1>1, <1>2, <1>3, <1>4 DEF Owned

\* No list is that of two calls, and top is on none.
LEMMA FirstsApart ==
  ASSUME NEW c, NEW h, NEW F, NEW top, NEW o, Good(c, {top}, o), Completes(c, h, F),
         Stacked(F, top), h.ref = {}
  PROVE  /\ o[top] = None /\ top \in c.live /\ top \in Nodes
         /\ \A k \in 1..Len(F) : F[k].head # top
         /\ \A j, k \in 1..Len(F) : F[j].head = F[k].head /\ F[k].head # None => j = k
<1>1. o[top] = None /\ top \in c.live /\ top \in Nodes /\ top # None
  BY ItemsAssumption DEF Good, Shape, Wired, Placed
<1>2. \A k \in 1..Len(F) : F[k].head # None => o[F[k].head] = F[k].item /\ F[k].item # None
  <2> SUFFICES ASSUME NEW k \in 1..Len(F)
               PROVE  Owned(o, F[k]) /\ F[k].item # None
    BY DEF Owned
  <2>1. Owned(o, F[k]) /\ F[k].item \in Nodes
    BY FrameLinks
  <2> QED
    BY <2>1, ItemsAssumption
<1>3. \A j, k \in 1..Len(F) : F[j].item = F[k].item => j = k
  BY DEF Stacked
<1> QED
  BY <1>1, <1>2, <1>3

\* What is held when the innermost call has ended.
LEMMA PoppedHeld ==
  ASSUME NEW h, NEW F, NEW top, NEW held, Building(h, F, top, held), F # <<>>
  PROVE  held \ {F[1].head} = ({top} \cup Firsts(Tail(F))) \ {None}
<1>1. PICK c, o : Good(c, {top}, o) /\ Completes(c, h, F)
  BY DEF Building
<1> DEFINE s == Tail(F)
           f == F[1]
<1>2. /\ Len(F) \in Nat \ {0} /\ Len(s) = Len(F) - 1 /\ \A k \in 1..Len(s) : s[k] = F[k + 1]
      /\ Firsts(F) = Firsts(s) \cup {f.head}
  BY Popped DEF Building, Stacked
<1>3. 1 \in 1..Len(F) /\ \A k \in 1..Len(s) : k + 1 \in 1..Len(F) /\ k + 1 # 1
  BY <1>2
<1>4. \A k \in 1..Len(F) : F[k].head # top
  BY <1>1, FirstsApart DEF Building
<1>5. \A k \in 1..Len(s) : F[1].head = F[k + 1].head => F[1].head = None
  <2>1. \A j, k \in 1..Len(F) : F[j].head = F[k].head /\ F[k].head # None => j = k
    BY <1>1, FirstsApart DEF Building
  <2> QED
    BY <1>3, <2>1
<1>6. \A k \in 1..Len(s) : s[k].head = f.head => f.head = None
  BY <1>2, <1>5
<1> HIDE DEF f, s
<1>7. f.head \notin Firsts(s) \ {None}
  BY <1>6 DEF Firsts
<1>8. f.head # top
  BY <1>3, <1>4 DEF f
<1>9. held \ {f.head} = ({top} \cup Firsts(s)) \ {None}
  BY <1>2, <1>7, <1>8 DEF Building
<1> QED
  BY <1>9 DEF f, s

\* Only the type of an item is set.
LEMMA KindBuilding ==
  ASSUME NEW h, NEW F, NEW top, NEW held, Building(h, F, top, held),
         NEW n \in Nodes, NEW w \in Kinds \cup Keys \cup {None}
  PROVE  Building([h EXCEPT !.kind[n] = w], F, top, held)
<1>1. PICK c, o : Good(c, {top}, o) /\ Completes(c, h, F)
  BY DEF Building
<1> DEFINE kind == [h.kind EXCEPT ![n] = w]
           g    == [h EXCEPT !.kind = kind]
           d    == [c EXCEPT !.kind = kind]
<1>2. h \in Heaps /\ c \in Heaps /\ kind \in [Nodes -> Kinds \cup Keys \cup {None}]
  BY <1>1 DEF Completes, Heaps
<1>3. g = [h EXCEPT !.kind[n] = w]
  BY <1>2 DEF Heaps
<1> HIDE DEF kind
<1>4. /\ g \in Heaps /\ d \in Heaps /\ g.kind = kind /\ d.kind = kind
      /\ g.live = h.live /\ g.child = h.child /\ g.next = h.next /\ g.prev = h.prev
      /\ g.key = h.key /\ g.const = h.const /\ g.ref = h.ref /\ g.strings = h.strings
      /\ d.live = c.live /\ d.child = c.child /\ d.next = c.next /\ d.prev = c.prev
      /\ d.key = c.key /\ d.const = c.const /\ d.ref = c.ref /\ d.strings = c.strings
  BY <1>2 DEF Heaps
<1> HIDE DEF g, d
<1>5. Completes(d, g, F)
  BY <1>1, <1>4 DEF Completes
<1>6. Named(d)
  BY <1>1, <1>4, SameNames DEF Good
<1>7. Shape(d, {top}, o)
  <2>1. d.child \in [Nodes -> Pointers \cup {Stale}]
    BY <1>4 DEF Heaps
  <2> QED
    BY <1>1, <1>4, <2>1, SameShape DEF Good
<1>8. Building(g, F, top, held)
  BY <1>4, <1>5, <1>6, <1>7 DEF Building, Good
<1> QED
  BY <1>3, <1>8

\* An item gets a name.
LEMMA NameBuilding ==
  ASSUME NEW h, NEW F, NEW top, NEW held, Building(h, F, top, held),
         NEW n \in h.live, h.key[n] = None, NEW k \in Keys
  PROVE  Building([h EXCEPT !.key[n] = k, !.strings = @ + 1], F, top, held)
<1>1. PICK c, o : Good(c, {top}, o) /\ Completes(c, h, F)
  BY DEF Building
<1> DEFINE g == [h EXCEPT !.key[n] = k, !.strings = @ + 1]
           d == Renamed(c, n, k, FALSE)
           key == [h.key EXCEPT ![n] = k]
<1>2. /\ h \in Heaps /\ c \in Heaps /\ n \in Nodes /\ n \in c.live /\ h.strings \in Int
      /\ c.key = h.key /\ c.strings = h.strings /\ c.const = {} /\ h.const = {}
      /\ key \in [Nodes -> Keys \cup {None}]
  BY <1>1 DEF Completes, Heaps, Building
<1>3. g = [h EXCEPT !.key = key, !.strings = h.strings + 1]
  BY <1>2 DEF Heaps
<1>4. d = [c EXCEPT !.key = key, !.const = {}, !.strings = h.strings + 1]
  <2>1. ~OwnsKey(c, n)
    BY <1>2 DEF OwnsKey
  <2>2. {} \ {n} = {} /\ h.strings + 1 - 0 = h.strings + 1
    BY <1>2
  <2>3. d = [c EXCEPT !.key[n] = k, !.const = @ \ {n}, !.strings = @ + 1 - 0]
    BY <2>1 DEF Renamed
  <2> QED
    BY <1>2, <2>2, <2>3 DEF Heaps
<1>5. Good(d, {top}, o)
  <2>1. Alike(c, {top}, o, d)
    BY <1>1, <1>2, RenamedGood
  <2> QED
    BY <2>1 DEF Alike
<1> HIDE DEF key
<1> DEFINE strings == h.strings + 1
<1>s. strings \in Int /\ {} \in SUBSET Nodes
  BY <1>2
<1>t. g = [h EXCEPT !.key = key, !.strings = strings] /\ d = [c EXCEPT !.key = key, !.const = {}, !.strings = strings]
  BY <1>3, <1>4
<1> HIDE DEF g, d, strings
<1>g. /\ g \in Heaps /\ g.key = key /\ g.strings = strings
      /\ g.live = h.live /\ g.child = h.child /\ g.next = h.next /\ g.prev = h.prev
      /\ g.kind = h.kind /\ g.const = h.const /\ g.ref = h.ref
  BY <1>2, <1>s, <1>t DEF Heaps
<1>6. /\ d \in Heaps /\ d.key = key /\ d.strings = strings /\ d.const = {}
      /\ d.live = c.live /\ d.child = c.child /\ d.next = c.next /\ d.prev = c.prev
      /\ d.kind = c.kind /\ d.ref = c.ref
  BY <1>2, <1>s, <1>t DEF Heaps
<1>7. Completes(d, g, F)
  BY <1>1, <1>2, <1>g, <1>6 DEF Completes
<1>8. Building(g, F, top, held)
  BY <1>2, <1>5, <1>g, <1>7 DEF Building
<1> QED
  BY <1>8 DEF g

\* A call begins.
LEMMA BegunBuilding ==
  ASSUME NEW h, NEW F, NEW top, NEW held, Building(h, F, top, held),
         NEW f \in Frame, f.head = None, f.last = None,
         f.item \notin Open(F), f.item \in h.live, h.child[f.item] = None,
         F = <<>> => f.item = top, F # <<>> => F[1].last = f.item
  PROVE  Building(h, <<f>> \o F, top, held)
<1>1. PICK c, o : Good(c, {top}, o) /\ Completes(c, h, F)
  BY DEF Building
<1> DEFINE s == <<f>> \o F
<1>2. /\ Stacked(s, top) /\ Len(s) = Len(F) + 1 /\ s[1] = f
      /\ \A k \in 1..Len(F) : s[k + 1] = F[k]
      /\ Open(s) = Open(F) \cup {f.item} /\ Firsts(s) = Firsts(F) \cup {None}
  BY PushedStack DEF Building
<1> HIDE DEF s
<1>3. Len(F) \in Nat /\ h.live \in SUBSET Nodes
  BY <1>1, LenProperties DEF Building, Stacked, Completes, Heaps
<1>4. c.child[f.item] = None
  BY <1>1, <1>3 DEF Completes
<1>5. ASSUME NEW k \in 1..Len(s)
      PROVE  /\ s[k].item \in h.live /\ h.child[s[k].item] = None
             /\ c.child[s[k].item] = s[k].head
             /\ s[k].head # None => c.prev[s[k].head] = s[k].last
  <2>1. CASE k = 1
    BY <1>2, <1>4, <2>1
  <2>2. CASE k # 1
    <3>1. k - 1 \in 1..Len(F) /\ (k - 1) + 1 = k
      BY <1>2, <1>3, <2>2
    <3>2. s[k] = F[k - 1]
      BY <1>2, <3>1
    <3> QED
      BY <1>1, <3>1, <3>2 DEF Completes
  <2> QED
    BY <2>1, <2>2
<1>6. \A n \in Nodes : /\ n \notin Open(s) => c.child[n] = h.child[n]
                       /\ n \notin Firsts(s) => c.prev[n] = h.prev[n]
  BY <1>1, <1>2 DEF Completes
<1>7. Completes(c, h, s)
  BY <1>1, <1>5, <1>6 DEF Completes
<1>8. held = ({top} \cup Firsts(s)) \ {None}
  BY <1>2 DEF Building
<1>9. Building(h, s, top, held)
  BY <1>1, <1>2, <1>7, <1>8 DEF Building
<1> QED
  BY <1>9 DEF s

\* A call ends, and its item has the list.
Returned(h, call, kind) ==
  LET closing == [h EXCEPT !.kind[call.item] = kind, !.child[call.item] = call.head]
  IN  IF call.head = None THEN closing ELSE [closing EXCEPT !.prev[call.head] = call.last]

LEMMA SucceedBuilding ==
  ASSUME NEW h, NEW F, NEW top, NEW held, Building(h, F, top, held), F # <<>>,
         NEW kind \in Kinds
  PROVE  Building(Returned(h, F[1], kind), Tail(F), top, held \ {F[1].head})
<1>1. PICK c, o : Good(c, {top}, o) /\ Completes(c, h, F)
  BY DEF Building
<1> DEFINE s     == Tail(F)
           f     == F[1]
           g     == Returned(h, f, kind)
           kinds == [h.kind EXCEPT ![f.item] = kind]
           child == [h.child EXCEPT ![f.item] = f.head]
           prev  == IF f.head = None THEN h.prev ELSE [h.prev EXCEPT ![f.head] = f.last]
           d     == [c EXCEPT !.kind = kinds]
<1>2. /\ s \in Seq(Frame) /\ f \in Frame /\ Len(F) \in Nat \ {0} /\ Len(s) = Len(F) - 1
      /\ \A k \in 1..Len(s) : s[k] = F[k + 1]
      /\ Open(F) = Open(s) \cup {f.item} /\ Firsts(F) = Firsts(s) \cup {f.head}
  BY Popped DEF Building, Stacked
<1>3. Stacked(s, top) /\ f.item \notin Open(s)
  BY PoppedStack DEF Building
<1>4. /\ 1 \in 1..Len(F) /\ \A k \in 1..Len(s) : k + 1 \in 1..Len(F) /\ k + 1 # 1
  BY <1>2
<1>5. /\ f.item \in Nodes /\ f.head \in Pointers /\ f.last \in Pointers
      /\ c.child[f.item] = f.head /\ (f.head # None => c.prev[f.head] = f.last /\ f.head \in Nodes)
  BY <1>1, <1>2, <1>4, FrameLinks DEF Building, Completes, Frame, Pointers
<1>6. held \ {f.head} = ({top} \cup Firsts(s)) \ {None}
  BY PoppedHeld
<1>7. /\ h \in Heaps /\ c \in Heaps /\ kinds \in [Nodes -> Kinds \cup Keys \cup {None}]
      /\ child \in [Nodes -> Pointers \cup {Stale}] /\ prev \in [Nodes -> Pointers]
  BY <1>1, <1>5 DEF Completes, Heaps
<1>8. g = [h EXCEPT !.kind = kinds, !.child = child, !.prev = prev]
  BY <1>7 DEF Heaps, Returned
<1> HIDE DEF g
<1>9. /\ child[f.item] = f.head /\ \A n \in Nodes : n # f.item => child[n] = h.child[n]
  BY <1>5, <1>7 DEF Heaps
<1>a. /\ f.head # None => prev[f.head] = f.last
      /\ \A n \in Nodes : n # f.head => prev[n] = h.prev[n]
  BY <1>5, <1>7 DEF Heaps
<1> HIDE DEF kinds, child, prev
<1>b. /\ g \in Heaps /\ g.kind = kinds /\ g.child = child /\ g.prev = prev /\ g.live = h.live
      /\ g.next = h.next /\ g.key = h.key /\ g.const = h.const /\ g.ref = h.ref
      /\ g.strings = h.strings
  BY <1>7, <1>8 DEF Heaps
<1>c. /\ d \in Heaps /\ d.kind = kinds
      /\ d.live = c.live /\ d.child = c.child /\ d.next = c.next /\ d.prev = c.prev
      /\ d.key = c.key /\ d.const = c.const /\ d.ref = c.ref /\ d.strings = c.strings
  BY <1>7 DEF Heaps
<1> HIDE DEF d, s, f
<1>d. ASSUME NEW k \in 1..Len(s)
      PROVE  /\ s[k].item \in g.live /\ g.child[s[k].item] = None
             /\ d.child[s[k].item] = s[k].head
             /\ s[k].head # None => d.prev[s[k].head] = s[k].last
  <2>1. s[k] = F[k + 1] /\ k + 1 \in 1..Len(F)
    BY <1>2, <1>4
  <2>2. s[k].item # f.item
    BY <1>3 DEF Open
  <2>3. s[k].item \in Nodes
    <3>1. \A i \in 1..Len(F) : F[i].item \in Nodes
      BY <1>1, FrameLinks DEF Building
    <3> QED
      BY <2>1, <3>1
  <2> QED
    BY <1>1, <1>9, <1>b, <1>c, <2>1, <2>2, <2>3 DEF Completes
<1>e. ASSUME NEW n \in Nodes
      PROVE  /\ n \notin Open(s) => d.child[n] = g.child[n]
             /\ n \notin Firsts(s) => d.prev[n] = g.prev[n]
  <2>1. n # f.item /\ n \notin Open(s) => n \notin Open(F)
    BY <1>2
  <2>2. n # f.head /\ n \notin Firsts(s) => n \notin Firsts(F)
    BY <1>2
  <2>3. n = f.head => n # None
    BY ItemsAssumption
  <2> QED
    BY <1>1, <1>5, <1>9, <1>a, <1>b, <1>c, <2>1, <2>2, <2>3 DEF Completes
<1>f. Completes(d, g, s)
  BY <1>1, <1>b, <1>c, <1>d, <1>e DEF Completes
<1>g. Good(d, {top}, o)
  <2>1. Named(d)
    BY <1>1, <1>c, SameNames DEF Good
  <2>2. d.child \in [Nodes -> Pointers \cup {Stale}]
    BY <1>c DEF Heaps
  <2>3. Shape(d, {top}, o)
    BY <1>1, <1>c, <2>2, SameShape DEF Good
  <2> QED
    BY <2>1, <2>3 DEF Good
<1>h. Building(g, s, top, held \ {f.head})
  BY <1>3, <1>6, <1>b, <1>f, <1>g DEF Building
<1> QED
  BY <1>h DEF s, f, g

\* What appending an item to the list of p sets.
AppendedTo(h, p, n, g) ==
  LET first == h.child[p]
      last  == h.prev[first]
  IN  /\ first = None => g = [h EXCEPT !.child = [h.child EXCEPT ![p] = n],
                                       !.next  = [h.next EXCEPT ![n] = None],
                                       !.prev  = [h.prev EXCEPT ![n] = n]]
      /\ first # None => g = [h EXCEPT !.next = [h.next EXCEPT ![last] = n],
                                       !.prev = [h.prev EXCEPT ![n] = last, ![first] = n]]

LEMMA AppendedFields ==
  ASSUME NEW h \in Heaps, NEW p \in Nodes, NEW n \in Nodes,
         h.child[p] # None => h.child[p] \in Nodes /\ h.prev[h.child[p]] \in Nodes
  PROVE  AppendedTo(h, p, n, Appended(h, p, n))
<1> DEFINE first == h.child[p]
           last  == h.prev[first]
<1>1. CASE first = None
  BY <1>1 DEF Appended, AppendedTo, Heaps
<1>2. CASE first # None
  <2>1. last # None
    BY <1>2, ItemsAssumption
  <2> QED
    BY <1>2, <2>1 DEF Appended, AppendedTo, Heaps
<1> QED
  BY <1>1, <1>2

\* The item that parse_value fills, or that gets a name.
Filled(F, top) == IF F = <<>> THEN top ELSE F[1].last

\* That item is allocated and has no children yet, nor a name before it is read.
Ready(h, n, F, pc) ==
  /\ pc \in {"value", "name", "colon"} => n \notin Open(F) /\ n \in h.live /\ h.child[n] = None
  /\ pc = "name" => h.key[n] = None

\* The call with that item.
Joined(call, n) == [call EXCEPT !.head = IF @ = None THEN n ELSE @, !.last = n]

LEMMA ItemBuilding ==
  ASSUME NEW h, NEW F, NEW top, NEW held, Building(h, F, top, held), F # <<>>, NEW n \in Free(h)
  PROVE  /\ Building(Added(h, F[1], n), [F EXCEPT ![1] = Joined(F[1], n)], top,
                     IF F[1].head = None THEN held \cup {n} ELSE held)
         /\ \A pc : Ready(Added(h, F[1], n), n, [F EXCEPT ![1] = Joined(F[1], n)], pc)
<1> DEFINE f       == Joined(F[1], n)
           g       == Added(h, F[1], n)
           created == NewItem(h, n, None)
<1>y. g = IF F[1].head = None THEN created
          ELSE [created EXCEPT !.next[F[1].last] = n, !.prev[n] = F[1].last]
  BY DEF Added
<1>z. /\ f \in Frame /\ f.item = F[1].item /\ f.last = n
      /\ f.head = IF F[1].head = None THEN n ELSE F[1].head
  <2>1. F[1] \in Frame /\ n \in Pointers
    BY Popped DEF Building, Stacked, Free, Pointers
  <2> QED
    BY <2>1 DEF Frame, Joined
<1> HIDE DEF f, g
<1>1. PICK c, o : Good(c, {top}, o) /\ Completes(c, h, F)
  BY DEF Building
<1>x. /\ Stacked(F, top) /\ h.ref = {} /\ F # <<>>
      /\ \A k \in 1..Len(F) :
           /\ F[k].item \in c.live \ c.ref /\ F[k].item \in Nodes
           /\ F[k].head # None => /\ F[k].head \in Nodes /\ F[k].last \in Nodes
                                  /\ F[k].head \in c.live /\ F[k].last \in c.live
                                  /\ c.prev[F[k].head] = F[k].last
  <2>1. Stacked(F, top) /\ h.ref = {}
    BY DEF Building
  <2>2. ASSUME NEW k \in 1..Len(F)
        PROVE  /\ F[k].item \in c.live \ c.ref /\ F[k].item \in Nodes
               /\ F[k].head # None => /\ F[k].head \in Nodes /\ F[k].last \in Nodes
                                      /\ F[k].head \in c.live /\ F[k].last \in c.live
                                      /\ c.prev[F[k].head] = F[k].last
    <3>1. /\ F[k].item \in c.live \ c.ref /\ F[k].item \in Nodes
          /\ F[k].head # None => /\ F[k].head \in Nodes /\ F[k].last \in Nodes
                                 /\ F[k].head \in c.live /\ F[k].last \in c.live
      BY <1>1, <2>1, FrameLinks
    <3>2. F[k].head # None => c.prev[F[k].head] = F[k].last
      BY <1>1 DEF Completes
    <3> QED
      BY <3>1, <3>2
  <2> QED
    BY <2>1, <2>2
<1> DEFINE s     == [F EXCEPT ![1] = f]
           p     == F[1].item
           first == F[1].head
           last  == F[1].last
           more  == NewItem(c, n, None)
           d     == Appended(more, p, n)
<1>2. /\ F \in Seq(Frame) /\ Len(F) \in Nat \ {0} /\ 1 \in 1..Len(F)
      /\ Open(F) = Open(Tail(F)) \cup {p} /\ Firsts(F) = Firsts(Tail(F)) \cup {first}
  <2>1. F \in Seq(Frame)
    BY DEF Building, Stacked
  <2> QED
    BY <2>1, Popped
<1>3. /\ h \in Heaps /\ c \in Heaps /\ n \in Nodes /\ n # None /\ n \notin h.live
      /\ c.live = h.live /\ h.live \in SUBSET Nodes
  BY <1>1, ItemsAssumption DEF Completes, Heaps, Free
<1>4. /\ p \in c.live \ c.ref /\ p \in Nodes /\ p # n /\ c.child[p] = first
      /\ first # None => /\ first \in Nodes /\ last \in Nodes /\ first \in h.live /\ last \in h.live
                         /\ c.prev[first] = last
      /\ first # n /\ last # n
  <2>1. p \in c.live \ c.ref /\ p \in Nodes
    BY <1>2, <1>x
  <2>2. c.child[p] = first
    BY <1>1, <1>2 DEF Completes
  <2>3. first # None => /\ first \in Nodes /\ last \in Nodes /\ first \in h.live /\ last \in h.live
                        /\ c.prev[first] = last
    BY <1>2, <1>3, <1>x
  <2>4. first = None <=> last = None
    BY <1>2 DEF Building, Stacked
  <2> QED
    BY <1>3, <2>1, <2>2, <2>3, <2>4
<1>5. /\ c.next[n] = None /\ c.child[n] = None /\ c.prev[n] = None /\ c.key[n] = None
  <2>1. o[n] = None
    BY <1>1, <1>3 DEF Good, Shape, Placed
  <2> QED
    BY <1>1, <1>3, <2>1 DEF Good, Named, Shape, Loose
<1>6. n \notin Open(F) /\ n \notin Firsts(F) /\ n # top
  <2>1. \A k \in 1..Len(F) : F[k].item \in h.live /\ F[k].item # n
    BY <1>1, <1>3 DEF Completes
  <2>2. \A k \in 1..Len(F) : F[k].head # n
    BY <1>3, <1>x
  <2>3. top \in h.live
    BY <1>1, <1>3 DEF Good, Shape, Wired
  <2> QED
    BY <1>3, <2>1, <2>2, <2>3 DEF Open, Firsts
<1>7. /\ Good(more, {top} \cup {n}, o) /\ more.live = h.live \cup {n} /\ more.ref = c.ref
      /\ Visited(more, n) = {n}
  <2>1. Fresh(c, {top}, o, n, c.ref, more)
    BY <1>1, <1>3, NewItemGood DEF Free
  <2> QED
    BY <1>3, <2>1 DEF Fresh
<1> DEFINE live == h.live \cup {n}
           kind == [h.kind EXCEPT ![n] = None]
<1>8. /\ live \in SUBSET Nodes /\ kind \in [Nodes -> Kinds \cup Keys \cup {None}]
  BY <1>3 DEF Heaps
<1>9. /\ created = [h EXCEPT !.live = live, !.kind = kind]
      /\ more = [c EXCEPT !.live = live, !.kind = kind]
  <2>1. c.kind = h.kind
    BY <1>1 DEF Completes
  <2> QED
    BY <1>3, <2>1 DEF NewItem, Heaps
<1> HIDE DEF live, kind, created
<1>a. /\ more \in Heaps /\ more.kind = kind /\ more.child = c.child /\ more.next = c.next
      /\ more.prev = c.prev /\ more.key = c.key /\ more.const = c.const /\ more.strings = c.strings
      /\ more.live = live
  BY <1>3, <1>8, <1>9 DEF Heaps
<1> HIDE DEF more
<1> DEFINE child == IF first = None THEN [c.child EXCEPT ![p] = n] ELSE c.child
           next  == IF first = None THEN [c.next EXCEPT ![n] = None] ELSE [c.next EXCEPT ![last] = n]
           prev  == IF first = None THEN [c.prev EXCEPT ![n] = n]
                    ELSE [c.prev EXCEPT ![n] = last, ![first] = n]
           back  == IF first = None THEN h.prev ELSE [h.prev EXCEPT ![n] = last]
<1>b. d = [more EXCEPT !.child = child, !.next = next, !.prev = prev]
  <2>1. more.child[p] = first /\ (first # None => more.prev[first] = last)
    BY <1>4, <1>a
  <2>0. AppendedTo(more, p, n, d)
    BY <1>3, <1>4, <1>a, <2>1, AppendedFields
  <2>2. \/ /\ first = None
           /\ d = [more EXCEPT !.child = [more.child EXCEPT ![p] = n], !.next = [more.next EXCEPT ![n] = None],
                               !.prev = [more.prev EXCEPT ![n] = n]]
        \/ /\ first # None
           /\ d = [more EXCEPT !.next = [more.next EXCEPT ![last] = n],
                               !.prev = [more.prev EXCEPT ![n] = last, ![first] = n]]
    BY <2>0, <2>1 DEF AppendedTo
  <2> HIDE DEF d
  <2>3. CASE first = None
    BY <1>a, <2>2, <2>3
  <2>4. CASE first # None
    <3>1. next = [more.next EXCEPT ![last] = n] /\ prev = [more.prev EXCEPT ![n] = last, ![first] = n]
      BY <1>a, <2>4
    <3>2. child = more.child
      BY <1>a, <2>4
    <3>3. d = [more EXCEPT !.next = next, !.prev = prev]
      BY <2>2, <2>4, <3>1
    <3> HIDE DEF child, next, prev, first
    <3> QED
      BY <1>a, <3>2, <3>3 DEF Heaps
  <2> QED
    BY <2>3, <2>4
<1>c. /\ next \in [Nodes -> Pointers] /\ back \in [Nodes -> Pointers] /\ prev \in [Nodes -> Pointers]
      /\ child \in [Nodes -> Pointers \cup {Stale}]
      /\ child[p] = (IF first = None THEN n ELSE first) /\ \A m \in Nodes : m # p => child[m] = c.child[m]
      /\ first = None => prev[n] = n /\ \A m \in Nodes : m # n => prev[m] = c.prev[m]
      /\ first # None => /\ prev[n] = last /\ prev[first] = n /\ back[n] = last
                         /\ \A m \in Nodes : m \notin {n, first} => prev[m] = c.prev[m]
      /\ \A m \in Nodes : m # n => back[m] = h.prev[m]
  BY <1>3, <1>4 DEF Heaps, Pointers
<1>d. /\ created \in Heaps /\ created.live = live /\ created.kind = kind /\ created.child = h.child
      /\ created.next = h.next /\ created.prev = h.prev /\ created.key = h.key
      /\ created.const = h.const /\ created.ref = h.ref /\ created.strings = h.strings
  BY <1>3, <1>8, <1>9 DEF Heaps
<1>e. g = [created EXCEPT !.next = next, !.prev = back]
  <2>1. c.next = h.next
    BY <1>1 DEF Completes
  <2>2. [c.next EXCEPT ![n] = None] = c.next
    BY <1>3, <1>5 DEF Heaps
  <2>3. CASE first = None
    BY <1>d, <1>y, <2>1, <2>2, <2>3 DEF Heaps
  <2>4. CASE first # None
    BY <1>d, <1>y, <2>1, <2>4 DEF Heaps
  <2> QED
    BY <2>3, <2>4
<1> HIDE DEF child, next, prev, back
<1>v. /\ g \in Heaps /\ g.live = live /\ g.kind = kind /\ g.child = h.child /\ g.next = next
      /\ g.prev = back /\ g.key = h.key /\ g.const = h.const /\ g.ref = h.ref /\ g.strings = h.strings
  BY <1>c, <1>d, <1>e DEF Heaps
<1>g. Good(d, {top}, CHOOSE q : Good(d, {top}, q))
  <2>1. \E q : Good(d, ({top} \cup {n}) \ {n}, q)
    <3>1. p \in more.live \ more.ref /\ p \notin Visited(more, n)
      BY <1>3, <1>4, <1>7
    <3> QED
      BY <1>7, <3>1, AppendedGood
  <2>2. ({top} \cup {n}) \ {n} = {top}
    BY <1>6
  <2> QED
    BY <2>1, <2>2
<1> HIDE DEF d
<1>h. /\ d \in Heaps /\ d.live = live /\ d.kind = kind /\ d.child = child /\ d.next = next
      /\ d.prev = prev /\ d.key = c.key /\ d.const = c.const /\ d.ref = c.ref /\ d.strings = c.strings
  BY <1>7, <1>a, <1>b, <1>c DEF Heaps
<1>i. /\ Stacked(s, top) /\ Len(s) = Len(F) /\ s[1] = f
      /\ \A k \in 1..Len(F) : k # 1 => s[k] = F[k]
      /\ Open(s) = Open(F) /\ Firsts(s) = Firsts(Tail(F)) \cup {f.head}
  <2>1. F # <<>> /\ f \in Frame /\ f.item = F[1].item /\ f.head # None /\ f.last # None
    BY <1>3, <1>x, <1>z
  <2>2. Stacked(F, top)
    BY <1>x
  <2> HIDE DEF p, first, last
  <2> QED
    BY ONLY <2>1, <2>2, EnteredStack DEF s
<1> HIDE DEF s
<1>j. ASSUME NEW k \in 1..Len(s)
      PROVE  /\ s[k].item \in g.live /\ g.child[s[k].item] = None
             /\ d.child[s[k].item] = s[k].head
             /\ s[k].head # None => d.prev[s[k].head] = s[k].last
  <2>1. /\ F[k].item \in h.live /\ h.child[F[k].item] = None /\ c.child[F[k].item] = F[k].head
        /\ F[k].head # None => c.prev[F[k].head] = F[k].last /\ F[k].head \in Nodes
        /\ F[k].head # n /\ F[k].item \in Nodes
    <3>1. k \in 1..Len(F) /\ F[k].head # n
      BY <1>6, <1>i DEF Firsts
    <3> QED
      BY <1>1, <1>x, <3>1 DEF Completes
  <2>2. CASE k = 1
    BY <1>4, <1>c, <1>v, <1>h, <1>i, <1>z, <2>1, <2>2 DEF live
  <2>3. CASE k # 1
    <3>1. s[k] = F[k] /\ F[k].item # p /\ (F[k].head # None => F[k].head # first)
      <4>1. \A i, j \in 1..Len(F) : F[i].head = F[j].head /\ F[j].head # None => i = j
        BY <1>1, FirstsApart DEF Building
      <4>2. \A i, j \in 1..Len(F) : F[i].item = F[j].item => i = j
        BY DEF Building, Stacked
      <4> QED
        BY <1>2, <1>i, <2>3, <4>1, <4>2
    <3> QED
      BY <1>c, <1>v, <1>h, <2>1, <3>1 DEF live
  <2> QED
    BY <2>2, <2>3
<1>k. ASSUME NEW m \in Nodes
      PROVE  /\ m \notin Open(s) => d.child[m] = g.child[m]
             /\ m \notin Firsts(s) => d.prev[m] = g.prev[m]
  <2>1. /\ m \notin Open(F) => c.child[m] = h.child[m]
        /\ m \notin Firsts(F) => c.prev[m] = h.prev[m]
    BY <1>1 DEF Completes
  <2>2. m \notin Open(s) => d.child[m] = g.child[m]
    BY <1>2, <1>c, <1>v, <1>h, <1>i, <1>z, <2>1
  <2>3. CASE first = None
    <3>1. m \notin Firsts(s) => m \notin Firsts(F) /\ m # n
      BY <1>2, <1>i, <1>z, <2>3, ItemsAssumption
    <3> QED
      BY <1>c, <1>v, <1>h, <2>1, <2>2, <2>3, <3>1
  <2>4. CASE first # None
    <3>1. m \notin Firsts(s) => m \notin Firsts(F) /\ m # first
      BY <1>2, <1>i, <1>z, <2>4
    <3> QED
      BY <1>c, <1>v, <1>h, <2>1, <2>2, <2>4, <3>1
  <2> QED
    BY <2>3, <2>4
<1>l. Completes(d, g, s)
  BY <1>1, <1>v, <1>h, <1>j, <1>k DEF Completes
<1>m. (IF first = None THEN held \cup {n} ELSE held) = ({top} \cup Firsts(s)) \ {None}
  BY <1>2, <1>3, <1>i, <1>z DEF Building
<1>n. Building(g, s, top, IF first = None THEN held \cup {n} ELSE held)
  BY <1>v, <1>g, <1>i, <1>l, <1>m DEF Building
<1>o. n \notin Open(s) /\ n \in g.live /\ g.child[n] = None /\ g.key[n] = None
  <2>1. c.key = h.key /\ c.child[n] = h.child[n]
    BY <1>1, <1>3, <1>6 DEF Completes
  <2> QED
    BY <1>5, <1>6, <1>v, <1>i, <2>1 DEF live
<1>p. \A pc : Ready(g, n, s, pc)
  BY <1>o DEF Ready
<1> QED
  BY <1>n, <1>p DEF s, f, g

\* The items below a call that fails are those that its deletion visits; they are not
\* those of the calls around it.
Gone(c, h, F, o, V) ==
  /\ V = Visited(h, F[1].head) /\ AllBelow(c, o, V, {F[1].item})
  /\ \A k \in 1..Len(F) : F[k].item \notin V

LEMMA UnwindVisits ==
  ASSUME NEW c, NEW h, NEW F, NEW top, NEW o, Good(c, {top}, o), Completes(c, h, F),
         Stacked(F, top), h.ref = {}, F # <<>>, F[1].head # None
  PROVE  /\ Gone(c, h, F, o, Visited(h, F[1].head))
         /\ top \notin Visited(h, F[1].head) /\ F[1].head \in Visited(h, F[1].head)
<1> DEFINE p    == F[1].item
           head == F[1].head
           V    == Visited(c, head)
           W    == Visited(h, head)
<1>0. Len(F) \in Nat \ {0} /\ 1 \in 1..Len(F)
  BY Popped DEF Stacked
<1>1. p \in c.live \ c.ref /\ head \in Nodes
  BY <1>0, FrameLinks
<1>2. /\ c.child[p] = head /\ c.next = h.next /\ c.ref = {} /\ c.live \in SUBSET Nodes
      /\ \A n \in Nodes : n \notin Open(F) => c.child[n] = h.child[n]
  BY <1>0 DEF Completes, Heaps
<1>3. AllBelow(c, o, V, {p}) /\ p \notin V /\ {top} \cap V = {} /\ head \in V
  <2>1. Shape(c, {top}, o)
    BY DEF Good
  <2> HIDE DEF V, p, head
  <2>2. p \in c.live \ c.ref /\ head \in Nodes /\ IsFirst(c, p, head)
    BY <1>1, <1>2 DEF IsFirst
  <2>3. /\ AllBelow(c, o, Visited(c, head), {p})
        /\ p \notin Visited(c, head) /\ {top} \cap Visited(c, head) = {} /\ head \in Visited(c, head)
    BY <2>1, <2>2, VisitedList
  <2> QED
    BY <2>3 DEF V
<1>4. V \in SUBSET Nodes /\ DownClosed(o, V) /\ None \notin Nodes
  BY <1>2, <1>3, ItemsAssumption DEF AllBelow
<1> HIDE DEF V
<1>5. ASSUME NEW i \in 1..Len(F), i # 1, F[i].item \in V
      PROVE  i - 1 \in 1..Len(F) /\ F[i - 1].item \in V
  <2>1. i - 1 \in 1..Len(F) /\ F[i].last = F[i - 1].item
    BY <1>0, <1>5 DEF Stacked
  <2>2. F[i - 1].item \in Nodes
    BY <2>1, FrameLinks
  <2>3. F[i].head # None
    <3>1. \A j \in 1..Len(F) : F[j].head = None <=> F[j].last = None
      BY DEF Stacked
    <3> QED
      BY <1>4, <2>1, <2>2, <3>1
  <2>4. o[F[i].last] = F[i].item
    <3>1. Owned(o, F[i])
      BY FrameLinks
    <3> QED
      BY <2>3, <3>1 DEF Owned
  <2> QED
    BY <1>4, <1>5, <2>1, <2>2, <2>4 DEF DownClosed
<1>6. ASSUME NEW k \in 1..Len(F), F[k].item \in V
      PROVE  FALSE
  <2> DEFINE S == {i \in 1..Len(F) : F[i].item \in V}
  <2>1. S \in SUBSET Nat /\ k \in S
    BY <1>0, <1>6
  <2>2. PICK i \in S : \A j \in S : i <= j
    BY <2>1, LeastExists
  <2>3. i # 1
    BY <1>3, <2>2
  <2>4. i - 1 \in S
    BY <1>5, <2>2, <2>3
  <2>5. i <= i - 1 /\ i \in Nat
    BY <2>1, <2>2, <2>4
  <2> QED
    BY <2>5
<1>7. Open(F) \cap V = {}
  BY <1>6 DEF Open
<1>8. \A m \in V : h.child[m] = c.child[m] /\ h.next[m] = c.next[m]
  BY <1>2, <1>4, <1>7
<1>9. Closed(c, V)
  BY <1>1, VisitedClosed DEF Good, V
<1>a. W \subseteq V
  <2>1. Closed(h, V)
    BY <1>2, <1>8, <1>9 DEF Closed
  <2> QED
    BY <1>1, <1>3, <1>4, <2>1, VisitedLeast
<1>b. V \subseteq W
  <2> SUFFICES ASSUME NEW m \in V, NEW S \in SUBSET Nodes, head \in S, Closed(h, S)
               PROVE  m \in S
    BY <1>4 DEF Visited
  <2>1. Closed(c, S \cap V)
    BY <1>2, <1>8, <1>9 DEF Closed
  <2>2. Visited(c, head) \subseteq S \cap V
    BY <1>1, <1>3, <1>4, <2>1, VisitedLeast
  <2> QED
    BY <2>2 DEF V
<1>c. V = W
  BY <1>a, <1>b
<1> HIDE DEF W, p
<1>d. Gone(c, h, F, o, W)
  BY <1>3, <1>6, <1>c DEF Gone, W, p
<1> QED
  BY <1>3, <1>c, <1>d DEF W

\* A call that fails deletes its list.
LEMMA UnwindEmpty ==
  ASSUME NEW h, NEW F, NEW top, NEW held, Building(h, F, top, held), F # <<>>, F[1].head = None
  PROVE  Building(h, Tail(F), top, held \ {F[1].head})
<1>1. PICK c, o : Good(c, {top}, o) /\ Completes(c, h, F)
  BY DEF Building
<1> DEFINE s == Tail(F)
           f == F[1]
<1>2. /\ Len(F) \in Nat \ {0} /\ Len(s) = Len(F) - 1 /\ \A k \in 1..Len(s) : s[k] = F[k + 1]
      /\ Open(F) = Open(s) \cup {f.item} /\ Firsts(F) = Firsts(s) \cup {None}
  BY Popped DEF Building, Stacked
<1>3. Stacked(s, top)
  BY PoppedStack DEF Building
<1>4. 1 \in 1..Len(F) /\ \A k \in 1..Len(s) : k + 1 \in 1..Len(F)
  BY <1>2
<1>5. held \ {f.head} = ({top} \cup Firsts(s)) \ {None}
  BY PoppedHeld
<1>6. c.child[f.item] = None /\ h.child[f.item] = None
  BY <1>1, <1>4 DEF Completes
<1> HIDE DEF s, f
<1>7. ASSUME NEW k \in 1..Len(s)
      PROVE  /\ s[k].item \in h.live /\ h.child[s[k].item] = None
             /\ c.child[s[k].item] = s[k].head
             /\ s[k].head # None => c.prev[s[k].head] = s[k].last
  <2>1. s[k] = F[k + 1] /\ k + 1 \in 1..Len(F)
    BY <1>2, <1>4
  <2> QED
    BY <1>1, <2>1 DEF Completes
<1>8. ASSUME NEW n \in Nodes
      PROVE  /\ n \notin Open(s) => c.child[n] = h.child[n]
             /\ n \notin Firsts(s) => c.prev[n] = h.prev[n]
  BY <1>1, <1>2, <1>6, ItemsAssumption DEF Completes
<1>9. Completes(c, h, s)
  BY <1>1, <1>7, <1>8 DEF Completes
<1> QED
  BY <1>1, <1>3, <1>5, <1>9 DEF Building, s, f

LEMMA UnwindList ==
  ASSUME NEW h, NEW F, NEW top, NEW held, Building(h, F, top, held), F # <<>>, F[1].head # None
  PROVE  Building(Deleted(h, F[1].head), Tail(F), top, held \ {F[1].head})
<1>1. PICK c, o : Good(c, {top}, o) /\ Completes(c, h, F)
  BY DEF Building
<1> DEFINE s     == Tail(F)
           f     == F[1]
           p     == f.item
           V     == Visited(h, f.head)
           g     == Released(h, V)
           below == Released(c, V)
           child == [n \in Nodes |-> IF n \in V \cup {p} THEN None ELSE c.child[n]]
           prev  == [n \in Nodes |-> IF n \in V THEN None ELSE c.prev[n]]
           d     == [g EXCEPT !.child = child, !.prev = prev]
           q     == [n \in Nodes |-> IF n \in V THEN None ELSE o[n]]
<1>2. /\ Len(F) \in Nat \ {0} /\ Len(s) = Len(F) - 1 /\ \A k \in 1..Len(s) : s[k] = F[k + 1]
      /\ Open(F) = Open(s) \cup {p} /\ Firsts(F) = Firsts(s) \cup {f.head}
  BY Popped DEF Building, Stacked
<1>3. Stacked(s, top) /\ p \notin Open(s)
  BY PoppedStack DEF Building
<1>4. 1 \in 1..Len(F) /\ \A k \in 1..Len(s) : k + 1 \in 1..Len(F)
  BY <1>2
<1>5. held \ {f.head} = ({top} \cup Firsts(s)) \ {None}
  BY PoppedHeld
<1>6. Gone(c, h, F, o, V) /\ top \notin V /\ f.head \in V
  BY <1>1, UnwindVisits DEF Building
<1>7. AllBelow(c, o, V, {p}) /\ \A k \in 1..Len(F) : F[k].item \notin V
  BY <1>6 DEF Gone
<1> HIDE DEF V
<1>8. /\ h \in Heaps /\ c \in Heaps /\ c.live = h.live /\ c.next = h.next /\ c.key = h.key
      /\ c.const = h.const /\ c.ref = {} /\ h.ref = {} /\ h.const = {} /\ c.strings = h.strings
      /\ V \in SUBSET h.live /\ V \in SUBSET Nodes /\ None \notin Nodes
  BY <1>1, <1>7, ItemsAssumption DEF Building, Completes, AllBelow, Heaps
<1>9. FreedFrom(h, V, g) /\ FreedFrom(c, V, below)
  BY <1>8, ReleasedFields
<1>a. Named(below)
  BY <1>1, <1>8, ReleasedNames DEF Good
<1> HIDE DEF g, below
<1>b. child \in [Nodes -> Pointers \cup {Stale}] /\ prev \in [Nodes -> Pointers]
  BY <1>8 DEF Heaps, Pointers
<1>c. /\ \A n \in Nodes : child[n] = IF n \in V \cup {p} THEN None ELSE c.child[n]
      /\ \A n \in Nodes : prev[n] = IF n \in V THEN None ELSE c.prev[n]
  OBVIOUS
<1> HIDE DEF child, prev
<1>d. /\ d \in Heaps /\ d.live = g.live /\ d.kind = g.kind /\ d.child = child /\ d.next = g.next
      /\ d.prev = prev /\ d.key = g.key /\ d.const = g.const /\ d.ref = g.ref
      /\ d.strings = g.strings
  BY <1>9, <1>b DEF FreedFrom, Heaps
<1> HIDE DEF d
<1>e. Named(d)
  <2>1. d.live = below.live /\ d.const = below.const
    BY <1>8, <1>9, <1>d DEF FreedFrom
  <2>2. d.key = below.key
    <3>1. /\ d.key \in [Nodes -> Keys \cup {None}] /\ below.key \in [Nodes -> Keys \cup {None}]
      BY <1>9, <1>d DEF FreedFrom, Heaps
    <3>2. \A m \in Nodes : d.key[m] = below.key[m]
      BY <1>8, <1>9, <1>d DEF FreedFrom
    <3> QED
      BY <3>1, <3>2
  <2>3. d.strings = below.strings
    <3>1. {n \in V : OwnsKey(h, n)} = {n \in V : OwnsKey(c, n)}
      BY <1>8 DEF OwnsKey
    <3> QED
      BY <1>8, <1>9, <1>d, <3>1 DEF FreedFrom
  <2> QED
    BY <1>a, <1>d, <2>1, <2>2, <2>3, SameNames
<1>f. Shape(d, {top}, q)
  <2>1. Without(c, V, {p}, d)
    <3>1. /\ d.live = c.live \ V /\ d.ref = c.ref \ V
          /\ d.next \in [Nodes -> Pointers]
          /\ \A m \in Nodes : d.next[m] = IF m \in V THEN None ELSE c.next[m]
      BY <1>8, <1>9, <1>d DEF FreedFrom, Heaps
    <3> QED
      BY <1>b, <1>c, <1>d, <3>1 DEF Without
  <2>2. Shape(d, {top} \ V, q)
    BY <1>1, <1>7, <2>1, WithoutShape DEF Good
  <2>3. {top} \ V = {top}
    BY <1>6
  <2> QED
    BY <2>2, <2>3
<1>g. /\ g \in Heaps /\ g.live = h.live \ V /\ g.ref = {} /\ g.const = {}
      /\ \A m \in Nodes :
           /\ g.prev[m] = IF m \in V THEN None ELSE h.prev[m]
           /\ g.child[m] = IF m \in V THEN None ELSE h.child[m]
  BY <1>8, <1>9 DEF FreedFrom
<1> HIDE DEF s, p, f
<1>h. ASSUME NEW k \in 1..Len(s)
      PROVE  /\ s[k].item \in g.live /\ g.child[s[k].item] = None
             /\ d.child[s[k].item] = s[k].head
             /\ s[k].head # None => d.prev[s[k].head] = s[k].last
  <2>1. s[k] = F[k + 1] /\ k + 1 \in 1..Len(F)
    BY <1>2, <1>4
  <2>2. /\ s[k].item \in Nodes /\ (s[k].head # None => s[k].head \in Nodes) /\ Owned(o, s[k])
    BY <1>1, <2>1, FrameLinks DEF Building
  <2>3. s[k].item \notin V /\ s[k].item # p
    BY <1>3, <1>7, <2>1 DEF Open
  <2>4. s[k].head # None => s[k].head \notin V
    BY <1>7, <1>8, <2>2, <2>3 DEF Owned, AllBelow
  <2>5. /\ s[k].item \in h.live /\ h.child[s[k].item] = None
        /\ c.child[s[k].item] = s[k].head
        /\ s[k].head # None => c.prev[s[k].head] = s[k].last
    BY <1>1, <2>1 DEF Completes
  <2> QED
    BY <1>c, <1>d, <1>g, <2>2, <2>3, <2>4, <2>5
<1>i. ASSUME NEW n \in Nodes
      PROVE  /\ n \notin Open(s) => d.child[n] = g.child[n]
             /\ n \notin Firsts(s) => d.prev[n] = g.prev[n]
  <2>1. h.child[p] = None
    BY <1>1, <1>4 DEF Completes, p, f
  <2>2. /\ n \notin Open(F) => c.child[n] = h.child[n]
        /\ n \notin Firsts(F) => c.prev[n] = h.prev[n]
    BY <1>1 DEF Completes
  <2> QED
    BY <1>2, <1>6, <1>c, <1>d, <1>g, <2>1, <2>2
<1>j. Completes(d, g, s)
  BY <1>d, <1>g, <1>h, <1>i DEF Completes
<1>k. Building(g, s, top, held \ {f.head})
  BY <1>3, <1>5, <1>e, <1>f, <1>g, <1>j DEF Building, Good
<1>l. g = Deleted(h, F[1].head)
  BY DEF g, V, f, Deleted
<1> QED
  BY <1>k, <1>l DEF s, f

\* When all calls have ended, the heap is complete.
LEMMA EndedBuilding ==
  ASSUME NEW h, NEW top, NEW held, Building(h, <<>>, top, held)
  PROVE  held = {top} /\ h.ref = {} /\ top \in Nodes /\ \E o : Good(h, {top}, o)
<1>1. PICK c, o : Good(c, {top}, o) /\ Completes(c, h, <<>>)
  BY DEF Building
<1>2. Open(<<>>) = {} /\ Firsts(<<>>) = {}
  <2>1. Len(<<>>) = 0 /\ 1..0 = {}
    OBVIOUS
  <2> QED
    BY <2>1 DEF Open, Firsts
<1>3. /\ c \in Heaps /\ h \in Heaps /\ \A n \in Nodes : c.child[n] = h.child[n] /\ c.prev[n] = h.prev[n]
      /\ c.live = h.live /\ c.kind = h.kind /\ c.next = h.next /\ c.key = h.key
      /\ c.const = h.const /\ c.ref = h.ref /\ c.strings = h.strings
  BY <1>1, <1>2 DEF Completes
<1>4. c.child = h.child /\ c.prev = h.prev
  BY <1>3 DEF Heaps
<1>5. c = h
  BY <1>3, <1>4 DEF Heaps
<1> QED
  BY <1>1, <1>2, <1>5, ItemsAssumption DEF Building

\* Before the first call.
LEMMA StartBuilding ==
  ASSUME ItemsInv, heap = Empty, NEW n \in Free(heap)
  PROVE  LET g == NewItem(heap, n, None)
         IN  /\ Building(g, <<>>, n, {n}) /\ n \in g.live /\ g.child[n] = None
             /\ roots = {} /\ lost = {}
<1> DEFINE g == NewItem(heap, n, None)
<1>1. PICK o : Good(heap, Held, o)
  BY DEF ItemsInv
<1>2. Held = {} /\ heap.ref = {} /\ heap.const = {} /\ n \in Nodes /\ heap.child[n] = None
  BY InvFacts DEF Empty, Free, Nulls
<1>3. Good(g, {n}, o) /\ g.live = heap.live \cup {n} /\ g.ref = {}
  <2>1. Fresh(heap, Held, o, n, heap.ref, g)
    BY <1>1, NewItemGood
  <2> QED
    BY <1>2, <2>1 DEF Fresh
<1>4. g.child = heap.child /\ g.const = {} /\ g \in Heaps
  <2>1. g = [heap EXCEPT !.live = @ \cup {n}, !.kind[n] = None] /\ heap \in Heaps
    BY InvFacts DEF NewItem
  <2> QED
    BY <1>2, <1>3, <2>1 DEF Heaps, Good, Named
<1> HIDE DEF g
<1>5. <<>> \in Seq(Frame) /\ Len(<<>>) = 0 /\ 1..0 = {}
  OBVIOUS
<1>6. Open(<<>>) = {} /\ Firsts(<<>>) = {}
  BY <1>5 DEF Open, Firsts
<1>7. Stacked(<<>>, n)
  BY <1>5 DEF Stacked
<1>8. Completes(g, g, <<>>)
  BY <1>4, <1>5 DEF Completes
<1>9. {n} = ({n} \cup Firsts(<<>>)) \ {None}
  BY <1>2, <1>6, ItemsAssumption
<1> QED
  BY <1>2, <1>3, <1>4, <1>7, <1>8, <1>9 DEF Building, Held, g

-----------------------------------------------------------------------------
(* The invariant of the parser and its client, and the steps.              *)

Resting == {"idle", "done"}

LInv ==
  IF parse.pc \in Resting
  THEN /\ ItemsInv
       /\ parse.pc = "done" => parse.frames = <<>> /\ lost = {} /\ roots = {parse.item} \ {None}
  ELSE /\ lost = {} /\ Building(heap, parse.frames, parse.item, roots)
       /\ Ready(heap, Filled(parse.frames, parse.item), parse.frames, parse.pc)

LEMMA LInvFrom ==
  ASSUME NEW h, NEW F, NEW R, NEW pc, pc \notin Resting,
         parse'.pc = pc, parse'.frames = F, parse'.item = parse.item, heap' = h, roots' = R,
         lost' = {}, Building(h, F, parse.item, R), Ready(h, Filled(F, parse.item), F, pc)
  PROVE  LInv'
BY DEF LInv

LEMMA LInvFacts ==
  ASSUME PInv, LInv, parse.pc \notin Resting
  PROVE  /\ lost = {} /\ Building(heap, parse.frames, parse.item, roots)
         /\ Ready(heap, Target, parse.frames, parse.pc)
         /\ Target = Filled(parse.frames, parse.item)
         /\ Called <=> parse.frames # <<>>
         /\ Called => Top = parse.frames[1]
<1>1. Called => Top = parse.frames[1]
  BY TopCall
<1>2. Target = Filled(parse.frames, parse.item)
  BY <1>1 DEF Target, Called, Filled
<1> QED
  BY <1>1, <1>2 DEF LInv, Called

\* What To and Fail leave alone.
LEMMA ToFields ==
  ASSUME PInv, NEW pc, NEW i, NEW why
  PROVE  /\ To(pc, i).pc = pc /\ To(pc, i).frames = parse.frames /\ To(pc, i).item = parse.item
         /\ Fail(i, why).pc = "fail" /\ Fail(i, why).frames = parse.frames
         /\ Fail(i, why).item = parse.item
BY DEF To, Fail, PInv, Typed

\* A step that leaves the calls and the heap alone.
LEMMA MovesLInv ==
  ASSUME PInv, LInv, parse.pc \notin Resting, UNCHANGED <<heap, roots, lost>>,
         NEW pc \in Labels \ {"idle", "done", "name"}, NEW i, parse' = To(pc, i),
         pc \in {"value", "colon"} => parse.pc \in {"value", "name", "colon"}
  PROVE  LInv'
<1>1. parse'.pc = pc /\ parse'.frames = parse.frames /\ parse'.item = parse.item
  BY ToFields
<1>2. Ready(heap, Filled(parse.frames, parse.item), parse.frames, pc)
  BY LInvFacts DEF Ready
<1>3. pc \notin Resting
  BY DEF Resting
<1> QED
  BY <1>1, <1>2, <1>3, LInvFacts, LInvFrom

LEMMA FailsLInv ==
  ASSUME PInv, LInv, parse.pc \notin Resting, UNCHANGED <<heap, roots, lost>>,
         NEW i, NEW why, parse' = Fail(i, why)
  PROVE  LInv'
<1>1. parse'.pc = "fail" /\ parse'.frames = parse.frames /\ parse'.item = parse.item
  BY ToFields
<1>2. Ready(heap, Filled(parse.frames, parse.item), parse.frames, "fail")
  BY DEF Ready
<1>3. "fail" \notin Resting
  BY DEF Resting
<1> QED
  BY <1>1, <1>2, <1>3, LInvFacts, LInvFrom

LEMMA StartLInv ==
  ASSUME PInv, LInv, NEW n \in Nodes, NEW strict \in BOOLEAN, Start(n, strict), UNCHANGED lost
  PROVE  LInv'
<1> DEFINE g == NewItem(heap, n, None)
<1>1. /\ parse = Idle /\ heap = Empty /\ n \in Free(heap) /\ heap' = g /\ roots' = {n}
      /\ parse' = [Idle EXCEPT !.pc = "value", !.item = n, !.strict = strict]
  BY DEF Start
<1>2. ItemsInv
  BY <1>1 DEF LInv, Idle, Resting
<1>3. /\ Building(g, <<>>, n, {n}) /\ n \in g.live /\ g.child[n] = None /\ lost = {}
  BY <1>1, <1>2, StartBuilding
<1> HIDE DEF g
<1>4. parse'.pc = "value" /\ parse'.frames = <<>> /\ parse'.item = n
  BY <1>1 DEF Idle
<1>5. Open(<<>>) = {}
  <2>1. Len(<<>>) = 0 /\ 1..0 = {}
    OBVIOUS
  <2> QED
    BY <2>1 DEF Open
<1>6. Ready(g, Filled(<<>>, n), <<>>, "value")
  BY <1>3, <1>5 DEF Ready, Filled
<1>7. "value" \notin Resting
  BY DEF Resting
<1> QED
  BY <1>1, <1>3, <1>4, <1>6, <1>7 DEF LInv

LEMMA RevealLInv ==
  ASSUME PInv, LInv, Reveal, UNCHANGED lost
  PROVE  LInv'
<1>1. UNCHANGED <<heap, roots, lost, parse>>
  BY DEF Reveal
<1>2. ItemsInv => ItemsInv'
  BY <1>1 DEF ItemsInv, Held
<1> QED
  BY <1>1, <1>2 DEF LInv

LEMMA BegunLInv ==
  ASSUME PInv, LInv, parse.pc = "value", NEW open \in Opening, parse' = Begun(open),
         UNCHANGED <<heap, roots, lost>>
  PROVE  LInv'
<1>0. parse.pc \notin Resting
  BY DEF Resting
<1>1. PICK close \in Closing :
        parse' = IF parse.depth >= NestingLimit THEN Fail(Place, "depth")
                 ELSE [To("first", Place + 1) EXCEPT
                         !.depth = @ + 1,
                         !.frames = <<[item |-> Target, head |-> None, last |-> None,
                                       close |-> close]>> \o @]
  <2>1. (IF open = "[" THEN "]" ELSE "}") \in Closing
    BY Zenon DEF Closing
  <2> QED BY <2>1, Zenon DEF Begun
<1> DEFINE f == [item |-> Target, head |-> None, last |-> None, close |-> close]
           s == <<f>> \o parse.frames
<1>2. f \in Frame /\ f.head = None /\ f.last = None /\ f.item = Target
  BY DEF PInv, Typed, Frame, Pointers
<1>3. CASE parse' = Fail(Place, "depth")
  BY <1>0, <1>3, FailsLInv
<1>4. CASE parse' = [To("first", Place + 1) EXCEPT !.depth = @ + 1, !.frames = <<f>> \o @]
  <2>1. parse'.pc = "first" /\ parse'.frames = s /\ parse'.item = parse.item
    BY <1>4 DEF To, PInv, Typed
  <2> HIDE DEF f
  <2>2. /\ f.item \notin Open(parse.frames) /\ f.item \in heap.live /\ heap.child[f.item] = None
        /\ parse.frames = <<>> => f.item = parse.item
        /\ parse.frames # <<>> => parse.frames[1].last = f.item
    BY <1>0, <1>2, LInvFacts DEF Ready, Filled
  <2>3. Building(heap, s, parse.item, roots)
    BY <1>0, <1>2, <2>2, LInvFacts, BegunBuilding
  <2>4. Ready(heap, Filled(s, parse.item), s, "first") /\ "first" \notin Resting
    BY DEF Ready, Resting
  <2> HIDE DEF s
  <2> QED
    BY <1>0, <2>1, <2>3, <2>4, LInvFacts, LInvFrom
<1> QED
  BY <1>1, <1>3, <1>4

LEMMA ParseValueLInv ==
  ASSUME PInv, LInv, ParseValue, UNCHANGED lost
  PROVE  LInv'
<1>0. parse.pc = "value" /\ UNCHANGED <<roots, lost>> /\ parse.pc \notin Resting
  BY DEF ParseValue, Resting
<1>1. ASSUME NEW w \in Words, heap' = [heap EXCEPT !.kind[Target] = w], parse' = To("next", Place + 1)
      PROVE  LInv'
  <2> DEFINE g == [heap EXCEPT !.kind[Target] = w]
  <2>1. w \in Kinds \cup Keys \cup {None} /\ Target \in Nodes
    BY <1>0, ParserAssumption DEF Kinds, PInv, Typed
  <2>2. Building(g, parse.frames, parse.item, roots)
    BY <1>0, <2>1, LInvFacts, KindBuilding
  <2>3. parse'.pc = "next" /\ parse'.frames = parse.frames /\ parse'.item = parse.item
    BY <1>1, ToFields
  <2>4. Ready(g, Filled(parse.frames, parse.item), parse.frames, "next") /\ "next" \notin Resting
    BY DEF Ready, Resting
  <2>5. heap' = g
    BY <1>1
  <2> HIDE DEF g
  <2> QED
    BY <1>0, <2>2, <2>3, <2>4, <2>5, LInvFacts, LInvFrom
<1>2. CASE UNCHANGED heap /\ \E why \in {"text", "memory"} : parse' = Fail(Place, why)
  BY <1>0, <1>2, FailsLInv
<1>3. CASE UNCHANGED heap /\ \E open \in Opening : parse' = Begun(open)
  BY <1>0, <1>3, BegunLInv
<1> QED
  BY <1>1, <1>2, <1>3, Zenon DEF ParseValue, Opening

\* A call of parse_array or parse_object returns with its list.
LEMMA SucceedLInv ==
  ASSUME PInv, LInv, Called, parse.pc \notin Resting, Succeed, UNCHANGED lost
  PROVE  LInv'
<1> DEFINE kind == IF Top.close = "]" THEN "array" ELSE "object"
           g    == Returned(heap, Top, kind)
           s    == Tail(parse.frames)
           R    == roots \ {Top.head}
<1>1. kind \in Kinds
  BY DEF Kinds
<1>2. heap' = g /\ roots' = R /\ lost' = {}
  BY LInvFacts DEF Succeed, Returned
<1>3. parse'.pc = "next" /\ parse'.frames = s /\ parse'.item = parse.item
  BY DEF Succeed, To, PInv, Typed
<1> HIDE DEF kind
<1>4. Building(g, s, parse.item, R)
  <2>1. Top = parse.frames[1] /\ parse.frames # <<>>
    BY LInvFacts
  <2>2. Building(heap, parse.frames, parse.item, roots)
    BY LInvFacts
  <2>3. Building(Returned(heap, parse.frames[1], kind), Tail(parse.frames), parse.item,
                 roots \ {parse.frames[1].head})
    BY <1>1, <2>1, <2>2, SucceedBuilding
  <2> QED
    BY <2>1, <2>3
<1> HIDE DEF g, s, R
<1>5. Ready(g, Filled(s, parse.item), s, "next") /\ "next" \notin Resting
  BY DEF Ready, Resting
<1> QED
  BY <1>2, <1>3, <1>4, <1>5, LInvFrom

LEMMA FirstLInv ==
  ASSUME PInv, LInv, First, UNCHANGED lost
  PROVE  LInv'
<1>0. parse.pc = "first" /\ parse.pc \notin Resting /\ Called /\ UNCHANGED lost
  BY DEF First, Resting, PInv, Offsets
<1>1. CASE Succeed
  BY <1>0, <1>1, SucceedLInv
<1>2. CASE UNCHANGED <<heap, roots>> /\ parse' = Fail(Place - 1, "text")
  BY <1>0, <1>2, FailsLInv
<1>3. CASE UNCHANGED <<heap, roots>> /\ parse' = To("item", Place - 1)
  BY <1>0, <1>3, MovesLInv DEF Labels
<1> QED
  BY <1>1, <1>2, <1>3 DEF First

LEMMA NameLInv ==
  ASSUME PInv, LInv, Name, UNCHANGED lost
  PROVE  LInv'
<1>0. /\ parse.pc = "name" /\ UNCHANGED <<roots, lost>> /\ parse.pc \notin Resting
      /\ Called /\ Place < Length
  BY PlaceWithin DEF Name, Resting, PInv, Offsets
<1>1. ASSUME NEW k \in Keys, heap' = [heap EXCEPT !.key[Top.last] = k, !.strings = @ + 1],
             parse' = To("colon", Place + 1)
      PROVE  LInv'
  <2> DEFINE g == [heap EXCEPT !.key[Target] = k, !.strings = @ + 1]
  <2>1. Target = Top.last
    BY <1>0 DEF Target
  <2>2. /\ Target \in heap.live /\ heap.key[Target] = None /\ Target \notin Open(parse.frames)
        /\ heap.child[Target] = None
    BY <1>0, LInvFacts DEF Ready
  <2>3. Building(g, parse.frames, parse.item, roots)
    BY <1>0, <2>2, LInvFacts, NameBuilding
  <2>4. parse'.pc = "colon" /\ parse'.frames = parse.frames /\ parse'.item = parse.item
    BY <1>1, ToFields
  <2>5. g.live = heap.live /\ g.child = heap.child
    <3>1. heap \in Heaps
      BY <1>0, LInvFacts DEF Building, Completes
    <3> QED
      BY <3>1 DEF Heaps
  <2>6. heap' = g
    BY <1>1, <2>1
  <2> HIDE DEF g
  <2>7. Ready(g, Filled(parse.frames, parse.item), parse.frames, "colon") /\ "colon" \notin Resting
    BY <1>0, <2>2, <2>5, LInvFacts DEF Ready, Resting
  <2> QED
    BY <1>0, <2>3, <2>4, <2>6, <2>7, LInvFacts, LInvFrom
<1>2. CASE UNCHANGED heap /\ \E why \in {"text", "memory"} : parse' = Fail(Place, why)
  BY <1>0, <1>2, FailsLInv
<1> QED
  BY <1>0, <1>1, <1>2 DEF Name, CanAccess

LEMMA ColonLInv ==
  ASSUME PInv, LInv, Colon, UNCHANGED lost
  PROVE  LInv'
<1>0. parse.pc = "colon" /\ UNCHANGED <<heap, roots, lost>> /\ parse.pc \notin Resting
  BY DEF Colon, Resting
<1>1. CASE parse' = To("value", Place + 1)
  BY <1>0, <1>1, MovesLInv DEF Labels
<1>2. CASE parse' = Fail(Place, "text")
  BY <1>0, <1>2, FailsLInv
<1> QED
  BY <1>1, <1>2 DEF Colon

LEMMA ProceedLInv ==
  ASSUME PInv, LInv, Proceed, UNCHANGED lost
  PROVE  LInv'
<1>0. parse.pc = "next" /\ parse.pc \notin Resting /\ UNCHANGED lost
  BY DEF Proceed, Resting
<1>1. CASE UNCHANGED <<heap, roots>> /\ parse' = To("item", Place)
  BY <1>0, <1>1, MovesLInv DEF Labels
<1>2. CASE Called /\ Succeed
  BY <1>0, <1>2, SucceedLInv
<1>3. CASE UNCHANGED <<heap, roots>> /\ parse' = Fail(Place, "text")
  BY <1>0, <1>3, FailsLInv
<1>4. ASSUME NEW i, ~Called, UNCHANGED <<heap, roots>>, parse' = To("done", i)
      PROVE  LInv'
  <2>1. parse'.pc = "done" /\ parse'.frames = <<>> /\ parse'.item = parse.item /\ parse.frames = <<>>
    BY <1>4, ToFields DEF Called
  <2>2. lost = {} /\ Building(heap, <<>>, parse.item, roots)
    BY <1>0, <2>1, LInvFacts
  <2>3. /\ roots = {parse.item} /\ parse.item # None /\ \E o : Good(heap, {parse.item}, o)
    BY <2>2, EndedBuilding, ItemsAssumption
  <2>4. ItemsInv'
    BY <1>0, <1>4, <2>2, <2>3 DEF ItemsInv, Held
  <2> QED
    BY <1>0, <1>4, <2>1, <2>2, <2>3, <2>4 DEF LInv, Resting
<1>5. \/ UNCHANGED <<heap, roots>> /\ parse' = To("item", Place)
      \/ Called /\ Succeed
      \/ UNCHANGED <<heap, roots>> /\ parse' = Fail(Place, "text")
      \/ \E i : ~Called /\ UNCHANGED <<heap, roots>> /\ parse' = To("done", i)
  BY Zenon DEF Proceed
<1> QED
  BY <1>1, <1>2, <1>3, <1>4, <1>5

\* What a new item makes of the calls.
LEMMA EnteredJoined ==
  ASSUME PInv, Called, NEW n \in Nodes
  PROVE  LET s == [parse.frames EXCEPT ![1] = Joined(parse.frames[1], n)]
         IN  /\ Entered(n) = [parse EXCEPT !.frames = s]
             /\ Filled(s, parse.item) = n
<1> DEFINE f == Joined(parse.frames[1], n)
           s == [parse.frames EXCEPT ![1] = f]
<1>1. /\ Top \in Frame /\ Top = parse.frames[1] /\ parse.frames \in Seq(Frame)
      /\ Len(parse.frames) \in Nat \ {0}
  BY TopCall DEF PInv, Typed
<1>2. f \in Frame /\ f.last = n
  BY <1>1 DEF Frame, Pointers, Joined
<1>3. Entered(n) = [parse EXCEPT !.frames = s]
  <2>1. "frames" \in DOMAIN parse /\ 1 \in DOMAIN parse.frames
    BY <1>1 DEF PInv, Typed
  <2> QED
    BY <1>1, <2>1 DEF Entered, Joined
<1> HIDE DEF f
<1>4. s \in Seq(Frame) /\ Len(s) = Len(parse.frames) /\ s[1] = f
  BY <1>1, <1>2
<1> HIDE DEF s
<1>5. s # <<>>
  BY <1>1, <1>4
<1>6. Filled(s, parse.item) = n
  BY <1>2, <1>4, <1>5 DEF Filled
<1> QED
  BY <1>3, <1>6 DEF s, f

LEMMA ItemLInv ==
  ASSUME PInv, LInv, Item, UNCHANGED lost
  PROVE  LInv'
<1>0. parse.pc = "item" /\ parse.pc \notin Resting /\ Called /\ UNCHANGED lost
  BY DEF Item, Resting, PInv, Offsets
<1>1. CASE UNCHANGED <<heap, roots>> /\ parse' = Fail(parse.offset, "memory")
  BY <1>0, <1>1, FailsLInv
<1>2. ASSUME NEW n \in Free(heap), ItemAdded(n)
      PROVE  LInv'
  <2> DEFINE s == [parse.frames EXCEPT ![1] = Joined(parse.frames[1], n)]
             g == Added(heap, parse.frames[1], n)
             R == IF parse.frames[1].head = None THEN roots \cup {n} ELSE roots
  <2>1. n \in Nodes
    BY DEF Free
  <2>2. Entered(n) = [parse EXCEPT !.frames = s] /\ Filled(s, parse.item) = n
    BY <1>0, <2>1, EnteredJoined
  <2>3. Top = parse.frames[1] /\ parse.frames # <<>> /\ lost = {}
    BY <1>0, LInvFacts
  <2>4. Building(heap, parse.frames, parse.item, roots)
    BY <1>0, LInvFacts
  <2>5. Building(g, s, parse.item, R) /\ \A c : Ready(g, n, s, c)
    BY <2>3, <2>4, ItemBuilding
  <2>6. heap' = g /\ roots' = R
    BY <1>2, <2>3 DEF ItemAdded
  <2> HIDE DEF s, g, R
  <2>7. PICK pc \in {"fail", "name", "value"} :
          parse'.pc = pc /\ parse'.frames = s /\ parse'.item = parse.item
    BY <1>2, <2>2 DEF ItemAdded, PInv, Typed
  <2>8. pc \notin Resting
    BY DEF Resting
  <2>9. Ready(g, Filled(s, parse.item), s, pc)
    BY <2>2, <2>5
  <2> QED
    BY <1>0, <2>3, <2>5, <2>6, <2>7, <2>8, <2>9, LInvFrom
<1> QED
  BY <1>1, <1>2, ItemCases

LEMMA UnwindLInv ==
  ASSUME PInv, LInv, Unwind, UNCHANGED lost
  PROVE  LInv'
<1>0. parse.pc = "fail" /\ parse.pc \notin Resting /\ UNCHANGED lost
  BY DEF Unwind, Resting
<1>1. CASE Called
  <2> DEFINE s == Tail(parse.frames)
             g == IF Top.head = None THEN heap ELSE Deleted(heap, Top.head)
             R == roots \ {Top.head}
  <2>1. heap' = g /\ roots' = R /\ lost' = {}
    BY <1>0, <1>1, LInvFacts DEF Unwind
  <2>2. parse'.pc = "fail" /\ parse'.frames = s /\ parse'.item = parse.item
    BY <1>0, <1>1 DEF Unwind, PInv, Typed
  <2>3. Building(g, s, parse.item, R)
    <3>1. Top = parse.frames[1] /\ parse.frames # <<>>
      BY <1>0, <1>1, LInvFacts
    <3>2. Building(heap, parse.frames, parse.item, roots)
      BY <1>0, LInvFacts
    <3>3. CASE parse.frames[1].head = None
      BY <3>1, <3>2, <3>3, UnwindEmpty
    <3>4. CASE parse.frames[1].head # None
      BY <3>1, <3>2, <3>4, UnwindList
    <3> QED
      BY <3>3, <3>4
  <2> HIDE DEF s, g, R
  <2>4. Ready(g, Filled(s, parse.item), s, "fail") /\ "fail" \notin Resting
    BY DEF Ready, Resting
  <2> QED
    BY <2>1, <2>2, <2>3, <2>4, LInvFrom
<1>2. CASE ~Called
  <2> DEFINE n == parse.item
             g == Deleted(heap, n)
  <2>1. parse.frames = <<>> /\ lost = {} /\ Building(heap, <<>>, n, roots)
    BY <1>0, <1>2, LInvFacts DEF Called
  <2>2. roots = {n} /\ n \in Nodes /\ n # None /\ \E o : Good(heap, {n}, o)
    BY <2>1, EndedBuilding, ItemsAssumption
  <2>3. PICK q : Good(g, {n} \ {n}, q)
    BY <2>2, DeletedGood
  <2>4. heap' = g /\ roots' = {} /\ lost' = {}
    BY <1>0, <1>2, <2>1, <2>2 DEF Unwind
  <2>5. parse'.pc = "done" /\ parse'.frames = <<>> /\ parse'.item = None
    BY <1>0, <1>2, <2>1 DEF Unwind, To, PInv, Typed
  <2> HIDE DEF g, n
  <2>6. ItemsInv'
    BY <2>3, <2>4, InvFrom
  <2> QED
    BY <2>4, <2>5, <2>6 DEF LInv, Resting
<1> QED
  BY <1>1, <1>2

LEMMA KeepLInv ==
  ASSUME LInv, Keep, UNCHANGED lost
  PROVE  LInv'
<1>1. /\ parse.pc = "done" /\ parse'.pc = "idle"
      /\ heap' = heap /\ roots' = roots /\ lost' = lost
  BY DEF Keep, Idle
<1>2. ItemsInv
  BY <1>1 DEF LInv, Resting
<1>3. ItemsInv'
  BY <1>1, <1>2 DEF ItemsInv, Held
<1> QED
  BY <1>1, <1>3 DEF LInv, Resting

LEMMA FinishLInv ==
  ASSUME PInv, LInv, Finish, UNCHANGED lost
  PROVE  LInv'
<1>0. /\ parse.pc = "done" /\ ItemsInv /\ lost = {} /\ roots = {parse.item} \ {None}
      /\ roots' = {} /\ lost' = {}
  BY DEF LInv, Finish, Resting
<1>1. PICK o : Good(heap, Held, o)
  BY <1>0 DEF ItemsInv
<1>2. ItemsInv'
  <2>1. CASE parse.item = None
    BY <1>0, <1>1, <2>1 DEF Finish, ItemsInv, Held
  <2>2. CASE parse.item # None
    <3> DEFINE n == parse.item
               g == Deleted(heap, n)
    <3>1. Held = {n} /\ heap' = g
      BY <1>0, <2>2 DEF Finish, Held
    <3>2. PICK q : Good(g, {n} \ {n}, q)
      BY <1>1, <3>1, DeletedGood
    <3> HIDE DEF g, n
    <3> QED
      BY <1>0, <3>1, <3>2, InvFrom
  <2> QED
    BY <2>1, <2>2
<1>3. parse'.pc = "idle"
  BY DEF Finish, Idle
<1> QED
  BY <1>2, <1>3 DEF LInv, Resting

\* While there is no call, the client may do anything.
LEMMA ClientLInv ==
  ASSUME LInv, parse = Idle, Next, UNCHANGED Parsing
  PROVE  LInv'
<1>1. parse.pc = "idle" /\ parse'.pc = "idle"
  BY DEF Idle, Parsing
<1>2. ItemsInv'
  BY <1>1, NextInv DEF LInv, Resting
<1> QED
  BY <1>1, <1>2 DEF LInv, Resting

\* Both invariants hold of the parser and its client.
LEMMA HeapInvariance == HeapSpec => [](PInv /\ LInv)
<1> DEFINE vars == <<heap, roots, lost, Parsing>>
<1>1. ParserInit => PInv /\ LInv
  <2>1. ParserInit => PInv
    BY IdlePInv DEF ParserInit, Between
  <2>2. ParserInit => LInv
    BY InitInv DEF ParserInit, Idle, LInv, Resting
  <2> QED
    BY <2>1, <2>2
<1>2. ASSUME PInv, LInv, ParserNext
      PROVE  LInv'
  BY <1>2, StartLInv, RevealLInv, ParseValueLInv, FirstLInv, ItemLInv, NameLInv, ColonLInv,
     ProceedLInv, UnwindLInv, KeepLInv, FinishLInv DEF ParserNext
<1>3. LInv /\ UNCHANGED vars => LInv'
  <2>1. UNCHANGED vars => (ItemsInv => ItemsInv')
    BY DEF ItemsInv, Held
  <2> QED
    BY <2>1 DEF LInv, Parsing
<1>4. PInv /\ LInv /\ [HeapNext]_vars => LInv'
  BY <1>2, <1>3, ClientLInv DEF HeapNext
<1>5. HeapSpec => ParserSpec
  <2>1. [HeapNext]_vars => [ParserNext]_Parsing
    BY DEF HeapNext
  <2> QED
    BY <2>1, PTL DEF HeapSpec, ParserSpec
<1>6. HeapSpec => []PInv
  BY <1>5, ParserInvariance, PTL
<1> QED
  BY <1>1, <1>4, <1>6, PTL DEF HeapSpec

-----------------------------------------------------------------------------
(* What the invariant means while the parser builds.                       *)

\* Only calls that have ended have given their lists to their items.
Handed(c, h, F, o, p) ==
  /\ p \in Open(F) => h.child[p] = None /\ Children(h, p) = {}
  /\ p \notin Open(F) => /\ h.child[p] = c.child[p] /\ Children(h, p) = {n \in Nodes : o[n] = p}
                         /\ \A n \in Nodes : o[n] = p => n \notin Firsts(F)

LEMMA ChildrenBuilding ==
  ASSUME NEW c, NEW h, NEW F, NEW top, NEW o, Good(c, {top}, o), Completes(c, h, F),
         Stacked(F, top), h.ref = {}, NEW p \in h.live
  PROVE  Handed(c, h, F, o, p)
<1>1. /\ c.live = h.live /\ c.ref = {} /\ c.next = h.next /\ p \in Nodes
  BY DEF Completes, Heaps
<1>2. p \in Open(F) => h.child[p] = None
  BY DEF Completes, Open
<1>3. p \in Open(F) => Children(h, p) = {}
  BY <1>2 DEF Children
<1>4. p \notin Open(F) => h.child[p] = c.child[p]
  BY <1>1 DEF Completes
<1>5. ASSUME p \notin Open(F)
      PROVE  Children(h, p) = {n \in Nodes : o[n] = p}
  <2>1. Children(h, p) = Children(c, p)
    BY <1>1, <1>4, <1>5 DEF Children, Chain
  <2>2. Children(c, p) = {n \in Nodes : o[n] = p}
    BY <1>1, ChildrenOwned DEF Good
  <2> QED
    BY <2>1, <2>2
<1>6. ASSUME p \notin Open(F), NEW n \in Nodes, o[n] = p, NEW k \in 1..Len(F), F[k].head = n
      PROVE  FALSE
  <2>1. Owned(o, F[k])
    BY FrameLinks
  <2>2. o[n] = F[k].item
    BY <1>6, <2>1, ItemsAssumption DEF Owned
  <2> QED
    BY <1>6, <2>2 DEF Open
<1>7. p \notin Open(F) => \A n \in Nodes : o[n] = p => n \notin Firsts(F)
  BY <1>6 DEF Firsts
<1> QED
  BY <1>2, <1>3, <1>4, <1>5, <1>7 DEF Handed

LEMMA BuildingType ==
  ASSUME lost = {}, NEW F, NEW top, Building(heap, F, top, roots)
  PROVE  TypeOK
<1>1. PICK c, o : Good(c, {top}, o) /\ Completes(c, heap, F)
  BY DEF Building
<1>2. \A k \in 1..Len(F) : F[k].head # None => F[k].head \in c.live
  BY <1>1, FrameLinks DEF Building
<1>3. top \in c.live /\ c.live = heap.live /\ heap \in Heaps
  <2>1. top \in c.live
    BY <1>1, FirstsApart DEF Building
  <2> QED
    BY <1>1, <2>1 DEF Completes
<1>4. roots \subseteq heap.live
  BY <1>2, <1>3 DEF Building, Firsts
<1> QED
  BY <1>3, <1>4 DEF TypeOK, Building

LEMMA BuildingLists ==
  ASSUME NEW F, NEW top, Building(heap, F, top, roots)
  PROVE  ListsSound
<1>1. PICK c, o : Good(c, {top}, o) /\ Completes(c, heap, F)
  BY DEF Building
<1> SUFFICES ASSUME NEW p \in heap.live \ heap.ref, heap.child[p] # None
             PROVE  LET last == heap.prev[heap.child[p]]
                    IN  /\ last \in Children(heap, p) /\ heap.next[last] = None
                        /\ \A n \in Children(heap, p) : heap.next[n] # None => heap.prev[heap.next[n]] = n
  BY DEF ListsSound
<1>2. /\ heap.child[p] = c.child[p] /\ Children(heap, p) = {n \in Nodes : o[n] = p}
      /\ \A n \in Nodes : o[n] = p => n \notin Firsts(F)
  <2>1. Handed(c, heap, F, o, p)
    BY <1>1, ChildrenBuilding DEF Building
  <2> QED
    BY <2>1 DEF Handed
<1>3. /\ p \in c.live \ c.ref /\ c.next = heap.next /\ p # None /\ None \notin Nodes
      /\ \A n \in Nodes : n \notin Firsts(F) => c.prev[n] = heap.prev[n]
  BY <1>1, ItemsAssumption DEF Completes, Heaps
<1>4. \A n \in Nodes : o[n] = p => c.prev[n] = heap.prev[n]
  BY <1>2, <1>3
<1>5. /\ c.child[p] \in Nodes /\ o[c.child[p]] = p
      /\ c.prev[c.child[p]] \in Nodes /\ o[c.prev[c.child[p]]] = p
      /\ c.next[c.prev[c.child[p]]] = None
  BY <1>1, <1>2, <1>3 DEF Good, Shape, Heads
<1>6. \A n \in Nodes : o[n] = p /\ c.next[n] # None =>
        c.next[n] \in Nodes /\ o[c.next[n]] = p /\ c.prev[c.next[n]] = n
  BY <1>1, <1>3 DEF Good, Shape, Wired, Linked, Pointers
<1> QED
  BY <1>2, <1>3, <1>4, <1>5, <1>6

LEMMA BuildingOwner ==
  ASSUME lost = {}, NEW F, NEW top, Building(heap, F, top, roots)
  PROVE  OneOwner
<1>1. PICK c, o : Good(c, {top}, o) /\ Completes(c, heap, F)
  BY DEF Building
<1>2. \A p \in heap.live : /\ Children(heap, p) \subseteq {n \in Nodes : o[n] = p}
                           /\ Children(heap, p) \cap Firsts(F) = {}
  <2>1. \A p \in heap.live : Handed(c, heap, F, o, p)
    BY <1>1, ChildrenBuilding DEF Building
  <2> QED
    BY <2>1 DEF Handed
<1>3. o[top] = None /\ c.live = heap.live /\ heap.live \in SUBSET Nodes /\ None \notin Nodes
  <2>1. o[top] = None
    BY <1>1 DEF Building, Good, Shape, Placed
  <2> QED
    BY <1>1, <2>1, ItemsAssumption DEF Completes, Heaps
<1>4. \A n \in Nodes : o[n] # None => n \in heap.live
  BY <1>1, <1>3 DEF Good, Shape, Placed
<1>5. \A p \in heap.live : Children(heap, p) \subseteq heap.live \ roots
  BY <1>2, <1>3, <1>4 DEF Building
<1>6. \A p, q \in heap.live : p # q => Children(heap, p) \cap Children(heap, q) = {}
  BY <1>2
<1> QED
  BY <1>5, <1>6 DEF OneOwner

LEMMA BuildingLeaks ==
  ASSUME lost = {}, NEW F, NEW top, Building(heap, F, top, roots)
  PROVE  NothingLeaks
<1>1. PICK c, o : Good(c, {top}, o) /\ Completes(c, heap, F)
  BY DEF Building
<1> DEFINE All == UNION {Visited(heap, n) : n \in roots}
<1>2. /\ c.live = heap.live /\ c.next = heap.next /\ heap.ref = {} /\ c.ref = {}
      /\ heap.live \in SUBSET Nodes /\ None \notin Nodes /\ roots \subseteq heap.live
      /\ c.key = heap.key /\ c.const = heap.const /\ c.strings = heap.strings
  BY <1>1, BuildingType, ItemsAssumption DEF Building, Completes, Heaps, TypeOK
<1>3. ASSUME NEW p \in heap.live
      PROVE  heap.child[p] \in {c.child[p], None} /\ (p \notin Open(F) => heap.child[p] = c.child[p])
  <2>1. Handed(c, heap, F, o, p)
    BY <1>1, ChildrenBuilding DEF Building
  <2> QED
    BY <2>1 DEF Handed
<1>4. Closed(heap, heap.live)
  <2>1. Closed(c, c.live)
    BY <1>1, LiveClosed DEF Good
  <2> QED
    BY <1>2, <1>3, <2>1 DEF Closed
<1>5. \A n \in roots : Visited(heap, n) \subseteq heap.live /\ n \in Visited(heap, n)
  <2> SUFFICES ASSUME NEW n \in roots
               PROVE  Visited(heap, n) \subseteq heap.live /\ n \in Visited(heap, n)
    OBVIOUS
  <2>1. n \in Nodes /\ n \in heap.live
    BY <1>2
  <2>2. n \in Visited(heap, n)
    BY <2>1 DEF Visited
  <2> QED
    BY <1>2, <1>4, <2>1, <2>2, VisitedLeast
<1>6. ASSUME NEW m \in Nodes, o[m] \in heap.live, c.child[o[m]] # None,
             NEW S \in SUBSET Nodes, Closed(heap, S), c.child[o[m]] \in S
      PROVE  m \in S
  <2>1. Along(c, o, o[m], S)
    BY <1>2, <1>6 DEF Closed, Along
  <2> QED
    BY <1>1, <1>2, <1>6, <2>1 DEF Good, Shape, Reached
<1>7. DownClosed(o, All)
  <2> SUFFICES ASSUME NEW m \in Nodes, o[m] \in All
               PROVE  m \in All
    BY DEF DownClosed
  <2> DEFINE p == o[m]
  <2>1. p \in heap.live /\ c.child[p] # None
    BY <1>1, <1>2, <1>5 DEF Good, Shape, Placed
  <2>2. CASE p \in Open(F)
    <3>1. PICK k \in 1..Len(F) : p = F[k].item
      BY <2>2 DEF Open
    <3>2. c.child[p] = F[k].head
      BY <1>1, <3>1 DEF Completes
    <3>3. c.child[p] \in roots
      BY <2>1, <3>2 DEF Building, Firsts
    <3>4. m \in Visited(heap, c.child[p])
      BY <1>6, <2>1 DEF Visited
    <3> QED
      BY <3>3, <3>4
  <2>3. CASE p \notin Open(F)
    <3>1. PICK r \in roots : p \in Visited(heap, r)
      OBVIOUS
    <3>2. heap.child[p] = c.child[p] /\ p \notin heap.ref /\ p \in Nodes
      BY <1>2, <1>3, <2>1, <2>3
    <3>3. ASSUME NEW S \in SUBSET Nodes, r \in S, Closed(heap, S)
          PROVE  m \in S
      <4>1. p \in S
        BY <3>1, <3>3, <3>2 DEF Visited
      <4>2. c.child[p] \in S
        BY <2>1, <3>2, <3>3, <4>1 DEF Closed
      <4> QED
        BY <1>6, <2>1, <3>3, <4>2
    <3>4. m \in Visited(heap, r)
      BY <3>3 DEF Visited
    <3> QED
      BY <3>4
  <2> QED
    BY <2>2, <2>3
<1>8. heap.live = All
  <2>1. All \subseteq heap.live /\ All \in SUBSET Nodes
    BY <1>2, <1>5
  <2>2. top \in All
    <3>1. top \in roots
      BY ItemsAssumption DEF Building
    <3> QED
      BY <1>5, <3>1
  <2> QED
    BY <1>1, <1>2, <1>7, <2>1, <2>2 DEF Good, Shape, Rooted
<1>9. heap.strings = Cardinality({n \in heap.live : OwnsKey(heap, n)})
  <2>1. {n \in heap.live : OwnsKey(heap, n)} = {n \in c.live : OwnsKey(c, n)}
    BY <1>2 DEF OwnsKey
  <2> QED
    BY <1>1, <1>2, <2>1 DEF Good, Named
<1> QED
  BY <1>8, <1>9 DEF NothingLeaks

\* Whether the client or the parser has the next step, the heap is as it should be.
LEMMA HeapSound == PInv /\ LInv => TypeOK /\ ListsSound /\ OneOwner /\ NothingLeaks
<1>1. ASSUME ItemsInv
      PROVE  TypeOK /\ ListsSound /\ OneOwner /\ NothingLeaks
  BY <1>1, InvType, InvLists, InvOwner, InvLeaks
<1>2. ASSUME lost = {}, Building(heap, parse.frames, parse.item, roots)
      PROVE  TypeOK /\ ListsSound /\ OneOwner /\ NothingLeaks
  BY <1>2, BuildingType, BuildingLists, BuildingOwner, BuildingLeaks
<1> QED
  BY <1>1, <1>2 DEF LInv

\* The heap keeps its type also while parse_array and parse_object build, and what they
\* hold was allocated.
THEOREM ParsedTypeCorrect == HeapSpec => []TypeOK
<1> QED
  BY HeapInvariance, HeapSound, PTL

\* The lists that calls of parse_array and parse_object have given to their items are
\* sound, and remain so in all edits of a client that keeps the tree.
THEOREM ParsedListsSound == HeapSpec => []ListsSound
<1> QED
  BY HeapInvariance, HeapSound, PTL

\* No item that the parser made has two owners, nor one while a call that has not ended
\* holds it, so that after an error the fail labels delete each item once.
THEOREM ParsedOwnersApart == HeapSpec => []OneOwner
<1> QED
  BY HeapInvariance, HeapSound, PTL

\* However far the parser came and wherever it failed, all items and names it allocated
\* can be reached from the lists that its calls hold, or from the item it returns.
THEOREM ParserLeaksNothing == HeapSpec => []NothingLeaks
<1> QED
  BY HeapInvariance, HeapSound, PTL

\* A call that fails leaves nothing allocated, neither items nor names.
THEOREM FailureFreesAll ==
  HeapSpec => [](parse.pc = "done" /\ parse.item = None => heap.live = {} /\ heap.strings = 0)
<1>1. ASSUME PInv, LInv, NothingLeaks, parse.pc = "done", parse.item = None
      PROVE  heap.live = {} /\ heap.strings = 0
  <2>1. roots = {} /\ lost = {}
    BY <1>1 DEF LInv, Resting
  <2>2. heap.live = {}
    BY <1>1, <2>1 DEF NothingLeaks
  <2>3. {n \in heap.live : OwnsKey(heap, n)} = {}
    BY <2>2
  <2>4. heap.strings = Cardinality({n \in heap.live : OwnsKey(heap, n)})
    BY <1>1 DEF NothingLeaks
  <2> QED
    BY <2>2, <2>3, <2>4, FS_EmptySet
<1>2. PInv /\ LInv =>
        (parse.pc = "done" /\ parse.item = None => heap.live = {} /\ heap.strings = 0)
  BY <1>1, HeapSound
<1> QED
  BY <1>2, HeapInvariance, PTL

=============================================================================
