----------------------------- MODULE JsonPrinter -----------------------------
(***************************************************************************)
(* print_value, print_array and print_object as the pieces they send       *)
(* through PrintBuffer, and what printing and parsing have to do with the  *)
(* text of an item.                                                        *)
(***************************************************************************)
EXTENDS JsonValues, JsonParser, PrintBuffer

CONSTANTS
  Spelling,    \* the bytes of each word
  Numbers      \* the words that print_number prints

-----------------------------------------------------------------------------
(* The print functions.                                                    *)

Tabs(k)       == [i \in 1..k |-> "\t"]
Opt(b, s)      == IF b THEN s ELSE <<>>
Piece(need, bytes, advance) ==
  [need |-> need, bytes |-> bytes, advance |-> advance, measured |-> FALSE]
\* One whose caller goes on with update_offset.
EndPiece(need, bytes, advance) ==
  [need |-> need, bytes |-> bytes, advance |-> advance, measured |-> TRUE]

\* print_number, print_string_ptr and the literals of print_value.
WordPiece(w) ==
  LET s == Spelling[w]
  IN  EndPiece(Len(s) + 1, s \o <<NUL>>, IF w \in Numbers THEN Len(s) ELSE 0)

\* A comma comes after the element at i.
FollowsAlways(e, i) == TRUE   \* mutant: after the last one too
Follows(e, i)       == i < Len(e)

RECURSIVE ValuePieces(_, _, _, _)

\* print_array.
ArrayPieces(h, n, format, depth) ==
  LET e   == Elements(h, n)
      sep == <<",">> \o Opt(format, <<" ">>)
      One(i) == ValuePieces(h, e[i], format, depth + 1)
                  \o Opt(Follows(e, i), <<Piece(Len(sep) + 1, sep \o <<NUL>>, Len(sep))>>)
  IN  <<Piece(1, <<"[">>, 1)>> \o FlattenSeq([i \in DOMAIN e |-> One(i)])
        \o <<EndPiece(2, <<"]", NUL>>, 0)>>

\* print_object, whose members are one deeper than its brackets.
ObjectPieces(h, n, format, depth) ==
  LET e    == Elements(h, n)
      open == <<"{">> \o Opt(format, <<"\n">>)
      colon == <<":">> \o Opt(format, <<"\t">>)
      Sep(i) == Opt(Follows(e, i), <<",">>) \o Opt(format, <<"\n">>)
      One(i) == Opt(format, <<Piece(depth + 1, Tabs(depth + 1), depth + 1)>>)
                  \o <<WordPiece(h.key[e[i]]), Piece(Len(colon), colon, Len(colon))>>
                  \o ValuePieces(h, e[i], format, depth + 1)
                  \o <<Piece(Len(Sep(i)) + 1, Sep(i) \o <<NUL>>, Len(Sep(i)))>>
  IN  <<Piece(Len(open) + 1, open, Len(open))>> \o FlattenSeq([i \in DOMAIN e |-> One(i)])
        \o <<EndPiece(IF format THEN depth + 2 ELSE 2,
                  Opt(format, Tabs(depth)) \o <<"}", NUL>>, 0)>>

\* print_value.
ValuePieces(h, n, format, depth) ==
  CASE h.kind[n] = "array"  -> ArrayPieces(h, n, format, depth)
    [] h.kind[n] = "object" -> ObjectPieces(h, n, format, depth)
    [] OTHER                -> <<WordPiece(h.kind[n])>>

\* The buffer after the pieces of n, or after the first that fails.
Sent(p, h, n, format) ==
  FoldLeft(LAMBDA q, piece : IF q.state = "printing" THEN Emit(q, piece) ELSE q,
           p, ValuePieces(h, n, format, 0))

-----------------------------------------------------------------------------
(* The text of an item: commas between, tabs before members.               *)

Joined(parts, between) ==
  FlattenSeq([i \in DOMAIN parts |-> parts[i] \o Opt(i < Len(parts), between)])

RECURSIVE Text(_, _, _, _, _)
Text(h, n, spelling, format, depth) ==
  LET e == Elements(h, n)
      Inner(i) == Text(h, e[i], spelling, format, depth + 1)
      Line(i)  == Opt(format, Tabs(depth + 1)) \o spelling[h.key[e[i]]]
                    \o (IF format THEN <<":", "\t">> ELSE <<":">>) \o Inner(i)
  IN  CASE h.kind[n] = "array" ->
             <<"[">> \o Joined([i \in DOMAIN e |-> Inner(i)],
                               IF format THEN <<",", " ">> ELSE <<",">>) \o <<"]">>
        [] h.kind[n] = "object" ->
             <<"{">> \o Opt(format, <<"\n">>)
               \o Joined([i \in DOMAIN e |-> Line(i)], IF format THEN <<",", "\n">> ELSE <<",">>)
               \o Opt(format /\ e # <<>>, <<"\n">>) \o Opt(format, Tabs(depth)) \o <<"}">>
        [] OTHER -> spelling[h.kind[n]]

Tokens(h, n) == Text(h, n, [w \in Words |-> <<w>>], FALSE, 0)

\* The C string in the buffer.
CString(p) == SubSeq(p.buffer, 1, (CHOOSE i \in 1..Size(p) :
                 p.buffer[i] = NUL /\ \A j \in 1..(i - 1) : p.buffer[j] # NUL) - 1)

-----------------------------------------------------------------------------
(* What the parser and the printer owe each other.                         *)

Result == parse.pc = "done" /\ parse.item # None
Strip(s) == SelectSeq(s, LAMBDA c : c \notin Blank)

\* What JSON allows, in n tokens: values, lists of values, lists of members.
Lang[n \in Nat] ==
  LET brackets == CASE n < 2 -> {}
                    [] n = 2 -> {<<"[", "]">>, <<"{", "}">>}
                    [] OTHER -> {<<"[">> \o s \o <<"]">> : s \in Lang[n - 2].values} \cup
                                {<<"{">> \o s \o <<"}">> : s \in Lang[n - 2].members}
      value    == brackets \cup IF n = 1 THEN {<<w>> : w \in Words} ELSE {}
      member   == IF n < 3 THEN {}
                  ELSE {<<k, ":">> \o v : k \in Keys \cap Words, v \in Lang[n - 2].value}
      More(one, list) == UNION {{s \o <<",">> \o r : s \in one[i], r \in list[n - i - 1]} :
                                i \in 1..(n - 2)}
      below(f(_)) == [i \in 1..(n - 1) |-> f(Lang[i])]
  IN  [value   |-> value,
       member  |-> member,
       values  |-> value \cup More(below(LAMBDA l : l.value), below(LAMBDA l : l.values)),
       members |-> member \cup More(below(LAMBDA l : l.member), below(LAMBDA l : l.members))]

JsonTexts    == UNION {Lang[n].value : n \in 1..MaxText}
JsonPrefixes == UNION {{SubSeq(s, 1, i) : i \in 0..Len(s)} : s \in JsonTexts}

\* A text that is accepted is that of the items built, up to blanks, and if a NUL is
\* required nothing else follows.  One that is rejected is not JSON, nor is any text
\* that goes on where the parser stopped looking, unless it nests deeper than the limit.
ParsesJson ==
  parse.pc = "done" =>
    LET s == Strip(text)
        whole == ended /\ text[Length] = "NUL"
        Count(set) == Cardinality({i \in 1..(parse.offset + 1) : text[i] \in set})
    IN  /\ parse.item # None =>
             /\ Strip(SubSeq(text, 1, parse.offset)) = Tokens(heap, parse.item)
             /\ parse.strict => whole /\ s = Tokens(heap, parse.item)
        /\ parse.why = "text" =>
             /\ ~ended => s \notin JsonPrefixes
             /\ IF parse.strict THEN ~(whole /\ s \in JsonTexts)
                ELSE \A i \in 0..Len(s) : SubSeq(s, 1, i) \notin JsonTexts
        /\ parse.why = "depth" => Count({"[", "{"}) - Count({"]", "}"}) > NestingLimit

\* What is printed is the text of the item, and all is printed for which the buffer
\* can be made long enough: in a given buffer a byte more than the text and its NUL is
\* enough, where cJSON.h asks for five.  The pieces are what PrintBuffer expects.
PrintsText ==
  Result => \A format \in BOOLEAN :
    LET n    == parse.item
        txt  == Text(heap, n, Spelling, format, 0)
        size == Len(txt)
        After(p) == Sent(p, heap, n, format)
        Good(p, room) == \/ p.state = "printing" /\ CString(p) = txt
                         \/ p.state = "failed" /\ size + 2 > room
        Whole(p) == p.state = "printed" /\ p.buffer = txt \o <<NUL>>
    IN  /\ \A realloc \in BOOLEAN :
             LET p == After(PrintStart(size + 1, realloc))
             IN  Good(p, IntMax) /\ (p.state = "printing" => Whole(Returned(p)))
        /\ \A k \in 1..(size + 2) : Good(After(BufferedStart(k, size + 1, k % 2 = 0)), IntMax)
        /\ \A k \in 0..(size + 2) : Good(After(PreallocatedStart(k)), k)
        /\ \A piece \in ToSet(ValuePieces(heap, n, format, 0)) : Proper(piece)

=============================================================================
