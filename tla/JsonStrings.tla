----------------------------- MODULE JsonStrings -----------------------------
(***************************************************************************)
(* The strings of cJSON: parse_string with utf16_literal_to_utf8 and       *)
(* parse_hex4, and print_string_ptr.  Both make two passes: the first      *)
(* works out the memory that the second then writes to without a test.     *)
(* A step is one turn of a loop; bytes are numbers, positions offsets.     *)
(*                                                                         *)
(* A string literal is built chunk by chunk.  A chunk is a byte, an escape *)
(* sequence, or a piece of one.                                            *)
(***************************************************************************)
EXTENDS Integers, Sequences, SequencesExt

CONSTANTS
  Chunks,       \* what literals are made of: bytes, and the UTF-16 unit they stand
                \* for, or Broken
  MaxChunks     \* bound on their number

VARIABLES
  literal,      \* the bytes so far, and the units of the chunks
  call          \* the call, or the last one

Broken    == -1
Quote     == 34
Backslash == 92
Solidus   == 47
U         == 117

\* \b, \t, \n, \f, \r: the letter of each control byte that has one.
Letter == [c \in {8, 9, 10, 12, 13} |->
             CASE c = 8 -> 98 [] c = 9 -> 116 [] c = 10 -> 110 [] c = 12 -> 102 [] c = 13 -> 114]

(* at is the place of the pass, extra counts the escapes that parse_string  *)
(* has skipped or the bytes that print_string_ptr adds, end is the closing  *)
(* quote, and size what was allocated.                                      *)
NoCall == [pc |-> "idle", input |-> <<>>, at |-> 0, extra |-> 0, end |-> 0, size |-> 0,
           output |-> <<>>]
Over == call.pc \in {"idle", "done", "failed", "starved", "printed"}

ByteAt(i)    == call.input[i + 1]
Inside(i) == i < Len(call.input)
Leave(pc, i) == [call EXCEPT !.pc = pc, !.at = i]

\* No text holds the byte 0.
ChunksAssumption == Chunks \subseteq [bytes : Seq(Nat \ {0}), unit : Int]
ASSUME ChunksAssumption

-----------------------------------------------------------------------------
(* Escape sequences of UTF-16.                                             *)

HexDigits == [c \in (48..57) \cup (65..70) \cup (97..102) |->
                IF c <= 57 THEN c - 48 ELSE IF c <= 70 THEN c - 55 ELSE c - 87]

\* parse_hex4: what is not hexadecimal counts as zero.
Digit(i) == HexDigits[ByteAt(i)]
Hex4(i)  == IF \A k \in i..(i + 3) : ByteAt(k) \in DOMAIN HexDigits
            THEN 4096 * Digit(i) + 256 * Digit(i + 1) + 16 * Digit(i + 2) + Digit(i + 3) ELSE 0

High(code) == 55296 <= code /\ code <= 56319     \* 0xD800..0xDBFF
Low(code)  == 56320 <= code /\ code <= 57343     \* 0xDC00..0xDFFF

HalvesSwapped(high, low) == 65536 + 1024 * (low % 1024) + (high % 1024)   \* mutant
Joint(high, low) == 65536 + 1024 * (high % 1024) + (low % 1024)

\* The length in UTF-8, and the bytes: six bits in each but the first.
Utf8Length(point) == IF point < 128 THEN 1 ELSE IF point < 2048 THEN 2
                     ELSE IF point < 65536 THEN 3 ELSE 4
Mark  == <<0, 192, 224, 240>>
Shift == <<1, 64, 4096, 262144>>
Utf8(point) ==
  LET n == Utf8Length(point)
  IN  [k \in 1..n |-> IF k = 1 THEN Mark[n] + (point \div Shift[n])
                      ELSE 128 + ((point \div Shift[n - k + 1]) % 64)]

\* utf16_literal_to_utf8 for the sequence at i: its length, 0 if it is invalid, and
\* the bytes it stands for.
Invalid == [length |-> 0, bytes |-> <<>>]
Utf16Literal(i) ==
  LET first  == Hex4(i + 2)
      second == Hex4(i + 8)
  IN  CASE call.end - i < 6 -> Invalid
        [] call.end - i >= 6 /\ Low(first) -> Invalid
        [] call.end - i >= 6 /\ High(first) ->
             IF \/ call.end - (i + 6) < 6
                \/ ByteAt(i + 6) # Backslash \/ ByteAt(i + 7) # U \/ ~Low(second)
             THEN Invalid
             ELSE [length |-> 12, bytes |-> Utf8(Joint(first, second))]
        [] OTHER -> [length |-> 6, bytes |-> Utf8(first)]

-----------------------------------------------------------------------------
(* parse_string.                                                           *)

ParseCall(b) == [NoCall EXCEPT !.pc = IF b[1] = Quote THEN "scan" ELSE "failed",
                             !.input = b, !.at = 1]

ParseString(b) == Over /\ call' = ParseCall(b)

\* The first pass looks for the end and counts the bytes the output saves.
Scan ==
  /\ call.pc = "scan"
  /\ \/ /\ Inside(call.at) /\ ByteAt(call.at) \notin {Quote, Backslash}
        /\ call' = [call EXCEPT !.at = @ + 1]
     \/ /\ Inside(call.at + 1) /\ ByteAt(call.at) = Backslash
        /\ call' = [call EXCEPT !.at = @ + 2, !.extra = @ + 1]
     \/ /\ Inside(call.at) => ByteAt(call.at) = Backslash /\ ~Inside(call.at + 1)
        /\ call' = Leave("failed", 1)

SkipsEscapes     == call.at - 2 * call.extra   \* mutant: both bytes of an escape
AllocationLength == call.at - call.extra

Allocate ==
  /\ call.pc = "scan" /\ Inside(call.at) /\ ByteAt(call.at) = Quote
  /\ \/ call' = [Leave("copy", 1) EXCEPT !.end = call.at, !.size = AllocationLength + 1]
     \/ call' = Leave("starved", 1)

\* The second pass.
Output(bytes, length) == [call EXCEPT !.output = @ \o bytes, !.at = @ + length]

CopyByte ==
  /\ call.pc = "copy" /\ call.at < call.end /\ ByteAt(call.at) # Backslash
  /\ call' = Output(<<ByteAt(call.at)>>, 1)

CopyEscape ==
  LET escape == ByteAt(call.at + 1)
      utf16  == Utf16Literal(call.at)
      letters == {c \in DOMAIN Letter : Letter[c] = escape}
  IN  /\ call.pc = "copy" /\ call.at < call.end /\ ByteAt(call.at) = Backslash
      /\ \/ \E c \in letters : call' = Output(<<c>>, 2)
         \/ escape \in {Quote, Backslash, Solidus} /\ call' = Output(<<escape>>, 2)
         \/ escape = U /\ utf16.length > 0 /\ call' = Output(utf16.bytes, utf16.length)
         \/ /\ letters = {} /\ escape \notin {Quote, Backslash, Solidus}
            /\ escape = U => utf16.length = 0
            /\ call' = Leave("failed", call.at)

Terminate ==
  /\ call.pc = "copy" /\ call.at >= call.end
  /\ call' = Leave("done", call.end + 1)

-----------------------------------------------------------------------------
(* print_string_ptr, for a string without its NUL.                         *)

Special == {Quote, Backslash} \cup DOMAIN Letter

HexDigit(k) == IF k < 10 THEN 48 + k ELSE 87 + k

Escaped(c) ==
  IF c \in DOMAIN Letter THEN <<Backslash, Letter[c]>>
  ELSE IF c \in {Quote, Backslash} THEN <<Backslash, c>>
  ELSE IF c < 32 THEN <<Backslash, U, 48, 48, HexDigit(c \div 16), HexDigit(c % 16)>>
  ELSE <<c>>

ExtraOfOne(c) == IF c < 32 \/ c \in Special THEN 1 ELSE 0   \* mutant: \uXXXX takes two
Extra(c) == IF c \in Special THEN 1 ELSE IF c < 32 THEN 5 ELSE 0

PrintCall(s)   == [NoCall EXCEPT !.pc = "measure", !.input = s]
PrintString(s) == Over /\ call' = PrintCall(s)

Measure ==
  /\ call.pc = "measure" /\ Inside(call.at)
  /\ call' = [call EXCEPT !.extra = @ + Extra(ByteAt(call.at)), !.at = @ + 1]

\* The room for the escapes, the quotes and NUL; what has no escapes is copied at once.
EnsureString ==
  /\ call.pc = "measure" /\ ~Inside(call.at)
  /\ \/ LET size == Len(call.input) + call.extra + 3
        IN  call' = IF call.extra = 0
                    THEN [Leave("printed", 0) EXCEPT !.size = size,
                            !.output = <<Quote>> \o call.input \o <<Quote>>]
                    ELSE [Leave("write", 0) EXCEPT !.size = size, !.output = <<Quote>>]
     \/ call' = Leave("starved", 0)

WriteByte ==
  /\ call.pc = "write" /\ Inside(call.at)
  /\ call' = Output(Escaped(ByteAt(call.at)), 1)

\* The closing quote goes where the first pass expects it, and NUL after it.
CloseString ==
  /\ call.pc = "write" /\ ~Inside(call.at)
  /\ call' = [Leave("printed", 0) EXCEPT
                !.output = [i \in 1..(call.size - 1) |-> IF i = call.size - 1 THEN Quote ELSE @[i]]]

-----------------------------------------------------------------------------
Loops == \/ Scan \/ Allocate \/ CopyByte \/ CopyEscape \/ Terminate
         \/ Measure \/ EnsureString \/ WriteByte \/ CloseString

Strings == <<literal, call>>

StringsInit == literal = [bytes |-> <<>>, units |-> <<>>] /\ call = NoCall

Extend ==
  /\ Over /\ Len(literal.units) < MaxChunks
  /\ \E c \in Chunks : literal' = [bytes |-> literal.bytes \o c.bytes,
                                  units |-> Append(literal.units, c.unit)]
  /\ call' = NoCall

Quoted(b) == <<Quote>> \o b \o <<Quote>>

\* Any text may be taken for a literal; what was printed is parsed again.
StringsNext ==
  \/ Extend
  \/ /\ \/ Loops
        \/ \E b \in {Quoted(literal.bytes), literal.bytes} : b # <<>> /\ ParseString(b)
        \/ PrintString(literal.bytes)
        \/ call.pc = "printed" /\ ParseString(call.output)
     /\ UNCHANGED literal

StringsSpec == StringsInit /\ [][StringsNext]_Strings

-----------------------------------------------------------------------------
\* Whatever the bytes, parse_string writes no more than it has allocated, the final NUL
\* included; nor does print_string_ptr, and it asks for just the room it uses.
OutputFits ==
  /\ call.size > 0 => Len(call.output) < call.size
  /\ call.pc = "write" /\ ~Inside(call.at) => Len(call.output) = call.size - 2

\* The UTF-16 units that bytes in UTF-8 stand for.
Utf16[s \in Seq(0..255)] ==
  LET n      == CASE s[1] < 128 -> 1 [] s[1] \in 192..223 -> 2 [] s[1] \in 224..239 -> 3 [] OTHER -> 4
      point  == FoldLeft(LAMBDA acc, c : 64 * acc + c - 128, s[1] - Mark[n], SubSeq(s, 2, n))
      excess == point - 65536
      units  == IF point < 65536 THEN <<point>>
                ELSE <<55296 + (excess \div 1024), 56320 + (excess % 1024)>>
  IN  IF s = <<>> THEN <<>> ELSE units \o Utf16[SubSeq(s, n + 1, Len(s))]

\* A literal of whole characters is rejected just if a surrogate lacks its other half;
\* otherwise the output is its text in UTF-8.
DecodesUtf16 ==
  LET units  == literal.units
      Is(i, half(_)) == i \in DOMAIN units /\ half(units[i])
      paired == \A i \in DOMAIN units : /\ (High(units[i]) => Is(i + 1, Low))
                                         /\ (Low(units[i]) => Is(i - 1, High))
  IN  Broken \notin ToSet(units) /\ call.input = Quoted(literal.bytes) =>
        /\ call.pc = "failed" => ~paired
        /\ call.pc = "done" => paired /\ Utf16[call.output] = units

\* parse_string reads back what print_string_ptr printed, to its last byte.
RoundTrip ==
  LET printed == Quoted(FlattenSeq([i \in DOMAIN literal.bytes |-> Escaped(literal.bytes[i])]))
  IN  /\ call.pc = "printed" => call.output = printed
      /\ call.input = printed =>
           /\ call.pc # "failed"
           /\ call.pc = "done" => call.output = literal.bytes /\ call.at = Len(printed)

=============================================================================
