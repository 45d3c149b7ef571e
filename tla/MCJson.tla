------------------------------- MODULE MCJson -------------------------------
(* Small instances of Json.                                                *)
EXTENDS Json, TLC

CONSTANTS n1, n2, n3, n4, n5, n6

\* Two names that differ in case only.
FoldCase == [k \in Keys |-> "a"]

Alike == Permutations(Nodes)

\* A word that is printed as a string, and one that is as a number.
Spell == [w \in Words |-> IF w = "a" THEN <<"q", "a", "q">> ELSE <<"1", "2">>]

\* A byte that print_array and its like write, and a word to be measured.
TwoPieces ==
  {[need |-> 1, bytes |-> <<"x">>, advance |-> 1, measured |-> FALSE],
   [need |-> 2, bytes |-> <<"x", NUL>>, advance |-> 0, measured |-> TRUE]}

\* "\u" with hexadecimal digits.
Hexadecimal(digits) == <<Backslash, U>> \o digits
Chunk(bytes, unit)  == [bytes |-> bytes, unit |-> unit]

Pool ==
  {Chunk(<<97>>, 97), Chunk(<<1>>, 1), Chunk(<<233>>, Broken), Chunk(<<Quote>>, Broken),
   Chunk(<<Backslash>>, Broken), Chunk(<<Backslash, 110>>, 10), Chunk(<<Backslash, Quote>>, Quote),
   Chunk(<<Backslash, Backslash>>, Backslash),
   Chunk(Hexadecimal(<<48, 48, 48>>), Broken),
   Chunk(Hexadecimal(<<48, 48, 48, 48>>), 0),
   Chunk(Hexadecimal(<<48, 55, 102, 102>>), 2047),
   Chunk(Hexadecimal(<<48, 56, 48, 48>>), 2048),
   Chunk(Hexadecimal(<<70, 70, 70, 70>>), 65535),
   Chunk(Hexadecimal(<<68, 56, 51, 52>>), 55348),
   Chunk(Hexadecimal(<<68, 68, 49, 69>>), 56606)}

=============================================================================
