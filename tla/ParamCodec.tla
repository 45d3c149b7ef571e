----------------------------- MODULE ParamCodec -----------------------------
(***************************************************************************)
(* What becomes of a parameter or a result on its way: encode_param and    *)
(* decode_param (python/remote_ffi/impl/protocol.py), rffi_param_to_json   *)
(* and the reading of results in rffi_ep_call (src/rffi.c), and the number *)
(* that cJSON prints and parses (src/cJSON.c), which is always a double.   *)
(*                                                                         *)
(* Integers are exact; the limits of types and formats are constants, so   *)
(* that a small instance has them all.  Of a float only its kind is kept:  *)
(* "single" and "double" (what it takes to hold it), "huge" (more than a   *)
(* single holds), "inf" and "nan".                                         *)
(***************************************************************************)
EXTENDS Integers

CONSTANTS
  H8, H16, H32, H64,   \* 2^7, 2^15, 2^31, 2^63: integers of a type reach from -H to 2*H
  Exact,               \* 2^53: a double holds all integers up to here
  Epsilon,             \* 1 / DBL_EPSILON, 2^52
  Twos, Tens,          \* powers of two and of ten, for the spacing of doubles and of texts
  Short, Long,         \* 10^15 and 10^17: the texts of 15 and of 17 digits
  None

ASSUME ParamCodecAssumption ==
  /\ {H8, H16, H32, H64, Exact, Epsilon, Short, Long} \subseteq Nat \ {0}
  /\ 2 * H8 <= H16 /\ 2 * H16 <= H32 /\ 2 * H32 <= H64
  /\ 2 * H32 <= Epsilon /\ 2 * Epsilon <= Exact /\ Exact < Long
  /\ 10 <= Short /\ Short <= Long /\ 20 * Epsilon <= Long
  /\ Twos \subseteq Nat \ {0} /\ Tens \subseteq Nat \ {0} /\ 1 \in Twos \cap Tens

\* No power is left out, and they reach beyond all doubles and texts of 64-bit integers.
ASSUME SpacingAssumption ==
  /\ \A u \in Twos \ {1} : \E w \in Twos : u = 2 * w
  /\ \A u \in Tens \ {1} : \E w \in Tens : u = 10 * w
  /\ \E u \in Twos : 16 * H64 <= u * Exact
  /\ \E u \in Tens : 16 * H64 < u * Short

VARIABLES
  sent,   \* by whom, and what
  wire,   \* its encoding: the type it announces, and the JSON value
  got     \* by whom, and what the reader makes of it

vars == <<sent, wire, got>>

Floats == {"single", "double", "huge", "inf", "nan"}
Kinds  == Floats \cup {"int", "bytes", "other", "null"}
Value  == [kind : Kinds, n : Int]

Number(i) == [kind |-> "int", n |-> i]
Of(k)     == [kind |-> k, n |-> 0]
Message   == [by : {"python", "c"}, v : Value]
Refused   == Of("other")   \* an exception, or a call that is not made

-----------------------------------------------------------------------------
(* encode_param.                                                           *)

Limit  == [i8 |-> H8, u8 |-> H8, i16 |-> H16, u16 |-> H16,
           i32 |-> H32, u32 |-> H32, i64 |-> H64, u64 |-> H64]
Signed == {"i8", "i16", "i32", "i64"}

IntTypes == DOMAIN Limit
Encoding == [t : IntTypes \cup {"f32", "f64", "bytes"}, v : Value]

ASSUME NoneAssumption == None \notin Message \cup Encoding \cup IntTypes \cup {"f32", "f64", "bytes"}

Holds(t, i) == IF t \in Signed THEN -Limit[t] <= i /\ i < Limit[t]
                               ELSE 0 <= i /\ i < 2 * Limit[t]

\* The tests of encode_param, in their order.
Tests == <<"i8", "u8", "i16", "u16", "i32", "u32", "i64", "u64">>

\* Mutant: without the tests for a byte.
SomeType(i)  == Tests[CHOOSE k \in 1..8 : Holds(Tests[k], i) /\ k >= 3]
FirstType(i) == Tests[CHOOSE k \in 1..8 : /\ Holds(Tests[k], i)
                                          /\ \A j \in 1..(k - 1) : ~Holds(Tests[j], i)]

\* A finite float that no single can hold makes struct.pack raise OverflowError.
PythonType(v) ==
  CASE v.kind = "int" /\ (\E t \in IntTypes : Holds(t, v.n)) -> FirstType(v.n)
    [] v.kind \in {"single", "inf"}                              -> "f32"
    [] v.kind \in {"double", "nan"}                              -> "f64"
    [] v.kind = "bytes"                                          -> "bytes"
    [] OTHER                                                     -> None

-----------------------------------------------------------------------------
(* Numbers in cJSON.                                                       *)

Abs(i) == IF i < 0 THEN -i ELSE i

\* The multiple of u nearest to i, the even one of two.
Nearest(i, u) ==
  LET q == i \div u
      r == 2 * (i % u)
  IN  u * (IF r < u \/ (r = u /\ q % 2 = 0) THEN q ELSE q + 1)

Least(S) == CHOOSE u \in S : \A w \in S : u <= w

\* The double nearest to an integer, and the text of it with so many digits.
Double(i)       == Nearest(i, Least({u \in Twos : Abs(i) <= u * Exact}))
Digits(i, size) == Nearest(i, Least({u \in Tens : Abs(i) < u * size}))

\* compare_double. Mutant: with twice the tolerance.
CompareCoarse(a, b) == Abs(a - b) * Epsilon <= 2 * Abs(IF Abs(a) > Abs(b) THEN a ELSE b)
Compare(a, b)       == Abs(a - b) * Epsilon <= Abs(IF Abs(a) > Abs(b) THEN a ELSE b)

\* print_number: an int in full, or 15 digits if they are close, or 17.
\* Mutant: always 15.
PrintedShort(d) == IF Holds("i32", d) THEN d ELSE Digits(d, Short)
Printed(d) ==
  LET short == Digits(d, Short) IN
  IF Holds("i32", d) THEN d
  ELSE IF Compare(Double(short), d) THEN short ELSE Digits(d, Long)

\* A float printed with 15 digits may be a neighbour of the one meant, or
\* beyond all doubles; infinities and NaN become null.
PrintedFloat(k) ==
  CASE k = "single" -> {"single", "double"}
    [] k = "double" -> {"single", "double", "huge"}
    [] k = "huge"   -> {"double", "huge", "inf"}
    [] OTHER        -> {"null"}

-----------------------------------------------------------------------------
(* rffi_param_to_json.                                                     *)

CTypes == {"INT", "UINT", "FLOAT", "PTR", "invalid"}

CType(p) ==
  CASE p.type = "INT"   -> IF Holds("i32", p.n) THEN "i32" ELSE "i64"
    [] p.type = "UINT"  -> IF p.n < 2 * H32 THEN "u32" ELSE "u64"
    [] p.type = "PTR"   -> "u64"
    [] p.type = "FLOAT" -> "f64"
    [] OTHER            -> None

CParams == [type : {"INT"}, kind : {"int"}, n : (-H64)..(H64 - 1)]
      \cup [type : {"UINT", "PTR"}, kind : {"int"}, n : 0..(2 * H64 - 1)]
      \cup [type : {"FLOAT"}, kind : Floats, n : {0}]
      \cup [type : {"invalid"}, kind : {"other"}, n : {0}]

-----------------------------------------------------------------------------
(* A value on its way: an argument from either side to a Python target, or *)
(* a result of one to either side.                                         *)

By(who, v)  == [by |-> who, v |-> v]
Wire(t, v)  == [t |-> t, v |-> v]
Encoded(w)  == wire' = w /\ UNCHANGED got
Rejected    == got' = By(sent'.by, Refused) /\ UNCHANGED wire

\* call checks the kinds of its arguments, and _op_call that of its result,
\* before they encode.
PythonSends(v) ==
  /\ sent = None /\ sent' = By("python", v)
  /\ IF PythonType(v) = None THEN Rejected ELSE Encoded(Wire(PythonType(v), v))

CSends(p) ==
  /\ sent = None /\ sent' = By("c", [kind |-> p.kind, n |-> p.n])
  /\ \/ CType(p) = None /\ Rejected
     \/ p.kind = "int" /\ Encoded(Wire(CType(p), Number(Printed(Double(p.n)))))
     \/ /\ p.type = "FLOAT"
        /\ \E k \in PrintedFloat(p.kind) : Encoded(Wire(CType(p), Of(k)))

Arrives == wire # None /\ got = None /\ UNCHANGED <<sent, wire>>

\* A number that is written with an exponent is read as a float, and int() of
\* that is exact. Mutant: every number is.
DecodedFloat == IF wire.v.kind = "int" THEN Number(Double(wire.v.n)) ELSE wire.v
Decoded ==
  CASE wire.v.kind = "null"                 -> Refused
    [] wire.v.kind = "int" /\ sent.by = "c" -> Number(Double(wire.v.n))
    [] OTHER                                -> wire.v

PythonReads == Arrives /\ got' = By("python", Decoded)

\* The types that rffi_ep_call takes; any other yields 0.
CResults == {"i32", "i64", "u32", "u64", "ptr"}

\* Mutant: the member valueint, which cJSON saturates.
ValueInt(i)    == IF i >= H32 THEN H32 - 1 ELSE IF i < -H32 THEN -H32 ELSE i
ValueDouble(i) == Double(i)

\* The conversion of a double to uintptr_t is undefined below 0 and above the
\* type: it wraps, saturates, or yields the hardware's indefinite value.
ToPointer(d) == IF Holds("u64", d) THEN {d} ELSE {d % (2 * H64), 0, H64, 2 * H64 - 1}

\* NaN and Infinity, which the json module writes, make cJSON_Parse fail.
CReads ==
  /\ Arrives /\ sent.by = "python"
  /\ IF wire.t \in CResults
     THEN \E i \in ToPointer(ValueDouble(wire.v.n)) : got' = By("c", Number(i))
     ELSE got' = By("c", Number(0))

PythonValues == {Number(i) : i \in (-2 * H64)..(2 * H64)}
           \cup {Of(k) : k \in Kinds \ {"int", "null"}}

Init == sent = None /\ wire = None /\ got = None

Next ==
  \/ \E v \in PythonValues : PythonSends(v)
  \/ \E p \in CParams : CSends(p)
  \/ PythonReads
  \/ CReads

Spec == Init /\ [][Next]_vars

-----------------------------------------------------------------------------
Maybe(S) == S \cup {None}

\* Everything has its type; what C gets is a uintptr_t.
TypeOK ==
  /\ sent \in Maybe(Message) /\ wire \in Maybe(Encoding) /\ got \in Maybe(Message)
  /\ got # None /\ got.by = "c" => got.v.n \in 0..(2 * H64 - 1)

From(a, b) == got # None /\ sent.by = a /\ got.by = b /\ wire # None
Sent       == sent.v.n
Got        == got.v.n

\* An encoding announces a type that holds the integer that was sent, and
\* encode_param the first of its tests that does.
WellTyped ==
  wire # None /\ sent.v.kind = "int" =>
    /\ Holds(wire.t, Sent)
    /\ sent.by = "python" => \A t \in IntTypes : Holds(t, Sent) => Limit[wire.t] <= Limit[t]

\* Between two Python endpoints every value that can be encoded arrives as it is.
PythonExact == From("python", "python") => got.v = sent.v

\* An integer argument of the C endpoint arrives as it is if it is less than
\* 2^52 - 1 in magnitude: print_number may give up the last digit of larger
\* ones, even of those that a double holds.
ArgumentsExact ==
  From("c", "python") /\ sent.v.kind = "int" /\ Abs(Sent) < Epsilon - 1 => got.v = sent.v

\* C gets from a function the non-negative integer that it returned, up to 2^53, but 0
\* for those below 2^16: encode_param announces one of the types i8 to u16 for them, and
\* these rffi_ep_call does not take.
ResultsExact ==
  From("python", "c") /\ sent.v.kind = "int" /\ Sent \in 0..Exact =>
    Got = IF Sent < 2 * H16 THEN 0 ELSE Sent

\* Beyond, arguments and results are off by two units of DBL_EPSILON at most.
NumbersNear ==
  /\ From("c", "python") /\ sent.v.kind = "int" => Abs(Got - Sent) * Epsilon <= 2 * Abs(Sent)
  /\ From("python", "c") /\ sent.v.kind = "int" /\ Sent >= 2 * H16 /\ Holds("u64", Double(Sent)) =>
       Abs(Got - Sent) * Epsilon <= 2 * Abs(Sent)

=============================================================================
