---------------------------- MODULE BufferProofs ----------------------------
(***************************************************************************)
(* What cJSON writes stays in the memory it has asked for.  The print      *)
(* buffer is never overrun and its blocks are all freed, for every set of  *)
(* pieces, size of buffers and failure of an allocation; and a string is   *)
(* given the room it needs, whatever its bytes.                            *)
(***************************************************************************)
EXTENDS PrintBuffer, JsonStrings, SequenceTheorems, WellFoundedInduction, TLAPS

(* The print buffer.  Neither property is inductive.  Ensure copies up to *)
(* the offset without a test, which rests on the offset being within the   *)
(* buffer (Ready), and that rests on the room that ensure leaves for a     *)
(* byte after the piece.                                                   *)

Alphabet == Bytes \cup {NUL, Raw}

\* The offset is within the buffer, or the buffer is empty still and print's own
\* never is.
Ready(p) ==
  \/ p.offset < Size(p)
  \/ Size(p) = 0 /\ p.offset = 0 /\ ~p.shrink

\* The one copy that reads too much.
CopiesNothing(p) ==
  Size(p) = 0 /\ p.offset = 0 /\ ~p.realloc /\ ~p.noalloc /\ ~p.shrink

\* The blocks of a call that has its buffer.
Owned(p) == IF p.noalloc THEN 0 ELSE 1

Sound(p) ==
  /\ p \in Printbuffers
  /\ p.state # "overrun"
  /\ p.state = "overread" => CopiesNothing(p)
  /\ p.state = "idle" => p.blocks = 0
  /\ p.state = "printing" => Ready(p)
  /\ p.state \in {"printing", "printed"} => ~p.null /\ p.blocks = Owned(p)
  /\ p.state = "failed" => p.blocks = IF p.null THEN 0 ELSE Owned(p)

-----------------------------------------------------------------------------
(* Sequences.                                                              *)

LEMMA EmptyIsSeq == \A S : <<>> \in Seq(S)
BY EmptySeq

LEMMA FunctionIsSeq ==
  ASSUME NEW S, NEW n \in Nat, NEW f \in [1..n -> S]
  PROVE  f \in Seq(S) /\ Len(f) = n
<1>1. f \in Seq(S)
  OBVIOUS
<1> QED
  BY <1>1, LenProperties

\* Any set of numbers has a least one.
LEMMA LeastExists ==
  ASSUME NEW S \in SUBSET Nat, S # {}
  PROVE  \E i \in S : \A j \in S : i <= j
<1>1. IsWellFoundedOn(OpToRel(<, Nat), Nat)
  BY NatLessThanWellFounded
<1>2. PICK i \in S : \A j \in S : <<j, i>> \notin OpToRel(<, Nat)
  BY <1>1, WFMin, Zenon
<1>3. \A j \in S : ~(j < i)
  BY <1>2 DEF OpToRel
<1> QED
  BY <1>3

LEMMA BufferIsSeq ==
  ASSUME NEW p \in Printbuffers
  PROVE  /\ Size(p) \in Nat /\ p.offset \in Nat
         /\ \A i \in 1..Size(p) : p.buffer[i] \in Alphabet
  BY LenProperties, ElementOfSeq DEF Printbuffers, Size, Alphabet

LEMMA MovedIsSeq ==
  ASSUME NEW p \in Printbuffers, NEW size \in Nat, NEW kept \in Nat
  PROVE  Moved(p, size, kept) \in Seq(Alphabet) /\ Len(Moved(p, size, kept)) = size
<1>1. Moved(p, size, kept) \in [1..size -> Alphabet]
  BY BufferIsSeq DEF Moved, Alphabet
<1> QED
  BY <1>1, FunctionIsSeq

-----------------------------------------------------------------------------
(* The steps of a piece.                                                   *)

\* ensure gives the room that is asked for and a byte behind it, or fails.
LEMMA EnsureSound ==
  ASSUME NEW p, Sound(p), p.state = "printing", NEW needed \in Nat
  PROVE  /\ Sound(Ensure(p, needed))
         /\ Ensure(p, needed).state \in {"printing", "failed", "overread"}
         /\ Ensure(p, needed).state = "printing" =>
              /\ Ensure(p, needed).offset = p.offset
              /\ p.offset + needed + 1 <= Size(Ensure(p, needed))
<1> DEFINE total == Needs(p, needed)
           q     == Ensure(p, needed)
           grown == Grown(p, Doubled(total))
<1>0. p \in Printbuffers /\ Ready(p) /\ ~p.null /\ p.blocks = Owned(p)
  BY DEF Sound
<1>1. Size(p) \in Nat /\ p.offset \in Nat /\ total = needed + p.offset + 1
  BY <1>0, BufferIsSeq DEF Needs
<1>2. CASE q = Fails(p)
  <2>1. Fails(p) \in Printbuffers
    BY <1>0 DEF Fails, Printbuffers, States
  <2> QED BY <1>0, <1>2, <2>1 DEF Fails, Sound, Printbuffers, Owned
<1>3. CASE q = p /\ total <= Size(p)
  BY <1>1, <1>3
<1>4. CASE q = Dropped(p) /\ ~p.noalloc
  <2>1. Dropped(p) \in Printbuffers
    <3> DEFINE none == <<>>
    <3>1. none \in Seq(Alphabet)
      BY EmptyIsSeq
    <3>2. Dropped(p) = [p EXCEPT !.state = "failed", !.blocks = @ - 1, !.null = TRUE, !.buffer = none]
      BY <1>0 DEF Dropped, Fails, Printbuffers
    <3>3. p.blocks - 1 \in Int
      BY <1>0 DEF Printbuffers
    <3>4. Dropped(p) = [buffer |-> none, null |-> TRUE, offset |-> p.offset, noalloc |-> p.noalloc,
                        realloc |-> p.realloc, shrink |-> p.shrink, blocks |-> p.blocks - 1,
                        memory |-> p.memory, state |-> "failed"]
      BY <1>0, <3>2 DEF Printbuffers
    <3> HIDE DEF none
    <3> QED BY <1>0, <3>1, <3>3, <3>4 DEF Printbuffers, States, Alphabet
  <2>2. /\ Dropped(p).state = "failed" /\ Dropped(p).null
        /\ Dropped(p).blocks = p.blocks - 1
    BY <1>0 DEF Dropped, Fails, Printbuffers
  <2> QED BY <1>0, <1>4, <2>1, <2>2 DEF Sound, Owned
<1>5. CASE q = grown /\ ~p.noalloc /\ total <= IntMax /\ total > Size(p) /\ p.memory # 0
  <2>1. Doubled(total) \in Nat /\ Doubled(total) >= total
    BY <1>1, <1>5, PrintAssumption DEF Doubled
  <2>1b. CASE ~p.realloc /\ p.offset + 1 > Size(p)
    <3>1. grown = [p EXCEPT !.state = "overread"]
      BY <2>1b DEF Grown
    <3>2. grown \in Printbuffers /\ grown.state = "overread"
      BY <1>0, <3>1 DEF Printbuffers, States
    <3>3. CopiesNothing(grown)
      BY <1>0, <1>1, <1>5, <2>1b, <3>1 DEF Ready, CopiesNothing, Printbuffers, Size
    <3> QED
      BY <1>5, <3>2, <3>3 DEF Sound
  <2>2. SUFFICES ASSUME ~(~p.realloc /\ p.offset + 1 > Size(p)) PROVE
          /\ Sound(q) /\ q.state \in {"printing", "failed", "overread"}
          /\ q.state = "printing" => q.offset = p.offset /\ p.offset + needed + 1 <= Size(q)
    BY <2>1b
  <2> DEFINE kept == IF p.realloc THEN Size(p) ELSE p.offset + 1
  <2>3. kept \in Nat
    BY <1>1
  <2> HIDE DEF kept
  <2>4. /\ Moved(p, Doubled(total), kept) \in Seq(Alphabet)
        /\ Len(Moved(p, Doubled(total), kept)) = Doubled(total)
    BY <1>0, <2>1, <2>3, MovedIsSeq
  <2>5. grown = [p EXCEPT !.buffer = Moved(p, Doubled(total), kept), !.memory = @ - 1]
    BY <1>0, <2>2 DEF Grown, kept, Printbuffers
  <2>6. p.memory - 1 \in Nat
    BY <1>0, <1>5 DEF Printbuffers
  <2>7. grown \in Printbuffers
    BY <1>0, <2>4, <2>5, <2>6 DEF Printbuffers, Alphabet
  <2>8. /\ Size(grown) = Doubled(total) /\ grown.offset = p.offset
        /\ grown.state = "printing" /\ grown.blocks = p.blocks
        /\ grown.null = p.null /\ grown.noalloc = p.noalloc
    BY <1>0, <2>4, <2>5 DEF Printbuffers, Size
  <2>9. p.offset + needed + 1 <= Size(grown) /\ Ready(grown)
    BY <1>1, <2>1, <2>8 DEF Ready
  <2> QED BY <1>0, <1>5, <2>7, <2>8, <2>9 DEF Sound, Owned
<1> QED
  <2>1. p.memory \in Nat
    BY <1>0 DEF Printbuffers
  <2> HIDE DEF total, grown
  <2> QED
    BY <1>0, <1>1, <1>2, <1>3, <1>4, <1>5, <2>1, PrintAssumption DEF Ensure, Ready, total, grown

\* Bytes that fit are written at the offset.
LEMMA WrittenSound ==
  ASSUME NEW p, Sound(p), p.state = "printing", NEW bytes \in Seq(Bytes \cup {NUL}),
         p.offset + Len(bytes) < Size(p)
  PROVE  /\ Sound(Written(p, bytes))
         /\ Written(p, bytes) = [p EXCEPT !.buffer = Written(p, bytes).buffer]
         /\ Size(Written(p, bytes)) = Size(p)
         /\ \A i \in 1..Len(bytes) : Written(p, bytes).buffer[p.offset + i] = bytes[i]
<1> DEFINE content == [i \in 1..Size(p) |->
                         IF i \in (p.offset + 1)..(p.offset + Len(bytes))
                         THEN bytes[i - p.offset] ELSE p.buffer[i]]
<1>0. p \in Printbuffers /\ Len(bytes) \in Nat
  BY LenProperties DEF Sound
<1>1. /\ Size(p) \in Nat /\ p.offset \in Nat
      /\ \A i \in 1..Size(p) : p.buffer[i] \in Alphabet
  BY <1>0, BufferIsSeq
<1>2. content \in [1..Size(p) -> Alphabet]
  <2> SUFFICES ASSUME NEW i \in 1..Size(p) PROVE content[i] \in Alphabet
    OBVIOUS
  <2>1. CASE i \in (p.offset + 1)..(p.offset + Len(bytes))
    <3>1. i - p.offset \in 1..Len(bytes)
      BY <1>0, <1>1, <2>1
    <3> QED BY <2>1, <3>1, ElementOfSeq DEF Alphabet
  <2>2. CASE i \notin (p.offset + 1)..(p.offset + Len(bytes))
    BY <1>1, <2>2
  <2> QED BY <2>1, <2>2
<1>3. content \in Seq(Alphabet) /\ Len(content) = Size(p)
  BY <1>1, <1>2, FunctionIsSeq
<1>4. \A i \in 1..Len(bytes) : content[p.offset + i] = bytes[i]
  <2> TAKE i \in 1..Len(bytes)
  <2>1. /\ p.offset + i \in 1..Size(p)
        /\ p.offset + i \in (p.offset + 1)..(p.offset + Len(bytes))
        /\ (p.offset + i) - p.offset = i
    BY <1>0, <1>1
  <2> QED BY <2>1
<1>5. Written(p, bytes) = [p EXCEPT !.buffer = content]
  BY <1>0, <1>1 DEF Written
<1> HIDE DEF content
<1>6. /\ Written(p, bytes) \in Printbuffers
      /\ Written(p, bytes).buffer = content
  BY <1>0, <1>3, <1>5 DEF Printbuffers, Alphabet
<1> QED
  BY <1>0, <1>3, <1>4, <1>5, <1>6 DEF Sound, Ready, Owned, Size, Printbuffers

\* What was written ends in NUL, so strlen stops in it.
LEMMA MeasuredSound ==
  ASSUME NEW p, Sound(p), p.state = "printing", p.offset < Size(p), Terminated(p)
  PROVE  /\ Sound(UpdateOffset(p))
         /\ UpdateOffset(p).state = "printing"
         /\ UpdateOffset(p) = [p EXCEPT !.offset = UpdateOffset(p).offset]
         /\ UpdateOffset(p).offset < Size(p)
<1>0. p \in Printbuffers
  BY DEF Sound
<1>1. Size(p) \in Nat /\ p.offset \in Nat
  BY <1>0, BufferIsSeq
<1>2. Halts(p) \in SUBSET Nat /\ Halts(p) # {}
  BY <1>1 DEF Halts, Terminated
<1>3. \E i \in Halts(p) : \A j \in Halts(p) : i <= j
  BY <1>2, LeastExists
<1>4. FirstHalt(p) \in Halts(p)
  BY <1>3 DEF FirstHalt
<1>5. FirstHalt(p) \in Nat /\ FirstHalt(p) < Size(p)
  BY <1>1, <1>4 DEF Halts
<1>6. UpdateOffset(p) = [p EXCEPT !.offset = FirstHalt(p)]
  BY DEF UpdateOffset
<1>7. /\ UpdateOffset(p) \in Printbuffers
      /\ UpdateOffset(p).offset = FirstHalt(p)
      /\ UpdateOffset(p).buffer = p.buffer
  BY <1>0, <1>5, <1>6 DEF Printbuffers
<1> QED
  BY <1>0, <1>5, <1>6, <1>7 DEF Sound, Ready, Owned, Size, Printbuffers

LEMMA WithinPiece ==
  ASSUME NEW f \in Nat, NEW offset \in Nat, NEW advance \in Nat, NEW n \in Nat,
         NEW i \in (advance + 1)..n, f >= offset + advance, f <= offset + i - 1
  PROVE  f + 1 - offset \in 1..n /\ offset + (f + 1 - offset) = f + 1
  OBVIOUS

\* A piece that is proper leaves the buffer sound.
LEMMA EmitSound ==
  ASSUME NEW p, Sound(p), p.state = "printing", NEW piece \in PieceSet, Proper(piece)
  PROVE  Sound(Emit(p, piece))
<1> DEFINE room    == Ensure(p, piece.need)
           written == Written(room, piece.bytes)
           past    == [written EXCEPT !.offset = @ + piece.advance]
<1>1. /\ piece.need \in Nat /\ piece.advance \in Nat
      /\ piece.bytes \in Seq(Bytes \cup {NUL}) /\ Len(piece.bytes) \in Nat
      /\ Len(piece.bytes) <= piece.need /\ piece.advance <= Len(piece.bytes)
  BY LenProperties DEF PieceSet, Proper
<1>2. /\ Sound(room) /\ room.state \in {"printing", "failed", "overread"}
      /\ room.state = "printing" =>
           room.offset = p.offset /\ p.offset + piece.need + 1 <= Size(room)
  BY <1>1, EnsureSound
<1> HIDE DEF room
<1>3. CASE room.state \in {"failed", "overread"}
  BY <1>2, <1>3 DEF Emit, room
<1>4. CASE room.state = "printing"
  <2>0. room \in Printbuffers /\ room.offset \in Nat /\ Size(room) \in Nat
    BY <1>2, BufferIsSeq DEF Sound
  <2>1. room.offset + Len(piece.bytes) < Size(room)
    BY <1>1, <1>2, <1>4, <2>0
  <2>2. /\ Sound(written) /\ Size(written) = Size(room)
        /\ written = [room EXCEPT !.buffer = written.buffer]
        /\ \A i \in 1..Len(piece.bytes) : written.buffer[room.offset + i] = piece.bytes[i]
    BY <1>1, <1>2, <1>4, <2>1, WrittenSound
  <2> HIDE DEF written
  <2>3. /\ written \in Printbuffers /\ written.state = "printing"
        /\ written.offset = room.offset
    BY <1>4, <2>0, <2>2 DEF Sound, Printbuffers
  <2>4. /\ past \in Printbuffers /\ past.buffer = written.buffer
        /\ past.offset = room.offset + piece.advance /\ past.state = "printing"
        /\ past.null = written.null /\ past.blocks = written.blocks
        /\ past.noalloc = written.noalloc /\ past.realloc = written.realloc
    <3>1. past = [written EXCEPT !.offset = room.offset + piece.advance]
      BY <2>3
    <3>2. room.offset + piece.advance \in Nat
      BY <1>1, <2>0
    <3> HIDE DEF past
    <3> QED BY <2>3, <3>1, <3>2 DEF Printbuffers
  <2> HIDE DEF past
  <2>5. past.offset < Size(past) /\ Size(past) = Size(room)
    BY <1>1, <2>0, <2>1, <2>2, <2>4 DEF Size
  <2>6. Sound(past)
    BY <2>2, <2>3, <2>4, <2>5 DEF Sound, Ready, Owned
  <2>7. CASE ~piece.measured
    BY <1>4, <2>3, <2>6, <2>7 DEF Emit, room, written, past
  <2>8. CASE piece.measured
    <3>1. PICK i \in (piece.advance + 1)..Len(piece.bytes) : piece.bytes[i] = NUL
      BY <2>8 DEF Proper
    <3>2. room.offset + i - 1 \in Halts(past)
      <4>1. past.buffer[room.offset + i] = NUL
        BY <1>1, <2>2, <2>4, <3>1
      <4>2. /\ room.offset + i - 1 \in past.offset..(Size(past) - 1)
            /\ (room.offset + i - 1) + 1 = room.offset + i
        BY <1>1, <2>0, <2>1, <2>4, <2>5, <3>1
      <4> QED BY <4>1, <4>2 DEF Halts
    <3>3. Halts(past) \in SUBSET Nat
      BY <1>1, <2>0, <2>4, <2>5 DEF Halts
    <3>4. PICK k \in Halts(past) : \A j \in Halts(past) : k <= j
      BY <3>2, <3>3, LeastExists
    <3>5. FirstHalt(past) \in Halts(past) /\ FirstHalt(past) <= room.offset + i - 1
      BY <3>2, <3>4 DEF FirstHalt
    <3> DEFINE at == FirstHalt(past) + 1 - room.offset
    <3>6. /\ at \in 1..Len(piece.bytes) /\ room.offset + at = FirstHalt(past) + 1
      <4>1. FirstHalt(past) \in Nat /\ FirstHalt(past) >= room.offset + piece.advance
        BY <1>1, <2>0, <2>4, <2>5, <3>5 DEF Halts
      <4>2. FirstHalt(past) <= room.offset + i - 1
        BY <3>5
      <4> QED BY <1>1, <2>0, <4>1, <4>2, WithinPiece, Zenon
    <3>7. past.buffer[FirstHalt(past) + 1] = piece.bytes[at]
      BY <2>2, <2>4, <3>6
    <3>8. piece.bytes[at] # Raw
      BY <1>1, <3>6, ElementOfSeq, PrintAssumption DEF NUL, Raw
    <3>9. Terminated(past)
      BY <3>2, <3>5, <3>7, <3>8 DEF Terminated, Halts
    <3> QED BY <1>4, <2>3, <2>4, <2>5, <2>6, <2>8, <3>9, MeasuredSound DEF Emit, room, written, past
  <2> QED BY <2>7, <2>8
<1> QED
  BY <1>2, <1>3, <1>4

-----------------------------------------------------------------------------
(* The calls.                                                              *)

LEMMA IdleSound ==
  Sound(NoBuffer) /\ \A n : n = 0 => [NoBuffer EXCEPT !.blocks = n] = NoBuffer
<1> DEFINE none == <<>>
           p    == NoBuffer
<1>1. none \in Seq(Alphabet)
  BY EmptyIsSeq
<1>2. p = [buffer |-> none, null |-> TRUE, offset |-> 0, noalloc |-> FALSE, realloc |-> TRUE,
           shrink |-> FALSE, blocks |-> 0, memory |-> 0, state |-> "idle"]
  BY DEF NoBuffer
<1>3. \A n : n = 0 => [NoBuffer EXCEPT !.blocks = n] = NoBuffer
  BY DEF NoBuffer
<1> HIDE DEF none, p
<1>4. p \in Printbuffers
  BY <1>1, <1>2 DEF Printbuffers, States, Alphabet
<1>5. p.state = "idle" /\ p.blocks = 0
  BY <1>2
<1>6. Sound(p)
  BY <1>4, <1>5 DEF Sound
<1> QED
  BY <1>3, <1>6 DEF p

LEMMA FreshSound ==
  ASSUME NEW size \in Nat, NEW own \in BOOLEAN, NEW memory \in Nat, NEW realloc \in BOOLEAN,
         NEW shrink \in BOOLEAN, size > 0 \/ ~shrink
  PROVE  Sound(Fresh(size, own, memory, realloc, shrink))
<1> DEFINE content == [i \in 1..size |-> Raw]
           p       == Fresh(size, own, memory, realloc, shrink)
<1>1. content \in [1..size -> Alphabet]
  BY DEF Alphabet
<1>2. content \in Seq(Alphabet) /\ Len(content) = size
  BY <1>1, FunctionIsSeq
<1>3. p = [buffer |-> content, null |-> FALSE, offset |-> 0, noalloc |-> ~own,
           realloc |-> realloc, shrink |-> shrink, blocks |-> IF own THEN 1 ELSE 0,
           memory |-> memory, state |-> "printing"]
  BY Zenon DEF Fresh
<1> HIDE DEF content, p
<1>4. p \in Printbuffers
  BY <1>2, <1>3 DEF Printbuffers, States, Alphabet
<1>5. /\ p.state = "printing" /\ p.offset = 0 /\ p.buffer = content /\ p.shrink = shrink
      /\ p.noalloc = ~own /\ p.blocks = (IF own THEN 1 ELSE 0) /\ ~p.null
  BY <1>3
<1>6. Ready(p)
  BY <1>2, <1>5 DEF Ready, Size
<1>7. p.blocks = Owned(p)
  BY <1>5 DEF Owned
<1>8. Sound(p)
  BY <1>4, <1>5, <1>6, <1>7 DEF Sound
<1> QED
  BY <1>8 DEF p

\* A block of the size of the text takes the place of the buffer, or not.
LEMMA ShrunkSound ==
  ASSUME NEW p, Sound(p), p.state = "printing"
  PROVE  Sound(Shrunk(p))
<1>0. p \in Printbuffers /\ p.offset \in Nat /\ Size(p) \in Nat
  BY BufferIsSeq DEF Sound
<1> DEFINE content == Moved(p, p.offset + 1, Size(p))
<1>1. content \in Seq(Alphabet) /\ Len(content) = p.offset + 1
  <2>1. p.offset + 1 \in Nat
    BY <1>0
  <2> QED BY <1>0, <2>1, MovedIsSeq
<1>2. [content EXCEPT ![p.offset + 1] = NUL] \in Seq(Alphabet)
  BY <1>0, <1>1, ExceptSeq DEF Alphabet
<1> DEFINE closed == [content EXCEPT ![p.offset + 1] = NUL]
<1>3. \/ Shrunk(p) = [p EXCEPT !.state = "failed"]
      \/ Shrunk(p) = [p EXCEPT !.buffer = content, !.state = "printed"]
      \/ Shrunk(p) = [p EXCEPT !.buffer = closed, !.state = "printed"]
  <2>1. p.memory \in Nat
    BY <1>0 DEF Printbuffers
  <2> HIDE DEF content, closed
  <2> QED BY <2>1 DEF Shrunk, content, closed
<1>4. content \in Seq(Alphabet) /\ closed \in Seq(Alphabet)
  BY <1>1, <1>2
<1> HIDE DEF content, closed
<1> QED
  BY <1>0, <1>3, <1>4 DEF Sound, Printbuffers, States, Owned, Alphabet

-----------------------------------------------------------------------------
LEMMA InitSound == PrintInit => Sound(out)
BY IdleSound DEF PrintInit

LEMMA StepSound == Sound(out) /\ [PrintNext]_out => Sound(out)'
<1> SUFFICES ASSUME Sound(out), [PrintNext]_out PROVE Sound(out')
  OBVIOUS
<1>0. out \in Printbuffers /\ DefaultSize \in Nat /\ DefaultSize > 0
  BY PrintAssumption DEF Sound
<1>1. CASE Begin
  <2>1. CASE \E memory \in 0..MaxMemory, realloc \in BOOLEAN : out' = PrintStart(memory, realloc)
    <3>1. PICK memory \in 0..MaxMemory, realloc \in BOOLEAN :
            out' = Fresh(DefaultSize, TRUE, memory, realloc, TRUE)
      BY <2>1 DEF PrintStart
    <3>2. memory \in Nat
      OBVIOUS
    <3> QED BY <1>0, <3>1, <3>2, FreshSound
  <2>2. CASE \E size \in 0..MaxSize, memory \in 0..MaxMemory, realloc \in BOOLEAN :
               out' = BufferedStart(size, memory, realloc)
    <3>1. PICK size \in 0..MaxSize, memory \in 0..MaxMemory, realloc \in BOOLEAN :
               out' = Fresh(size, TRUE, memory, realloc, FALSE)
      BY <2>2 DEF BufferedStart
    <3>2. size \in Nat /\ memory \in Nat
      OBVIOUS
    <3> QED BY <3>1, <3>2, FreshSound
  <2>3. CASE \E size \in 0..MaxSize : out' = PreallocatedStart(size)
    <3>1. PICK size \in 0..MaxSize : out' = Fresh(size, FALSE, 0, TRUE, FALSE)
      BY <2>3 DEF PreallocatedStart
    <3>2. size \in Nat
      OBVIOUS
    <3> QED BY <3>1, <3>2, FreshSound
  <2> QED BY <1>1, <2>1, <2>2, <2>3 DEF Begin
<1>2. CASE PrintPiece
  <2>1. PICK piece \in Pieces : out' = Emit(out, piece)
    BY <1>2 DEF PrintPiece
  <2>2. piece \in PieceSet /\ Proper(piece) /\ out.state = "printing"
    BY <1>2, PrintAssumption DEF PrintPiece
  <2> QED BY <2>1, <2>2, EmitSound
<1>3. CASE Return
  <2>1. out.state = "printing" /\ Terminated(out) /\ out' = Returned(out)
    BY <1>3 DEF Return
  <2>2. CASE out.shrink
    <3>1. out.offset < Size(out)
      BY <1>0, <2>1, BufferIsSeq DEF Terminated, Halts
    <3>2. Sound(UpdateOffset(out)) /\ UpdateOffset(out).state = "printing"
      BY <2>1, <3>1, MeasuredSound
    <3> QED BY <2>1, <2>2, <3>2, ShrunkSound DEF Returned
  <2>3. CASE ~out.shrink
    <3>1. out' = [out EXCEPT !.state = "printed"]
      BY <2>1, <2>3 DEF Returned
    <3> QED BY <1>0, <2>1, <3>1 DEF Sound, Printbuffers, States, Owned
  <2> QED BY <2>2, <2>3
<1>4. CASE Abandon \/ FreeText
  <2>1. PICK left \in Int : out' = [NoBuffer EXCEPT !.blocks = left] /\ left = 0
    <3>1. CASE Abandon
      <4>1. (IF out.null \/ out.noalloc THEN out.blocks ELSE out.blocks - 1) = 0
        BY <1>0, <3>1 DEF Abandon, Sound, Owned, Printbuffers
      <4> QED BY <3>1, <4>1 DEF Abandon, Abandoned
    <3>2. CASE FreeText
      <4>1. (IF out.noalloc THEN out.blocks ELSE out.blocks - 1) = 0
        BY <1>0, <3>2 DEF FreeText, Sound, Owned, Printbuffers
      <4> QED BY <3>2, <4>1 DEF FreeText
    <3> QED BY <1>4, <3>1, <3>2
  <2> QED BY <2>1, IdleSound
<1>5. CASE UNCHANGED out
  BY <1>5
<1> QED
  BY <1>1, <1>2, <1>3, <1>4, <1>5 DEF PrintNext

\* Whatever is printed into a buffer of whatever size, nothing is written outside it:
\* ensure always leaves room for the piece and a byte behind it. Nothing is read
\* outside it but one byte of a buffer of size 0, when ensure grows it by a copy.
THEOREM Bounds == PrintSpec => []InBounds
<1>1. Sound(out) => InBounds
  BY DEF Sound, InBounds, CopiesNothing
<1> QED
  BY InitSound, StepSound, <1>1, PTL DEF PrintSpec

\* The call and ensure between them free each block once, whichever allocation fails.
THEOREM Blocks == PrintSpec => []BlocksFreed
<1>1. Sound(out) => BlocksFreed
  BY DEF Sound, BlocksFreed
<1> QED
  BY InitSound, StepSound, <1>1, PTL DEF PrintSpec

-----------------------------------------------------------------------------
(* Strings.  parse_string skips the escapes in its first pass and decodes  *)
(* them in its second, and the two may take different bytes for an escape: *)
(* parse_hex4 does not stop at a backslash or a quote among its digits.  So *)
(* the invariant bounds the escapes from every place on, not just from     *)
(* those where the first pass stopped (Counts).                            *)

Steps == {"idle", "scan", "copy", "done", "failed", "starved", "measure", "write", "printed"}

Text == Seq(Int)

Typed ==
  /\ literal \in [bytes : Text, units : Text]
  /\ call \in [pc : Steps, input : Text, at : Nat, extra : Nat, end : Nat, size : Nat,
               output : Text]

LEMMA EmptyText == <<>> \in Text /\ Len(<<>>) = 0
  BY DEF Text

LEMMA Joined ==
  ASSUME NEW a \in Text, NEW b \in Text
  PROVE  /\ a \o b \in Text /\ Len(a \o b) = Len(a) + Len(b)
         /\ Len(a) \in Nat /\ Len(b) \in Nat
  BY DEF Text

\* c[k] escapes have begun before place k of b.  Two bytes begin at most one, and only a
\* backslash begins one; so the bytes that no escape saves do not decrease.
Counts(c, n, b) ==
  /\ c \in [1..n -> Nat] /\ c[1] = 0
  /\ \A k \in 1..(n - 1) : c[k + 1] = c[k] \/ (c[k + 1] = c[k] + 1 /\ b[k + 1] = Backslash)
  /\ \A k \in 1..(n - 2) : c[k + 2] <= c[k] + 1
  /\ \A k \in 1..n : k - c[k] <= n - c[n]

\* s[k] bytes are added by the escapes of the first k bytes of b.
Sums(s, n, b) ==
  /\ s \in [0..n -> Nat] /\ s[0] = 0
  /\ \A k \in 1..n : s[k] = s[k - 1] + Extra(b[k])
  /\ \A k \in 0..n : s[k] <= s[n]

Scanning ==
  \E c : /\ call.at \in Nat \ {0} /\ Counts(c, call.at, call.input) /\ c[call.at] = call.extra
         /\ call.at > 1 => c[call.at - 1] = call.extra

Copying ==
  /\ call.end \in 1..(Len(call.input) - 1) /\ ByteAt(call.end) = Quote
  /\ call.at \in 1..(call.end + 1) /\ call.size = call.end - call.extra + 1
  /\ \E c : /\ Counts(c, call.end + 1, call.input) /\ c[call.end + 1] = call.extra
            /\ Len(call.output) + c[call.at] <= call.at - 1

Measuring ==
  /\ call.at \in 0..Len(call.input)
  /\ \E s : Sums(s, call.at, call.input) /\ s[call.at] = call.extra

Writing ==
  /\ call.at \in 0..Len(call.input) /\ call.size = Len(call.input) + call.extra + 3
  /\ \E s : /\ Sums(s, Len(call.input), call.input) /\ s[Len(call.input)] = call.extra
            /\ Len(call.output) = 1 + call.at + s[call.at]

SInv ==
  /\ Typed
  /\ call.size > 0 => Len(call.output) < call.size
  /\ call.pc \in {"scan", "measure"} => call.size = 0 /\ call.output = <<>>
  /\ call.pc = "scan" => Scanning
  /\ call.pc = "copy" => Copying
  /\ call.pc = "measure" => Measuring
  /\ call.pc = "write" => Writing

-----------------------------------------------------------------------------
(* Escapes of UTF-16. *)

LEMMA Hex4Bounded ==
  ASSUME NEW i \in Nat
  PROVE  Hex4(i) \in Nat /\ Hex4(i) < 65536
<1> DEFINE all == \A k \in i..(i + 3) : ByteAt(k) \in DOMAIN HexDigits
<1>1. \A d \in DOMAIN HexDigits : HexDigits[d] \in Nat /\ HexDigits[d] < 16
  BY DEF HexDigits
<1>2. ASSUME all PROVE \A k \in i..(i + 3) : Digit(k) \in Nat /\ Digit(k) < 16
  BY <1>1, <1>2 DEF Digit
<1>3. ASSUME all PROVE /\ Digit(i) \in Nat /\ Digit(i) < 16
                       /\ Digit(i + 1) \in Nat /\ Digit(i + 1) < 16
                       /\ Digit(i + 2) \in Nat /\ Digit(i + 2) < 16
                       /\ Digit(i + 3) \in Nat /\ Digit(i + 3) < 16
  BY <1>2, <1>3
<1>4. Hex4(i) = IF all THEN 4096 * Digit(i) + 256 * Digit(i + 1) + 16 * Digit(i + 2) + Digit(i + 3)
                ELSE 0
  BY DEF Hex4
<1> HIDE DEF all
<1> QED
  BY <1>3, <1>4

LEMMA Utf8Bytes ==
  ASSUME NEW point \in Int
  PROVE  /\ Utf8(point) \in Seq(Int) /\ Len(Utf8(point)) <= 4
         /\ point < 65536 => Len(Utf8(point)) <= 3
<1> DEFINE n == Utf8Length(point)
<1>1. n \in 1..4 /\ (point < 65536 => n \in 1..3)
  BY DEF Utf8Length
<1>2. Mark \in [1..4 -> Int] /\ \A k \in 1..4 : Shift[k] \in Nat \ {0}
  BY DEF Mark, Shift
<1>3. ASSUME NEW k \in 1..n
      PROVE  (IF k = 1 THEN Mark[n] + (point \div Shift[n])
              ELSE 128 + ((point \div Shift[n - k + 1]) % 64)) \in Int
  <2>1. Shift[n] \in Nat \ {0} /\ Shift[n - k + 1] \in Nat \ {0} /\ Mark[n] \in Int
    BY <1>1, <1>2
  <2> HIDE DEF n
  <2>2. point \div Shift[n] \in Int /\ point \div Shift[n - k + 1] \in Int
    BY <2>1
  <2> QED
    BY <2>1, <2>2
<1>4. Utf8(point) = [k \in 1..n |-> IF k = 1 THEN Mark[n] + (point \div Shift[n])
                                    ELSE 128 + ((point \div Shift[n - k + 1]) % 64)]
  BY Zenon DEF Utf8
<1> HIDE DEF n
<1>5. Utf8(point) \in [1..n -> Int]
  BY <1>3, <1>4
<1> QED
  BY <1>1, <1>5

\* An escape that is accepted ends before the closing quote and takes at least twice the
\* bytes it stands for.
LEMMA Utf16Shrinks ==
  ASSUME NEW i \in Nat, call.end \in Nat, Utf16Literal(i).length > 0
  PROVE  LET r == Utf16Literal(i)
         IN  /\ r.length \in {6, 12} /\ i + r.length <= call.end
             /\ r.bytes \in Seq(Int) /\ 2 * Len(r.bytes) <= r.length
<1> DEFINE first == Hex4(i + 2)
           second == Hex4(i + 8)
           r == Utf16Literal(i)
<1>1. first \in Nat /\ first < 65536 /\ second \in Nat
  BY Hex4Bounded
<1>2. /\ Joint(first, second) \in Int
      /\ Utf8(Joint(first, second)) \in Seq(Int) /\ Len(Utf8(Joint(first, second))) <= 4
      /\ Utf8(first) \in Seq(Int) /\ Len(Utf8(first)) <= 3
  <2> HIDE DEF first, second
  <2>1. Joint(first, second) \in Int
    BY <1>1 DEF Joint
  <2> QED
    BY <1>1, <2>1, Utf8Bytes
<1>3. \/ r = Invalid
      \/ r = [length |-> 12, bytes |-> Utf8(Joint(first, second))] /\ call.end - (i + 6) >= 6
      \/ r = [length |-> 6, bytes |-> Utf8(first)] /\ call.end - i >= 6
  <2> HIDE DEF first, second
  <2>1. r = CASE call.end - i < 6 -> Invalid
        [] call.end - i >= 6 /\ Low(first) -> Invalid
        [] call.end - i >= 6 /\ High(first) ->
             IF \/ call.end - (i + 6) < 6
                \/ ByteAt(i + 6) # Backslash \/ ByteAt(i + 7) # U \/ ~Low(second)
             THEN Invalid
             ELSE [length |-> 12, bytes |-> Utf8(Joint(first, second))]
        [] OTHER -> [length |-> 6, bytes |-> Utf8(first)]
    BY Zenon DEF Utf16Literal, first, second
  <2> HIDE DEF r
  <2>2. ~(Low(first) /\ High(first))
    <3>1. first \in Int
      BY <1>1
    <3>2. \A p \in Int : ~(Low(p) /\ High(p))
      BY DEF Low, High
    <3> QED
      BY <3>1, <3>2
  <2>3. CASE call.end - i < 6
    BY <2>1, <2>3
  <2>4. CASE call.end - i >= 6 /\ Low(first)
    BY <2>1, <2>2, <2>4
  <2>5. CASE call.end - i >= 6 /\ High(first)
    BY <2>1, <2>2, <2>5
  <2>6. CASE call.end - i >= 6 /\ ~High(first) /\ ~Low(first)
    BY <2>1, <2>6
  <2> QED
    BY <2>3, <2>4, <2>5, <2>6
<1> HIDE DEF first, second
<1>4. r # Invalid
  BY DEF Invalid
<1> HIDE DEF r
<1>5. /\ r.length \in {6, 12} /\ i + r.length <= call.end
      /\ r.bytes \in Seq(Int) /\ 2 * Len(r.bytes) <= r.length
  BY <1>2, <1>3, <1>4
<1> QED
  BY <1>5 DEF r

-----------------------------------------------------------------------------
(* Counting. *)

\* One byte more, or an escape more, after which there are as many as one byte before.
LEMMA CountByte ==
  ASSUME NEW b, NEW n \in Nat \ {0}, NEW c, Counts(c, n, b)
  PROVE  \E d : Counts(d, n + 1, b) /\ d[n] = c[n] /\ d[n + 1] = c[n]
<1> DEFINE d == [k \in 1..(n + 1) |-> IF k <= n THEN c[k] ELSE c[n]]
<1>1. /\ d \in [1..(n + 1) -> Nat] /\ d[n + 1] = c[n] /\ d[n + 1] \in Nat /\ d[1] = 0
      /\ \A k \in 1..n : d[k] = c[k]
  BY DEF Counts
<1> HIDE DEF d
<1>2. \A k \in 1..(n + 1 - 1) : d[k + 1] = d[k] \/ (d[k + 1] = d[k] + 1 /\ b[k + 1] = Backslash)
  <2>1. ASSUME NEW k \in 1..(n - 1)
        PROVE  d[k + 1] = d[k] \/ (d[k + 1] = d[k] + 1 /\ b[k + 1] = Backslash)
    BY <1>1 DEF Counts
  <2>2. d[n + 1] = d[n]
    BY <1>1
  <2> QED
    BY <2>1, <2>2
<1>3. \A k \in 1..(n + 1 - 2) : d[k + 2] <= d[k] + 1
  <2>1. ASSUME NEW k \in 1..(n - 2) PROVE d[k + 2] <= d[k] + 1
    BY <1>1 DEF Counts
  <2>2. ASSUME n > 1 PROVE d[n + 1] <= d[n - 1] + 1
    <3>1. n - 1 \in 1..(n - 1) /\ n - 1 + 1 = n
      BY <2>2
    <3>2. c[n - 1] \in Nat /\ c[n] <= c[n - 1] + 1
      BY <3>1 DEF Counts
    <3> QED
      BY <1>1, <2>2, <3>2
  <2> QED
    BY <2>1, <2>2
<1>4. \A k \in 1..(n + 1) : k - d[k] <= (n + 1) - d[n + 1]
  <2>1. ASSUME NEW k \in 1..n PROVE k - d[k] <= (n + 1) - d[n + 1]
    <3>1. c[k] \in Nat /\ c[n] \in Nat /\ k - c[k] <= n - c[n]
      BY DEF Counts
    <3> QED
      BY <1>1, <3>1
  <2>2. ASSUME NEW k \in 1..(n + 1), k = n + 1 PROVE k - d[k] <= (n + 1) - d[n + 1]
    BY <1>1, <2>2
  <2>3. \A k \in 1..(n + 1) : k \in 1..n \/ k = n + 1
    OBVIOUS
  <2> QED
    BY <2>1, <2>2, <2>3
<1>5. Counts(d, n + 1, b)
  BY <1>1, <1>2, <1>3, <1>4 DEF Counts
<1> QED
  BY <1>1, <1>5

LEMMA CountEscape ==
  ASSUME NEW b, NEW n \in Nat \ {0}, NEW c, Counts(c, n, b), n > 1 => c[n - 1] = c[n],
         b[n + 1] = Backslash
  PROVE  \E d : Counts(d, n + 2, b) /\ d[n + 1] = c[n] + 1 /\ d[n + 2] = c[n] + 1
<1> DEFINE d == [k \in 1..(n + 1) |-> IF k <= n THEN c[k] ELSE c[n] + 1]
<1>1. /\ d \in [1..(n + 1) -> Nat] /\ d[n + 1] = c[n] + 1 /\ d[n + 1] \in Nat /\ d[1] = 0
      /\ \A k \in 1..n : d[k] = c[k]
  BY DEF Counts
<1> HIDE DEF d
<1>2. \A k \in 1..(n + 1 - 1) : d[k + 1] = d[k] \/ (d[k + 1] = d[k] + 1 /\ b[k + 1] = Backslash)
  <2>1. ASSUME NEW k \in 1..(n - 1)
        PROVE  d[k + 1] = d[k] \/ (d[k + 1] = d[k] + 1 /\ b[k + 1] = Backslash)
    <3>1. d[k] = c[k] /\ d[k + 1] = c[k + 1]
      BY <1>1
    <3>2. c[k + 1] = c[k] \/ (c[k + 1] = c[k] + 1 /\ b[k + 1] = Backslash)
      BY DEF Counts
    <3> QED
      BY <3>1, <3>2
  <2>2. d[n + 1] = d[n] + 1
    BY <1>1
  <2> QED
    BY <2>1, <2>2
<1>3. \A k \in 1..(n + 1 - 2) : d[k + 2] <= d[k] + 1
  <2>1. ASSUME NEW k \in 1..(n - 2) PROVE d[k + 2] <= d[k] + 1
    BY <1>1 DEF Counts
  <2>2. CASE n > 1
    <3>1. d[n + 1] <= d[n - 1] + 1
      BY <1>1, <2>2
    <3> QED
      BY <2>1, <3>1
  <2> QED
    BY <2>2
<1>4. \A k \in 1..(n + 1) : k - d[k] <= (n + 1) - d[n + 1]
  <2>1. ASSUME NEW k \in 1..n PROVE k - d[k] <= (n + 1) - d[n + 1]
    <3>1. c[k] \in Nat /\ c[n] \in Nat /\ k - c[k] <= n - c[n]
      BY DEF Counts
    <3> QED
      BY <1>1, <3>1
  <2>2. ASSUME NEW k \in 1..(n + 1), k = n + 1 PROVE k - d[k] <= (n + 1) - d[n + 1]
    BY <1>1, <2>2
  <2>3. \A k \in 1..(n + 1) : k \in 1..n \/ k = n + 1
    OBVIOUS
  <2> QED
    BY <2>1, <2>2, <2>3
<1>5. Counts(d, n + 1, b)
  BY <1>1, <1>2, <1>3, <1>4 DEF Counts
<1>6. PICK e : /\ Counts(e, n + 1 + 1, b) /\ e[n + 1] = d[n + 1] /\ e[n + 1 + 1] = d[n + 1]
  BY <1>5, CountByte
<1> QED
  BY <1>1, <1>6

\* What is copied of k bytes or more is made up for by the escapes that begin there.
LEMMA CountAhead ==
  ASSUME NEW b, NEW n \in Nat, NEW c, Counts(c, n, b), NEW k \in 1..n
  PROVE  /\ c[k] \in Nat /\ k - c[k] <= n - c[n]
         /\ k + 1 <= n /\ b[k + 1] # Backslash => c[k + 1] = c[k]
         /\ k + 2 <= n => c[k + 2] <= c[k] + 1
         /\ k + 6 <= n => c[k + 6] <= c[k] + 3
         /\ k + 12 <= n => c[k + 12] <= c[k] + 6
<1>1. \A j \in 1..n : c[j] \in Nat
  BY DEF Counts
<1>2. \A j \in 1..n : j + 2 <= n => c[j + 2] <= c[j] + 1
  BY DEF Counts
<1>3. \A j \in 1..n : j + 6 <= n => c[j + 6] <= c[j] + 3
  <2> SUFFICES ASSUME NEW j \in 1..n, j + 6 <= n PROVE c[j + 6] <= c[j] + 3
    OBVIOUS
  <2>1. j + 2 \in 1..n /\ j + 4 \in 1..n /\ j + 6 \in 1..n
    OBVIOUS
  <2>2. c[j + 2] <= c[j] + 1 /\ c[j + 2 + 2] <= c[j + 2] + 1 /\ c[j + 4 + 2] <= c[j + 4] + 1
    BY <1>2, <2>1
  <2>3. j + 2 + 2 = j + 4 /\ j + 4 + 2 = j + 6
    OBVIOUS
  <2> QED
    BY <1>1, <2>1, <2>2, <2>3
<1>4. k + 12 <= n => c[k + 12] <= c[k] + 6
  <2> SUFFICES ASSUME k + 12 <= n PROVE c[k + 12] <= c[k] + 6
    OBVIOUS
  <2>1. k + 6 \in 1..n /\ k + 12 \in 1..n /\ k + 6 + 6 = k + 12
    OBVIOUS
  <2> QED
    BY <1>1, <1>3, <2>1
<1>5. k + 1 <= n /\ b[k + 1] # Backslash => c[k + 1] = c[k]
  BY DEF Counts
<1> QED
  BY <1>1, <1>2, <1>3, <1>4, <1>5 DEF Counts

\* One byte more is measured.
LEMMA SumByte ==
  ASSUME NEW b, NEW n \in Nat, NEW s, Sums(s, n, b)
  PROVE  \E t : /\ Sums(t, n + 1, b) /\ t[n + 1] = s[n] + Extra(b[n + 1])
                /\ \A k \in 0..n : t[k] = s[k]
<1> DEFINE t == [k \in 0..(n + 1) |-> IF k <= n THEN s[k] ELSE s[n] + Extra(b[n + 1])]
<1>1. Extra(b[n + 1]) \in Nat
  BY DEF Extra
<1>2. /\ t \in [0..(n + 1) -> Nat] /\ t[n + 1] = s[n] + Extra(b[n + 1])
      /\ \A k \in 0..n : t[k] = s[k]
  BY <1>1 DEF Sums
<1> HIDE DEF t
<1>3. \A k \in 1..(n + 1) : t[k] = t[k - 1] + Extra(b[k])
  <2>1. ASSUME NEW k \in 1..n PROVE t[k] = t[k - 1] + Extra(b[k])
    <3>1. k \in 0..n /\ k - 1 \in 0..n /\ s[k] = s[k - 1] + Extra(b[k])
      BY DEF Sums
    <3> QED
      BY <1>2, <3>1
  <2>2. t[n + 1] = t[n + 1 - 1] + Extra(b[n + 1])
    BY <1>2
  <2> QED
    BY <2>1, <2>2
<1>4. t[0] = 0 /\ \A k \in 0..(n + 1) : t[k] <= t[n + 1]
  BY <1>1, <1>2 DEF Sums
<1> QED
  BY <1>2, <1>3, <1>4 DEF Sums

LEMMA EscapedLength ==
  ASSUME NEW c \in Int
  PROVE  Escaped(c) \in Seq(Int) /\ Len(Escaped(c)) = 1 + Extra(c)
<1>1. \A k \in Int : HexDigit(k) \in Int
  BY DEF HexDigit
<1>2. \A k \in DOMAIN Letter : Letter[k] \in Int
  BY DEF Letter
<1>3. c \div 16 \in Int /\ c % 16 \in Int /\ Backslash \in Int /\ Quote \in Int /\ U \in Int
  BY DEF Backslash, Quote, U
<1>4. CASE c \in DOMAIN Letter
  BY <1>2, <1>3, <1>4 DEF Escaped, Extra, Special
<1>5. CASE c \notin DOMAIN Letter /\ c \in {Quote, Backslash}
  BY <1>3, <1>5 DEF Escaped, Extra, Special
<1>6. CASE c \notin DOMAIN Letter /\ c \notin {Quote, Backslash} /\ c < 32
  <2>1. Escaped(c) = <<Backslash, U, 48, 48, HexDigit(c \div 16), HexDigit(c % 16)>>
    BY <1>6 DEF Escaped
  <2>2. HexDigit(c \div 16) \in Int /\ HexDigit(c % 16) \in Int
    BY <1>1, <1>3
  <2>3. Extra(c) = 5
    BY <1>6 DEF Extra, Special
  <2> QED
    BY <1>3, <2>1, <2>2, <2>3
<1>7. CASE c \notin DOMAIN Letter /\ c \notin {Quote, Backslash} /\ ~(c < 32)
  BY <1>3, <1>7 DEF Escaped, Extra, Special
<1> QED
  BY <1>4, <1>5, <1>6, <1>7

-----------------------------------------------------------------------------
(* The steps. *)

\* A call begins.
LEMMA Begins ==
  ASSUME SInv, literal' = literal,
         NEW b \in Text, call' = PrintCall(b) \/ call' = ParseCall(b)
  PROVE  SInv'
<1>1. CASE call' = PrintCall(b)
  <2> DEFINE s == [k \in 0..0 |-> 0]
  <2>1. Sums(s, 0, b) /\ s[0] = 0
    BY DEF Sums
  <2>2. call'.input = b /\ call'.at = 0 /\ call'.extra = 0 /\ call'.pc = "measure" /\ call'.size = 0
    BY <1>1 DEF PrintCall, NoCall
  <2>3. Measuring'
    BY <2>1, <2>2 DEF Measuring
  <2>4. Typed' /\ call'.output = <<>>
    BY <1>1, EmptyText DEF PrintCall, NoCall, SInv, Typed, Steps
  <2> QED
    BY <2>2, <2>3, <2>4 DEF SInv
<1>2. CASE call' = ParseCall(b)
  <2> DEFINE c == [k \in 1..1 |-> 0]
  <2>1. Counts(c, 1, b) /\ c[1] = 0
    BY DEF Counts
  <2>2. /\ call'.input = b /\ call'.at = 1 /\ call'.extra = 0 /\ call'.pc \in {"scan", "failed"}
        /\ call'.size = 0
    BY <1>2 DEF ParseCall, NoCall
  <2>3. Scanning'
    BY <2>1, <2>2 DEF Scanning
  <2>4. Typed' /\ call'.output = <<>>
    BY <1>2, EmptyText DEF ParseCall, NoCall, SInv, Typed, Steps
  <2> QED
    BY <2>2, <2>3, <2>4 DEF SInv
<1> QED
  BY <1>1, <1>2

LEMMA ScanSInv ==
  ASSUME SInv, Scan, literal' = literal
  PROVE  SInv'
<1>1. /\ call.pc = "scan" /\ Typed /\ call.size = 0 /\ call.output = <<>>
      /\ call.at \in Nat \ {0}
  BY DEF Scan, SInv, Scanning
<1>2. PICK c : /\ Counts(c, call.at, call.input) /\ c[call.at] = call.extra
               /\ call.at > 1 => c[call.at - 1] = call.extra
  BY <1>1 DEF SInv, Scanning
<1>3. CASE call' = [call EXCEPT !.at = @ + 1]
  <2>1. PICK d : /\ Counts(d, call.at + 1, call.input) /\ d[call.at] = c[call.at]
                 /\ d[call.at + 1] = c[call.at]
    BY <1>1, <1>2, CountByte
  <2>2. /\ call'.at = call.at + 1 /\ call'.input = call.input /\ call'.extra = call.extra
        /\ call'.pc = "scan" /\ call'.size = 0 /\ call'.output = <<>>
    BY <1>1, <1>3 DEF Typed
  <2>4. Typed'
    BY <1>1, <1>3 DEF Typed
  <2>3. Scanning'
    <3>1. call.at + 1 \in Nat \ {0} /\ (call.at + 1) - 1 = call.at
      BY <1>1
    <3>2. d[call'.at] = call'.extra /\ d[call'.at - 1] = call'.extra
      BY <1>2, <2>1, <2>2, <3>1
    <3>3. Counts(d, call'.at, call'.input) /\ call'.at \in Nat \ {0}
      BY <2>1, <2>2, <3>1
    <3> QED
      BY <3>2, <3>3, Zenon DEF Scanning
  <2> QED
    BY <2>2, <2>3, <2>4 DEF SInv
<1>4. CASE ByteAt(call.at) = Backslash /\ call' = [call EXCEPT !.at = @ + 2, !.extra = @ + 1]
  <2>1. PICK d : /\ Counts(d, call.at + 2, call.input) /\ d[call.at + 1] = call.extra + 1
                 /\ d[call.at + 2] = call.extra + 1
    BY <1>1, <1>2, <1>4, CountEscape DEF ByteAt
  <2>2. /\ call'.at = call.at + 2 /\ call'.input = call.input /\ call'.extra = call.extra + 1
        /\ call'.pc = "scan" /\ call'.size = 0 /\ call'.output = <<>>
    BY <1>1, <1>4 DEF Typed
  <2>3. Scanning'
    BY <1>1, <2>1, <2>2 DEF Scanning
  <2>4. Typed'
    <3>1. call.at + 2 \in Nat /\ call.extra + 1 \in Nat
      BY <1>1 DEF Typed
    <3> QED
      BY <1>1, <1>4, <3>1 DEF Typed
  <2> QED
    BY <2>2, <2>3, <2>4 DEF SInv
<1>5. CASE call' = Leave("failed", 1)
  <2>1. call'.pc = "failed" /\ call'.size = 0 /\ Typed'
    BY <1>1, <1>5 DEF Leave, Typed, Steps
  <2> QED
    BY <2>1 DEF SInv
<1> QED
  BY <1>3, <1>4, <1>5 DEF Scan

LEMMA AllocateSInv ==
  ASSUME SInv, Allocate, literal' = literal
  PROVE  SInv'
<1>1. /\ call.pc = "scan" /\ Typed /\ call.size = 0 /\ call.output = <<>>
      /\ call.at \in Nat \ {0} /\ call.at < Len(call.input) /\ ByteAt(call.at) = Quote
  BY DEF Allocate, SInv, Scanning, Inside
<1>2. PICK c : Counts(c, call.at, call.input) /\ c[call.at] = call.extra
  BY <1>1 DEF SInv, Scanning
<1>3. PICK d : Counts(d, call.at + 1, call.input) /\ d[call.at + 1] = c[call.at]
  BY <1>1, <1>2, CountByte
<1>4. CASE call' = [Leave("copy", 1) EXCEPT !.end = call.at, !.size = AllocationLength + 1]
  <2>1. call.at - call.extra >= 1
    BY <1>1, <1>2 DEF Counts
  <2>2. /\ call'.pc = "copy" /\ call'.at = 1 /\ call'.input = call.input /\ call'.end = call.at
        /\ call'.size = call.at - call.extra + 1 /\ call'.extra = call.extra
        /\ call'.output = <<>>
    BY <1>1, <1>4 DEF Leave, AllocationLength, Typed
  <2>3. Typed'
    <3>1. AllocationLength + 1 \in Nat /\ "copy" \in Steps
      BY <1>1, <2>1 DEF AllocationLength, Typed, Steps
    <3> QED
      BY <1>1, <1>4, <3>1 DEF Leave, Typed
  <2>4. d[1] = 0
    BY <1>3 DEF Counts
  <2>5. Copying'
    BY <1>1, <1>2, <1>3, <2>1, <2>2, <2>4 DEF Copying, ByteAt, Typed
  <2> QED
    BY <1>1, <2>1, <2>2, <2>3, <2>5 DEF SInv, Typed
<1>5. CASE call' = Leave("starved", 1)
  <2>1. call'.pc = "starved" /\ call'.size = 0 /\ Typed'
    BY <1>1, <1>5 DEF Leave, Typed, Steps
  <2> QED
    BY <2>1 DEF SInv
<1> QED
  BY <1>4, <1>5 DEF Allocate

\* The bytes of the output and the escapes to come fit in the bytes that are left.
LEMMA Copies ==
  ASSUME SInv, call.pc = "copy", literal' = literal,
         NEW bytes \in Text, NEW length \in Nat, call' = Output(bytes, length),
         call.at + length <= call.end + 1,
         \A c : Counts(c, call.end + 1, call.input) =>
           c[call.at + length] + Len(bytes) <= c[call.at] + length
  PROVE  SInv'
<1>1. Typed /\ Copying
  BY DEF SInv
<1>2. PICK c : /\ Counts(c, call.end + 1, call.input) /\ c[call.end + 1] = call.extra
               /\ Len(call.output) + c[call.at] <= call.at - 1
  BY <1>1 DEF Copying
<1>3. /\ call.at \in 1..(call.end + 1) /\ call.end \in Nat /\ call.at \in Nat /\ call.extra \in Nat
      /\ call.output \in Text
  BY <1>1 DEF Copying, Typed
<1>4. /\ c[call.at] \in Nat /\ c[call.at + length] \in Nat
      /\ (call.at + length) - c[call.at + length] <= (call.end + 1) - call.extra
      /\ c[call.at + length] + Len(bytes) <= c[call.at] + length
  <2>1. call.at + length \in 1..(call.end + 1) /\ call.at \in 1..(call.end + 1)
    BY <1>3
  <2>2. /\ c[call.at] \in Nat /\ c[call.at + length] \in Nat
        /\ (call.at + length) - c[call.at + length] <= (call.end + 1) - c[call.end + 1]
    BY <1>2, <2>1, Zenon DEF Counts
  <2>3. c[call.at + length] + Len(bytes) <= c[call.at] + length
    BY <1>2
  <2> QED
    BY <1>2, <2>2, <2>3
<1>5. /\ call'.pc = "copy" /\ call'.at = call.at + length /\ call'.input = call.input
      /\ call'.end = call.end /\ call'.size = call.size /\ call'.extra = call.extra
      /\ call'.output = call.output \o bytes
  BY <1>1 DEF Output, Typed
<1>6. /\ Len(call.output \o bytes) = Len(call.output) + Len(bytes) /\ Len(bytes) \in Nat
      /\ Len(call.output) \in Nat /\ call.output \o bytes \in Text
  BY <1>3, Joined
<1>7. Typed'
  <2>1. call.at + length \in Nat
    BY <1>3
  <2> QED
    BY <1>1, <1>6, <2>1 DEF Output, Typed
<1>8. Len(call'.output) + c[call'.at] <= call'.at - 1
  <2>1. ASSUME NEW old \in Nat, NEW more \in Nat, NEW place \in Nat, NEW now \in Nat, NEW next \in Nat,
               old + now <= place - 1, next + more <= now + length
        PROVE  (old + more) + next <= (place + length) - 1
    BY <2>1
  <2>2. (Len(call.output) + Len(bytes)) + c[call.at + length] <= (call.at + length) - 1
    BY <1>2, <1>3, <1>4, <1>6, <2>1
  <2> QED
    BY <1>5, <1>6, <2>2
<1>9. Copying'
  BY <1>1, <1>2, <1>3, <1>5, <1>8 DEF Copying, ByteAt
<1>10. Len(call'.output) < call'.size
  <2>1. call.size = call.end - call.extra + 1
    BY <1>1 DEF Copying
  <2>2. Len(call.output \o bytes) + c[call.at + length] <= (call.at + length) - 1
    BY <1>5, <1>8
  <2>3. Len(call.output \o bytes) \in Nat /\ call.at + length \in Nat
    BY <1>3, <1>6
  <2>4. ASSUME NEW len \in Nat, NEW next \in Nat, NEW place \in Nat,
               len + next <= place - 1, place - next <= (call.end + 1) - call.extra
        PROVE  len < call.end - call.extra + 1
    BY <1>3, <2>4
  <2>5. Len(call.output \o bytes) < call.end - call.extra + 1
    BY <1>4, <2>2, <2>3, <2>4
  <2> QED
    BY <1>5, <2>1, <2>5
<1> QED
  BY <1>5, <1>7, <1>9, <1>10 DEF SInv

LEMMA CopyByteSInv ==
  ASSUME SInv, CopyByte, literal' = literal
  PROVE  SInv'
<1>1. /\ Typed /\ Copying /\ call.pc = "copy" /\ call.at < call.end
      /\ ByteAt(call.at) # Backslash /\ call' = Output(<<ByteAt(call.at)>>, 1)
  BY DEF SInv, CopyByte
<1>2. /\ call.at \in 1..call.end /\ call.end \in Nat /\ call.end < Len(call.input)
      /\ call.input \in Text
  <2>1. call.input \in Text
    BY <1>1 DEF Typed
  <2>2. Len(call.input) \in Nat
    BY <2>1, Joined
  <2> QED
    BY <1>1, <2>1, <2>2 DEF Copying
<1>3. <<ByteAt(call.at)>> \in Text /\ Len(<<ByteAt(call.at)>>) = 1
  BY <1>2 DEF ByteAt, Text
<1>4. ASSUME NEW c, Counts(c, call.end + 1, call.input)
      PROVE  c[call.at + 1] + 1 <= c[call.at] + 1
  <2>1. call.at \in 1..(call.end + 1) /\ call.at + 1 <= call.end + 1 /\ call.end + 1 \in Nat
    BY <1>2
  <2>2. c[call.at] \in Nat /\ c[call.at + 1] = c[call.at]
    BY <1>1, <1>4, <2>1, CountAhead DEF ByteAt
  <2> QED
    BY <2>2
<1>5. call.at + 1 <= call.end + 1
  BY <1>2
<1> QED
  BY <1>1, <1>3, <1>4, <1>5, Copies

LEMMA CopyEscapeSInv ==
  ASSUME SInv, CopyEscape, literal' = literal
  PROVE  SInv'
<1>1. /\ Typed /\ Copying /\ call.pc = "copy" /\ call.at < call.end
  BY DEF SInv, CopyEscape
<1>2. /\ call.at \in 1..call.end /\ call.end \in Nat /\ call.end < Len(call.input)
      /\ call.input \in Text
  <2>1. call.input \in Text
    BY <1>1 DEF Typed
  <2>2. Len(call.input) \in Nat
    BY <2>1, Joined
  <2> QED
    BY <1>1, <2>1, <2>2 DEF Copying
<1> DEFINE r == Utf16Literal(call.at)
<1>3. \/ \E c \in DOMAIN Letter : call' = Output(<<c>>, 2)
      \/ ByteAt(call.at + 1) \in {Quote, Backslash, Solidus} /\ call' = Output(<<ByteAt(call.at + 1)>>, 2)
      \/ r.length > 0 /\ call' = Output(r.bytes, r.length)
      \/ call' = Leave("failed", call.at)
  BY DEF CopyEscape
<1>4. ASSUME NEW c, Counts(c, call.end + 1, call.input)
      PROVE  /\ c[call.at] \in Nat
             /\ c[call.at + 2] <= c[call.at] + 1
             /\ call.at + 6 <= call.end => c[call.at + 6] <= c[call.at] + 3
             /\ call.at + 12 <= call.end => c[call.at + 12] <= c[call.at] + 6
  <2>1. call.at \in 1..(call.end + 1) /\ call.at + 2 <= call.end + 1 /\ call.end + 1 \in Nat
    BY <1>1, <1>2
  <2>2. /\ call.at + 6 <= call.end => call.at + 6 <= call.end + 1
        /\ call.at + 12 <= call.end => call.at + 12 <= call.end + 1
    BY <1>2
  <2> QED
    BY <1>4, <2>1, <2>2, CountAhead
<1>5. ASSUME NEW byte \in Int, call' = Output(<<byte>>, 2)
      PROVE  SInv'
  <2>1. <<byte>> \in Text /\ Len(<<byte>>) = 1
    BY DEF Text
  <2>2. ASSUME NEW c, Counts(c, call.end + 1, call.input)
        PROVE  c[call.at + 2] + 1 <= c[call.at] + 2
    <3>1. c[call.at + 2] \in Nat
      <4>1. call.at + 2 \in 1..(call.end + 1)
        BY <1>1, <1>2
      <4> QED
        BY <2>2, <4>1 DEF Counts
    <3> QED
      BY <1>4, <2>2, <3>1
  <2>3. call.at + 2 <= call.end + 1
    BY <1>1, <1>2
  <2> QED
    BY <1>1, <1>5, <2>1, <2>2, <2>3, Copies
<1>6. CASE \E c \in DOMAIN Letter : call' = Output(<<c>>, 2)
  <2>1. DOMAIN Letter \subseteq Int
    BY DEF Letter
  <2> QED
    BY <1>5, <1>6, <2>1
<1>7. CASE ByteAt(call.at + 1) \in {Quote, Backslash, Solidus} /\ call' = Output(<<ByteAt(call.at + 1)>>, 2)
  <2>1. ByteAt(call.at + 1) \in Int
    BY <1>7 DEF Quote, Backslash, Solidus
  <2> QED
    BY <1>5, <1>7, <2>1
<1>8. CASE r.length > 0 /\ call' = Output(r.bytes, r.length)
  <2>1. /\ r.length \in {6, 12} /\ call.at + r.length <= call.end
        /\ r.bytes \in Text /\ 2 * Len(r.bytes) <= r.length /\ Len(r.bytes) \in Nat
    <3>1. call.at \in Nat /\ call.end \in Nat /\ Utf16Literal(call.at).length > 0
      BY <1>2, <1>8
    <3>2. /\ r.length \in {6, 12} /\ call.at + r.length <= call.end
          /\ r.bytes \in Seq(Int) /\ 2 * Len(r.bytes) <= r.length
      BY <3>1, Utf16Shrinks, Zenon
    <3> HIDE DEF r
    <3> QED
      BY <3>2 DEF Text
  <2> HIDE DEF r
  <2>2. ASSUME NEW c, Counts(c, call.end + 1, call.input)
        PROVE  c[call.at + r.length] + Len(r.bytes) <= c[call.at] + r.length
    <3>1. c[call.at + r.length] \in Nat
      <4>1. call.at + r.length \in 1..(call.end + 1)
        BY <1>2, <2>1
      <4> QED
        BY <2>2, <4>1 DEF Counts
    <3>2. CASE r.length = 6
      <4>1. c[call.at] \in Nat /\ c[call.at + 6] \in Nat /\ c[call.at + 6] <= c[call.at] + 3
        BY <1>4, <2>1, <2>2, <3>1, <3>2
      <4> QED
        BY <2>1, <3>2, <4>1
    <3>3. CASE r.length = 12
      <4>1. c[call.at] \in Nat /\ c[call.at + 12] \in Nat /\ c[call.at + 12] <= c[call.at] + 6
        BY <1>4, <2>1, <2>2, <3>1, <3>3
      <4> QED
        BY <2>1, <3>3, <4>1
    <3> QED
      BY <2>1, <3>2, <3>3
  <2>3. r.length \in Nat /\ call.at + r.length <= call.end + 1
    BY <1>2, <2>1
  <2> QED
    BY <1>1, <1>8, <2>1, <2>2, <2>3, Copies
<1>9. CASE call' = Leave("failed", call.at)
  <2>1. call'.pc = "failed" /\ call'.size = call.size /\ call'.output = call.output /\ Typed'
    BY <1>1, <1>9 DEF Leave, Typed, Steps
  <2> QED
    BY <2>1 DEF SInv
<1> QED
  BY <1>3, <1>6, <1>7, <1>8, <1>9

LEMMA TerminateSInv ==
  ASSUME SInv, Terminate, literal' = literal
  PROVE  SInv'
<1>1. Typed /\ call' = Leave("done", call.end + 1) /\ call.end + 1 \in Nat
  BY DEF SInv, Typed, Terminate
<1>2. call'.pc = "done" /\ call'.size = call.size /\ call'.output = call.output /\ Typed'
  BY <1>1 DEF Leave, Typed, Steps
<1> QED
  BY <1>2 DEF SInv

LEMMA MeasureSInv ==
  ASSUME SInv, Measure, literal' = literal
  PROVE  SInv'
<1>1. /\ call.pc = "measure" /\ Typed /\ call.size = 0 /\ call.output = <<>>
      /\ call.at \in Nat /\ call.at < Len(call.input) /\ Len(call.input) \in Nat
      /\ call' = [call EXCEPT !.extra = @ + Extra(ByteAt(call.at)), !.at = @ + 1]
  BY DEF Measure, SInv, Inside, Typed, Text
<1>2. PICK s : Sums(s, call.at, call.input) /\ s[call.at] = call.extra
  BY <1>1 DEF SInv, Measuring
<1>3. PICK t : /\ Sums(t, call.at + 1, call.input)
               /\ t[call.at + 1] = s[call.at] + Extra(ByteAt(call.at))
  BY <1>1, <1>2, SumByte DEF ByteAt
<1>4. Extra(ByteAt(call.at)) \in Nat
  BY DEF Extra
<1>5. /\ call'.at = call.at + 1 /\ call'.extra = call.extra + Extra(ByteAt(call.at))
      /\ call'.input = call.input /\ call'.pc = "measure" /\ call'.size = 0 /\ call'.output = <<>>
  BY <1>1 DEF Typed
<1>6. Typed'
  <2>1. call.at + 1 \in Nat /\ call.extra + Extra(ByteAt(call.at)) \in Nat
    BY <1>1, <1>4 DEF Typed
  <2> QED
    BY <1>1, <2>1 DEF Typed
<1>7. Measuring'
  <2>1. call.at + 1 \in 0..Len(call.input)
    BY <1>1
  <2> QED
    BY <1>2, <1>3, <1>5, <2>1 DEF Measuring
<1> QED
  BY <1>5, <1>6, <1>7 DEF SInv

LEMMA EnsureSInv ==
  ASSUME SInv, EnsureString, literal' = literal
  PROVE  SInv'
<1>1. /\ call.pc = "measure" /\ Typed /\ call.size = 0 /\ call.output = <<>>
      /\ call.input \in Text /\ Len(call.input) \in Nat /\ call.at = Len(call.input)
      /\ call.extra \in Nat
  BY DEF EnsureString, SInv, Inside, Typed, Text, Measuring
<1> DEFINE size == Len(call.input) + call.extra + 3
<1>2. size \in Nat
  BY <1>1
<1>3. CASE call.extra = 0 /\ call' = [Leave("printed", 0) EXCEPT !.size = size,
                                 !.output = <<Quote>> \o call.input \o <<Quote>>]
  <2>1. /\ <<Quote>> \o call.input \o <<Quote>> \in Text
        /\ Len(<<Quote>> \o call.input \o <<Quote>>) = Len(call.input) + 2
    BY <1>1 DEF Text, Quote
  <2> HIDE DEF size
  <2>2. /\ Typed' /\ call'.pc = "printed" /\ call'.size = size
        /\ call'.output = <<Quote>> \o call.input \o <<Quote>>
    BY <1>1, <1>2, <1>3, <2>1 DEF Leave, Typed, Steps
  <2>3. Len(call'.output) < call'.size
    BY <1>1, <1>3, <2>1, <2>2 DEF size
  <2> QED
    BY <2>2, <2>3 DEF SInv
<1>4. CASE call' = [Leave("write", 0) EXCEPT !.size = size, !.output = <<Quote>>]
  <2>1. <<Quote>> \in Text /\ Len(<<Quote>>) = 1
    BY DEF Text, Quote
  <2>2. size = Len(call.input) + call.extra + 3 /\ 1 < size
    BY <1>1
  <2> HIDE DEF size
  <2>3. Typed'
    BY <1>1, <1>2, <1>4, <2>1 DEF Leave, Typed, Steps
  <2>4. /\ call'.pc = "write" /\ call'.size = size /\ call'.at = 0 /\ call'.input = call.input
        /\ call'.extra = call.extra /\ call'.output = <<Quote>>
    BY <1>1, <1>4 DEF Leave, Typed
  <2>5. PICK s : Sums(s, Len(call.input), call.input) /\ s[Len(call.input)] = call.extra
    BY <1>1 DEF SInv, Measuring
  <2>6. s[0] = 0
    BY <2>5 DEF Sums
  <2>7. Writing'
    BY <1>1, <2>1, <2>2, <2>4, <2>5, <2>6 DEF Writing
  <2> QED
    BY <2>1, <2>2, <2>3, <2>4, <2>7 DEF SInv
<1>5. CASE call' = Leave("starved", 0)
  <2>1. call'.pc = "starved" /\ call'.size = 0 /\ Typed'
    BY <1>1, <1>5 DEF Leave, Typed, Steps
  <2> QED
    BY <2>1 DEF SInv
<1> QED
  BY <1>3, <1>4, <1>5, Zenon DEF EnsureString, size

LEMMA WriteSInv ==
  ASSUME SInv, WriteByte, literal' = literal
  PROVE  SInv'
<1>1. /\ call.pc = "write" /\ Typed /\ call.input \in Text /\ call.output \in Text
      /\ call.at \in Nat /\ call.at < Len(call.input) /\ Len(call.input) \in Nat
      /\ call' = Output(Escaped(ByteAt(call.at)), 1) /\ call.extra \in Nat
      /\ call.size = Len(call.input) + call.extra + 3
  BY DEF WriteByte, SInv, Inside, Typed, Text, Writing
<1>2. PICK s : /\ Sums(s, Len(call.input), call.input) /\ s[Len(call.input)] = call.extra
               /\ Len(call.output) = 1 + call.at + s[call.at]
  BY <1>1 DEF SInv, Writing
<1> DEFINE e == Escaped(ByteAt(call.at))
<1>3. ByteAt(call.at) \in Int
  BY <1>1 DEF ByteAt, Text
<1>4. e \in Seq(Int) /\ Len(e) = 1 + Extra(ByteAt(call.at))
  BY <1>3, EscapedLength
<1>5. Extra(ByteAt(call.at)) \in Nat
  BY DEF Extra
<1> HIDE DEF e
<1>6. /\ call.output \o e \in Text
      /\ Len(call.output \o e) = Len(call.output) + 1 + Extra(ByteAt(call.at))
  <2>1. e \in Text
    BY <1>4 DEF Text
  <2>2. /\ call.output \o e \in Text /\ Len(call.output \o e) = Len(call.output) + Len(e)
        /\ Len(call.output) \in Nat
    BY <1>1, <2>1, Joined
  <2>3. Len(call.output) + (1 + Extra(ByteAt(call.at))) = Len(call.output) + 1 + Extra(ByteAt(call.at))
    BY <1>5, <2>2
  <2> QED
    BY <1>4, <2>2, <2>3
<1>7. /\ s[call.at] \in Nat /\ s[call.at + 1] = s[call.at] + Extra(ByteAt(call.at))
      /\ s[call.at + 1] <= call.extra
  <2>1. call.at + 1 \in 1..Len(call.input) /\ (call.at + 1) - 1 = call.at
        /\ call.at \in 0..Len(call.input) /\ call.at + 1 \in 0..Len(call.input)
    BY <1>1
  <2> QED
    BY <1>2, <2>1 DEF Sums, ByteAt
<1>8. Len(call.output \o e) = 1 + (call.at + 1) + s[call.at + 1]
  <2> DEFINE len   == Len(call.output)
             place == call.at
             sum   == s[call.at]
             extra == Extra(ByteAt(call.at))
  <2>1. len \in Nat
    BY <1>1, Joined
  <2>2. place \in Nat /\ sum \in Nat /\ extra \in Nat
    BY <1>1, <1>5, <1>7
  <2>3. len = 1 + place + sum
    BY <1>2
  <2>4. Len(call.output \o e) = len + 1 + extra
    BY <1>6
  <2>5. s[call.at + 1] = sum + extra
    BY <1>7
  <2> HIDE DEF len, sum, extra, place
  <2>6. len + 1 + extra = 1 + (place + 1) + (sum + extra)
    BY <2>1, <2>2, <2>3
  <2> QED
    BY <2>4, <2>5, <2>6 DEF place
<1>9. /\ call'.pc = "write" /\ call'.at = call.at + 1 /\ call'.input = call.input
      /\ call'.size = call.size /\ call'.extra = call.extra /\ call'.output = call.output \o e
  BY <1>1 DEF Output, Typed, e
<1>10. Typed'
  <2>1. call.at + 1 \in Nat /\ call' = Output(e, 1)
    BY <1>1 DEF e
  <2> QED
    BY <1>1, <1>6, <2>1 DEF Output, Typed
<1>11. Writing'
  <2>1. call.at + 1 \in 0..Len(call.input)
    BY <1>1
  <2> QED
    BY <1>1, <1>2, <1>8, <1>9, <2>1 DEF Writing
<1>12. Len(call'.output) < call'.size
  <2> DEFINE m == s[call.at + 1]
             n == Len(call.input)
  <2>1. m \in Nat /\ m <= call.extra
    BY <1>5, <1>7
  <2>2. Len(call.output \o e) = 1 + (call.at + 1) + m
    BY <1>8
  <2>3. n \in Nat /\ call.at < n /\ call.at \in Nat /\ call.extra \in Nat /\ call.size = n + call.extra + 3
    BY <1>1
  <2> HIDE DEF m, n
  <2>4. 1 + (call.at + 1) + m < n + call.extra + 3
    BY <2>1, <2>3
  <2> QED
    BY <1>9, <2>2, <2>3, <2>4
<1> QED
  BY <1>9, <1>10, <1>11, <1>12 DEF SInv

LEMMA CloseSInv ==
  ASSUME SInv, CloseString, literal' = literal
  PROVE  SInv'
<1>1. /\ call.pc = "write" /\ Typed /\ call.output \in Text /\ Len(call.input) \in Nat
      /\ call.at = Len(call.input) /\ call.extra \in Nat
      /\ call.size = Len(call.input) + call.extra + 3
  BY DEF CloseString, SInv, Inside, Typed, Text, Writing
<1>2. Len(call.output) = call.size - 2
  BY <1>1 DEF SInv, Writing
<1> DEFINE written == [i \in 1..(call.size - 1) |-> IF i = call.size - 1 THEN Quote ELSE call.output[i]]
<1>3. written \in Text /\ Len(written) = call.size - 1
  <2>1. call.size - 1 \in Nat /\ call.size \in Nat
    BY <1>1
  <2>2. \A i \in 1..(call.size - 1) : i = call.size - 1 \/ call.output[i] \in Int
    <3>1. \A i \in 1..Len(call.output) : call.output[i] \in Int
      BY <1>1 DEF Text
    <3>2. \A i \in 1..(call.size - 1) : i = call.size - 1 \/ i \in 1..(call.size - 2)
      BY <2>1
    <3> QED
      BY <1>2, <3>1, <3>2
  <2>3. written \in [1..(call.size - 1) -> Int]
    BY <2>2 DEF Quote
  <2> HIDE DEF written
  <2> QED
    BY <2>1, <2>3 DEF Text
<1>4. call' = [Leave("printed", 0) EXCEPT !.output = written]
  BY <1>1 DEF CloseString, Leave, Typed
<1> HIDE DEF written
<1>5. call'.pc = "printed" /\ call'.size = call.size /\ call'.output = written /\ Typed'
  BY <1>1, <1>3, <1>4 DEF Leave, Typed, Steps
<1>6. Len(call'.output) < call'.size
  BY <1>1, <1>3, <1>5
<1> QED
  BY <1>5, <1>6 DEF SInv

LEMMA ExtendSInv ==
  ASSUME SInv, Extend
  PROVE  SInv'
<1>1. PICK c \in Chunks : literal' = [bytes |-> literal.bytes \o c.bytes,
                                    units |-> Append(literal.units, c.unit)]
  BY DEF Extend
<1>2. c.bytes \in Seq(Nat \ {0}) /\ c.unit \in Int
  BY ChunksAssumption DEF ChunksAssumption
<1>3. c.bytes \in Seq(Int)
  BY <1>2
<1>4. literal.bytes \in Seq(Int) /\ literal.units \in Seq(Int)
  BY DEF SInv, Typed, Text
<1>5. literal.bytes \o c.bytes \in Text /\ Append(literal.units, c.unit) \in Text
  BY <1>2, <1>3, <1>4 DEF Text
<1>6. call' = NoCall
  BY DEF Extend
<1>7. Typed'
  BY <1>1, <1>5, <1>6, EmptyText DEF Typed, NoCall, Steps
<1>8. call'.pc = "idle" /\ call'.size = 0
  BY <1>6 DEF NoCall
<1> QED
  BY <1>7, <1>8 DEF SInv

-----------------------------------------------------------------------------
(* The theorem. *)

LEMMA StringsInitSInv == StringsInit => SInv
<1> SUFFICES ASSUME StringsInit PROVE SInv
  OBVIOUS
<1>1. Typed
  BY EmptyText DEF StringsInit, Typed, NoCall, Steps
<1>2. call.pc = "idle" /\ call.size = 0
  BY DEF StringsInit, NoCall
<1> QED
  BY <1>1, <1>2 DEF SInv

LEMMA StringsNextSInv == SInv /\ [StringsNext]_Strings => SInv'
<1> SUFFICES ASSUME SInv, [StringsNext]_Strings PROVE SInv'
  OBVIOUS
<1>1. literal.bytes \in Text /\ Quoted(literal.bytes) \in Text /\ call.output \in Text
  <2>1. literal.bytes \in Text /\ call.output \in Text
    BY DEF SInv, Typed
  <2> QED
    BY <2>1 DEF Quoted, Text, Quote
<1>2. CASE Extend
  BY <1>2, ExtendSInv
<1>3. CASE Scan /\ UNCHANGED literal
  BY <1>3, ScanSInv
<1>4. CASE Allocate /\ UNCHANGED literal
  BY <1>4, AllocateSInv
<1>5. CASE CopyByte /\ UNCHANGED literal
  BY <1>5, CopyByteSInv
<1>6. CASE CopyEscape /\ UNCHANGED literal
  BY <1>6, CopyEscapeSInv
<1>7. CASE Terminate /\ UNCHANGED literal
  BY <1>7, TerminateSInv
<1>8. CASE Measure /\ UNCHANGED literal
  BY <1>8, MeasureSInv
<1>9. CASE EnsureString /\ UNCHANGED literal
  BY <1>9, EnsureSInv
<1>10. CASE WriteByte /\ UNCHANGED literal
  BY <1>10, WriteSInv
<1>11. CASE CloseString /\ UNCHANGED literal
  BY <1>11, CloseSInv
<1>12. ASSUME NEW b \in Text, UNCHANGED literal, PrintString(b) \/ ParseString(b)
       PROVE  SInv'
  BY <1>12, Begins DEF PrintString, ParseString
<1>13. CASE UNCHANGED Strings
  BY <1>13 DEF Strings, SInv, Typed, Scanning, Copying, Measuring, Writing, ByteAt
<1>14. CASE Loops /\ UNCHANGED literal
  BY <1>3, <1>4, <1>5, <1>6, <1>7, <1>8, <1>9, <1>10, <1>11, <1>14 DEF Loops
<1>15. CASE /\ \E b \in {Quoted(literal.bytes), literal.bytes} : b # <<>> /\ ParseString(b)
            /\ UNCHANGED literal
  BY <1>1, <1>12, <1>15
<1>16. CASE PrintString(literal.bytes) /\ UNCHANGED literal
  BY <1>1, <1>12, <1>16
<1>17. CASE call.pc = "printed" /\ ParseString(call.output) /\ UNCHANGED literal
  BY <1>1, <1>12, <1>17
<1> QED
  BY <1>2, <1>13, <1>14, <1>15, <1>16, <1>17 DEF StringsNext

\* What the code writes of a string fits.
THEOREM StringsFit == StringsSpec => []OutputFits
<1>1. SInv => OutputFits
  <2> SUFFICES ASSUME SInv PROVE OutputFits
    OBVIOUS
  <2>1. ASSUME call.pc = "write", ~Inside(call.at) PROVE Len(call.output) = call.size - 2
    <3>1. /\ call.at = Len(call.input) /\ Len(call.input) \in Nat /\ call.extra \in Nat
          /\ call.size = Len(call.input) + call.extra + 3
      BY <2>1 DEF SInv, Writing, Inside, Typed, Text
    <3> QED
      BY <2>1, <3>1 DEF SInv, Writing
  <2> QED
    BY <2>1 DEF OutputFits, SInv
<1> QED
  BY <1>1, StringsInitSInv, StringsNextSInv, PTL DEF StringsSpec

-----------------------------------------------------------------------------
(* What print_string_ptr printed, parse_string reads.  f[k] is what the    *)
(* first k bytes are printed as.                                           *)

Printed(b) == Quoted(FlattenSeq([i \in DOMAIN b |-> Escaped(b[i])]))

Grows(s, f, n, b) ==
  /\ Sums(s, n, b) /\ f \in [0..n -> Text] /\ f[0] = <<>>
  /\ \A k \in 1..n : f[k] = f[k - 1] \o Escaped(b[k])
  /\ \A i \in 0..n : Len(f[i]) = i + s[i]
  /\ \A k \in 1..n : \A j \in 1..(1 + Extra(b[k])) :
       f[n][(k - 1 + s[k - 1]) + j] = Escaped(b[k])[j]

\* In t, the escapes of the bytes of b follow one another between quotes.
LaidOut(s, b, t) ==
  /\ Sums(s, Len(b), b)
  /\ t \in Text /\ Len(t) = Len(b) + s[Len(b)] + 2
  /\ t[1] = Quote /\ t[Len(t)] = Quote
  /\ \A k \in 1..Len(b) : \A j \in 1..(1 + Extra(b[k])) : t[(k + s[k - 1]) + j] = Escaped(b[k])[j]

LEMMA JoinedBytes ==
  ASSUME NEW a \in Text, NEW b \in Text
  PROVE  /\ \A i \in 1..Len(a) : (a \o b)[i] = a[i]
         /\ \A i \in 1..Len(b) : (a \o b)[Len(a) + i] = b[i]
  BY DEF Text

LEMMA WithinEscapes ==
  ASSUME NEW before \in Nat, NEW more \in Nat, NEW after \in Nat, NEW all \in Nat, NEW len \in Nat,
         NEW place \in 1..len, NEW i \in 1..(1 + more), after = before + more, after <= all
  PROVE  /\ (place - 1 + before) + i \in 1..(len + all)
         /\ 1 + ((place - 1 + before) + i) = (place + before) + i
<1>1. place \in Int /\ 1 <= place /\ place <= len /\ i \in Int /\ 1 <= i /\ i <= 1 + more
  OBVIOUS
<1>2. (place - 1 + before) + i <= len + all
  BY <1>1
<1> QED
  BY <1>1, <1>2

LEMMA GrowsByte ==
  ASSUME NEW b, NEW n \in Nat, b[n + 1] \in Int, NEW s, NEW f, Grows(s, f, n, b)
  PROVE  \E t, g : Grows(t, g, n + 1, b)
<1>1. PICK t : /\ Sums(t, n + 1, b) /\ t[n + 1] = s[n] + Extra(b[n + 1])
               /\ \A k \in 0..n : t[k] = s[k]
  BY SumByte DEF Grows
<1> DEFINE e == Escaped(b[n + 1])
           g == [i \in 0..(n + 1) |-> IF i <= n THEN f[i] ELSE f[n] \o e]
<1>2. e \in Text /\ Len(e) = 1 + Extra(b[n + 1]) /\ Extra(b[n + 1]) \in Nat
  <2>1. Extra(b[n + 1]) \in Nat
    BY DEF Extra
  <2>2. e \in Seq(Int) /\ Len(e) = 1 + Extra(b[n + 1])
    BY EscapedLength, Zenon
  <2> HIDE DEF e
  <2> QED
    BY <2>1, <2>2 DEF Text
<1> HIDE DEF e
<1>3. f[n] \in Text /\ Len(f[n]) = n + s[n] /\ s \in [0..n -> Nat] /\ s[n] \in Nat
  <2>1. n \in 0..n
    OBVIOUS
  <2>2. f \in [0..n -> Text] /\ s \in [0..n -> Nat] /\ \A i \in 0..n : Len(f[i]) = i + s[i]
    BY Zenon DEF Grows, Sums
  <2> QED
    BY <2>1, <2>2
<1>4. /\ f[n] \o e \in Text /\ Len(f[n] \o e) = Len(f[n]) + Len(e)
      /\ \A i \in 1..Len(f[n]) : (f[n] \o e)[i] = f[n][i]
      /\ \A i \in 1..Len(e) : (f[n] \o e)[Len(f[n]) + i] = e[i]
  BY <1>2, <1>3, Joined, JoinedBytes
<1>5. /\ g \in [0..(n + 1) -> Text] /\ g[n + 1] = f[n] \o e
      /\ \A i \in 0..n : g[i] = f[i]
  BY <1>4 DEF Grows
<1> HIDE DEF g
<1>6. g[0] = <<>> /\ \A k \in 1..(n + 1) : g[k] = g[k - 1] \o Escaped(b[k])
  <2>1. \A k \in 1..n : k \in 0..n /\ k - 1 \in 0..n
    OBVIOUS
  <2>2. \A k \in 1..n : g[k] = g[k - 1] \o Escaped(b[k])
    BY <1>5, <2>1 DEF Grows
  <2>3. n + 1 - 1 = n /\ g[n] = f[n]
    BY <1>5
  <2>4. \A k \in 1..(n + 1) : k \in 1..n \/ k = n + 1
    OBVIOUS
  <2>5. g[n + 1] = g[(n + 1) - 1] \o Escaped(b[n + 1])
    <3>1. g[(n + 1) - 1] = f[n]
      BY <2>3
    <3> QED
      BY <1>5, <3>1, Zenon DEF e
  <2>6. g[0] = <<>>
    BY <1>5 DEF Grows
  <2> QED
    BY <2>2, <2>4, <2>5, <2>6, Zenon
<1>7. \A i \in 0..(n + 1) : Len(g[i]) = i + t[i]
  <2>1. \A i \in 0..n : Len(g[i]) = i + t[i]
    BY <1>1, <1>5 DEF Grows
  <2>2. Len(g[n + 1]) = (n + s[n]) + (1 + Extra(b[n + 1]))
    BY <1>2, <1>3, <1>4, <1>5
  <2>3. Len(g[n + 1]) = (n + 1) + t[n + 1]
    BY <1>1, <1>2, <1>3, <2>2
  <2> QED
    BY <2>1, <2>3
<1>8. ASSUME NEW k \in 1..(n + 1), NEW j \in 1..(1 + Extra(b[k]))
      PROVE  g[n + 1][(k - 1 + t[k - 1]) + j] = Escaped(b[k])[j]
  <2>1. CASE k = n + 1
    <3>1. k - 1 = n /\ t[k - 1] = s[n] /\ j \in 1..Len(e)
      BY <1>1, <1>2, <2>1
    <3>2. (k - 1 + t[k - 1]) + j = Len(f[n]) + j
      BY <1>3, <3>1
    <3> QED
      BY <1>4, <1>5, <2>1, <3>1, <3>2 DEF e
  <2>2. CASE k \in 1..n
    <3>1. k - 1 \in 0..n /\ k \in 0..n /\ t[k - 1] = s[k - 1]
      BY <1>1, <2>2
    <3>2. /\ s[k - 1] \in Nat /\ s[k] \in Nat /\ s[k] = s[k - 1] + Extra(b[k])
          /\ s[k] <= s[n] /\ Extra(b[k]) \in Nat
      BY <2>2, <3>1 DEF Grows, Sums, Extra
    <3>3. (k - 1 + s[k - 1]) + j \in 1..(n + s[n])
      <4> DEFINE before == s[k - 1]
                 all    == s[n]
                 more   == Extra(b[k])
      <4>1. before \in Nat /\ more \in Nat /\ all \in Nat /\ before + more \in Nat /\ before + more <= all
        BY <1>3, <3>2
      <4>2. j \in 1..(1 + more)
        OBVIOUS
      <4> HIDE DEF before, all, more
      <4>3. (k - 1 + before) + j \in 1..(n + all)
        BY <2>2, <4>1, <4>2, WithinEscapes
      <4> QED
        BY <4>3 DEF before, all
    <3>4. f[n][(k - 1 + s[k - 1]) + j] = Escaped(b[k])[j]
      BY <2>2 DEF Grows
    <3> QED
      BY <1>3, <1>4, <1>5, <3>1, <3>3, <3>4
  <2> QED
    BY <2>1, <2>2
<1>9. Grows(t, g, n + 1, b)
  BY <1>1, <1>5, <1>6, <1>7, <1>8, Zenon DEF Grows
<1> QED
  BY <1>9

LEMMA GrowsExist ==
  ASSUME NEW b \in Text, NEW n \in 0..Len(b)
  PROVE  \E s, f : Grows(s, f, n, b)
<1>0. Len(b) \in Nat /\ \A i \in 1..Len(b) : b[i] \in Int
  BY DEF Text
<1> DEFINE Bad == {k \in 0..Len(b) : ~ \E s, f : Grows(s, f, k, b)}
<1> SUFFICES ASSUME n \in Bad PROVE FALSE
  OBVIOUS
<1>1. PICK k \in Bad : \A j \in Bad : k <= j
  <2>1. Bad \in SUBSET Nat /\ Bad # {}
    BY <1>0
  <2> HIDE DEF Bad
  <2> QED
    BY <2>1, LeastExists
<1>2. CASE k = 0
  <2> DEFINE s == [i \in 0..0 |-> 0]
             f == [i \in 0..0 |-> <<>>]
  <2>1. Sums(s, 0, b) /\ s[0] = 0
    BY DEF Sums
  <2>2. f \in [0..0 -> Text] /\ f[0] = <<>> /\ Len(f[0]) = 0
    BY EmptyText
  <2> HIDE DEF s, f
  <2>3. Grows(s, f, 0, b)
    BY <2>1, <2>2 DEF Grows
  <2> QED
    BY <1>1, <1>2, <2>3
<1>3. CASE k # 0
  <2>1. k - 1 \in Nat /\ k - 1 < k /\ k - 1 \in 0..Len(b) /\ (k - 1) + 1 = k /\ b[k] \in Int
    BY <1>0, <1>1, <1>3
  <2>2. PICK s, f : Grows(s, f, k - 1, b)
    BY <1>1, <2>1
  <2> QED
    BY <1>1, <2>1, <2>2, GrowsByte
<1> QED
  BY <1>2, <1>3

LEMMA EmptyJoins == \A a \in Text : <<>> \o a = a
  BY DEF Text

\* FlattenSeq joins the escapes one after the other.
LEMMA FlattenedSteps ==
  ASSUME NEW b \in Text, NEW s, NEW f, Grows(s, f, Len(b), b)
  PROVE  FlattenSeq([i \in DOMAIN b |-> Escaped(b[i])]) = f[Len(b)]
<1> DEFINE n       == Len(b)
           seqs    == [i \in DOMAIN b |-> Escaped(b[i])]
           Is(g)   == g = [i \in 1..n |-> IF i = 1 THEN seqs[i] ELSE g[i - 1] \o seqs[i]]
           flatten == CHOOSE g : Is(g)
           first   == [i \in 1..n |-> f[i]]
<1>1. DOMAIN b = 1..n /\ n \in Nat /\ \A i \in 1..n : b[i] \in Int
  BY DEF Text
<1>2. \A i \in 1..n : Escaped(b[i]) \in Text
  <2> SUFFICES ASSUME NEW i \in 1..n PROVE Escaped(b[i]) \in Text
    OBVIOUS
  <2>1. b[i] \in Int
    BY <1>1
  <2> QED
    BY <2>1, EscapedLength, Zenon DEF Text
<1>3. seqs \in Seq(Text) /\ Len(seqs) = n /\ \A i \in 1..n : seqs[i] = Escaped(b[i])
  <2>1. seqs \in [1..n -> Text] /\ \A i \in 1..n : seqs[i] = Escaped(b[i])
    BY <1>1, <1>2
  <2> HIDE DEF seqs
  <2> QED
    BY <1>1, <2>1, FunctionIsSeq
<1> HIDE DEF seqs
<1>4. f[0] = <<>> /\ \A k \in 1..n : f[k] = f[k - 1] \o seqs[k]
  BY <1>3, Zenon DEF Grows
<1>5. CASE n = 0
  <2>1. seqs = <<>>
    BY <1>3, <1>5
  <2>2. FlattenSeq(seqs) = seqs
    BY <1>3, <1>5 DEF FlattenSeq
  <2> QED
    BY <1>4, <1>5, <2>1, <2>2 DEF seqs
<1>6. CASE n # 0
  <2>1. f[1] = seqs[1]
    <3>1. 1 \in 1..n /\ 1 - 1 = 0
      BY <1>1, <1>6
    <3>2. f[1] = f[1 - 1] \o seqs[1] /\ seqs[1] \in Text
      BY <1>2, <1>3, <1>4, <3>1, Zenon
    <3>3. f[1] = <<>> \o seqs[1]
      BY <1>4, <3>1, <3>2
    <3> QED
      BY <3>2, <3>3, EmptyJoins, Zenon
  <2>2. \A i \in 1..n : first[i] = IF i = 1 THEN seqs[i] ELSE first[i - 1] \o seqs[i]
    <3> SUFFICES ASSUME NEW i \in 1..n
                 PROVE  first[i] = IF i = 1 THEN seqs[i] ELSE first[i - 1] \o seqs[i]
      OBVIOUS
    <3>1. first[i] = f[i]
      OBVIOUS
    <3>2. i # 1 => i - 1 \in 1..n /\ first[i - 1] = f[i - 1]
      BY <1>1
    <3> HIDE DEF first
    <3> QED
      BY <1>4, <2>1, <3>1, <3>2
  <2>3. Is(first)
    BY <2>2
  <2>4. Is(flatten)
    BY <2>3
  <2>5. FlattenSeq(seqs) = flatten[n]
    BY <1>3, <1>6 DEF FlattenSeq
  <2> HIDE DEF flatten
  <2>6. \A i \in 1..n : flatten[i] = IF i = 1 THEN seqs[i] ELSE flatten[i - 1] \o seqs[i]
    BY <2>4
  <2> DEFINE Bad == {k \in 1..n : flatten[k] # f[k]}
  <2>7. Bad = {}
    <3> SUFFICES ASSUME Bad # {} PROVE FALSE
      OBVIOUS
    <3>1. PICK k \in Bad : \A j \in Bad : k <= j
      <4>1. Bad \in SUBSET Nat
        BY <1>1
      <4> HIDE DEF Bad
      <4> QED
        BY <4>1, LeastExists
    <3>2. k \in 1..n /\ flatten[k] # f[k]
      OBVIOUS
    <3>3. CASE k = 1
      BY <2>1, <2>6, <3>2, <3>3
    <3>4. CASE k # 1
      <4>1. k - 1 \in 1..n /\ k - 1 < k
        BY <1>1, <3>2, <3>4
      <4>2. k - 1 \notin Bad
        BY <3>1, <3>2, <4>1
      <4>3. flatten[k - 1] = f[k - 1]
        BY <4>1, <4>2
      <4>4. flatten[k] = flatten[k - 1] \o seqs[k] /\ f[k] = f[k - 1] \o seqs[k]
        BY <1>4, <2>6, <3>2, <3>4
      <4> QED
        BY <3>2, <4>3, <4>4
    <3> QED
      BY <3>3, <3>4
  <2>8. n \in 1..n
    BY <1>1, <1>6
  <2>9. flatten[n] = f[n]
    BY <2>7, <2>8
  <2> QED
    BY <2>5, <2>9 DEF seqs
<1> QED
  BY <1>5, <1>6

LEMMA PrintedLaidOut ==
  ASSUME NEW b \in Text
  PROVE  \E s : LaidOut(s, b, Printed(b))
<1> DEFINE n == Len(b)
<1>1. n \in Nat /\ n \in 0..n
  BY DEF Text
<1>2. PICK s, f : Grows(s, f, n, b)
  BY <1>1, GrowsExist
<1>3. Printed(b) = <<Quote>> \o f[n] \o <<Quote>>
  BY <1>2, FlattenedSteps, Zenon DEF Printed, Quoted
<1>4. /\ f[n] \in Text /\ Len(f[n]) = n + s[n] /\ s[n] \in Nat /\ Sums(s, n, b)
      /\ \A k \in 1..n : \A j \in 1..(1 + Extra(b[k])) : f[n][(k - 1 + s[k - 1]) + j] = Escaped(b[k])[j]
  <2>1. /\ f \in [0..n -> Text] /\ s \in [0..n -> Nat]
        /\ \A i \in 0..n : Len(f[i]) = i + s[i]
    BY <1>2, Zenon DEF Grows, Sums
  <2>2. f[n] \in Text /\ Len(f[n]) = n + s[n] /\ s[n] \in Nat
    BY <1>1, <2>1
  <2> QED
    BY <1>2, <2>2, Zenon DEF Grows
<1> DEFINE t == <<Quote>> \o f[n] \o <<Quote>>
           m == Len(f[n])
<1>5. /\ t \in Text /\ Len(t) = m + 2 /\ t[1] = Quote /\ t[m + 2] = Quote
      /\ \A i \in 1..m : t[1 + i] = f[n][i]
  <2>1. ASSUME NEW a \in Text
        PROVE  /\ <<Quote>> \o a \o <<Quote>> \in Text
               /\ Len(<<Quote>> \o a \o <<Quote>>) = Len(a) + 2
               /\ (<<Quote>> \o a \o <<Quote>>)[1] = Quote
               /\ (<<Quote>> \o a \o <<Quote>>)[Len(a) + 2] = Quote
               /\ \A i \in 1..Len(a) : (<<Quote>> \o a \o <<Quote>>)[1 + i] = a[i]
    BY DEF Text, Quote
  <2> QED
    BY <1>4, <2>1
<1> HIDE DEF t
<1>6. ASSUME NEW k \in 1..n, NEW j \in 1..(1 + Extra(b[k]))
      PROVE  t[(k + s[k - 1]) + j] = Escaped(b[k])[j]
  <2>1. /\ s[k - 1] \in Nat /\ s[k] = s[k - 1] + Extra(b[k]) /\ s[k] \in Nat /\ s[k] <= s[n]
        /\ Extra(b[k]) \in Nat
    <3>1. k - 1 \in 0..n /\ k \in 0..n
      BY <1>1
    <3> QED
      BY <1>4, <3>1 DEF Sums, Extra
  <2>2. (k - 1 + s[k - 1]) + j \in 1..m /\ 1 + ((k - 1 + s[k - 1]) + j) = (k + s[k - 1]) + j
    <3>1. s[k - 1] \in Nat /\ s[k] \in Nat /\ s[n] \in Nat /\ Extra(b[k]) \in Nat
      BY <1>4, <2>1
    <3>2. m = n + s[n] /\ k \in 1..n
      BY <1>4
    <3>3. /\ (k - 1 + s[k - 1]) + j \in 1..(n + s[n])
          /\ 1 + ((k - 1 + s[k - 1]) + j) = (k + s[k - 1]) + j
      <4> DEFINE before == s[k - 1]
                 after  == s[k]
                 all    == s[n]
                 more   == Extra(b[k])
      <4>1. before \in Nat /\ after \in Nat /\ all \in Nat /\ more \in Nat
        BY <3>1
      <4>2. after = before + more /\ after <= all
        BY <2>1
      <4>3. n \in Nat /\ k \in 1..n /\ j \in 1..(1 + more)
        BY <1>1
      <4> HIDE DEF before, after, all, more, n
      <4>4. /\ (k - 1 + before) + j \in 1..(n + all)
            /\ 1 + ((k - 1 + before) + j) = (k + before) + j
        BY <4>1, <4>2, <4>3, WithinEscapes
      <4> QED
        BY <4>4 DEF before, all
    <3> QED
      BY <3>2, <3>3, Zenon
  <2>3. f[n][(k - 1 + s[k - 1]) + j] = Escaped(b[k])[j]
    BY <1>4
  <2> QED
    BY <1>5, <2>2, <2>3
<1>7. m + 2 = n + s[n] + 2
  BY <1>4
<1>8. LaidOut(s, b, t)
  BY <1>4, <1>5, <1>6, <1>7, Zenon DEF LaidOut
<1> QED
  BY <1>3, <1>8 DEF t

-----------------------------------------------------------------------------
(* What an escape reads as. *)

\* The two digits of a control character are those that parse_hex4 reads back.
LEMMA HexDigitsRead ==
  ASSUME NEW c \in Nat, c < 32
  PROVE  /\ {48, HexDigit(c \div 16), HexDigit(c % 16)} \subseteq DOMAIN HexDigits
         /\ {48, HexDigit(c \div 16), HexDigit(c % 16)} \cap {Quote, Backslash} = {}
         /\ HexDigits[48] = 0
         /\ 16 * HexDigits[HexDigit(c \div 16)] + HexDigits[HexDigit(c % 16)] = c
<1>1. c \div 16 \in Nat /\ c \div 16 < 16 /\ c % 16 \in Nat /\ c % 16 < 16
      /\ c = 16 * (c \div 16) + (c % 16)
  OBVIOUS
<1>2. ASSUME NEW k \in Nat, k < 16
      PROVE  /\ HexDigit(k) \in DOMAIN HexDigits /\ HexDigit(k) \notin {Quote, Backslash}
             /\ HexDigits[HexDigit(k)] = k
  <2>1. CASE k < 10
    <3>1. HexDigit(k) = 48 + k
      BY <2>1 DEF HexDigit
    <3>2. 48 + k \in DOMAIN HexDigits /\ HexDigits[48 + k] = k /\ 48 + k \notin {34, 92}
      BY <1>2, <2>1 DEF HexDigits
    <3> QED
      BY <3>1, <3>2 DEF Quote, Backslash
  <2>2. CASE ~(k < 10)
    <3>1. HexDigit(k) = 87 + k
      BY <2>2 DEF HexDigit
    <3>2. 87 + k \in DOMAIN HexDigits /\ HexDigits[87 + k] = k /\ 87 + k \notin {34, 92}
      BY <1>2, <2>2 DEF HexDigits
    <3> QED
      BY <3>1, <3>2 DEF Quote, Backslash
  <2> QED
    BY <2>1, <2>2
<1>3. 48 \in DOMAIN HexDigits /\ 48 \notin {Quote, Backslash} /\ HexDigits[48] = 0
  BY DEF HexDigits, Quote, Backslash
<1> QED
  BY <1>1, <1>2, <1>3

LEMMA AsciiIsItself ==
  ASSUME NEW c \in Nat, c < 128
  PROVE  Utf8(c) = <<c>> /\ ~High(c) /\ ~Low(c)
<1>1. Utf8Length(c) = 1
  BY DEF Utf8Length
<1>2. Mark[1] = 0 /\ Shift[1] = 1 /\ c \div 1 = c
  BY DEF Mark, Shift
<1>3. Utf8(c) = [k \in 1..1 |-> IF k = 1 THEN 0 + c
                                ELSE 128 + ((c \div Shift[1 - k + 1]) % 64)]
  BY <1>1, <1>2 DEF Utf8
<1>4. Utf8(c) = <<c>>
  BY <1>3
<1> QED
  BY <1>4 DEF High, Low

\* The three ways to print a byte.
LEMMA EscapeForms ==
  ASSUME NEW c \in Nat
  PROVE  \/ Extra(c) = 0 /\ Escaped(c)[1] = c /\ c \notin {Quote, Backslash}
         \/ /\ Extra(c) = 1 /\ Escaped(c)[1] = Backslash
            /\ \/ c \in {Quote, Backslash} /\ Escaped(c)[2] = c
               \/ c \in DOMAIN Letter /\ Escaped(c)[2] = Letter[c]
         \/ /\ Extra(c) = 5 /\ c < 32 /\ Escaped(c)[1] = Backslash /\ Escaped(c)[2] = U
            /\ Escaped(c)[3] = 48 /\ Escaped(c)[4] = 48
            /\ Escaped(c)[5] = HexDigit(c \div 16) /\ Escaped(c)[6] = HexDigit(c % 16)
<1>1. CASE c \in DOMAIN Letter
  <2>1. Escaped(c) = <<Backslash, Letter[c]>> /\ Extra(c) = 1
    BY <1>1, Zenon DEF Escaped, Extra, Special
  <2> QED
    BY <1>1, <2>1
<1>2. CASE c \notin DOMAIN Letter /\ c \in {Quote, Backslash}
  <2>1. Escaped(c) = <<Backslash, c>> /\ Extra(c) = 1
    BY <1>2, Zenon DEF Escaped, Extra, Special
  <2> QED
    BY <1>2, <2>1
<1>3. CASE c \notin DOMAIN Letter /\ c \notin {Quote, Backslash} /\ c < 32
  <2>1. /\ Escaped(c) = <<Backslash, U, 48, 48, HexDigit(c \div 16), HexDigit(c % 16)>>
        /\ Extra(c) = 5
    BY <1>3, Zenon DEF Escaped, Extra, Special
  <2> QED
    BY <1>3, <2>1
<1>4. CASE c \notin DOMAIN Letter /\ c \notin {Quote, Backslash} /\ ~(c < 32)
  <2>1. Escaped(c) = <<c>> /\ Extra(c) = 0
    BY <1>4, Zenon DEF Escaped, Extra, Special
  <2> QED
    BY <1>4, <2>1
<1> QED
  BY <1>1, <1>2, <1>3, <1>4

\* Each letter is that of one control byte, and none of the other escapes.
LEMMA LettersApart ==
  /\ \A c, d \in DOMAIN Letter : Letter[c] = Letter[d] => c = d
  /\ \A c \in DOMAIN Letter : Letter[c] \notin {Quote, Backslash, Solidus, U}
  /\ Quote # U /\ Backslash # U /\ Quote # Backslash
<1>1. DOMAIN Letter = {8, 9, 10, 12, 13}
  BY DEF Letter
<1>2. /\ Letter[8] = 98 /\ Letter[9] = 116 /\ Letter[10] = 110 /\ Letter[12] = 102
      /\ Letter[13] = 114
  BY DEF Letter
<1> QED
  BY <1>1, <1>2 DEF Quote, Backslash, Solidus, U

-----------------------------------------------------------------------------
(* Printing writes what Printed says, and parsing that never fails: each    *)
(* pass is at the first byte of an escape, or the first pass within a       *)
(* \u escape.                                                               *)

Total == Len(literal.bytes)
Whole == Printed(literal.bytes)
Laid(s) == LaidOut(s, literal.bytes, Whole)

Place(s, k) == 1 + k + s[k]     \* where the k-th byte after the first begins, or the quote

Prints(s) ==
  /\ call.pc \in {"measure", "write"} => call.input = literal.bytes /\ call.at \in 0..Total
  /\ call.pc = "measure" => call.extra = s[call.at]
  /\ call.pc = "write" =>
       /\ Len(call.output) = Place(s, call.at) /\ call.size = Len(Whole) + 1
       /\ \A i \in 1..Len(call.output) : call.output[i] = Whole[i]
  /\ call.pc = "printed" => call.output = Whole

Reads(s) ==
  /\ call.pc # "failed"
  /\ call.pc = "scan" =>
       \/ \E k \in 0..Total : call.at = Place(s, k)
       \/ \E k \in 0..(Total - 1) : /\ Extra(literal.bytes[k + 1]) = 5
                                   /\ call.at - Place(s, k) \in 2..5
  /\ call.pc = "copy" =>
       /\ call.end = Place(s, Total)
       /\ \E k \in 0..Total : /\ call.at = Place(s, k) /\ Len(call.output) = k
                             /\ \A i \in 1..k : call.output[i] = literal.bytes[i]
  /\ call.pc = "done" => call.output = literal.bytes /\ call.at = Len(Whole)

TripInv ==
  /\ literal.bytes \in Seq(Nat)
  /\ \A s : Laid(s) => Prints(s) /\ (call.input = Whole => Reads(s))

LEMMA Places ==
  ASSUME literal.bytes \in Seq(Nat), NEW s, Laid(s)
  PROVE  /\ Total \in Nat /\ literal.bytes \in Text /\ \A k \in 1..Total : literal.bytes[k] \in Nat
         /\ Whole \in Text /\ Len(Whole) = Place(s, Total) + 1
         /\ Whole[1] = Quote /\ Whole[Place(s, Total) + 1] = Quote
         /\ s[0] = 0 /\ Place(s, 0) = 1
         /\ \A k \in 0..Total : /\ s[k] \in Nat /\ Place(s, k) \in Nat /\ Place(s, k) <= Place(s, Total)
                               /\ Place(s, k) >= 1
         /\ \A k \in 0..(Total - 1) : /\ Place(s, k + 1) = Place(s, k) + 1 + Extra(literal.bytes[k + 1])
                                     /\ s[k + 1] = s[k] + Extra(literal.bytes[k + 1])
                                     /\ Place(s, k) < Place(s, Total)
         /\ \A k \in 0..(Total - 1) : \A j \in 1..(1 + Extra(literal.bytes[k + 1])) :
              Whole[Place(s, k) + j] = Escaped(literal.bytes[k + 1])[j]
<1>1. Total \in Nat /\ literal.bytes \in Text /\ \A k \in 1..Total : literal.bytes[k] \in Nat
  BY DEF Total, Text
<1>2. /\ Sums(s, Total, literal.bytes) /\ Whole \in Text /\ Len(Whole) = Total + s[Total] + 2
      /\ Whole[1] = Quote /\ Whole[Len(Whole)] = Quote
      /\ \A k \in 1..Total : \A j \in 1..(1 + Extra(literal.bytes[k])) :
           Whole[(k + s[k - 1]) + j] = Escaped(literal.bytes[k])[j]
  BY Zenon DEF Laid, LaidOut, Total
<1>3. /\ s \in [0..Total -> Nat] /\ s[0] = 0
      /\ \A k \in 1..Total : s[k] = s[k - 1] + Extra(literal.bytes[k])
      /\ \A k \in 0..Total : s[k] <= s[Total]
  BY <1>2, Zenon DEF Sums
<1>4. \A k \in 0..Total : s[k] \in Nat /\ s[k] <= s[Total]
  BY <1>3
<1>5. s[Total] \in Nat /\ s[0] = 0
  BY <1>1, <1>3, <1>4
<1>6. \A k \in 0..(Total - 1) : /\ k \in 0..Total /\ k + 1 \in 1..Total /\ (k + 1) - 1 = k /\ k < Total
  BY <1>1
<1>7. \A k \in 0..Total : /\ s[k] \in Nat /\ Place(s, k) \in Nat /\ Place(s, k) <= Place(s, Total)
                         /\ Place(s, k) >= 1
  BY <1>1, <1>4, <1>5 DEF Place
<1>8. ASSUME NEW k \in 0..(Total - 1)
      PROVE  /\ Place(s, k + 1) = Place(s, k) + 1 + Extra(literal.bytes[k + 1])
             /\ s[k + 1] = s[k] + Extra(literal.bytes[k + 1])
             /\ Place(s, k) < Place(s, Total)
  <2>1. s[k + 1] = s[k] + Extra(literal.bytes[k + 1])
    BY <1>3, <1>6
  <2>2. Extra(literal.bytes[k + 1]) \in Nat
    BY DEF Extra
  <2>3. s[k] \in Nat /\ s[k] <= s[Total] /\ k < Total /\ k \in Nat
    BY <1>4, <1>6
  <2> DEFINE x == Extra(literal.bytes[k + 1])
  <2> HIDE DEF x
  <2>4. s[k + 1] = s[k] + x /\ x \in Nat
    BY <2>1, <2>2 DEF x
  <2>5. Place(s, k + 1) = Place(s, k) + 1 + x
    <3> DEFINE y == s[k]
    <3>1. y \in Nat /\ k \in Nat
      BY <2>3
    <3>2. Place(s, k + 1) = 1 + (k + 1) + (y + x) /\ Place(s, k) = 1 + k + y
      BY <2>4 DEF Place
    <3> HIDE DEF y
    <3> QED
      BY <2>4, <3>1, <3>2
  <2>6. Place(s, k) < Place(s, Total)
    BY <1>1, <1>5, <2>3 DEF Place
  <2> QED
    BY <2>1, <2>5, <2>6 DEF x
<1>9. ASSUME NEW k \in 0..(Total - 1), NEW j \in 1..(1 + Extra(literal.bytes[k + 1]))
      PROVE  Whole[Place(s, k) + j] = Escaped(literal.bytes[k + 1])[j]
  <2>1. Whole[((k + 1) + s[(k + 1) - 1]) + j] = Escaped(literal.bytes[k + 1])[j]
    BY <1>2, <1>6
  <2>2. ((k + 1) + s[(k + 1) - 1]) + j = Place(s, k) + j
    BY <1>4, <1>6 DEF Place
  <2> QED
    BY <2>1, <2>2
<1>10. Len(Whole) = Place(s, Total) + 1 /\ Whole[Place(s, Total) + 1] = Quote
  <2>1. Total + s[Total] + 2 = Place(s, Total) + 1
    <3> DEFINE y == s[Total]
    <3>1. y \in Nat /\ Place(s, Total) = 1 + Total + y
      BY <1>5 DEF Place
    <3>2. Total \in Nat
      BY <1>1
    <3> HIDE DEF y
    <3>3. Total + y + 2 = Place(s, Total) + 1
      BY <3>1, <3>2
    <3> QED
      BY <3>3 DEF y
  <2> QED
    BY <1>2, <2>1
<1>11. Place(s, 0) = 1
  BY <1>5 DEF Place
<1> QED
  BY <1>1, <1>2, <1>5, <1>7, <1>8, <1>9, <1>10, <1>11, Zenon

\* What is true of one byte of the literal when the input is what was printed.
LEMMA AtByte ==
  ASSUME literal.bytes \in Seq(Nat), NEW s, Laid(s), call.input = Whole, NEW k \in 0..(Total - 1)
  PROVE  LET c == literal.bytes[k + 1]
             p == Place(s, k)
         IN  /\ c \in Nat /\ p \in Nat /\ p + 1 + Extra(c) = Place(s, k + 1) /\ k + 1 \in 0..Total
             /\ Place(s, k + 1) <= Place(s, Total) /\ Place(s, Total) \in Nat
             /\ Len(call.input) = Place(s, Total) + 1
             /\ \/ Extra(c) = 0 /\ ByteAt(p) = c /\ c \notin {Quote, Backslash}
                \/ /\ Extra(c) = 1 /\ ByteAt(p) = Backslash
                   /\ \/ c \in {Quote, Backslash} /\ ByteAt(p + 1) = c
                      \/ c \in DOMAIN Letter /\ ByteAt(p + 1) = Letter[c]
                \/ /\ Extra(c) = 5 /\ c < 32 /\ ByteAt(p) = Backslash /\ ByteAt(p + 1) = U
                   /\ ByteAt(p + 2) = 48 /\ ByteAt(p + 3) = 48
                   /\ ByteAt(p + 4) = HexDigit(c \div 16) /\ ByteAt(p + 5) = HexDigit(c % 16)
<1> DEFINE c == literal.bytes[k + 1]
           p == Place(s, k)
           x == Extra(c)
<1>1. Total \in Nat /\ k + 1 \in 1..Total /\ k \in 0..Total /\ k + 1 \in 0..Total
  BY Places
<1>2. /\ c \in Nat /\ p \in Nat /\ Place(s, Total) \in Nat /\ Place(s, k + 1) = p + 1 + x
      /\ Place(s, k + 1) <= Place(s, Total) /\ Len(Whole) = Place(s, Total) + 1
      /\ \A j \in 1..(1 + x) : Whole[p + j] = Escaped(c)[j]
  BY <1>1, Places
<1>3. x \in Nat
  BY DEF Extra
<1>4. \/ x = 0 /\ Escaped(c)[1] = c /\ c \notin {Quote, Backslash}
      \/ /\ x = 1 /\ Escaped(c)[1] = Backslash
         /\ \/ c \in {Quote, Backslash} /\ Escaped(c)[2] = c
            \/ c \in DOMAIN Letter /\ Escaped(c)[2] = Letter[c]
      \/ /\ x = 5 /\ c < 32 /\ Escaped(c)[1] = Backslash /\ Escaped(c)[2] = U
         /\ Escaped(c)[3] = 48 /\ Escaped(c)[4] = 48
         /\ Escaped(c)[5] = HexDigit(c \div 16) /\ Escaped(c)[6] = HexDigit(c % 16)
  BY <1>2, EscapeForms, Zenon
<1> HIDE DEF c, p, x
<1>5. ASSUME NEW j \in Nat, j <= x
      PROVE  ByteAt(p + j) = Escaped(c)[j + 1]
  <2>1. j + 1 \in 1..(1 + x) /\ (p + j) + 1 = p + (j + 1)
    BY <1>2, <1>3, <1>5
  <2> QED
    BY <1>2, <2>1 DEF ByteAt
<1>6. ByteAt(p) = Escaped(c)[1]
  <2>1. 0 + 1 = 1 /\ p + 0 = p
    BY <1>2
  <2> QED
    BY <1>3, <1>5, <2>1
<1>7. /\ x = 1 => ByteAt(p + 1) = Escaped(c)[2]
      /\ x = 5 => /\ ByteAt(p + 1) = Escaped(c)[2] /\ ByteAt(p + 2) = Escaped(c)[3]
                  /\ ByteAt(p + 3) = Escaped(c)[4] /\ ByteAt(p + 4) = Escaped(c)[5]
                  /\ ByteAt(p + 5) = Escaped(c)[6]
  BY <1>5
<1>8. \/ x = 0 /\ ByteAt(p) = c /\ c \notin {Quote, Backslash}
      \/ /\ x = 1 /\ ByteAt(p) = Backslash
         /\ \/ c \in {Quote, Backslash} /\ ByteAt(p + 1) = c
            \/ c \in DOMAIN Letter /\ ByteAt(p + 1) = Letter[c]
      \/ /\ x = 5 /\ c < 32 /\ ByteAt(p) = Backslash /\ ByteAt(p + 1) = U
         /\ ByteAt(p + 2) = 48 /\ ByteAt(p + 3) = 48
         /\ ByteAt(p + 4) = HexDigit(c \div 16) /\ ByteAt(p + 5) = HexDigit(c % 16)
  BY <1>4, <1>6, <1>7, Zenon
<1> QED
  BY <1>1, <1>2, <1>8 DEF c, p, x

\* The byte after the last is the closing quote.
LEMMA AtEnd ==
  ASSUME literal.bytes \in Seq(Nat), NEW s, Laid(s), call.input = Whole
  PROVE  /\ ByteAt(Place(s, Total)) = Quote /\ Place(s, Total) \in Nat /\ Total \in 0..Total
         /\ Len(call.input) = Place(s, Total) + 1
  BY Places DEF ByteAt

\* A \u escape of a control character stands for it.
LEMMA UnicodeReads ==
  ASSUME NEW p \in Nat, NEW c \in Nat, c < 32, call.end \in Nat, p + 6 <= call.end,
         ByteAt(p + 2) = 48, ByteAt(p + 3) = 48,
         ByteAt(p + 4) = HexDigit(c \div 16), ByteAt(p + 5) = HexDigit(c % 16)
  PROVE  Utf16Literal(p) = [length |-> 6, bytes |-> <<c>>]
<1>1. /\ Digit(p + 2) = 0 /\ Digit(p + 3) = 0
      /\ 16 * Digit(p + 4) + Digit(p + 5) = c
  BY HexDigitsRead DEF Digit
<1>2. \A k \in (p + 2)..((p + 2) + 3) : ByteAt(k) \in DOMAIN HexDigits
  <2>1. \A k \in (p + 2)..((p + 2) + 3) : k \in {p + 2, p + 3, p + 4, p + 5}
    OBVIOUS
  <2>2. \A k \in {p + 2, p + 3, p + 4, p + 5} : ByteAt(k) \in DOMAIN HexDigits
    <3>1. 48 \in DOMAIN HexDigits /\ HexDigit(c \div 16) \in DOMAIN HexDigits
          /\ HexDigit(c % 16) \in DOMAIN HexDigits
      BY HexDigitsRead
    <3> QED
      BY <3>1, Zenon
  <2> QED
    BY <2>1, <2>2
<1>3. (p + 2) + 1 = p + 3 /\ (p + 2) + 2 = p + 4 /\ (p + 2) + 3 = p + 5
  OBVIOUS
<1>4. Hex4(p + 2) = 4096 * 0 + 256 * 0 + 16 * Digit(p + 4) + Digit(p + 5)
  BY <1>1, <1>2, <1>3 DEF Hex4
<1>5. Digit(p + 4) \in Int /\ Digit(p + 5) \in Int
  <2>1. \A d \in DOMAIN HexDigits : HexDigits[d] \in Int
    BY DEF HexDigits
  <2> QED
    BY <2>1, HexDigitsRead DEF Digit
<1>6. Hex4(p + 2) = c
  BY <1>1, <1>4, <1>5
<1>7. Utf8(c) = <<c>> /\ ~High(c) /\ ~Low(c)
  BY AsciiIsItself
<1>8. ~(call.end - p < 6) /\ call.end - p >= 6
  OBVIOUS
<1> DEFINE first  == Hex4(p + 2)
           second == Hex4(p + 8)
           r      == Utf16Literal(p)
<1> HIDE DEF first, second
<1>9. r = CASE call.end - p < 6 -> Invalid
        [] call.end - p >= 6 /\ Low(first) -> Invalid
        [] call.end - p >= 6 /\ High(first) ->
             IF \/ call.end - (p + 6) < 6
                \/ ByteAt(p + 6) # Backslash \/ ByteAt(p + 7) # U \/ ~Low(second)
             THEN Invalid
             ELSE [length |-> 12, bytes |-> Utf8(Joint(first, second))]
        [] OTHER -> [length |-> 6, bytes |-> Utf8(first)]
  BY Zenon DEF Utf16Literal, first, second
<1> HIDE DEF r
<1>10. first = c
  BY <1>6 DEF first
<1>11. r = [length |-> 6, bytes |-> Utf8(first)]
  BY <1>7, <1>8, <1>9, <1>10
<1> QED
  BY <1>7, <1>10, <1>11 DEF r

-----------------------------------------------------------------------------
(* The steps, printing and reading. *)

Trips(s) == Prints(s) /\ (call.input = Whole => Reads(s))

LEMMA SameLiteral ==
  ASSUME literal' = literal
  PROVE  Total' = Total /\ Whole' = Whole
  BY DEF Total, Whole

\* Within a \u escape there is no other quote or backslash.
LEMMA InsideEscape ==
  ASSUME literal.bytes \in Seq(Nat), NEW s, Laid(s), call.input = Whole, call.at \in Nat,
         NEW k \in 0..(Total - 1), Extra(literal.bytes[k + 1]) = 5, call.at - Place(s, k) \in 2..5
  PROVE  /\ ByteAt(call.at) \notin {Quote, Backslash} /\ Inside(call.at)
         /\ \/ call.at + 1 = Place(s, k + 1) /\ k + 1 \in 0..Total
            \/ (call.at + 1) - Place(s, k) \in 2..5
<1> DEFINE c == literal.bytes[k + 1]
           p == Place(s, k)
<1>1. /\ c \in Nat /\ p \in Nat /\ p + 1 + 5 = Place(s, k + 1) /\ k + 1 \in 0..Total
      /\ Place(s, k + 1) <= Place(s, Total) /\ Place(s, Total) \in Nat
      /\ Len(call.input) = Place(s, Total) + 1 /\ c < 32
      /\ ByteAt(p + 2) = 48 /\ ByteAt(p + 3) = 48
      /\ ByteAt(p + 4) = HexDigit(c \div 16) /\ ByteAt(p + 5) = HexDigit(c % 16)
  <2> DEFINE x == Extra(c)
  <2>1. /\ c \in Nat /\ p \in Nat /\ p + 1 + x = Place(s, k + 1) /\ k + 1 \in 0..Total
        /\ Place(s, k + 1) <= Place(s, Total) /\ Place(s, Total) \in Nat
        /\ Len(call.input) = Place(s, Total) + 1
        /\ \/ x = 0
           \/ x = 1
           \/ /\ c < 32 /\ ByteAt(p + 2) = 48 /\ ByteAt(p + 3) = 48
              /\ ByteAt(p + 4) = HexDigit(c \div 16) /\ ByteAt(p + 5) = HexDigit(c % 16)
    BY AtByte, Zenon
  <2>2. x = 5
    OBVIOUS
  <2> HIDE DEF c, p, x
  <2> QED
    BY <2>1, <2>2
<1>2. call.at - p \in 2..5
  OBVIOUS
<1> HIDE DEF c, p
<1>3. {48, HexDigit(c \div 16), HexDigit(c % 16)} \cap {Quote, Backslash} = {}
  BY <1>1, HexDigitsRead
<1>4. call.at \in {p + 2, p + 3, p + 4, p + 5}
  <2> DEFINE d == call.at - p
  <2>1. call.at = p + d
    BY <1>1
  <2>2. d \in {2, 3, 4, 5}
    BY <1>2
  <2> QED
    BY <2>1, <2>2, Zenon
<1>5. ByteAt(call.at) \notin {Quote, Backslash}
  BY <1>1, <1>3, <1>4
<1>6. Inside(call.at)
  BY <1>1, <1>4 DEF Inside
<1>7. call.at + 1 = Place(s, k + 1) \/ (call.at + 1) - p \in 2..5
  <2>1. PICK d \in {2, 3, 4, 5} : call.at = p + d
    BY <1>4
  <2>2. p \in Nat /\ p + 6 = Place(s, k + 1)
    BY <1>1
  <2> DEFINE place == call.at
  <2>3. place = p + d
    BY <2>1
  <2> HIDE DEF place
  <2>4. (place + 1) - p = d + 1
    BY <2>2, <2>3
  <2>5. d = 5 \/ d + 1 \in 2..5
    OBVIOUS
  <2>6. CASE d = 5
    BY <2>2, <2>3, <2>6 DEF place
  <2>7. CASE d + 1 \in 2..5
    BY <2>4, <2>7 DEF place
  <2> QED
    BY <2>5, <2>6, <2>7
<1> QED
  BY <1>1, <1>5, <1>6, <1>7 DEF p

\* The first pass goes on.
LEMMA ScanTrips ==
  ASSUME SInv, literal.bytes \in Seq(Nat), NEW s, Laid(s), Trips(s), Scan, literal' = literal
  PROVE  Trips(s)'
<1>1. call.pc = "scan" /\ Typed /\ call.at \in Nat
  BY DEF Scan, SInv, Typed
<1>2. Total' = Total /\ Whole' = Whole
  BY SameLiteral
<1>3. call'.input = call.input /\ call'.pc \in {"scan", "failed"}
  BY <1>1 DEF Scan, Leave, Typed
<1>4. Prints(s)'
  BY <1>3 DEF Prints
<1>5. ASSUME call.input = Whole PROVE Reads(s)'
  <2>1. \/ \E k \in 0..Total : call.at = Place(s, k)
        \/ \E k \in 0..(Total - 1) : /\ Extra(literal.bytes[k + 1]) = 5
                                     /\ call.at - Place(s, k) \in 2..5
    BY <1>1, <1>5 DEF Trips, Reads
  <2>2. \A k \in 0..Total : k = Total \/ k \in 0..(Total - 1)
    BY Places
  <2>3. CASE call.at = Place(s, Total)
    <3>1. ByteAt(call.at) = Quote /\ Inside(call.at)
      BY <1>5, <2>3, AtEnd DEF Inside
    <3> QED
      BY <3>1 DEF Scan, Quote, Backslash
  <2>4. ASSUME NEW k \in 0..(Total - 1), call.at = Place(s, k) PROVE Reads(s)'
    <3> DEFINE c == literal.bytes[k + 1]
               p == Place(s, k)
               x == Extra(c)
    <3>1. /\ c \in Nat /\ p \in Nat /\ p + 1 + x = Place(s, k + 1) /\ k + 1 \in 0..Total
          /\ Place(s, k + 1) <= Place(s, Total) /\ Place(s, Total) \in Nat
          /\ Len(call.input) = Place(s, Total) + 1
          /\ \/ x = 0 /\ ByteAt(p) \notin {Quote, Backslash}
             \/ x = 1 /\ ByteAt(p) = Backslash
             \/ x = 5 /\ ByteAt(p) = Backslash
      BY <1>5, AtByte, Zenon
    <3> HIDE DEF c, p, x
    <3>2. call.at = p
      BY <2>4 DEF p
    <3>3. CASE x = 0 /\ ByteAt(p) \notin {Quote, Backslash}
      <4>1. Inside(call.at)
        BY <3>1, <3>2, <3>3 DEF Inside
      <4>2. call' = [call EXCEPT !.at = @ + 1]
        BY <3>2, <3>3, <4>1 DEF Scan
      <4>3. call'.pc = "scan" /\ call'.at = Place(s, k + 1)
        BY <1>1, <3>1, <3>2, <3>3, <4>2 DEF Typed
      <4> QED
        BY <1>2, <3>1, <4>3 DEF Reads, Place
    <3>4. CASE x \in {1, 5} /\ ByteAt(p) = Backslash
      <4>1. Inside(call.at) /\ Inside(call.at + 1)
        BY <3>1, <3>2, <3>4 DEF Inside
      <4>2. call' = [call EXCEPT !.at = @ + 2, !.extra = @ + 1]
        BY <3>2, <3>4, <4>1 DEF Scan
      <4>3. call'.pc = "scan" /\ call'.at = p + 2
        BY <1>1, <3>2, <4>2 DEF Typed
      <4>4. CASE x = 1
        BY <1>2, <3>1, <4>3, <4>4 DEF Reads, Place
      <4>5. CASE x = 5
        <5>1. call'.at - Place(s, k) \in 2..5
          BY <3>1, <4>3 DEF p
        <5>2. Extra(literal.bytes[k + 1]) = 5
          BY <4>5 DEF x, c
        <5>3. (\E j \in 0..(Total - 1) : /\ Extra(literal.bytes[j + 1]) = 5
                                        /\ call.at - Place(s, j) \in 2..5)'
          BY <1>2, <5>1, <5>2 DEF Place
        <5> QED
          BY <4>3, <5>3 DEF Reads
      <4> QED
        BY <3>4, <4>4, <4>5
    <3> QED
      BY <3>1, <3>3, <3>4
  <2>5. ASSUME NEW k \in 0..(Total - 1), Extra(literal.bytes[k + 1]) = 5,
               call.at - Place(s, k) \in 2..5
        PROVE  Reads(s)'
    <3>1. /\ ByteAt(call.at) \notin {Quote, Backslash} /\ Inside(call.at)
          /\ \/ call.at + 1 = Place(s, k + 1) /\ k + 1 \in 0..Total
             \/ (call.at + 1) - Place(s, k) \in 2..5
      BY <1>1, <1>5, <2>5, InsideEscape
    <3>2. call' = [call EXCEPT !.at = @ + 1]
      BY <3>1 DEF Scan
    <3>3. call'.pc = "scan" /\ call'.at = call.at + 1
      BY <1>1, <3>2 DEF Typed
    <3>4. (\/ \E j \in 0..Total : call.at = Place(s, j)
           \/ \E j \in 0..(Total - 1) : /\ Extra(literal.bytes[j + 1]) = 5
                                        /\ call.at - Place(s, j) \in 2..5)'
      BY <1>2, <2>5, <3>1, <3>3 DEF Place
    <3> QED
      BY <3>3, <3>4 DEF Reads
  <2> QED
    BY <2>1, <2>2, <2>3, <2>4, <2>5
<1> QED
  BY <1>2, <1>3, <1>4, <1>5 DEF Trips

LEMMA AllocateTrips ==
  ASSUME SInv, literal.bytes \in Seq(Nat), NEW s, Laid(s), Trips(s), Allocate, literal' = literal
  PROVE  Trips(s)'
<1>1. /\ call.pc = "scan" /\ Typed /\ call.at \in Nat /\ call.output = <<>>
      /\ ByteAt(call.at) = Quote
  BY DEF Allocate, SInv, Typed
<1>2. Total' = Total /\ Whole' = Whole
  BY SameLiteral
<1>3. CASE call' = Leave("starved", 1)
  <2>1. call'.input = call.input /\ call'.pc = "starved"
    BY <1>1, <1>3 DEF Leave, Typed
  <2> QED
    BY <2>1 DEF Trips, Prints, Reads
<1>4. CASE call' = [Leave("copy", 1) EXCEPT !.end = call.at, !.size = AllocationLength + 1]
  <2>1. /\ call'.input = call.input /\ call'.pc = "copy" /\ call'.at = 1
        /\ call'.end = call.at /\ call'.output = <<>>
    BY <1>1, <1>4 DEF Leave, Typed
  <2>2. ASSUME call.input = Whole PROVE Reads(s)'
    <3>1. \/ \E k \in 0..Total : call.at = Place(s, k)
          \/ \E k \in 0..(Total - 1) : /\ Extra(literal.bytes[k + 1]) = 5
                                       /\ call.at - Place(s, k) \in 2..5
      BY <1>1, <2>2 DEF Trips, Reads
    <3>2. \A k \in 0..Total : k = Total \/ k \in 0..(Total - 1)
      BY Places
    <3>3. ASSUME NEW k \in 0..(Total - 1), call.at = Place(s, k) PROVE FALSE
      <4>1. ByteAt(call.at) # Quote
        <5>1. Quote # Backslash
          BY DEF Quote, Backslash
        <5>2. ByteAt(Place(s, k)) = Backslash \/ ByteAt(Place(s, k)) \notin {Quote, Backslash}
          BY <2>2, AtByte, Zenon
        <5> QED
          BY <3>3, <5>1, <5>2
      <4> QED
        BY <1>1, <4>1
    <3>4. ASSUME NEW k \in 0..(Total - 1), Extra(literal.bytes[k + 1]) = 5,
                 call.at - Place(s, k) \in 2..5
          PROVE  FALSE
      BY <1>1, <2>2, <3>4, InsideEscape
    <3>5. call.at = Place(s, Total)
      BY <3>1, <3>2, <3>3, <3>4
    <3>6. call'.at = Place(s, 0) /\ 0 \in 0..Total /\ Len(call'.output) = 0
      BY <2>1, Places
    <3>7. \E k \in 0..Total : /\ call'.at = Place(s, k) /\ Len(call'.output) = k
                              /\ \A i \in 1..k : call'.output[i] = literal.bytes[i]
      BY <3>6
    <3> QED
      BY <1>2, <2>1, <3>5, <3>7 DEF Reads, Place
  <2> QED
    BY <1>2, <2>1, <2>2 DEF Trips, Prints
<1> QED
  BY <1>3, <1>4 DEF Allocate

\* The second pass reads a byte of the literal.
LEMMA ByteRead ==
  ASSUME SInv, literal.bytes \in Seq(Nat), NEW s, Laid(s), literal' = literal,
         call.input = Whole, call.pc = "copy", call.end = Place(s, Total),
         NEW k \in 0..(Total - 1), call.at = Place(s, k), Len(call.output) = k,
         \A i \in 1..k : call.output[i] = literal.bytes[i],
         call' = Output(<<literal.bytes[k + 1]>>, 1 + Extra(literal.bytes[k + 1]))
  PROVE  call'.input = call.input /\ call'.pc = "copy" /\ Reads(s)'
<1> DEFINE c == literal.bytes[k + 1]
<1>1. /\ c \in Nat /\ k + 1 \in 0..Total /\ k \in Nat /\ Extra(c) \in Nat /\ Place(s, k) \in Nat
      /\ Place(s, k + 1) = Place(s, k) + (1 + Extra(c))
  <2>1. /\ c \in Nat /\ k + 1 \in 0..Total /\ Place(s, k) \in Nat
        /\ Place(s, k + 1) = Place(s, k) + 1 + Extra(c)
    BY Places
  <2>2. Extra(c) \in Nat
    BY DEF Extra
  <2> HIDE DEF c
  <2> QED
    BY <2>1, <2>2
<1>2. Typed /\ call.output \in Text
  BY DEF SInv, Typed
<1> HIDE DEF c
<1>3. /\ call'.input = call.input /\ call'.pc = "copy" /\ call'.end = call.end
      /\ call'.at = call.at + (1 + Extra(c)) /\ call'.output = call.output \o <<c>>
  BY <1>1, <1>2 DEF Output, Typed, c
<1>4. /\ Len(call.output \o <<c>>) = k + 1 /\ (call.output \o <<c>>)[k + 1] = c
      /\ \A i \in 1..k : (call.output \o <<c>>)[i] = call.output[i]
  <2>1. ASSUME NEW a \in Text
        PROVE  /\ Len(a \o <<c>>) = Len(a) + 1 /\ (a \o <<c>>)[Len(a) + 1] = c
               /\ \A i \in 1..Len(a) : (a \o <<c>>)[i] = a[i]
    BY <1>1 DEF Text
  <2> QED
    BY <1>2, <2>1
<1>5. \A i \in 1..(k + 1) : (call.output \o <<c>>)[i] = literal.bytes[i]
  <2>1. \A i \in 1..(k + 1) : i \in 1..k \/ i = k + 1
    BY <1>1
  <2> QED
    BY <1>4, <2>1 DEF c
<1>6. Total' = Total /\ Whole' = Whole
  BY SameLiteral
<1>7. call'.at = Place(s, k + 1)
  BY <1>1, <1>3
<1>8. \E j \in 0..Total : /\ call'.at = Place(s, j) /\ Len(call'.output) = j
                          /\ \A i \in 1..j : call'.output[i] = literal.bytes[i]
  BY <1>1, <1>3, <1>4, <1>5, <1>7
<1>9. Reads(s)'
  BY <1>3, <1>6, <1>8 DEF Reads, Place
<1> QED
  BY <1>3, <1>9

LEMMA Copied ==
  ASSUME literal.bytes \in Seq(Nat), NEW s, Laid(s), Reads(s), call.input = Whole, call.pc = "copy"
  PROVE  /\ call.end = Place(s, Total)
         /\ \/ /\ call.at = Place(s, Total) /\ Len(call.output) = Total
               /\ \A i \in 1..Total : call.output[i] = literal.bytes[i]
            \/ /\ call.at < call.end
               /\ \E k \in 0..(Total - 1) : /\ call.at = Place(s, k) /\ Len(call.output) = k
                                            /\ \A i \in 1..k : call.output[i] = literal.bytes[i]
<1>1. call.end = Place(s, Total)
  BY DEF Reads
<1>2. PICK k \in 0..Total : /\ call.at = Place(s, k) /\ Len(call.output) = k
                            /\ \A i \in 1..k : call.output[i] = literal.bytes[i]
  BY DEF Reads
<1>3. k = Total \/ k \in 0..(Total - 1)
  BY Places
<1>4. \A j \in 0..(Total - 1) : Place(s, j) < Place(s, Total)
  BY Places
<1> QED
  BY <1>1, <1>2, <1>3, <1>4

LEMMA SameText ==
  ASSUME NEW a \in Text, NEW b \in Text, Len(a) = Len(b), \A i \in 1..Len(a) : a[i] = b[i]
  PROVE  a = b
  BY DEF Text

LEMMA CopyByteTrips ==
  ASSUME SInv, literal.bytes \in Seq(Nat), NEW s, Laid(s), Trips(s), CopyByte, literal' = literal
  PROVE  Trips(s)'
<1>1. /\ call.pc = "copy" /\ call.at < call.end /\ ByteAt(call.at) # Backslash /\ Typed
      /\ call' = Output(<<ByteAt(call.at)>>, 1)
  BY DEF CopyByte, SInv
<1>2. call'.pc = "copy" /\ call'.input = call.input
  BY <1>1 DEF Output, Typed
<1>3. ASSUME call.input = Whole PROVE Reads(s)'
  <2>1. Reads(s)
    BY <1>3 DEF Trips
  <2>2. call.end = Place(s, Total) /\ Place(s, Total) \in Nat
    BY <1>1, <1>3, <2>1, Copied, AtEnd
  <2>3. PICK k \in 0..(Total - 1) : /\ call.at = Place(s, k) /\ Len(call.output) = k
                                    /\ \A i \in 1..k : call.output[i] = literal.bytes[i]
    BY <1>1, <1>3, <2>1, <2>2, Copied
  <2> DEFINE c == literal.bytes[k + 1]
  <2>4. Extra(c) = 0 /\ ByteAt(call.at) = c
    <3>1. \/ Extra(c) = 0 /\ ByteAt(Place(s, k)) = c
          \/ ByteAt(Place(s, k)) = Backslash
      BY <1>3, AtByte, Zenon
    <3> QED
      BY <1>1, <2>3, <3>1
  <2>5. call' = Output(<<c>>, 1 + Extra(c))
    BY <1>1, <2>4
  <2> QED
    BY <1>1, <1>3, <2>2, <2>3, <2>5, ByteRead
<1> QED
  BY <1>2, <1>3, SameLiteral DEF Trips, Prints

LEMMA CopyEscapeTrips ==
  ASSUME SInv, literal.bytes \in Seq(Nat), NEW s, Laid(s), Trips(s), CopyEscape, literal' = literal
  PROVE  Trips(s)'
<1>1. call.pc = "copy" /\ call.at < call.end /\ ByteAt(call.at) = Backslash /\ Typed
  BY DEF CopyEscape, SInv
<1>2. call'.pc \in {"copy", "failed"} /\ call'.input = call.input
  BY <1>1 DEF CopyEscape, Output, Leave, Typed
<1>3. ASSUME call.input = Whole PROVE Reads(s)'
  <2>1. Reads(s)
    BY <1>3 DEF Trips
  <2>2. call.end = Place(s, Total) /\ Place(s, Total) \in Nat
    BY <1>1, <1>3, <2>1, Copied, AtEnd
  <2>3. PICK k \in 0..(Total - 1) : /\ call.at = Place(s, k) /\ Len(call.output) = k
                                    /\ \A i \in 1..k : call.output[i] = literal.bytes[i]
    BY <1>1, <1>3, <2>1, <2>2, Copied
  <2> DEFINE c      == literal.bytes[k + 1]
             x      == Extra(c)
             p      == Place(s, k)
             escape == ByteAt(call.at + 1)
             utf16  == Utf16Literal(call.at)
             letters == {l \in DOMAIN Letter : Letter[l] = escape}
  <2>4. call.at = p /\ p \in Nat /\ c \in Nat /\ p + 1 + x <= call.end
    BY <1>3, <2>2, <2>3, AtByte
  <2>5. \/ x = 0 /\ ByteAt(p) = c /\ c \notin {Quote, Backslash}
        \/ /\ x = 1
           /\ \/ c \in {Quote, Backslash} /\ ByteAt(p + 1) = c
              \/ c \in DOMAIN Letter /\ ByteAt(p + 1) = Letter[c]
        \/ /\ x = 5 /\ c < 32 /\ ByteAt(p + 1) = U
           /\ ByteAt(p + 2) = 48 /\ ByteAt(p + 3) = 48
           /\ ByteAt(p + 4) = HexDigit(c \div 16) /\ ByteAt(p + 5) = HexDigit(c % 16)
    BY <1>3, AtByte, Zenon
  <2>6. \/ \E l \in letters : call' = Output(<<l>>, 2)
        \/ escape \in {Quote, Backslash, Solidus} /\ call' = Output(<<escape>>, 2)
        \/ escape = U /\ utf16.length > 0 /\ call' = Output(utf16.bytes, utf16.length)
        \/ /\ letters = {} /\ escape \notin {Quote, Backslash, Solidus}
           /\ escape = U => utf16.length = 0
           /\ call' = Leave("failed", call.at)
    BY Zenon DEF CopyEscape
  <2> HIDE DEF c, x, p, utf16
  <2>7. escape = ByteAt(p + 1)
    BY <2>4
  <2> HIDE DEF escape
  <2>8. call' = Output(<<c>>, 1 + x)
    <3>1. CASE x = 1 /\ c \in {Quote, Backslash} /\ ByteAt(p + 1) = c
      <4>1. letters = {} /\ escape # U
        BY <2>7, <3>1, LettersApart
      <4>2. call' = Output(<<c>>, 2)
        BY <2>6, <2>7, <3>1, <4>1, Zenon
      <4> QED
        BY <3>1, <4>2
    <3>2. CASE x = 1 /\ c \in DOMAIN Letter /\ ByteAt(p + 1) = Letter[c]
      <4>1. \A l \in letters : l = c
        BY <2>7, <3>2, LettersApart
      <4>2. escape \notin {Quote, Backslash, Solidus, U} /\ c \in letters
        BY <2>7, <3>2, LettersApart
      <4>3. call' = Output(<<c>>, 2)
        BY <2>6, <4>1, <4>2
      <4> QED
        BY <3>2, <4>3
    <3>3. CASE /\ x = 5 /\ c < 32 /\ ByteAt(p + 1) = U
               /\ ByteAt(p + 2) = 48 /\ ByteAt(p + 3) = 48
               /\ ByteAt(p + 4) = HexDigit(c \div 16) /\ ByteAt(p + 5) = HexDigit(c % 16)
      <4>1. call.end \in Nat /\ p + 6 <= call.end
        BY <2>2, <2>4, <3>3
      <4>2. utf16 = [length |-> 6, bytes |-> <<c>>]
        BY <2>4, <3>3, <4>1, UnicodeReads DEF utf16
      <4>3. letters = {} /\ escape = U /\ U \notin {Quote, Backslash, Solidus}
        BY <2>7, <3>3, LettersApart DEF U, Quote, Backslash, Solidus
      <4>4. utf16.length = 6 /\ utf16.bytes = <<c>> /\ utf16.length # 0
        BY <4>2
      <4> HIDE DEF letters
      <4>5. call' = Output(utf16.bytes, utf16.length)
        BY <2>6, <4>3, <4>4, Zenon
      <4> QED
        BY <3>3, <4>4, <4>5
    <3>4. x # 0 \/ ByteAt(p) # c \/ c \in {Quote, Backslash}
      BY <1>1, <2>4
    <3> QED
      BY <2>5, <3>1, <3>2, <3>3, <3>4
  <2> QED
    BY <1>1, <1>3, <2>2, <2>3, <2>8, ByteRead DEF c, x
<1> QED
  BY <1>2, <1>3, SameLiteral DEF Trips, Prints

LEMMA TerminateTrips ==
  ASSUME SInv, literal.bytes \in Seq(Nat), NEW s, Laid(s), Trips(s), Terminate, literal' = literal
  PROVE  Trips(s)'
<1>1. call.pc = "copy" /\ call.at >= call.end /\ Typed /\ call' = Leave("done", call.end + 1)
  BY DEF Terminate, SInv
<1>2. /\ call'.pc = "done" /\ call'.input = call.input /\ call'.at = call.end + 1
      /\ call'.output = call.output /\ call.at \in Nat /\ call.end \in Nat
  BY <1>1 DEF Leave, Typed
<1>3. ASSUME call.input = Whole PROVE call'.output = literal.bytes /\ call'.at = Len(Whole)
  <2>1. Reads(s)
    BY <1>3 DEF Trips
  <2>2. /\ call.end = Place(s, Total) /\ Len(call.output) = Total
        /\ \A i \in 1..Total : call.output[i] = literal.bytes[i]
    BY <1>1, <1>2, <1>3, <2>1, Copied
  <2>3. call.output \in Text /\ literal.bytes \in Text
    BY <1>1 DEF Typed
  <2>4. Len(Whole) = Place(s, Total) + 1
    BY Places
  <2>5. call.output = literal.bytes
    BY <2>2, <2>3, SameText DEF Total
  <2> QED
    BY <1>2, <2>2, <2>4, <2>5
<1>4. Total' = Total /\ Whole' = Whole
  BY SameLiteral
<1>5. Prints(s)'
  BY <1>2 DEF Prints
<1>6. call.input = Whole => Reads(s)'
  BY <1>2, <1>3, <1>4 DEF Reads
<1> QED
  BY <1>2, <1>4, <1>5, <1>6 DEF Trips

LEMMA MeasureTrips ==
  ASSUME SInv, literal.bytes \in Seq(Nat), NEW s, Laid(s), Trips(s), Measure, literal' = literal
  PROVE  Trips(s)'
<1>1. /\ call.pc = "measure" /\ Typed /\ call.input = literal.bytes /\ call.at \in 0..Total
      /\ call.extra = s[call.at] /\ call.at < Total
      /\ call' = [call EXCEPT !.extra = @ + Extra(ByteAt(call.at)), !.at = @ + 1]
  BY DEF Measure, SInv, Trips, Prints, Inside, Total
<1>2. /\ call'.pc = "measure" /\ call'.input = call.input /\ call'.at = call.at + 1
      /\ call'.extra = s[call.at] + Extra(literal.bytes[call.at + 1])
  BY <1>1 DEF Typed, ByteAt
<1>3. call.at \in 0..(Total - 1) /\ call.at + 1 \in 0..Total
  <2>1. Total \in Nat
    BY Places
  <2> QED
    BY <1>1, <2>1
<1>4. call'.extra = s[call'.at]
  BY <1>2, <1>3, Places
<1>5. Total' = Total /\ Whole' = Whole
  BY SameLiteral
<1>6. Prints(s)'
  BY <1>1, <1>2, <1>3, <1>4, <1>5 DEF Prints
<1>7. Reads(s)'
  BY <1>2 DEF Reads
<1> QED
  BY <1>6, <1>7 DEF Trips

\* What has no escapes is copied at once.
LEMMA PlainPrinted ==
  ASSUME literal.bytes \in Seq(Nat), NEW s, Laid(s), s[Total] = 0
  PROVE  Quoted(literal.bytes) = Whole
<1>1. /\ Total \in Nat /\ literal.bytes \in Text /\ Whole \in Text /\ Len(Whole) = Place(s, Total) + 1
      /\ Whole[1] = Quote /\ Whole[Place(s, Total) + 1] = Quote
  BY Places
<1>2. Place(s, Total) = Total + 1
  BY <1>1 DEF Place
<1>3. /\ Quoted(literal.bytes) \in Text /\ Len(Quoted(literal.bytes)) = Total + 2
      /\ Quoted(literal.bytes)[1] = Quote /\ Quoted(literal.bytes)[Total + 2] = Quote
      /\ \A i \in 1..Total : Quoted(literal.bytes)[i + 1] = literal.bytes[i]
  <2>1. ASSUME NEW a \in Text
        PROVE  /\ Quoted(a) \in Text /\ Len(Quoted(a)) = Len(a) + 2
               /\ Quoted(a)[1] = Quote /\ Quoted(a)[Len(a) + 2] = Quote
               /\ \A i \in 1..Len(a) : Quoted(a)[i + 1] = a[i]
    BY DEF Quoted, Text, Quote
  <2> QED
    BY <1>1, <2>1 DEF Total
<1>4. ASSUME NEW i \in 1..Total PROVE Whole[i + 1] = literal.bytes[i]
  <2>1. i - 1 \in 0..(Total - 1) /\ (i - 1) + 1 = i /\ i \in 0..Total /\ i - 1 \in 0..Total
    BY <1>1
  <2> DEFINE c == literal.bytes[i]
  <2>2. /\ s[i] \in Nat /\ s[i - 1] \in Nat /\ s[i] = s[i - 1] + Extra(c) /\ c \in Nat
        /\ Place(s, i) <= Place(s, Total)
    BY <2>1, Places
  <2>3. Extra(c) \in Nat
    BY DEF Extra
  <2>4. s[i] <= s[Total]
    BY <2>1 DEF Laid, LaidOut, Sums, Total
  <2>5. s[i - 1] = 0 /\ Extra(c) = 0
    BY <2>2, <2>3, <2>4
  <2>6. Whole[Place(s, i - 1) + 1] = Escaped(c)[1]
    <3>1. \A j \in 1..(1 + Extra(literal.bytes[(i - 1) + 1])) :
            Whole[Place(s, i - 1) + j] = Escaped(literal.bytes[(i - 1) + 1])[j]
      <4>1. \A k \in 0..(Total - 1) : \A j \in 1..(1 + Extra(literal.bytes[k + 1])) :
              Whole[Place(s, k) + j] = Escaped(literal.bytes[k + 1])[j]
        BY Places
      <4>2. i - 1 \in 0..(Total - 1)
        BY <2>1
      <4> QED
        BY <4>1, <4>2, Zenon
    <3>2. \A j \in 1..(1 + Extra(c)) : Whole[Place(s, i - 1) + j] = Escaped(c)[j]
      BY <2>1, <3>1, Zenon
    <3>3. 1 \in 1..(1 + Extra(c))
      BY <2>3
    <3> QED
      BY <3>2, <3>3, Zenon
  <2>7. Escaped(c)[1] = c
    BY <2>2, <2>5, EscapeForms
  <2>8. Place(s, i - 1) + 1 = i + 1
    BY <2>5 DEF Place
  <2> QED
    BY <2>6, <2>7, <2>8
<1>5. ASSUME NEW i \in 1..(Total + 2) PROVE Quoted(literal.bytes)[i] = Whole[i]
  <2>1. CASE i = 1
    BY <1>1, <1>3, <2>1
  <2>2. CASE i = Total + 2
    BY <1>1, <1>2, <1>3, <2>2
  <2>3. CASE i # 1 /\ i # Total + 2
    <3>1. i - 1 \in 1..Total /\ (i - 1) + 1 = i
      BY <1>1, <2>3
    <3>2. Quoted(literal.bytes)[(i - 1) + 1] = literal.bytes[i - 1]
      BY <1>3, <3>1
    <3>3. Whole[(i - 1) + 1] = literal.bytes[i - 1]
      BY <1>4, <3>1
    <3> QED
      BY <3>1, <3>2, <3>3
  <2> QED
    BY <2>1, <2>2, <2>3
<1>6. Len(Whole) = Total + 2
  BY <1>1, <1>2
<1> QED
  BY <1>1, <1>3, <1>5, <1>6, SameText

LEMMA EnsureTrips ==
  ASSUME SInv, literal.bytes \in Seq(Nat), NEW s, Laid(s), Trips(s), EnsureString, literal' = literal
  PROVE  Trips(s)'
<1>1. /\ Total' = Total /\ Whole' = Whole /\ Total \in Nat /\ s[Total] \in Nat
      /\ Place(s, Total) = 1 + Total + s[Total] /\ Len(Whole) = Place(s, Total) + 1
      /\ Whole[1] = Quote /\ Place(s, 0) = 1
  <2>1. Total \in 0..Total
    BY Places
  <2> QED
    BY <2>1, SameLiteral, Places DEF Place
<1>2. /\ call.pc = "measure" /\ Typed /\ call.input = literal.bytes /\ call.at = Total
      /\ call.extra = s[Total]
  BY <1>1 DEF EnsureString, SInv, Trips, Prints, Inside, Total
<1> DEFINE size == Len(call.input) + call.extra + 3
<1>3. size = Len(Whole) + 1
  <2> DEFINE y == s[Total]
  <2>1. y \in Nat /\ Total \in Nat /\ Len(Whole) = 1 + Total + y + 1 /\ size = Total + y + 3
    BY <1>1, <1>2 DEF Total
  <2> HIDE DEF y, size, Total
  <2>2. 1 + Total + y + 1 = Total + y + 2 /\ Total + y + 3 = Total + y + 2 + 1
    BY <2>1
  <2> QED
    BY <2>1, <2>2
<1>4. \/ /\ call.extra = 0
         /\ call' = [Leave("printed", 0) EXCEPT !.size = size, !.output = Quoted(call.input)]
      \/ call' = [Leave("write", 0) EXCEPT !.size = size, !.output = <<Quote>>]
      \/ call' = Leave("starved", 0)
  BY Zenon DEF EnsureString, Quoted, size
<1> HIDE DEF size
<1>5. call'.input = call.input /\ call'.pc \in {"printed", "write", "starved"}
  BY <1>2, <1>4 DEF Leave, Typed
<1>6. Reads(s)'
  BY <1>5 DEF Reads
<1>7. CASE /\ call.extra = 0
           /\ call' = [Leave("printed", 0) EXCEPT !.size = size, !.output = Quoted(call.input)]
  <2>1. call'.pc = "printed" /\ call'.output = Quoted(literal.bytes)
    BY <1>2, <1>7 DEF Leave, Typed
  <2>2. Quoted(literal.bytes) = Whole
    BY <1>2, <1>7, PlainPrinted
  <2> QED
    BY <1>1, <1>6, <2>1, <2>2 DEF Trips, Prints
<1>8. CASE call' = [Leave("write", 0) EXCEPT !.size = size, !.output = <<Quote>>]
  <2>1. /\ call'.pc = "write" /\ call'.size = size /\ call'.output = <<Quote>> /\ call'.at = 0
        /\ call'.input = literal.bytes
    BY <1>2, <1>8 DEF Leave, Typed
  <2>2. Len(call'.output) = Place(s, call'.at) /\ \A i \in 1..Len(call'.output) : call'.output[i] = Whole[i]
    BY <1>1, <2>1 DEF Quote
  <2>3. call'.at \in 0..Total
    BY <1>1, <2>1
  <2>4. Prints(s)'
    BY <1>1, <1>3, <2>1, <2>2, <2>3 DEF Prints, Place
  <2> QED
    BY <1>6, <2>4 DEF Trips
<1>9. CASE call' = Leave("starved", 0)
  <2>1. call'.pc = "starved"
    BY <1>2, <1>9 DEF Leave, Typed
  <2> QED
    BY <1>6, <2>1 DEF Trips, Prints
<1> QED
  BY <1>4, <1>7, <1>8, <1>9

LEMMA WriteTrips ==
  ASSUME SInv, literal.bytes \in Seq(Nat), NEW s, Laid(s), Trips(s), WriteByte, literal' = literal
  PROVE  Trips(s)'
<1>1. /\ call.pc = "write" /\ Typed /\ call.input = literal.bytes /\ call.at \in 0..Total
      /\ call.at < Total /\ Len(call.output) = Place(s, call.at) /\ call.size = Len(Whole) + 1
      /\ \A i \in 1..Len(call.output) : call.output[i] = Whole[i]
      /\ call' = Output(Escaped(ByteAt(call.at)), 1)
  BY DEF WriteByte, SInv, Trips, Prints, Inside, Total
<1> DEFINE k == call.at
           c == literal.bytes[k + 1]
           e == Escaped(c)
<1>2. k \in 0..(Total - 1) /\ k + 1 \in 0..Total
  <2>1. Total \in Nat
    BY Places
  <2> QED
    BY <1>1, <2>1
<1>3. /\ c \in Nat /\ Place(s, k) \in Nat /\ Place(s, k + 1) = Place(s, k) + 1 + Extra(c)
      /\ \A j \in 1..(1 + Extra(c)) : Whole[Place(s, k) + j] = e[j]
  <2>1. k + 1 \in 1..Total /\ k \in 0..Total
    BY <1>1, <1>2
  <2> QED
    BY <1>2, <2>1, Places
<1>4. e \in Text /\ Len(e) = 1 + Extra(c) /\ Extra(c) \in Nat
  <2>1. Extra(c) \in Nat
    BY DEF Extra
  <2>2. c \in Int
    BY <1>3
  <2>3. e \in Seq(Int) /\ Len(e) = 1 + Extra(c)
    BY <2>2, EscapedLength, Zenon
  <2> HIDE DEF e
  <2> QED
    BY <2>1, <2>3 DEF Text
<1>5. /\ call'.pc = "write" /\ call'.at = k + 1 /\ call'.input = literal.bytes
      /\ call'.size = call.size /\ call'.output = call.output \o e
  <2>1. ByteAt(call.at) = c
    BY <1>1 DEF ByteAt
  <2> HIDE DEF c
  <2> QED
    BY <1>1, <2>1 DEF Output, Typed
<1> HIDE DEF c, e
<1>6. /\ Len(call.output \o e) = Len(call.output) + Len(e) /\ Len(call.output) \in Nat
      /\ \A i \in 1..Len(call.output) : (call.output \o e)[i] = call.output[i]
      /\ \A i \in 1..Len(e) : (call.output \o e)[Len(call.output) + i] = e[i]
  <2>1. call.output \in Text
    BY <1>1 DEF Typed
  <2> QED
    BY <1>4, <2>1, Joined, JoinedBytes
<1>7. Len(call.output \o e) = Place(s, k + 1)
  BY <1>1, <1>3, <1>4, <1>6
<1>8. ASSUME NEW i \in 1..Len(call.output \o e)
      PROVE  (call.output \o e)[i] = Whole[i]
  <2> DEFINE m == Len(call.output)
             j == i - m
  <2>1. m \in Nat /\ Place(s, k) = m /\ Len(e) \in Nat /\ Len(call.output \o e) = m + Len(e)
    BY <1>1, <1>4, <1>6
  <2>2. i \in 1..m \/ (j \in 1..Len(e) /\ m + j = i)
    <3> HIDE DEF m
    <3> QED
      BY <2>1
  <2>3. CASE i \in 1..m
    BY <1>1, <1>6, <2>3
  <2>4. CASE j \in 1..Len(e) /\ m + j = i
    <3> HIDE DEF j
    <3>1. (call.output \o e)[m + j] = e[j]
      BY <1>6, <2>4
    <3>2. Whole[m + j] = e[j]
      BY <1>3, <1>4, <2>1, <2>4
    <3> QED
      BY <2>4, <3>1, <3>2
  <2> QED
    BY <2>2, <2>3, <2>4
<1>9. Total' = Total /\ Whole' = Whole
  BY SameLiteral
<1>10. Prints(s)'
  BY <1>1, <1>2, <1>5, <1>7, <1>8, <1>9 DEF Prints, Place
<1>11. Reads(s)'
  BY <1>5 DEF Reads
<1> QED
  BY <1>10, <1>11 DEF Trips

LEMMA CloseTrips ==
  ASSUME SInv, literal.bytes \in Seq(Nat), NEW s, Laid(s), Trips(s), CloseString, literal' = literal
  PROVE  Trips(s)'
<1>1. /\ call.pc = "write" /\ Typed /\ call.at = Total /\ Total \in Nat
      /\ Len(call.output) = Place(s, Total) /\ call.size = Len(Whole) + 1
      /\ \A i \in 1..Len(call.output) : call.output[i] = Whole[i]
      /\ Len(Whole) = Place(s, Total) + 1 /\ Place(s, Total) \in Nat /\ Whole \in Text
      /\ Whole[Place(s, Total) + 1] = Quote
  <2>1. /\ Total \in Nat /\ Total \in 0..Total /\ Len(Whole) = Place(s, Total) + 1
        /\ Place(s, Total) \in Nat /\ Whole \in Text /\ Whole[Place(s, Total) + 1] = Quote
    BY Places
  <2>2. /\ call.pc = "write" /\ Typed /\ call.at \in 0..Total /\ ~(call.at < Total)
        /\ Len(call.output) = Place(s, call.at) /\ call.size = Len(Whole) + 1
        /\ \A i \in 1..Len(call.output) : call.output[i] = Whole[i]
    BY DEF CloseString, SInv, Trips, Prints, Inside, Total
  <2>3. call.at = Total
    BY <2>1, <2>2
  <2> QED
    BY <2>1, <2>2, <2>3
<1> DEFINE written == [i \in 1..(call.size - 1) |-> IF i = call.size - 1 THEN Quote ELSE call.output[i]]
<1>2. /\ call'.pc = "printed" /\ call'.input = call.input /\ call'.output = written
  BY <1>1 DEF CloseString, Leave, Typed
<1>3. written = Whole
  <2> DEFINE m == Place(s, Total) + 1
  <2>1. call.size - 1 = m /\ m \in Nat /\ Len(Whole) = m
    BY <1>1
  <2>2. ASSUME NEW i \in 1..m PROVE written[i] = Whole[i] /\ Whole[i] \in Int
    <3>1. Whole[i] \in Int
      BY <1>1, <2>1 DEF Text
    <3>2. i = m \/ i \in 1..Len(call.output)
      BY <1>1
    <3> QED
      BY <1>1, <2>1, <3>1, <3>2
  <2>3. written \in [1..m -> Int]
    BY <2>1, <2>2
  <2>4. DOMAIN written = 1..m
    BY <2>1
  <2> HIDE DEF written, m
  <2>5. written \in Text /\ Len(written) = m
    BY <2>1, <2>3 DEF Text
  <2> QED
    BY <1>1, <2>1, <2>2, <2>5, SameText
<1>4. Prints(s)'
  BY <1>2, <1>3, SameLiteral DEF Prints
<1>5. Reads(s)'
  BY <1>2 DEF Reads
<1> QED
  BY <1>4, <1>5 DEF Trips

LEMMA BeginTrips ==
  ASSUME literal.bytes \in Seq(Nat), NEW s, Laid(s), literal' = literal, NEW b \in Text,
         call' = ParseCall(b) \/ (b = literal.bytes /\ call' = PrintCall(b))
  PROVE  Trips(s)'
<1>1. Total' = Total /\ Whole' = Whole
  BY SameLiteral
<1>2. /\ Whole[1] = Quote /\ s[0] = 0 /\ Place(s, 0) = 1 /\ 0 \in 0..Total
  BY Places
<1>3. CASE call' = ParseCall(b)
  <2>1. /\ call'.input = b /\ call'.at = 1
        /\ call'.pc = IF b[1] = Quote THEN "scan" ELSE "failed"
    BY <1>3 DEF ParseCall, NoCall
  <2>2. Prints(s)'
    BY <2>1 DEF Prints
  <2>3. ASSUME b = Whole PROVE Reads(s)'
    <3>1. call'.pc = "scan" /\ call'.at = Place(s, 0)
      BY <1>2, <2>1, <2>3
    <3> QED
      BY <1>1, <1>2, <3>1 DEF Reads, Place
  <2> QED
    BY <1>1, <2>1, <2>2, <2>3 DEF Trips
<1>4. CASE b = literal.bytes /\ call' = PrintCall(b)
  <2>1. call'.input = literal.bytes /\ call'.at = 0 /\ call'.extra = 0 /\ call'.pc = "measure"
    BY <1>4 DEF PrintCall, NoCall
  <2>2. Prints(s)' /\ Reads(s)'
    BY <1>1, <1>2, <2>1 DEF Prints, Reads
  <2> QED
    BY <2>2 DEF Trips
<1> QED
  BY <1>3, <1>4

LEMMA TripInit == StringsInit => TripInv
<1> SUFFICES ASSUME StringsInit PROVE TripInv
  OBVIOUS
<1>1. literal.bytes = <<>> /\ call.pc = "idle" /\ call.input = <<>>
  BY DEF StringsInit, NoCall
<1>2. literal.bytes \in Seq(Nat)
  BY <1>1
<1> QED
  BY <1>1, <1>2 DEF TripInv, Prints, Reads

LEMMA ExtendTrips ==
  ASSUME SInv, TripInv, Extend
  PROVE  TripInv'
<1>1. PICK c \in Chunks : literal' = [bytes |-> literal.bytes \o c.bytes,
                                      units |-> Append(literal.units, c.unit)]
  BY DEF Extend
<1>2. literal'.bytes \in Seq(Nat)
  <2>1. c.bytes \in Seq(Nat \ {0})
    BY ChunksAssumption DEF ChunksAssumption
  <2>2. c.bytes \in Seq(Nat) /\ literal.bytes \in Seq(Nat)
    BY <2>1 DEF TripInv
  <2> QED
    BY <1>1, <2>2
<1>3. call'.pc = "idle"
  BY DEF Extend, NoCall
<1>4. ASSUME NEW s PROVE Prints(s)' /\ Reads(s)'
  BY <1>3 DEF Prints, Reads
<1> QED
  BY <1>2, <1>4 DEF TripInv

LEMMA StringsNextTrips == SInv /\ TripInv /\ [StringsNext]_Strings => TripInv'
<1> SUFFICES ASSUME SInv, TripInv, [StringsNext]_Strings PROVE TripInv'
  OBVIOUS
<1>1. literal.bytes \in Text /\ Quoted(literal.bytes) \in Text /\ call.output \in Text
  <2>1. literal.bytes \in Text /\ call.output \in Text
    BY DEF SInv, Typed
  <2> QED
    BY <2>1 DEF Quoted, Text, Quote
<1>2. literal.bytes \in Seq(Nat)
  BY DEF TripInv
<1>3. ASSUME literal' = literal, NEW s, Laid(s)', StringsNext
      PROVE  Trips(s)'
  <2>1. Laid(s) /\ Trips(s)
    BY <1>3 DEF Laid, Whole, TripInv, Trips
  <2>2. ASSUME NEW b \in Text, (PrintString(b) /\ b = literal.bytes) \/ ParseString(b)
        PROVE  Trips(s)'
    BY <1>2, <1>3, <2>1, <2>2, BeginTrips DEF PrintString, ParseString
  <2>3. CASE Loops
    BY <1>2, <1>3, <2>1, <2>3, ScanTrips, AllocateTrips, CopyByteTrips, CopyEscapeTrips, TerminateTrips,
       MeasureTrips, EnsureTrips, WriteTrips, CloseTrips DEF Loops
  <2>4. CASE \E b \in {Quoted(literal.bytes), literal.bytes} : b # <<>> /\ ParseString(b)
    BY <1>1, <2>2, <2>4
  <2>5. CASE PrintString(literal.bytes)
    BY <1>1, <2>2, <2>5
  <2>6. CASE call.pc = "printed" /\ ParseString(call.output)
    BY <1>1, <2>2, <2>6
  <2>7. CASE Extend
    BY <1>3, <2>7, ExtendTrips DEF TripInv, Trips
  <2> QED
    BY <1>3, <2>3, <2>4, <2>5, <2>6, <2>7 DEF StringsNext
<1>4. CASE StringsNext /\ literal' = literal
  BY <1>2, <1>3, <1>4 DEF TripInv, Trips
<1>5. CASE Extend
  BY <1>5, ExtendTrips
<1>6. CASE UNCHANGED Strings
  BY <1>6 DEF Strings, TripInv, Laid, Whole, Prints, Reads, Total, Place
<1> QED
  BY <1>4, <1>5, <1>6 DEF StringsNext

\* parse_string reads back what print_string_ptr printed, to its last byte: whatever the
\* bytes of the string, however long, and whatever was parsed before.
THEOREM ReadBack == StringsSpec => []RoundTrip
<1>1. SInv /\ TripInv => RoundTrip
  <2> SUFFICES ASSUME SInv, TripInv PROVE RoundTrip
    OBVIOUS
  <2>1. literal.bytes \in Text
    BY DEF SInv, Typed
  <2>2. PICK s : Laid(s)
    BY <2>1, PrintedLaidOut DEF Laid, Whole
  <2>3. Prints(s) /\ (call.input = Whole => Reads(s))
    BY <2>2 DEF TripInv
  <2>4. Whole = Quoted(FlattenSeq([i \in DOMAIN literal.bytes |-> Escaped(literal.bytes[i])]))
    BY Zenon DEF Whole, Printed
  <2>5. /\ call.pc = "printed" => call.output = Whole
        /\ call.input = Whole =>
             /\ call.pc # "failed"
             /\ call.pc = "done" => call.output = literal.bytes /\ call.at = Len(Whole)
    BY <2>3 DEF Prints, Reads
  <2> QED
    BY <2>4, <2>5, Zenon DEF RoundTrip
<1> QED
  BY <1>1, StringsInitSInv, StringsNextSInv, TripInit, StringsNextTrips, PTL DEF StringsSpec

=============================================================================
