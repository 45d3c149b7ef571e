----------------------------- MODULE PrintBuffer -----------------------------
(***************************************************************************)
(* The buffer that cJSON prints into: ensure, update_offset, and the calls *)
(* that own the buffer (print, cJSON_PrintBuffered,                        *)
(* cJSON_PrintPreallocated).                                               *)
(*                                                                         *)
(* What the print functions do to it is a sequence of pieces.  A piece     *)
(* asks ensure for room, writes bytes from the offset on and advances the  *)
(* offset past some of them; if it ends in NUL and does not advance, its   *)
(* caller measures it with update_offset.  Which pieces an item gives is   *)
(* in JsonPrinter; here they are arbitrary, as long as a piece writes no   *)
(* more than it asked for.                                                 *)
(***************************************************************************)
EXTENDS Integers, Sequences

CONSTANTS
  Bytes,         \* what is printed, NUL not included
  IntMax,        \* INT_MAX
  DefaultSize,   \* default_buffer_size of print
  Pieces,        \* the pieces that may be printed
  MaxSize,       \* bound on the size of a buffer
  MaxMemory      \* and on the number of allocations that succeed

NUL == "NUL"     \* the byte 0
Raw == "raw"     \* a byte of fresh memory, whatever it is

PieceSet ==
  [need : Nat, bytes : Seq(Bytes \cup {NUL}), advance : Nat, measured : BOOLEAN]

\* What the print functions keep to.
Proper(piece) ==
  /\ Len(piece.bytes) <= piece.need
  /\ piece.advance <= Len(piece.bytes)
  /\ piece.measured => NUL \in {piece.bytes[i] : i \in (piece.advance + 1)..Len(piece.bytes)}

ASSUME PrintAssumption ==
  /\ IntMax \in Nat /\ DefaultSize \in Nat \ {0} /\ MaxSize \in Nat /\ MaxMemory \in Nat
  /\ Pieces \subseteq PieceSet /\ \A piece \in Pieces : Proper(piece)
  /\ NUL \notin Bytes /\ Raw \notin Bytes

VARIABLE out     \* the printbuffer, and what the allocator still gives

(* buffer is its content, null says that the pointer is; shrink that the    *)
(* caller is print, noalloc that it is cJSON_PrintPreallocated; realloc is   *)
(* there unless the hooks were replaced.  blocks counts what the call has    *)
(* allocated and not freed, memory what the allocator still gives.           *)
States == {"idle", "printing", "failed", "overrun", "overread", "printed"}
Printbuffers ==
  [buffer : Seq(Bytes \cup {NUL, Raw}), null : BOOLEAN, offset : Nat, noalloc : BOOLEAN,
   realloc : BOOLEAN, shrink : BOOLEAN, blocks : Int, memory : Nat, state : States]

Size(p) == Len(p.buffer)

-----------------------------------------------------------------------------
(* ensure.                                                                 *)

Doubled(n) == IF n > IntMax \div 2 THEN IntMax ELSE n * 2

\* The first kept bytes of the buffer in a block of the given size.
Moved(p, size, kept) == [i \in 1..size |-> IF i <= kept /\ i <= Size(p) THEN p.buffer[i] ELSE Raw]

\* By realloc, or by a copy up to the offset; the copy of a buffer that is empty
\* reads a byte that is not there, and what follows is undefined.
Grown(p, size) ==
  IF ~p.realloc /\ p.offset + 1 > Size(p) THEN [p EXCEPT !.state = "overread"]
  ELSE [p EXCEPT !.buffer = Moved(p, size, IF p.realloc THEN Size(p) ELSE p.offset + 1),
                 !.memory = @ - 1]

Fails(p) == [p EXCEPT !.state = "failed"]

\* There is no memory: ensure frees the buffer and clears the pointer.
StaysSet(p) == [Fails(p) EXCEPT !.blocks = @ - 1]   \* mutant: the pointer stays
Dropped(p)  == [Fails(p) EXCEPT !.blocks = @ - 1, !.null = TRUE, !.buffer = <<>>]

NeedsNoMore(p, needed) == needed   \* mutant: what is printed already is forgotten
Needs(p, needed) == needed + p.offset + 1

Ensure(p, needed) ==
  LET total == Needs(p, needed)
  IN  CASE Size(p) > 0 /\ p.offset >= Size(p) -> Fails(p)
        [] (Size(p) = 0 \/ p.offset < Size(p)) /\ needed > IntMax -> Fails(p)
        [] OTHER -> CASE total <= Size(p) -> p
                      [] total > Size(p) /\ (p.noalloc \/ total > IntMax) -> Fails(p)
                      [] OTHER -> IF p.memory = 0 THEN Dropped(p) ELSE Grown(p, Doubled(total))

-----------------------------------------------------------------------------
(* Writing, and update_offset.                                             *)

Written(p, bytes) ==
  IF p.offset + Len(bytes) > Size(p) THEN [p EXCEPT !.state = "overrun"]
  ELSE [p EXCEPT !.buffer = [i \in 1..Size(p) |->
                               IF i \in (p.offset + 1)..(p.offset + Len(bytes))
                               THEN bytes[i - p.offset] ELSE p.buffer[i]]]

\* What strlen stops at from the offset on: a NUL that was written, if all is well.
Halts(p) == {i \in p.offset..(Size(p) - 1) : p.buffer[i + 1] \in {NUL, Raw}}
FirstHalt(p) == CHOOSE i \in Halts(p) : \A j \in Halts(p) : i <= j
Terminated(p) == Halts(p) # {} /\ p.buffer[FirstHalt(p) + 1] = NUL

UpdateOffset(p) ==
  IF Terminated(p) THEN [p EXCEPT !.offset = FirstHalt(p)] ELSE [p EXCEPT !.state = "overrun"]

Emit(p, piece) ==
  LET room    == Ensure(p, piece.need)
      written == Written(room, piece.bytes)
      past    == [written EXCEPT !.offset = @ + piece.advance]
  IN  CASE room.state # "printing" -> room
        [] room.state = "printing" /\ written.state # "printing" -> written
        [] OTHER -> IF piece.measured THEN UpdateOffset(past) ELSE past

-----------------------------------------------------------------------------
(* The calls that own the buffer.                                          *)

NoBuffer == [buffer |-> <<>>, null |-> TRUE, offset |-> 0, noalloc |-> FALSE, realloc |-> TRUE,
             shrink |-> FALSE, blocks |-> 0, memory |-> 0, state |-> "idle"]

Fresh(size, own, memory, realloc, shrink) ==
  [buffer |-> [i \in 1..size |-> Raw], null |-> FALSE, offset |-> 0, noalloc |-> ~own,
   realloc |-> realloc, shrink |-> shrink, blocks |-> IF own THEN 1 ELSE 0, memory |-> memory,
   state |-> "printing"]

PrintStart(memory, realloc)          == Fresh(DefaultSize, TRUE, memory, realloc, TRUE)
BufferedStart(size, memory, realloc) == Fresh(size, TRUE, memory, realloc, FALSE)
PreallocatedStart(size)              == Fresh(size, FALSE, 0, TRUE, FALSE)

\* The end of print: a block of the right size takes the place of the buffer.
Shrunk(p) ==
  CASE p.memory = 0 -> [p EXCEPT !.state = "failed"]
    [] p.memory > 0 /\ p.realloc ->
         [p EXCEPT !.buffer = Moved(p, p.offset + 1, Size(p)), !.state = "printed"]
    [] OTHER ->
         [p EXCEPT !.buffer = [Moved(p, p.offset + 1, Size(p)) EXCEPT ![p.offset + 1] = NUL],
                   !.state = "printed"]

Returned(p) == IF p.shrink /\ Terminated(p) THEN Shrunk(UpdateOffset(p))
               ELSE IF p.shrink THEN UpdateOffset(p) ELSE [p EXCEPT !.state = "printed"]

\* The fail label: the buffer is freed if the pointer is set.
Abandoned(p) == [NoBuffer EXCEPT !.blocks = IF p.null \/ p.noalloc THEN p.blocks ELSE p.blocks - 1]

-----------------------------------------------------------------------------
PrintInit == out = NoBuffer

Begin ==
  /\ out = NoBuffer
  /\ \/ \E memory \in 0..MaxMemory, realloc \in BOOLEAN : out' = PrintStart(memory, realloc)
     \/ \E size \in 0..MaxSize, memory \in 0..MaxMemory, realloc \in BOOLEAN :
          out' = BufferedStart(size, memory, realloc)
     \/ \E size \in 0..MaxSize : out' = PreallocatedStart(size)

PrintPiece ==
  /\ out.state = "printing"
  /\ \E piece \in Pieces : Size(Emit(out, piece)) <= MaxSize /\ out' = Emit(out, piece)

\* A value ends with a NUL after it.
Return ==
  /\ out.state = "printing" /\ Terminated(out)
  /\ out' = Returned(out)

Abandon == out.state = "failed" /\ out' = Abandoned(out)

\* The client frees the text.
FreeText ==
  /\ out.state = "printed"
  /\ out' = [NoBuffer EXCEPT !.blocks = IF out.noalloc THEN out.blocks ELSE out.blocks - 1]

PrintNext == Begin \/ PrintPiece \/ Return \/ Abandon \/ FreeText

PrintSpec == PrintInit /\ [][PrintNext]_out

-----------------------------------------------------------------------------
\* Nothing is written outside the buffer, and nothing read but by the copy of an
\* empty one: cJSON_PrintBuffered with a prebuffer of 0, under hooks without
\* realloc. Nor does strlen run through memory that was never written.
InBounds ==
  /\ out.state # "overrun"
  /\ out.state = "overread" =>
       Size(out) = 0 /\ out.offset = 0 /\ ~out.realloc /\ ~out.noalloc /\ ~out.shrink

\* No block is lost or freed twice, whichever allocation fails.
BlocksFreed == out.state = "idle" => out.blocks = 0

=============================================================================
