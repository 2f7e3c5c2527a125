-------------------------------- MODULE Sha1 --------------------------------
(***************************************************************************)
(* The SHA1 engine of sha1.c (hash_init, hash_step, hash_finish), of which *)
(* db_hashing.c has a copy over a global context that is used again for    *)
(* every file.                                                             *)
(*                                                                         *)
(* The engine cuts the bytes it is given, in pieces of any length, into    *)
(* blocks, and ends them with a padding that holds the length of all.      *)
(* SHA1Transform is a function of the blocks it was given so far, so the   *)
(* digest stands for the blocks, one after the other.  A byte is a tuple   *)
(* that names it; unsigned int has Word values instead of 2^32, a block    *)
(* Block bytes instead of 64, the length LenField instead of 8.            *)
(***************************************************************************)
EXTENDS Integers, Sequences

CONSTANTS
  Word,       \* 2^32: how many values an unsigned int has
  Block,      \* 64: the bytes of a block
  LenField,   \* 8: the bytes of the length in the padding
  MaxLen,     \* bound: the bytes of one piece of a message
  MaxBytes    \* bound: the bytes of a message that is given in pieces

\* The lengths callers pass are ints: j + len does not wrap.
ASSUME Sha1Assumption ==
  /\ {Word, Block, LenField} \subseteq Nat \ {0} /\ {MaxLen, MaxBytes} \subseteq Nat
  /\ LenField < Block /\ Word % (8 * Block) = 0
  /\ 2 * MaxLen < Word /\ Block + MaxLen < Word

VARIABLES
  cx,          \* the context: count (the bits given, low word first), the
               \* buffer of the block that is not full, and the state, which
               \* is all the bytes transformed
  finalcount,  \* the length field hash_finish computed
  message,     \* ghost: the bytes the caller gave
  pc

engine == <<cx, finalcount, message, pc>>

One  == <<"0x80">>
Zero == <<"0x00">>
LengthField(length) == [at \in 1..LenField |-> <<"length", length, at>>]

\* len bytes of a message that has from bytes before them.
Piece(from, len) == [at \in 1..len |-> <<"byte", from + at>>]

EngineInit ==
  /\ cx = [count |-> <<0, 0>>, state |-> <<>>, buffer |-> [at \in 1..Block |-> <<"junk">>]]
  /\ finalcount = <<>> /\ message = <<>> /\ pc = "input"
-----------------------------------------------------------------------------
(* p->count, after len bytes more. *)
NewCount(count, len) ==
  LET low == (count[1] + 8 * len) % Word
      carry == IF low < count[1] THEN (8 * len) \div Word + 1 ELSE 0
  IN <<low, (count[2] + carry) % Word>>

\* How many bytes of the buffer count.
Used(c) == (c.count[1] \div 8) % Block

(* Two mutants of Stepped: a block that is just full waits in the buffer   *)
(* for the next byte; what is left of data is taken as a block.            *)
SteppedWaits(c, data) ==
  LET len    == Len(data)
      first  == Block - Used(c)
      i      == first + Block * ((len - first) \div Block)
      filled == SubSeq(SubSeq(c.buffer, 1, Used(c)) \o data
                         \o SubSeq(c.buffer, Used(c) + len + 1, Block), 1, Block)
  IN IF len <= first
     THEN [c EXCEPT !.count = NewCount(@, len), !.buffer = filled]
     ELSE [count  |-> NewCount(c.count, len),
           state  |-> c.state \o filled \o SubSeq(data, first + 1, i),
           buffer |-> SubSeq(data, i + 1, len) \o SubSeq(filled, len - i + 1, Block)]

SteppedPartial(c, data) ==
  LET len    == Len(data)
      first  == Block - Used(c)
      filled == SubSeq(SubSeq(c.buffer, 1, Used(c)) \o data
                         \o SubSeq(c.buffer, Used(c) + len + 1, Block), 1, Block)
  IN IF len < first
     THEN [c EXCEPT !.count = NewCount(@, len), !.buffer = filled]
     ELSE [count  |-> NewCount(c.count, len), buffer |-> filled,
           state  |-> c.state \o filled \o SubSeq(data, first + 1, len)]

(* hash_step: the bytes first fill the buffer, then whole blocks are taken *)
(* from data itself, up to i, and the rest goes to the start of the buffer.*)
Stepped(c, data) ==
  LET len    == Len(data)
      first  == Block - Used(c)
      i      == first + Block * ((len - first) \div Block)
      filled == SubSeq(SubSeq(c.buffer, 1, Used(c)) \o data
                         \o SubSeq(c.buffer, Used(c) + len + 1, Block), 1, Block)
  IN IF len < first
     THEN [c EXCEPT !.count = NewCount(@, len), !.buffer = filled]
     ELSE [count  |-> NewCount(c.count, len),
           state  |-> c.state \o filled \o SubSeq(data, first + 1, i),
           buffer |-> SubSeq(data, i + 1, len) \o SubSeq(filled, len - i + 1, Block)]

(* The caller gives bytes of its message. *)
HashStep(data) ==
  /\ pc = "input"
  /\ cx' = Stepped(cx, data) /\ message' = message \o data
  /\ UNCHANGED <<finalcount, pc>>

(* hash_finish: the length is computed before the padding is counted, ...  *)
HashFinish ==
  /\ pc = "input" /\ pc' = "zeros"
  /\ finalcount' = LengthField(cx.count[2] * Word + cx.count[1])
  /\ cx' = Stepped(cx, <<One>>)
  /\ UNCHANGED message

(* ... zeros are added one by one until the length just fits, ...          *)
FitsLength == Used(cx) = Block - LenField

(* A mutant of PadZero: "\0" is taken for an empty string. *)
PadNothing ==
  /\ pc = "zeros" /\ ~FitsLength
  /\ cx' = Stepped(cx, <<>>)
  /\ UNCHANGED <<finalcount, message, pc>>

PadZero ==
  /\ pc = "zeros" /\ ~FitsLength
  /\ cx' = Stepped(cx, <<Zero>>)
  /\ UNCHANGED <<finalcount, message, pc>>

(* ... and the length ends the last block.                                 *)
PadLength ==
  /\ pc = "zeros" /\ FitsLength /\ pc' = "done"
  /\ cx' = Stepped(cx, finalcount)
  /\ UNCHANGED <<finalcount, message>>

(* A mutant of HashInit: the count goes on from the last message. *)
InitKeepsCount ==
  /\ pc = "done" /\ pc' = "input"
  /\ cx' = [cx EXCEPT !.state = <<>>]
  /\ message' = <<>> /\ UNCHANGED finalcount

(* hash_init for the next message: the buffer keeps what it had. *)
HashInit ==
  /\ pc = "done" /\ pc' = "input"
  /\ cx' = [cx EXCEPT !.count = <<0, 0>>, !.state = <<>>]
  /\ message' = <<>> /\ UNCHANGED finalcount

(* A caller that cuts its messages into pieces as it likes, and uses one   *)
(* context for all of them, as the hashing tool does.                      *)
Pieces ==
  \/ \E len \in 0..MaxLen :
       Len(message) + len <= MaxBytes /\ HashStep(Piece(Len(message), len))
  \/ HashFinish \/ HashInit

Padding == PadZero \/ PadLength

EngineSpec == EngineInit /\ [][Pieces \/ Padding]_engine
-----------------------------------------------------------------------------
EngineTypeOK ==
  /\ cx.count \in (0..Word - 1) \X (0..Word - 1)
  /\ Len(cx.buffer) = Block /\ Len(cx.state) % Block = 0
  /\ pc \in {"input", "zeros", "done"}

(* The padding of FIPS 180: 0x80, as few zeros as possible, the length in  *)
(* bits.                                                                   *)
Zeros(n)  == (Block - ((n + 1 + LenField) % Block)) % Block
Padded(bytes) ==
  bytes \o <<One>> \o [at \in 1..Zeros(Len(bytes)) |-> Zero] \o LengthField(8 * Len(bytes))

(* What was given so far. *)
Given == cx.state \o SubSeq(cx.buffer, 1, Used(cx))

(* Nothing given is lost, doubled or moved, however the message is cut     *)
(* into pieces: the bytes transformed and those of the buffer that count   *)
(* are the message up to here.                                             *)
NothingMisplaced == pc = "input" => Given = message

(* "the SHA1 hash of the argument X" (sha1.c:238): the blocks transformed  *)
(* are those of the padded message, its true length included, whether the  *)
(* context is new or was used before.                                      *)
DigestIsSha1 == pc = "done" => cx.state = Padded(message)

(* The padding loop of hash_finish ends. *)
FinishEnds == (pc = "zeros") ~> (pc = "done")
=============================================================================
