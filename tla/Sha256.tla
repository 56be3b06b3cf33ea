------------------------------- MODULE Sha256 -------------------------------
(***************************************************************************)
(* The hash state of sha256.c between sha256_init and sha256_done: which   *)
(* bytes reach sha256_compress, in which order.  sha256_process cuts what  *)
(* it is given into blocks and keeps the rest in a buffer for its next     *)
(* call (sha256.c:58-95); sha256_done pads the message (sha256.c:369-416). *)
(* What sha256_compress computes is left out, and so are messages of 2^64  *)
(* bits.                                                                   *)
(*                                                                         *)
(* A byte of the message is represented by its place in the message.       *)
(***************************************************************************)
EXTENDS Integers, Sequences

CONSTANTS
  BlockSize,   (* 64 bytes                                                  *)
  LengthSize   (* 8, the bytes of the length at the end of the last block   *)

ASSUME Sha256Assumption ==
  BlockSize \in Nat /\ LengthSize \in Nat \ {0} /\ LengthSize < BlockSize

VARIABLES
  curlen,    (* md->sha256.curlen                                           *)
  length,    (* md->sha256.length, in bits                                  *)
  buf,       (* md->sha256.buf                                              *)
  inlen,     (* the local variable of sha256_process                        *)
  fed,       (* bytes of the message that have been taken from `in'         *)
  finished,  (* sha256_done has returned                                    *)
  hashed     (* history: all bytes given to sha256_compress                 *)

hvars == <<curlen, length, buf, inlen, fed, finished, hashed>>

Byte(what, place) == [what |-> what, place |-> place]
Data(p) == Byte("data", p)
Garbage == Byte("garbage", 0)
One == Byte("0x80", 0)
Zero == Byte("0", 0)

(* STORE64H: byte i of the number, from the left. *)
LengthByte(bits, i) == [what |-> "length", of |-> bits, place |-> i]

Limit == BlockSize - LengthSize      (* 56 *)

Smaller(a, b) == IF a < b THEN a ELSE b

(* The next n bytes of the message. *)
NextBytes(n) == [j \in 1 .. n |-> Data(fed + j)]

(* The first n bytes of a buffer. *)
Buffered(b, n) == [j \in 1 .. n |-> b[j - 1]]

HashInit ==
  /\ curlen = 0 /\ length = 0
  /\ buf = [j \in 0 .. BlockSize - 1 |-> Garbage]
  /\ inlen = 0 /\ fed = 0
  /\ finished = FALSE
  /\ hashed = <<>>

(* sha256_init; the buffer is left as it is. *)
Restart ==
  /\ curlen' = 0 /\ length' = 0
  /\ fed' = 0 /\ hashed' = <<>>
  /\ finished' = FALSE
  /\ UNCHANGED buf

(* sha256_process is called with n bytes ... *)
Process(n) ==
  /\ inlen = 0
  /\ inlen' = n
  /\ UNCHANGED <<curlen, length, buf, fed, finished, hashed>>

(* ... and takes a whole block without copying it, ...                     *)
TakeBlock ==
  /\ inlen >= BlockSize
  /\ curlen = 0
  /\ hashed' = hashed \o NextBytes(BlockSize)
  /\ length' = length + BlockSize * 8
  /\ fed' = fed + BlockSize
  /\ inlen' = inlen - BlockSize
  /\ UNCHANGED <<curlen, buf, finished>>

(* ... or fills the buffer.  Mutant: bytes are always put at its beginning.*)
CopiedToStart(n) ==
  [j \in 0 .. BlockSize - 1 |-> IF j < n THEN Data(fed + 1 + j) ELSE buf[j]]

Copied(n) ==
  [j \in 0 .. BlockSize - 1 |->
     IF curlen <= j /\ j < curlen + n THEN Data(fed + 1 + j - curlen) ELSE buf[j]]

(* Mutant: a full buffer is not emptied. *)
NotEmptied(n) == curlen + n
Filled(n) == IF curlen + n = BlockSize THEN 0 ELSE curlen + n

TakePart ==
  /\ inlen > 0
  /\ ~(inlen >= BlockSize /\ curlen = 0)
  /\ LET n == Smaller(inlen, BlockSize - curlen)
         full == curlen + n = BlockSize
     IN  /\ buf' = Copied(n)
         /\ curlen' = Filled(n)
         /\ length' = IF full THEN length + 8 * BlockSize ELSE length
         /\ hashed' = IF full THEN hashed \o Buffered(buf', BlockSize) ELSE hashed
         /\ fed' = fed + n
         /\ inlen' = inlen - n
  /\ UNCHANGED finished

(* sha256_done: a one and zeros, in a block of their own if there is no    *)
(* room for the length, then the length.  Mutant: the room is not looked   *)
(* for.                                                                    *)
NoExtraBlock(n) == n > BlockSize
ExtraBlock(n) == n > Limit

Done ==
  /\ inlen = 0 /\ ~finished
  /\ LET bits == length + curlen * 8
         n == curlen + 1
         marked == [buf EXCEPT ![curlen] = One]
         ZeroFrom(b, m, end) == [j \in DOMAIN b |-> IF m <= j /\ j < end THEN Zero ELSE b[j]]
         room == IF ExtraBlock(n) THEN ZeroFrom(marked, n, BlockSize) ELSE marked
         last == ZeroFrom(room, IF ExtraBlock(n) THEN 0 ELSE n, Limit)
         stored == [j \in DOMAIN last |-> IF j >= Limit THEN LengthByte(bits, j - Limit) ELSE last[j]]
     IN  /\ length' = bits
         /\ buf' = stored
         /\ hashed' = hashed \o (IF ExtraBlock(n) THEN Buffered(room, BlockSize) ELSE <<>>)
                             \o Buffered(stored, BlockSize)
  /\ curlen' = Limit
  /\ finished' = TRUE
  /\ UNCHANGED <<inlen, fed>>

-----------------------------------------------------------------------------
(* A type invariant. *)
HashTypeOK ==
  /\ curlen \in 0 .. BlockSize - 1
  /\ length \in Nat /\ inlen \in Nat /\ fed \in Nat
  /\ DOMAIN buf = 0 .. BlockSize - 1
  /\ finished \in BOOLEAN

(* However the message is cut into calls, and wherever these end within a  *)
(* block, its bytes are hashed or buffered once and in order, and the      *)
(* length counts the hashed ones (sha256.c:71-93).                         *)
BytesInOrder ==
  ~finished =>
    /\ hashed \o Buffered(buf, curlen) = [p \in 1 .. fed |-> Data(p)]
    /\ length = 8 * Len(hashed)

(* The padding of the standard (FIPS 180-4, 5.1.1): a one, as few zeros as *)
(* make the whole fit into blocks, and the length of the message.          *)
Padded(n) ==
  LET zeros == CHOOSE k \in 0 .. BlockSize - 1 : (n + 1 + k + LengthSize) % BlockSize = 0
  IN  [p \in 1 .. n |-> Data(p)] \o <<One>> \o [j \in 1 .. zeros |-> Zero]
        \o [i \in 1 .. LengthSize |-> LengthByte(8 * n, i - 1)]

(* What sha256_done has had hashed is the padded message, also when the    *)
(* padding needs a block of its own (sha256.c:381-406), whatever is left   *)
(* in the buffer from before.                                              *)
PaddedRight == finished => hashed = Padded(fed)

=============================================================================
