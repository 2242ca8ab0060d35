----------------------------- MODULE ObjectCopy -----------------------------
(***************************************************************************)
(* Cutting one object out of the blocks of the tape (the META branch of    *)
(* check_diff_btwn_file_and_tape).  An object is its metadata followed by  *)
(* its data; it begins anywhere in its first block and goes on over as     *)
(* many blocks as it needs.  A byte is known by its position, counted from *)
(* the beginning of the object's first block.                              *)
(*                                                                         *)
(* The code's offsets are uint64_t: a subtraction below zero wraps round.  *)
(***************************************************************************)
EXTENDS Integers, Sequences

CONSTANTS
  BlockSize,  \* block_size
  Word,       \* 2^64
  Objects     \* [offset, metaLen, size, last, check]: where the metadata
              \* begins, the lengths of metadata and data, whether the object
              \* is the last of its PO, and skip_0_padding_check_flag = 0

ObjectInput == [offset : 0..(BlockSize - 1), metaLen : Nat, size : Nat,
                last : BOOLEAN, check : BOOLEAN]

ASSUME BlockAssumption ==
  /\ BlockSize \in Nat \ {0} /\ Word \in Nat
  /\ Objects \subseteq ObjectInput
  /\ \A o \in Objects :
       o.metaLen > 0 /\ o.offset + o.metaLen + o.size + 2 * BlockSize < Word

VARIABLES
  pc,       \* "read", "meta", "first", "data", "done" or "exit"
  obj,      \* the object
  offset,   \* offset
  nread,    \* blocks read: tape_data holds block nread - 1
  readed,   \* readed_size
  meta,     \* the bytes of the .meta file
  data,     \* the bytes of the .data file
  left      \* object_size: data still to be written

vars == <<pc, obj, offset, nread, readed, meta, data, left>>

-----------------------------------------------------------------------------
Minus(a, b) == IF b <= a THEN a - b ELSE a - b + Word
Plus(a, b)  == IF a + b < Word THEN a + b ELSE a + b - Word
Least(a, b) == IF a <= b THEN a ELSE b

Bytes(from, n) == [i \in 1..n |-> from + i - 1]

\* n bytes of tape_data when it holds block k, from its byte at.
InBlock(k, at, n) == Bytes(k * BlockSize + at, n)

Init ==
  /\ pc = "read" /\ obj \in Objects
  /\ offset = obj.offset /\ nread = 0 /\ readed = 0
  /\ meta = << >> /\ data = << >> /\ left = obj.size

\* Blocks are read until readed_size reaches the length of the metadata.
ReadBlock ==
  /\ pc = "read"
  /\ nread' = nread + 1
  /\ readed' = readed + BlockSize
  /\ \/ obj.metaLen <= readed' /\ pc' = "meta" /\ UNCHANGED offset
     \/ obj.metaLen > readed' /\ offset' = 0 /\ UNCHANGED pc
  /\ UNCHANGED <<obj, meta, data, left>>

\* Mutant: the rest of the block, whatever it is.
MetaHereBlock == Minus(BlockSize, offset)

\* The metadata in tape_data that belong to the object.
MetaHere == Least(Minus(BlockSize, offset), obj.metaLen - (readed - BlockSize))

\* Mutant: metadata that end with the block are taken to go on in the next.
GoesOnInclusive == offset + obj.metaLen >= BlockSize

GoesOn == offset + obj.metaLen > BlockSize

\* What is in this block and, if the metadata go on, in the next one.
TakeMeta ==
  /\ pc = "meta"
  /\ \/ /\ ~GoesOn
        /\ meta' = meta \o InBlock(nread - 1, offset, MetaHere)
        /\ UNCHANGED <<nread, offset>>
     \/ /\ GoesOn
        /\ meta' = meta \o InBlock(nread - 1, offset, MetaHere)
                        \o InBlock(nread, 0, obj.metaLen + offset - BlockSize)
        /\ nread' = nread + 1
        /\ offset' = Minus(offset, BlockSize)
  /\ pc' = "first"
  /\ UNCHANGED <<obj, readed, data, left>>

remained_tape_data_size == Minus(Minus(BlockSize, offset), MetaHere)

\* The data that share a block with the end of the metadata.  After metadata longer
\* than a block the code reads outside tape_data; the bytes are then not the
\* object's, wherever they come from.
WriteFirst ==
  /\ pc = "first"
  /\ LET n == Least(left, remained_tape_data_size)
     IN  /\ data' = InBlock(nread - 1, Minus(BlockSize, remained_tape_data_size), n)
         /\ left' = left - n
  /\ pc' = "data"
  /\ UNCHANGED <<obj, offset, nread, readed, meta>>

\* Mutant: a whole block is taken off what is left.
CopyBlockWhole ==
  /\ pc = "data" /\ left > 0
  /\ nread' = nread + 1
  /\ data' = data \o InBlock(nread, 0, Least(left, BlockSize))
  /\ left' = left - BlockSize
  /\ UNCHANGED <<pc, obj, offset, readed, meta>>

CopyBlock ==
  /\ pc = "data" /\ left > 0
  /\ nread' = nread + 1
  /\ data' = data \o InBlock(nread, 0, Least(left, BlockSize))
  /\ left' = left - Least(left, BlockSize)
  /\ UNCHANGED <<pc, obj, offset, readed, meta>>

\* last_data_offset - last_meta_data_offset, for the last object of a PO.
last_obj_size == obj.metaLen + obj.size

\* Mutant: the object's place in its first block is forgotten.
PaddingStartNoOffset == last_obj_size % BlockSize

PaddingStart == Plus(offset, last_obj_size) % BlockSize

\* No byte of the object is found in the block from there on.
ZeroPadded ==
  \A at \in PaddingStart..(BlockSize - 1) :
    (nread - 1) * BlockSize + at >= obj.offset + last_obj_size

\* After the last object of a PO what follows in its block must be zero;
\* otherwise the program exits.
EndObject ==
  /\ pc = "data" /\ left = 0
  /\ pc' = IF obj.last /\ obj.check /\ ~ZeroPadded THEN "exit" ELSE "done"
  /\ UNCHANGED <<obj, offset, nread, readed, meta, data, left>>

Next == ReadBlock \/ TakeMeta \/ WriteFirst \/ CopyBlock \/ EndObject

Spec == Init /\ [][Next]_vars

-----------------------------------------------------------------------------
(* Properties *)

MetaFrom == obj.offset
DataFrom == obj.offset + obj.metaLen

TypeOK ==
  /\ pc \in {"read", "meta", "first", "data", "done", "exit"}
  /\ obj \in Objects /\ offset \in 0..(Word - 1)
  /\ nread \in Nat /\ readed \in Nat /\ left \in 0..obj.size
  /\ meta \in Seq(Int) /\ data \in Seq(Int)

\* Metadata longer than a block are copied wrongly: see LongMetaWhole.
Short == obj.metaLen <= BlockSize

MetaRight ==
  pc \in {"first", "data", "done", "exit"} => meta = Bytes(MetaFrom, obj.metaLen)

\* The .meta file has the object's metadata, each byte once and in order, whether
\* they lie in one block or in two.
MetaWhole == Short => MetaRight

\* The same for all the metadata the format allows, up to META_MAX_SIZE (two
\* blocks).
LongMetaWhole == obj.metaLen <= 2 * BlockSize => MetaRight

\* At every moment the .data file has the first bytes of the object's data and
\* nothing else, and at the end all of them.
DataWhole ==
  Short =>
    /\ pc \in {"data", "done", "exit"} => data = Bytes(DataFrom, obj.size - left)
    /\ pc \in {"done", "exit"} => left = 0

\* Both files of an object are whole, and at no time have anything else in them.
ObjectWhole == MetaWhole /\ DataWhole

\* The tape is left just after the last block the object is in, where the next
\* PO or the file mark before an OCM is expected.
HeadAfterObject ==
  Short /\ pc \in {"done", "exit"} =>
    LET end == obj.offset + last_obj_size
    IN  (nread - 1) * BlockSize < end /\ end <= nread * BlockSize

\* The zero padding of a well-formed PO is only ever refused when the PO fills
\* its last block.
RefusedOnlyAligned ==
  Short /\ pc = "exit" => (obj.offset + last_obj_size) % BlockSize = 0

\* A well-formed PO is not refused.
PaddingAccepted == Short => pc # "exit"
=============================================================================
