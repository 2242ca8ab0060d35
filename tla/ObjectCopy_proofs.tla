-------------------------- MODULE ObjectCopy_proofs --------------------------
(***************************************************************************)
(* Theorems about ObjectCopy, for every block size and every object whose  *)
(* metadata fit in a block: the files get the object's bytes and the tape  *)
(* is left after its last block.                                           *)
(***************************************************************************)
EXTENDS ObjectCopy, SequenceTheorems, TLAPS

-----------------------------------------------------------------------------
(* Runs of bytes *)

LEMMA BytesType ==
  ASSUME NEW from \in Int, NEW n \in Nat
  PROVE  Bytes(from, n) \in Seq(Int) /\ Len(Bytes(from, n)) = n
BY DEF Bytes

LEMMA ConcatType ==
  ASSUME NEW s \in Seq(Int), NEW t \in Seq(Int)
  PROVE  s \o t \in Seq(Int) /\ Len(s \o t) = Len(s) + Len(t)
OBVIOUS

LEMMA ConcatAt ==
  ASSUME NEW s \in Seq(Int), NEW t \in Seq(Int), NEW i \in 1..(Len(s) + Len(t))
  PROVE  (s \o t)[i] = IF i <= Len(s) THEN s[i] ELSE t[i - Len(s)]
BY ConcatProperties

LEMMA SameSequence ==
  ASSUME NEW s \in Seq(Int), NEW t \in Seq(Int),
         Len(s) = Len(t), \A i \in 1..Len(s) : s[i] = t[i]
  PROVE  s = t
BY SeqEqual

\* What is written after a run of bytes prolongs it when it begins where the run
\* ends.
LEMMA BytesConcat ==
  ASSUME NEW from \in Int, NEW n \in Nat, NEW k \in Nat, NEW next \in Int,
         k > 0 => next = from + n
  PROVE  Bytes(from, n) \o Bytes(next, k) = Bytes(from, n + k)
<1>1. /\ Bytes(from, n) \in Seq(Int) /\ Len(Bytes(from, n)) = n
      /\ Bytes(next, k) \in Seq(Int) /\ Len(Bytes(next, k)) = k
      /\ Bytes(from, n + k) \in Seq(Int) /\ Len(Bytes(from, n + k)) = n + k
  BY BytesType
<1>2. /\ Bytes(from, n) \o Bytes(next, k) \in Seq(Int)
      /\ Len(Bytes(from, n) \o Bytes(next, k)) = n + k
  BY <1>1, ConcatType
<1>3. ASSUME NEW i \in 1..(n + k)
      PROVE  (Bytes(from, n) \o Bytes(next, k))[i] = Bytes(from, n + k)[i]
  <2>1. (Bytes(from, n) \o Bytes(next, k))[i]
          = IF i <= n THEN Bytes(from, n)[i] ELSE Bytes(next, k)[i - n]
    <3> DEFINE a == Bytes(from, n)
               b == Bytes(next, k)
    <3>1. a \in Seq(Int) /\ b \in Seq(Int) /\ Len(a) = n /\ i \in 1..(Len(a) + Len(b))
      BY <1>1
    <3> HIDE DEF a, b
    <3>2. (a \o b)[i] = IF i <= Len(a) THEN a[i] ELSE b[i - Len(a)]
      BY <3>1, ConcatAt
    <3> QED
      BY <3>1, <3>2 DEF a, b
  <2>2. i <= n => Bytes(from, n)[i] = from + i - 1
    BY DEF Bytes
  <2>3. i > n => Bytes(next, k)[i - n] = next + (i - n) - 1 /\ next = from + n
    BY DEF Bytes
  <2>4. Bytes(from, n + k)[i] = from + i - 1
    BY DEF Bytes
  <2> QED
    BY <2>1, <2>2, <2>3, <2>4
<1> QED
  BY <1>1, <1>2, <1>3, SameSequence

-----------------------------------------------------------------------------
(* The invariant *)

\* Where the code is, for every object.
PlaceInv ==
  /\ pc = "read"  => /\ offset \in 0..(BlockSize - 1) /\ readed \in Nat
                     /\ readed < obj.metaLen
  /\ pc = "meta"  => offset \in 0..(BlockSize - 1)
  /\ pc \in {"meta", "first"} => /\ obj.metaLen <= readed
                                 /\ readed < obj.metaLen + BlockSize
                                 /\ BlockSize <= readed

\* End of the part of the object that has been written.
Written == obj.offset + obj.metaLen + (obj.size - left)

\* What has been read and written of an object with metadata up to a block.
CopyInv ==
  /\ pc = "read"  => nread = 0 /\ readed = 0 /\ offset = obj.offset /\ meta = << >>
  /\ pc = "meta"  => nread = 1 /\ readed = BlockSize /\ offset = obj.offset /\ meta = << >>
  /\ pc = "first" =>
       /\ readed = BlockSize
       /\ meta = Bytes(obj.offset, obj.metaLen)
       /\ \/ /\ obj.offset + obj.metaLen <= BlockSize
             /\ nread = 1 /\ offset = obj.offset
          \/ /\ obj.offset + obj.metaLen > BlockSize
             /\ nread = 2 /\ offset = obj.offset - BlockSize + Word
  /\ pc \in {"read", "meta", "first"} => left = obj.size
  /\ pc \in {"data", "done", "exit"} =>
       /\ meta = Bytes(obj.offset, obj.metaLen)
       /\ data = Bytes(obj.offset + obj.metaLen, obj.size - left)
       /\ (nread - 1) * BlockSize < Written /\ Written <= nread * BlockSize
       /\ left > 0 => Written = nread * BlockSize
  /\ pc \in {"done", "exit"} => left = 0

IInv == TypeOK /\ PlaceInv /\ (Short => CopyInv)

LEMMA ObjType ==
  ASSUME NEW o \in Objects
  PROVE  /\ o.offset \in 0..(BlockSize - 1) /\ o.metaLen \in Nat /\ o.metaLen > 0
         /\ o.size \in Nat
         /\ o.offset + o.metaLen + o.size + 2 * BlockSize < Word
         /\ BlockSize \in Nat /\ BlockSize > 0 /\ Word \in Nat
BY BlockAssumption DEF ObjectInput

\* The types the arithmetic needs.
Typed ==
  /\ obj.offset \in Nat /\ obj.metaLen \in Nat /\ obj.size \in Nat
  /\ BlockSize \in Nat /\ Word \in Nat
  /\ offset \in Nat /\ left \in Nat /\ nread \in Nat /\ readed \in Nat
  /\ obj.offset < BlockSize /\ obj.metaLen > 0
  /\ obj.offset + obj.metaLen + obj.size + 2 * BlockSize < Word
  /\ BlockSize < Word /\ offset < Word /\ left <= obj.size

LEMMA ObjFacts == TypeOK => Typed
<1> SUFFICES ASSUME TypeOK PROVE Typed
  OBVIOUS
<1>1. /\ obj.offset \in 0..(BlockSize - 1) /\ obj.metaLen \in Nat /\ obj.metaLen > 0
      /\ obj.size \in Nat
      /\ obj.offset + obj.metaLen + obj.size + 2 * BlockSize < Word
      /\ BlockSize \in Nat /\ BlockSize > 0 /\ Word \in Nat
  BY ObjType DEF TypeOK
<1> QED
  BY <1>1 DEF TypeOK, Typed

LEMMA MinusType ==
  ASSUME NEW a \in Nat, NEW b \in Nat, Word \in Nat, a < Word, b < Word
  PROVE  Minus(a, b) \in Nat /\ Minus(a, b) < Word
BY DEF Minus

LEMMA MinusSmall ==
  ASSUME NEW a \in Nat, NEW b \in Nat, b <= a
  PROVE  Minus(a, b) = a - b
BY DEF Minus

\* What a subtraction below zero has made, another one makes right again.
LEMMA MinusWrapped ==
  ASSUME NEW a \in Nat, NEW c \in Nat, Word \in Nat, c <= a, 2 * a - c < Word
  PROVE  Minus(a, c - a + Word) = 2 * a - c
<1>1. ~(c - a + Word <= a)
  OBVIOUS
<1>2. a - (c - a + Word) + Word = 2 * a - c
  OBVIOUS
<1> QED
  BY <1>1, <1>2 DEF Minus

LEMMA InitHolds == Init => IInv
<1> SUFFICES ASSUME Init PROVE IInv
  OBVIOUS
<1>0. /\ obj.offset \in 0..(BlockSize - 1) /\ obj.metaLen \in Nat /\ obj.metaLen > 0
      /\ obj.size \in Nat /\ obj.offset + obj.metaLen + obj.size + 2 * BlockSize < Word
      /\ BlockSize \in Nat /\ BlockSize > 0 /\ Word \in Nat
  BY ObjType DEF Init
<1>1. obj.offset \in 0..(Word - 1) /\ obj.size \in 0..obj.size
  BY <1>0
<1>2. TypeOK
  BY <1>1 DEF Init, TypeOK
<1>3. PlaceInv
  BY <1>0 DEF Init, PlaceInv
<1>4. CopyInv
  BY DEF Init, CopyInv
<1> QED
  BY <1>2, <1>3, <1>4 DEF IInv

LEMMA ReadBlockHolds == IInv /\ ReadBlock => IInv'
<1> SUFFICES ASSUME IInv, ReadBlock PROVE IInv'
  OBVIOUS
<1>0. /\ Typed /\ TypeOK /\ pc = "read" /\ readed < obj.metaLen
      /\ offset \in 0..(BlockSize - 1)
  BY ObjFacts DEF IInv, PlaceInv, ReadBlock
<1>1. /\ nread' = nread + 1 /\ readed' = readed + BlockSize
      /\ \/ obj.metaLen <= readed' /\ pc' = "meta" /\ offset' = offset
         \/ obj.metaLen > readed' /\ pc' = "read" /\ offset' = 0
      /\ UNCHANGED <<obj, meta, data, left>>
  BY <1>0 DEF ReadBlock
<1>2. /\ nread' \in Nat /\ readed' \in Nat /\ readed' < obj.metaLen + BlockSize
      /\ BlockSize <= readed'
  BY <1>0, <1>1 DEF Typed
<1>3. offset' \in 0..(BlockSize - 1) /\ offset' \in 0..(Word - 1)
  <2>1. offset' = offset \/ offset' = 0
    BY <1>1
  <2>2. offset \in Nat /\ BlockSize \in Nat /\ Word \in Nat /\ BlockSize < Word
    BY <1>0 DEF Typed
  <2> QED
    BY <1>0, <2>1, <2>2
<1>4. TypeOK'
  BY <1>0, <1>1, <1>2, <1>3 DEF TypeOK
<1>5. PlaceInv'
  BY <1>1, <1>2, <1>3 DEF PlaceInv
<1>6. ASSUME Short PROVE CopyInv'
  <2>1. /\ nread = 0 /\ readed = 0 /\ offset = obj.offset /\ meta = << >>
        /\ left = obj.size
    BY <1>0, <1>6 DEF IInv, CopyInv
  <2>2. readed' = BlockSize /\ nread' = 1 /\ obj.metaLen <= readed'
    BY <1>0, <1>1, <1>6, <2>1 DEF Short, Typed
  <2>3. pc' = "meta" /\ offset' = obj.offset
    BY <1>0, <1>1, <2>1, <2>2 DEF Typed
  <2> QED
    BY <1>1, <2>1, <2>2, <2>3 DEF CopyInv
<1> QED
  BY <1>1, <1>4, <1>5, <1>6 DEF IInv, Short

LEMMA MetaHereType ==
  ASSUME IInv, pc \in {"meta", "first"}
  PROVE  /\ MetaHere \in Nat /\ MetaHere <= Minus(BlockSize, offset)
         /\ Minus(BlockSize, offset) \in Nat /\ Minus(BlockSize, offset) < Word
<1>0. Typed /\ obj.metaLen <= readed /\ readed < obj.metaLen + BlockSize
            /\ BlockSize <= readed
  BY ObjFacts DEF IInv, PlaceInv
<1>1. Minus(BlockSize, offset) \in Nat /\ Minus(BlockSize, offset) < Word
  BY <1>0, MinusType DEF Typed
<1>2. obj.metaLen - (readed - BlockSize) \in Nat
  BY <1>0 DEF Typed
<1> QED
  BY <1>1, <1>2 DEF MetaHere, Least

LEMMA TakeMetaHolds == IInv /\ TakeMeta => IInv'
<1> SUFFICES ASSUME IInv, TakeMeta PROVE IInv'
  OBVIOUS
<1>0. Typed /\ TypeOK /\ pc = "meta" /\ MetaHere \in Nat
  BY ObjFacts, MetaHereType DEF TakeMeta, IInv
<1>1. TypeOK'
  <2> DEFINE here == InBlock(nread - 1, offset, MetaHere)
             rest == InBlock(nread, 0, obj.metaLen + offset - BlockSize)
  <2>1. (nread - 1) * BlockSize + offset \in Int /\ nread * BlockSize + 0 \in Int
    BY <1>0 DEF Typed
  <2>2. here \in Seq(Int)
    BY <1>0, <2>1, BytesType DEF InBlock
  <2>3. GoesOn => rest \in Seq(Int)
    <3>1. GoesOn => obj.metaLen + offset - BlockSize \in Nat
      BY <1>0 DEF GoesOn, Typed
    <3> QED
      BY <2>1, <3>1, BytesType DEF InBlock
  <2>4. meta' \in Seq(Int)
    <3>1. \/ meta' = meta \o here
          \/ GoesOn /\ meta' = meta \o here \o rest
      BY DEF TakeMeta
    <3>2. meta \in Seq(Int)
      BY <1>0 DEF TypeOK
    <3> HIDE DEF here, rest
    <3>3. meta \o here \in Seq(Int)
      BY <2>2, <3>2, ConcatType
    <3>4. GoesOn => (meta \o here) \o rest \in Seq(Int)
      BY <2>3, <3>3, ConcatType
    <3> QED
      BY <3>1, <3>3, <3>4
  <2>5. offset' \in 0..(Word - 1)
    <3>1. offset' = offset \/ offset' = Minus(offset, BlockSize)
      BY DEF TakeMeta
    <3> QED
      <4>1. Minus(offset, BlockSize) \in Nat /\ Minus(offset, BlockSize) < Word
        BY <1>0, MinusType DEF Typed
      <4> QED
        BY <1>0, <3>1, <4>1 DEF Typed
  <2>6. nread' \in Nat
    <3>1. nread' = nread \/ nread' = nread + 1
      BY DEF TakeMeta
    <3> QED
      BY <1>0, <3>1 DEF Typed
  <2> QED
    BY <1>0, <2>4, <2>5, <2>6 DEF TakeMeta, TypeOK
<1>2. PlaceInv'
  BY <1>0 DEF TakeMeta, PlaceInv, IInv
<1>3. ASSUME Short PROVE CopyInv'
  <2>1. nread = 1 /\ readed = BlockSize /\ offset = obj.offset /\ meta = << >>
    BY <1>0, <1>3 DEF CopyInv, IInv
  <2>2. left = obj.size
    BY <1>0, <1>3 DEF CopyInv, IInv
  <2>3. MetaHere = Least(BlockSize - obj.offset, obj.metaLen)
    BY <1>0, <2>1 DEF MetaHere, Minus, Typed
  <2>4. CASE ~GoesOn
    <3>1. MetaHere = obj.metaLen
      BY <1>0, <2>1, <2>3, <2>4 DEF GoesOn, Least, Typed
    <3>2. (nread - 1) * BlockSize + offset = obj.offset
      BY <1>0, <2>1 DEF Typed
    <3>3. meta' = << >> \o Bytes(obj.offset, obj.metaLen)
      BY <2>1, <2>4, <3>1, <3>2 DEF TakeMeta, InBlock
    <3>4. meta' = Bytes(obj.offset, obj.metaLen)
      BY <1>0, <3>3, BytesType, ConcatEmptySeq DEF Typed
    <3>5. obj.offset + obj.metaLen <= BlockSize
      BY <1>0, <2>1, <2>4 DEF GoesOn, Typed
    <3> QED
      BY <2>1, <2>2, <2>4, <3>4, <3>5 DEF TakeMeta, CopyInv
  <2>5. CASE GoesOn
    <3>0. obj.offset + obj.metaLen > BlockSize
      BY <1>0, <2>1, <2>5 DEF GoesOn, Typed
    <3> DEFINE n == BlockSize - obj.offset
               r == obj.metaLen - n
    <3>1. MetaHere = n /\ n \in Nat /\ r \in Nat /\ obj.offset + n = BlockSize
          /\ n + r = obj.metaLen /\ obj.offset \in Int /\ BlockSize \in Int
      BY <1>0, <2>3, <3>0 DEF Least, Typed
    <3>2. /\ (nread - 1) * BlockSize + offset = obj.offset
          /\ nread * BlockSize + 0 = BlockSize
          /\ obj.metaLen + offset - BlockSize = r
      BY <1>0, <2>1 DEF Typed
    <3> HIDE DEF n, r
    <3>3. meta' = << >> \o Bytes(obj.offset, n) \o Bytes(BlockSize, r)
      BY <2>1, <2>5, <3>1, <3>2 DEF TakeMeta, InBlock
    <3>4. << >> \o Bytes(obj.offset, n) = Bytes(obj.offset, n)
      BY <3>1, BytesType, ConcatEmptySeq
    <3>5. Bytes(obj.offset, n) \o Bytes(BlockSize, r) = Bytes(obj.offset, n + r)
      BY <3>1, BytesConcat
    <3>6. meta' = Bytes(obj.offset, obj.metaLen)
      BY <3>1, <3>3, <3>4, <3>5
    <3>7. nread' = 2 /\ offset' = obj.offset - BlockSize + Word
      BY <1>0, <2>1, <2>5 DEF TakeMeta, Minus, Typed
    <3> QED
      BY <2>1, <2>2, <2>5, <3>0, <3>6, <3>7 DEF TakeMeta, CopyInv
  <2> QED
    BY <2>4, <2>5
<1> QED
  BY <1>1, <1>2, <1>3 DEF Short, TakeMeta, IInv

LEMMA RemainedType ==
  ASSUME IInv, pc = "first"
  PROVE  remained_tape_data_size \in Nat /\ remained_tape_data_size < Word
<1>0. Typed
  BY ObjFacts DEF IInv
<1>1. /\ MetaHere \in Nat /\ MetaHere <= Minus(BlockSize, offset)
      /\ Minus(BlockSize, offset) \in Nat /\ Minus(BlockSize, offset) < Word
  BY MetaHereType
<1>2. MetaHere < Word
  BY <1>0, <1>1 DEF Typed
<1> QED
  BY <1>0, <1>1, <1>2, MinusType DEF remained_tape_data_size, Typed

\* After metadata that fit in a block, what is left of the block in tape_data
\* begins where the metadata end.
LEMMA RemainedPlace ==
  ASSUME IInv, Short, pc = "first"
  PROVE  /\ remained_tape_data_size \in 0..BlockSize
         /\ nread \in Nat /\ (nread - 1) * BlockSize < obj.offset + obj.metaLen
         /\ obj.offset + obj.metaLen + remained_tape_data_size = nread * BlockSize
<1>0. Typed /\ readed = BlockSize /\ obj.metaLen <= BlockSize
  BY ObjFacts DEF IInv, CopyInv, Short
<1>1. obj.metaLen - (readed - BlockSize) = obj.metaLen
  BY <1>0 DEF Typed
<1>2. ASSUME NEW room \in Nat, Minus(BlockSize, offset) = room, obj.metaLen <= room
      PROVE  remained_tape_data_size = room - obj.metaLen
  <2>1. MetaHere = Least(room, obj.metaLen)
    BY <1>1, <1>2 DEF MetaHere
  <2>2. MetaHere = obj.metaLen
    BY <1>0, <1>2, <2>1 DEF Least, Typed
  <2>3. remained_tape_data_size = Minus(room, obj.metaLen)
    BY <1>2, <2>2 DEF remained_tape_data_size
  <2> QED
    BY <1>0, <1>2, <2>3, MinusSmall DEF Typed
<1>3. CASE obj.offset + obj.metaLen <= BlockSize /\ nread = 1 /\ offset = obj.offset
  <2> DEFINE room == BlockSize - obj.offset
  <2>1. room \in Nat /\ obj.metaLen <= room
    BY <1>0, <1>3 DEF Typed
  <2>2. Minus(BlockSize, offset) = room
    BY <1>0, <1>3, MinusSmall DEF Typed
  <2>3. remained_tape_data_size = room - obj.metaLen
    <3> HIDE DEF room
    <3> QED
      BY <1>2, <2>1, <2>2
  <2>4. (nread - 1) * BlockSize = 0 /\ nread * BlockSize = BlockSize
    BY <1>0, <1>3 DEF Typed
  <2> QED
    BY <1>0, <1>3, <2>3, <2>4 DEF Typed
<1>4. CASE /\ obj.offset + obj.metaLen > BlockSize
           /\ nread = 2 /\ offset = obj.offset - BlockSize + Word
  <2> DEFINE room == 2 * BlockSize - obj.offset
  <2>1. room \in Nat /\ obj.metaLen <= room /\ room < Word
    BY <1>0, <1>4 DEF Typed
  <2>2. Minus(BlockSize, offset) = room
    <3>1. Minus(BlockSize, obj.offset - BlockSize + Word) = room
      <4>1. /\ BlockSize \in Nat /\ obj.offset \in Nat /\ Word \in Nat
            /\ obj.offset <= BlockSize /\ 2 * BlockSize - obj.offset < Word
        BY <1>0, <2>1 DEF Typed
      <4> QED
        BY <4>1, MinusWrapped
    <3> QED
      BY <1>4, <3>1
  <2>3. remained_tape_data_size = room - obj.metaLen
    <3> HIDE DEF room
    <3> QED
      BY <1>2, <2>1, <2>2
  <2>4. (nread - 1) * BlockSize = BlockSize /\ nread * BlockSize = 2 * BlockSize
    BY <1>0, <1>4 DEF Typed
  <2> QED
    BY <1>0, <1>4, <2>3, <2>4 DEF Typed
<1> QED
  BY <1>3, <1>4 DEF IInv, CopyInv

LEMMA WriteFirstHolds == IInv /\ WriteFirst => IInv'
<1> SUFFICES ASSUME IInv, WriteFirst PROVE IInv'
  OBVIOUS
<1> DEFINE R == remained_tape_data_size
           n == Least(left, R)
           from == (nread - 1) * BlockSize + Minus(BlockSize, R)
<1>0. Typed /\ TypeOK /\ pc = "first" /\ R \in Nat /\ R < Word
  BY ObjFacts, RemainedType DEF WriteFirst, IInv
<1>1. /\ data' = Bytes(from, n) /\ left' = left - n /\ pc' = "data"
      /\ UNCHANGED <<obj, offset, nread, readed, meta>>
  BY DEF WriteFirst, InBlock
<1>2. n \in Nat /\ n <= left /\ n <= R /\ (n = left \/ n = R)
  <2> HIDE DEF R
  <2> QED
    BY <1>0 DEF Least, Typed
<1>3. from \in Int
  <2> HIDE DEF R
  <2>1. Minus(BlockSize, R) \in Nat
    BY <1>0, MinusType DEF Typed
  <2> QED
    BY <1>0, <2>1 DEF Typed
<1> HIDE DEF R, n, from
<1>4. data' \in Seq(Int)
  BY <1>1, <1>2, <1>3, BytesType
<1>5. left' \in 0..obj.size
  BY <1>0, <1>1, <1>2 DEF Typed
<1>6. TypeOK'
  BY <1>0, <1>1, <1>4, <1>5 DEF TypeOK
<1>7. PlaceInv'
  BY <1>1 DEF PlaceInv
<1>8. ASSUME Short PROVE CopyInv'
  <2> DEFINE end == obj.offset + obj.metaLen
  <2>1. /\ R \in 0..BlockSize /\ (nread - 1) * BlockSize < end
        /\ end + R = nread * BlockSize
    BY <1>0, <1>8, RemainedPlace DEF R
  <2>2. left = obj.size /\ meta = Bytes(obj.offset, obj.metaLen)
    BY <1>0, <1>8 DEF IInv, CopyInv
  <2>3. from = end
    <3>1. Minus(BlockSize, R) = BlockSize - R
      BY <1>0, <2>1, MinusSmall DEF Typed
    <3>2. (nread - 1) * BlockSize + BlockSize = nread * BlockSize
      BY <1>0 DEF Typed
    <3> QED
      BY <1>0, <2>1, <3>1, <3>2 DEF from, Typed
  <2>4. obj.size - left' = n
    BY <1>0, <1>1, <1>2, <2>2 DEF Typed
  <2>5. Written' = end + n
    BY <1>1, <2>4 DEF Written
  <2>6. left' > 0 => n = R
    BY <1>0, <1>1, <1>2, <2>2 DEF Typed
  <2>7. (nread - 1) * BlockSize < end + n /\ end + n <= nread * BlockSize
    BY <1>0, <1>2, <2>1 DEF Typed
  <2> HIDE DEF end
  <2>8. left' > 0 => Written' = nread * BlockSize
    BY <2>1, <2>5, <2>6
  <2> QED
    BY <1>1, <2>2, <2>3, <2>4, <2>5, <2>7, <2>8 DEF CopyInv, end
<1> QED
  BY <1>1, <1>6, <1>7, <1>8 DEF IInv, Short

LEMMA CopyBlockHolds == IInv /\ CopyBlock => IInv'
<1> SUFFICES ASSUME IInv, CopyBlock PROVE IInv'
  OBVIOUS
<1> DEFINE n == Least(left, BlockSize)
<1>0. Typed /\ TypeOK /\ pc = "data" /\ left > 0
  BY ObjFacts DEF CopyBlock, IInv
<1>1. /\ data' = data \o Bytes(nread * BlockSize + 0, n)
      /\ left' = left - n /\ nread' = nread + 1 /\ pc' = "data"
      /\ UNCHANGED <<obj, offset, readed, meta>>
  BY <1>0 DEF CopyBlock, InBlock
<1>2. n \in Nat /\ n > 0 /\ n <= left /\ n <= BlockSize /\ (n = left \/ n = BlockSize)
  BY <1>0 DEF Least, Typed
<1>3. nread * BlockSize + 0 = nread * BlockSize /\ nread * BlockSize \in Int
  BY <1>0 DEF Typed
<1> HIDE DEF n
<1>4. data' \in Seq(Int)
  <2>1. data \in Seq(Int) /\ Bytes(nread * BlockSize, n) \in Seq(Int)
    BY <1>0, <1>2, <1>3, BytesType DEF TypeOK
  <2> QED
    BY <1>1, <1>3, <2>1, ConcatType
<1>5. left' \in 0..obj.size /\ nread' \in Nat
  BY <1>0, <1>1, <1>2 DEF Typed
<1>6. TypeOK'
  BY <1>0, <1>1, <1>4, <1>5 DEF TypeOK
<1>7. PlaceInv'
  BY <1>1 DEF PlaceInv
<1>8. ASSUME Short PROVE CopyInv'
  <2> DEFINE end == obj.offset + obj.metaLen
             done == obj.size - left
  <2>1. /\ meta = Bytes(obj.offset, obj.metaLen)
        /\ data = Bytes(end, done)
        /\ end + done = nread * BlockSize
    BY <1>0, <1>8 DEF IInv, CopyInv, Written
  <2>2. end \in Nat /\ done \in Nat /\ obj.size - left' = done + n
    <3>1. obj.size \in Nat /\ left \in Nat /\ left <= obj.size /\ left' = left - n
      BY <1>0, <1>1 DEF Typed
    <3>2. end \in Nat
      BY <1>0 DEF Typed
    <3> HIDE DEF end
    <3> QED
      BY <1>2, <3>1, <3>2
  <2>3. (nread' - 1) * BlockSize = nread * BlockSize
        /\ nread' * BlockSize = nread * BlockSize + BlockSize
    BY <1>0, <1>1 DEF Typed
  <2>4. Written' = end + (done + n)
    BY <1>1, <2>2 DEF Written
  <2>5. left' > 0 => n = BlockSize
    BY <1>0, <1>1, <1>2 DEF Typed
  <2> HIDE DEF end, done
  <2>6. data' = Bytes(end, done + n)
    <3>1. Bytes(end, done) \o Bytes(nread * BlockSize, n) = Bytes(end, done + n)
      <4> DEFINE top == nread * BlockSize
      <4>1. top = end + done /\ top \in Int /\ end \in Int
        BY <1>3, <2>1, <2>2
      <4> HIDE DEF top
      <4>2. Bytes(end, done) \o Bytes(top, n) = Bytes(end, done + n)
        BY <1>2, <2>2, <4>1, BytesConcat
      <4> QED
        BY <4>2 DEF top
    <3> QED
      BY <1>1, <1>3, <2>1, <3>1
  <2>7. /\ (nread' - 1) * BlockSize < Written' /\ Written' <= nread' * BlockSize
        /\ left' > 0 => Written' = nread' * BlockSize
    <3> DEFINE top == nread * BlockSize
    <3>1. Written' = top + n /\ top \in Int /\ (nread' - 1) * BlockSize = top
          /\ nread' * BlockSize = top + BlockSize
      BY <1>2, <1>3, <2>1, <2>2, <2>3, <2>4
    <3>2. BlockSize \in Nat
      BY <1>0 DEF Typed
    <3> HIDE DEF top
    <3> QED
      BY <1>2, <2>5, <3>1, <3>2
  <2> QED
    BY <1>1, <2>1, <2>2, <2>6, <2>7 DEF CopyInv, end
<1> QED
  BY <1>1, <1>6, <1>7, <1>8 DEF IInv, Short

LEMMA EndObjectHolds == IInv /\ EndObject => IInv'
<1> SUFFICES ASSUME IInv, EndObject PROVE IInv'
  OBVIOUS
<1>0. /\ pc = "data" /\ left = 0 /\ pc' \in {"done", "exit"}
      /\ UNCHANGED <<obj, offset, nread, readed, meta, data, left>>
  BY DEF EndObject
<1>1. TypeOK'
  BY <1>0 DEF IInv, TypeOK
<1>2. PlaceInv'
  BY <1>0 DEF PlaceInv
<1>3. ASSUME Short PROVE CopyInv'
  <2>1. CopyInv
    BY <1>3 DEF IInv
  <2> QED
    BY <1>0, <2>1 DEF CopyInv, Written
<1> QED
  BY <1>0, <1>1, <1>2, <1>3 DEF IInv, Short

LEMMA StepHolds == IInv /\ [Next]_vars => IInv'
<1> SUFFICES ASSUME IInv, [Next]_vars PROVE IInv'
  OBVIOUS
<1>1. CASE ReadBlock
  BY <1>1, ReadBlockHolds
<1>2. CASE TakeMeta
  BY <1>2, TakeMetaHolds
<1>3. CASE WriteFirst
  BY <1>3, WriteFirstHolds
<1>4. CASE CopyBlock
  BY <1>4, CopyBlockHolds
<1>5. CASE EndObject
  BY <1>5, EndObjectHolds
<1>6. CASE UNCHANGED vars
  BY <1>6 DEF vars, IInv, TypeOK, PlaceInv, CopyInv, Short, Written
<1> QED
  BY <1>1, <1>2, <1>3, <1>4, <1>5, <1>6 DEF Next

THEOREM Invariance == Spec => []IInv
<1> QED
  BY InitHolds, StepHolds, PTL DEF Spec

-----------------------------------------------------------------------------
(* What follows from it *)

\* The variables keep their types: the wrapped uint64_t offset stays in range and
\* object_size never goes below zero, for metadata of any length.
THEOREM CopyTypeCorrect == Spec => []TypeOK
<1>1. IInv => TypeOK
  BY DEF IInv
<1> QED
  BY <1>1, Invariance, PTL

\* Metadata that fit in a block are written whole, wherever the object begins
\* (check_diff_btwn_file_and_tape, the META branch).
THEOREM MetadataWhole == Spec => []MetaWhole
<1>1. IInv => MetaWhole
  BY DEF IInv, CopyInv, MetaWhole, MetaRight, MetaFrom
<1> QED
  BY <1>1, Invariance, PTL

\* The data of such an object are written whole and in order, over any number of
\* blocks.
THEOREM DataIsWhole == Spec => []DataWhole
<1>1. IInv => DataWhole
  BY DEF IInv, CopyInv, DataWhole, DataFrom
<1> QED
  BY <1>1, Invariance, PTL

\* So both files of such an object are whole.
THEOREM ObjectIsWhole == Spec => []ObjectWhole
<1> QED
  BY MetadataWhole, DataIsWhole, PTL DEF ObjectWhole

\* After such an object the tape is left behind its last block and no further.
THEOREM TapeAfterObject == Spec => []HeadAfterObject
<1>1. IInv => HeadAfterObject
  <2> SUFFICES ASSUME IInv, Short, pc \in {"done", "exit"}
               PROVE  /\ (nread - 1) * BlockSize < obj.offset + last_obj_size
                      /\ obj.offset + last_obj_size <= nread * BlockSize
    BY DEF HeadAfterObject
  <2>1. /\ Typed /\ left = 0
        /\ (nread - 1) * BlockSize < Written /\ Written <= nread * BlockSize
    BY ObjFacts DEF IInv, CopyInv
  <2>2. Written = obj.offset + last_obj_size
    BY <2>1 DEF Written, last_obj_size, Typed
  <2> QED
    BY <2>1, <2>2
<1> QED
  BY <1>1, Invariance, PTL
-----------------------------------------------------------------------------
(* Remainders, and the end of the object in its last block *)

LEMMA DivMod ==
  ASSUME NEW n \in Nat, NEW b \in Nat, b > 0
  PROVE  /\ n % b \in 0..(b - 1) /\ n \div b \in Nat
         /\ n = (n \div b) * b + (n % b)
OBVIOUS

LEMMA SameQuotient ==
  ASSUME NEW q \in Int, NEW p \in Int, NEW b \in Nat, NEW r \in 0..(b - 1), NEW s \in 0..(b - 1),
         q * b + r = p * b + s
  PROVE  q = p /\ r = s
<1>1. (q - p) * b = s - r
  OBVIOUS
<1>2. q - p < 1
  BY <1>1
<1>3. q - p > -1
  BY <1>1
<1> QED
  BY <1>1, <1>2, <1>3

LEMMA ModMinus ==
  ASSUME NEW n \in Nat, NEW b \in Nat, b > 0, n >= b
  PROVE  (n - b) % b = n % b
<1>1. /\ n % b \in 0..(b - 1) /\ n = (n \div b) * b + (n % b) /\ n \div b \in Nat
  BY DivMod
<1>2. /\ (n - b) % b \in 0..(b - 1) /\ n - b = ((n - b) \div b) * b + ((n - b) % b) /\ (n - b) \div b \in Nat
  BY DivMod
<1>3. ((n - b) \div b + 1) * b + ((n - b) % b) = (n \div b) * b + (n % b)
  BY <1>1, <1>2
<1> DEFINE x == (n - b) \div b
           y == n \div b
           r == (n - b) % b
           s == n % b
<1>4. x \in Nat /\ y \in Nat /\ r \in 0..(b - 1) /\ s \in 0..(b - 1) /\ (x + 1) * b + r = y * b + s
  BY <1>1, <1>2, <1>3
<1> HIDE DEF x, y, r, s
<1>5. r = s
  BY <1>4, SameQuotient
<1> QED
  BY <1>5 DEF r, s

\* Block k - 1 holds byte e - 1, and what is behind it is behind e.
LEMMA BehindEnd ==
  ASSUME NEW k \in Nat, NEW b \in Nat, b > 0, NEW e \in Nat, NEW at \in Nat,
         (k - 1) * b < e, e <= k * b, e % b # 0, at >= e % b
  PROVE  (k - 1) * b + at >= e
<1>1. /\ e % b \in 0..(b - 1) /\ e = (e \div b) * b + (e % b) /\ e \div b \in Nat
  BY DivMod
<1> DEFINE q == e \div b
           r == e % b
<1>2. r \in 0..(b - 1) /\ q \in Nat /\ e = q * b + r /\ r # 0
  BY <1>1
<1> HIDE DEF q, r
<1>3. (k - q) * b >= r /\ (k - q - 1) * b < r
  BY <1>2
<1>4. k - q > 0
  BY <1>2, <1>3
<1>5. k - q < 2
  BY <1>2, <1>3
<1>6. k - 1 = q
  BY <1>2, <1>4, <1>5
<1> QED
  BY <1>2, <1>6 DEF r

-----------------------------------------------------------------------------
(* The padding *)

\* Where the object ends.
End == obj.offset + last_obj_size

\* Behind the metadata offset is the object's place in its first block, or has been
\* wrapped by a block; and a run that exited had an object that fills its last block.
EndInv ==
  Short =>
    /\ pc \in {"data", "done", "exit"} =>
         \/ offset = obj.offset
         \/ obj.offset + obj.metaLen > BlockSize /\ offset = obj.offset - BlockSize + Word
    /\ pc = "exit" => End % BlockSize = 0

LEMMA EndType ==
  ASSUME IInv
  PROVE  End \in Nat /\ last_obj_size \in Nat /\ End < Word /\ BlockSize > 0
BY ObjFacts DEF IInv, Typed, End, last_obj_size

\* PaddingStart is the place of the end in its block, wrapped or not.
LEMMA PaddingPlace ==
  ASSUME IInv, EndInv, Short, pc = "data"
  PROVE  PaddingStart = End % BlockSize
<1>0. Typed /\ End \in Nat /\ last_obj_size \in Nat /\ End < Word /\ BlockSize > 0
  BY EndType, ObjFacts DEF IInv
<1>1. CASE offset = obj.offset
  <2>1. Plus(offset, last_obj_size) = End
    BY <1>0, <1>1 DEF Plus, End, Typed
  <2> QED
    BY <2>1 DEF PaddingStart
<1>2. CASE obj.offset + obj.metaLen > BlockSize /\ offset = obj.offset - BlockSize + Word
  <2>1. End >= BlockSize
    BY <1>0, <1>2 DEF End, last_obj_size, Typed
  <2>2. Plus(offset, last_obj_size) = End - BlockSize
    BY <1>0, <1>2, <2>1 DEF Plus, End, Typed
  <2>3. (End - BlockSize) % BlockSize = End % BlockSize
    BY <1>0, <2>1, ModMinus DEF Typed
  <2> QED
    BY <2>2, <2>3 DEF PaddingStart
<1> QED
  BY <1>1, <1>2 DEF EndInv

LEMMA EndStep == IInv /\ EndInv /\ [Next]_vars => EndInv'
<1> SUFFICES ASSUME IInv, EndInv, [Next]_vars, Short' PROVE EndInv'
  BY DEF EndInv
<1>0. UNCHANGED <<obj, Short, End>> /\ Short
  BY DEF Next, vars, ReadBlock, TakeMeta, WriteFirst, CopyBlock, EndObject, Short, End, last_obj_size
<1>1. CASE ReadBlock
  BY <1>1 DEF ReadBlock, EndInv
<1>2. CASE TakeMeta
  BY <1>2 DEF TakeMeta, EndInv
<1>3. CASE WriteFirst
  <2>1. pc = "first" /\ pc' = "data" /\ UNCHANGED offset
    BY <1>3 DEF WriteFirst
  <2>2. \/ offset = obj.offset
        \/ obj.offset + obj.metaLen > BlockSize /\ offset = obj.offset - BlockSize + Word
    BY <1>0, <2>1 DEF IInv, CopyInv
  <2> QED
    BY <1>0, <2>1, <2>2 DEF EndInv
<1>4. CASE CopyBlock
  BY <1>0, <1>4 DEF CopyBlock, EndInv
<1>5. CASE EndObject
  <2>1. pc = "data" /\ left = 0 /\ UNCHANGED offset
    BY <1>5 DEF EndObject
  <2>2. ASSUME pc' = "exit" PROVE End % BlockSize = 0
    <3>1. ~ZeroPadded
      BY <1>5, <2>2 DEF EndObject
    <3>2. PICK at \in PaddingStart..(BlockSize - 1) : (nread - 1) * BlockSize + at < End
      <4> DEFINE ok(at) == (nread - 1) * BlockSize + at >= obj.offset + last_obj_size
      <4>1. PICK at \in PaddingStart..(BlockSize - 1) : ~ok(at)
        BY <3>1 DEF ZeroPadded
      <4>2. at \in Int /\ nread \in Nat /\ BlockSize \in Nat /\ End \in Nat
        BY EndType, ObjFacts DEF Typed, IInv
      <4>3. ~((nread - 1) * BlockSize + at >= End)
        BY <4>1 DEF End
      <4>4. (nread - 1) * BlockSize \in Int
        BY <4>2
      <4> QED
        BY <4>2, <4>3, <4>4
    <3>3. PaddingStart = End % BlockSize
      BY <1>0, <2>1, PaddingPlace
    <3>4. (nread - 1) * BlockSize < End /\ End <= nread * BlockSize
      BY <1>0, <2>1, ObjFacts DEF IInv, CopyInv, Written, End, last_obj_size, Typed
    <3>5. Typed /\ End \in Nat /\ BlockSize > 0 /\ End % BlockSize \in 0..(BlockSize - 1)
      BY EndType, ObjFacts, DivMod DEF IInv, Typed
    <3>6. nread \in Nat /\ BlockSize \in Nat /\ at \in Nat /\ at >= End % BlockSize
      BY <3>2, <3>3, <3>5 DEF Typed
    <3>7. End % BlockSize # 0 => (nread - 1) * BlockSize + at >= End
      BY <3>4, <3>5, <3>6, BehindEnd
    <3>8. (nread - 1) * BlockSize \in Int
      BY <3>6
    <3> QED
      BY <3>2, <3>5, <3>6, <3>7, <3>8
  <2> QED
    BY <1>0, <2>1, <2>2 DEF EndInv
<1>6. CASE UNCHANGED vars
  BY <1>0, <1>6 DEF EndInv, vars
<1> QED
  BY <1>1, <1>2, <1>3, <1>4, <1>5, <1>6 DEF Next

\* A well-formed PO whose zero padding is refused fills its last block: no other one
\* ends a run, wherever its last object begins and ends.
THEOREM OnlyAlignedRefused == Spec => []RefusedOnlyAligned
<1>1. Init => EndInv
  BY DEF Init, EndInv
<1>2. EndInv => RefusedOnlyAligned
  BY DEF EndInv, RefusedOnlyAligned, End
<1> QED
  BY <1>1, <1>2, EndStep, Invariance, PTL DEF Spec
=============================================================================
