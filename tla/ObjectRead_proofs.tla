-------------------------- MODULE ObjectRead_proofs --------------------------
(***************************************************************************)
(* Theorems about ObjectRead, for every tape, block size and selection, and*)
(* any number of runs: where the metadata and the end of a packed object   *)
(* are found, that nothing is appended to a file twice, and that what is   *)
(* said to be complete is whole unless a run was stopped while writing it. *)
(***************************************************************************)
EXTENDS ObjectRead, SequenceTheorems, TLAPS

-----------------------------------------------------------------------------
(* Blocks *)

LEMMA BlockParts ==
  ASSUME NEW n \in Nat, NEW b \in Nat \ {0}
  PROVE  /\ n % b \in 0..(b - 1) /\ n \div b \in Nat
         /\ n = (n \div b) * b + (n % b)
OBVIOUS

\* A place is in one block, at one offset.
LEMMA OneBlock ==
  ASSUME NEW b \in Nat \ {0}, NEW q \in Nat, NEW r \in 0..(b - 1), NEW n \in Nat, n = q * b + r
  PROVE  n \div b = q /\ n % b = r
<1> DEFINE x == n \div b
           y == n % b
<1>1. y \in 0..(b - 1) /\ x \in Nat /\ n = x * b + y
  BY BlockParts
<1> HIDE DEF x, y
<1>2. (q - x) * b = y - r
  BY <1>1
<1>3. q - x < 1
  BY <1>1, <1>2
<1>4. q - x > -1
  BY <1>1, <1>2
<1>5. q = x
  BY <1>1, <1>3, <1>4
<1> QED
  BY <1>1, <1>5 DEF x, y

\* What begins in one block and is not longer than a block ends in that or the next.
LEMMA NextBlock ==
  ASSUME NEW b \in Nat \ {0}, NEW n \in Nat, NEW d \in 1..b, (n % b) + d > b
  PROVE  ((n + d) \div b) * b = n - (n % b) + b
<1> DEFINE x == n \div b
           y == n % b
<1>1. y \in 0..(b - 1) /\ x \in Nat /\ n = x * b + y /\ y + d > b
  BY BlockParts
<1> HIDE DEF x, y
<1>2. (x + 1) * b = x * b + b
  BY <1>1
<1>3. n + d = (x + 1) * b + (y + d - b) /\ y + d - b \in 0..(b - 1) /\ n + d \in Nat
  BY <1>1, <1>2
<1>4. (n + d) \div b = x + 1
  BY <1>1, <1>3, OneBlock
<1> QED
  BY <1>1, <1>2, <1>4 DEF y

\* The numbers of the tape.
LEMMA SizesType == BlockSize \in Nat \ {0} /\ IdentifierSize \in Nat /\ HeaderSize \in Nat /\ DirSize \in 1..BlockSize
BY SizesAssumption

\* What main makes of the address and the offset in a list is where the walk found
\* the metadata.
LEMMA LocatedWhereFound ==
  ASSUME NEW m \in ObjectNumbers
  PROVE  Located(m) = <<BlockOf(m), OffsetOf(m)>>
<1> DEFINE a == Packs[Objects[m].pack].block
           n == Objects[m].place
           q == n \div BlockSize
           r == n % BlockSize
<1>1. a \in Nat /\ n \in Nat /\ BlockSize \in Nat \ {0}
  BY TapeAssumption, SizesAssumption
<1>2. q \in Nat /\ r \in 0..(BlockSize - 1) /\ n = q * BlockSize + r
  BY <1>1, BlockParts
<1>3. BlockOf(m) = a + q /\ OffsetOf(m) = r /\ ListedAddress(m) = a
  BY DEF BlockOf, OffsetOf, ListedAddress
<1>4. ListedOffset(m) = n
  <2>1. (a + q) - a = q
    BY <1>1, <1>2
  <2> QED
    BY <1>2, <1>3, <2>1 DEF ListedOffset
<1> QED
  BY <1>3, <1>4 DEF Located

LEMMA PlaceType ==
  ASSUME NEW m \in ObjectNumbers
  PROVE  BlockOf(m) \in Nat /\ OffsetOf(m) \in Nat
<1>1. Packs[Objects[m].pack].block \in Nat /\ Objects[m].place \in Nat /\ BlockSize \in Nat \ {0}
  BY TapeAssumption, SizesAssumption
<1>2. Objects[m].place \div BlockSize \in Nat /\ Objects[m].place % BlockSize \in 0..(BlockSize - 1)
  BY <1>1, BlockParts
<1> QED
  BY <1>1, <1>2 DEF BlockOf, OffsetOf

LEMMA RemainedType ==
  ASSUME NEW m \in ObjectNumbers
  PROVE  remained_tape_data_size(m) \in Nat
<1>1. Located(m)[2] \in Nat
  BY LocatedWhereFound, PlaceType
<1>2. Located(m)[2] + Objects[m].metaSize \in Nat /\ BlockSize \in Nat \ {0}
  BY <1>1, TapeAssumption, SizesAssumption
<1>3. BlockSize - ((Located(m)[2] + Objects[m].metaSize) % BlockSize) \in Nat
  BY <1>2, BlockParts
<1> QED
  BY <1>2, <1>3, BlockParts DEF remained_tape_data_size

\* The last entry of a directory is put together of its own bytes, wherever it lies in
\* its blocks, and so the PO has the size it has.
LEMMA SizeFound ==
  ASSUME NEW p \in PackNumbers
  PROVE  po_size(p) = Packs[p].size
<1> DEFINE k == last_obj_dir_from(p)
<1>1. k \in Nat /\ BlockSize \in Nat \ {0} /\ DirSize \in 1..BlockSize
  BY TapeAssumption, SizesAssumption DEF last_obj_dir_from
<1>2. ASSUME NEW i \in 0..(DirSize - 1) PROVE EntryByte(p, i) = k + i
  <2>1. k % BlockSize \in 0..(BlockSize - 1)
    BY <1>1, BlockParts
  <2>2. CASE i < BlockSize - (k % BlockSize)
    BY <2>2 DEF EntryByte
  <2>3. CASE ~(i < BlockSize - (k % BlockSize))
    <3>1. (k % BlockSize) + DirSize > BlockSize
      BY <1>1, <2>1, <2>3
    <3>2. SecondPart(p) * BlockSize = k - (k % BlockSize) + BlockSize
      BY <1>1, <3>1, NextBlock DEF SecondPart, last_obj_dir_to
    <3>3. EntryByte(p, i) = SecondPart(p) * BlockSize + (i - (BlockSize - (k % BlockSize)))
      BY <2>3 DEF EntryByte
    <3> QED
      BY <1>1, <2>1, <3>2, <3>3
  <2> QED
    BY <2>2, <2>3
<1>3. last_data_offset(p) = Packs[p].size - IdentifierSize
  BY <1>2 DEF last_data_offset
<1> QED
  BY <1>3, TapeAssumption, SizesAssumption DEF po_size

-----------------------------------------------------------------------------
(* The invariant *)

MetaRight(m) == files[m].meta = <<<<BlockOf(m), OffsetOf(m)>>>>
Done(m)      == ObjectWhole(m) \/ <<"object", m>> \in torn
PackDone(p)  == PackWhole(p) \/ <<"pack", p>> \in torn
Writing(m)   == pc \in {"data", "block"} /\ m = Object
Packing(p)   == pc = "packblock" /\ p = Pack

\* An object has not been touched, or is done, or is being written; and never has more
\* than its own.
ObjectInv ==
  \A m \in ObjectNumbers :
    \/ files[m] = Nothing
    \/ /\ MetaRight(m) /\ files[m].data <= Objects[m].size
       /\ Done(m) \/ Writing(m)

PackInv ==
  \A p \in PackNumbers :
    \/ packs[p] = [bytes |-> 0, opened |-> FALSE]
    \/ packs[p].opened /\ packs[p].bytes <= Packs[p].size /\ (PackDone(p) \/ Packing(p))

\* The file that is being written lacks what is left.
LeftInv ==
  /\ pc = "data"  => files[Object] = [meta |-> <<<<BlockOf(Object), OffsetOf(Object)>>>>, data |-> 0, opened |-> FALSE]
  /\ pc = "block" => /\ MetaRight(Object) /\ files[Object].opened
                     /\ files[Object].data + left = Objects[Object].size
  /\ pc = "pack" => left = Packs[Pack].size
  /\ pc = "packblock" => packs[Pack].opened /\ packs[Pack].bytes + left = Packs[Pack].size

\* What has been chosen is done or still to be done.
ChosenInv ==
  /\ pc # "off" => /\ chosen \in Selections
                   /\ \A i \in DOMAIN chosen : Done(chosen[i]) \/ \E j \in DOMAIN todo : todo[j] = chosen[i]
  /\ pc \in {"pack", "packblock"} => todo = << >> /\ level = 1

IInv == TypeOK /\ ObjectInv /\ PackInv /\ LeftInv /\ ChosenInv /\ WholeUnlessTorn

\* The facts about the objects in hand.
LEMMA HandType ==
  ASSUME TypeOK, ChosenInv
  PROVE  /\ todo # << >> => Object \in ObjectNumbers /\ Tail(todo) \in Seq(ObjectNumbers)
         /\ pc # "off" => /\ Head(chosen) \in ObjectNumbers /\ Pack \in PackNumbers
                          /\ chosen \in Seq(ObjectNumbers) /\ chosen # << >>
<1>1. todo \in Seq(ObjectNumbers)
  BY DEF TypeOK
<1>2. pc # "off" => chosen \in Seq(ObjectNumbers) /\ chosen # << >>
  BY SelectionsAssumption DEF ChosenInv
<1> QED
  BY <1>1, <1>2, TapeAssumption, HeadTailProperties DEF Object, Pack

\* The .data file of an object is made after its .meta file, and so is never found
\* when there is no .meta file.
LEMMA DataAfterMeta == IInv => \A m \in ObjectNumbers : ~MetaExists(m) => ~files[m].opened
BY DEF IInv, ObjectInv, MetaExists, MetaRight, Nothing

LEMMA InitHolds == Init => IInv
<1> SUFFICES ASSUME Init PROVE IInv
  OBVIOUS
<1>1. TypeOK
  <2>1. Nothing \in [meta : Seq(Nat \X Nat), data : Nat, opened : BOOLEAN]
    BY DEF Nothing
  <2>2. 0 \in 0..MaxRuns /\ << >> \in Seq(ObjectNumbers)
    BY SizesAssumption
  <2> QED
    BY <2>1, <2>2 DEF Init, TypeOK
<1> QED
  BY <1>1 DEF Init, IInv, ObjectInv, PackInv, LeftInv, ChosenInv, WholeUnlessTorn, Nothing

LEMMA ElementsOf ==
  ASSUME NEW S, NEW c \in Seq(S)
  PROVE  \A i \in DOMAIN c : c[i] \in S
OBVIOUS

LEMMA FileFields ==
  ASSUME NEW r \in [meta : Seq(Nat \X Nat), data : Nat, opened : BOOLEAN], r.opened
  PROVE  r = [meta |-> r.meta, data |-> r.data, opened |-> TRUE]
OBVIOUS

LEMMA NewFields ==
  ASSUME NEW r \in [meta : Seq(Nat \X Nat), data : Nat, opened : BOOLEAN], ~r.opened
  PROVE  r = [meta |-> r.meta, data |-> r.data, opened |-> FALSE]
OBVIOUS

\* What is done stays done.
LEMMA DoneKept ==
  ASSUME \A m \in ObjectNumbers : ObjectWhole(m) => files'[m] = files[m],
         \A p \in PackNumbers : PackWhole(p) => packs'[p] = packs[p],
         torn \subseteq torn'
  PROVE  /\ \A m \in ObjectNumbers : Done(m) => Done(m)'
         /\ \A p \in PackNumbers : PackDone(p) => PackDone(p)'
         /\ WholeUnlessTorn /\ TypeOK /\ said' = said => WholeUnlessTorn'
<1>1. \A m \in ObjectNumbers : Done(m) => Done(m)'
  BY DEF Done, ObjectWhole
<1>2. \A p \in PackNumbers : PackDone(p) => PackDone(p)'
  BY DEF PackDone, PackWhole
<1>3. ASSUME WholeUnlessTorn, TypeOK, said' = said PROVE WholeUnlessTorn'
  <2>1. ASSUME NEW s \in said
        PROVE  /\ \A i \in DOMAIN s[2] : Done(s[2][i])'
               /\ s[1] = 1 => PackDone(Objects[s[2][1]].pack)'
    <3>1. s[2] \in Selections
      BY <1>3 DEF TypeOK
    <3>2. s[2] \in Seq(ObjectNumbers) /\ s[2] # << >>
      BY <3>1, SelectionsAssumption
    <3>3. \A i \in DOMAIN s[2] : s[2][i] \in ObjectNumbers /\ Done(s[2][i])
      <4>1. \A i \in DOMAIN s[2] : s[2][i] \in ObjectNumbers
        BY <3>2, ElementsOf
      <4>2. \A i \in DOMAIN s[2] : Done(s[2][i])
        BY <1>3 DEF WholeUnlessTorn, Done
      <4> QED
        BY <4>1, <4>2
    <3>4. s[2][1] \in ObjectNumbers
      BY <3>2
    <3>5. Objects[s[2][1]].pack \in PackNumbers
      BY <3>4, TapeAssumption
    <3>6. s[1] = 1 => PackDone(Objects[s[2][1]].pack)
      BY <1>3 DEF WholeUnlessTorn, PackDone
    <3> QED
      BY <1>1, <1>2, <3>3, <3>5, <3>6
  <2> QED
    BY <1>3, <2>1 DEF WholeUnlessTorn, Done, PackDone
<1> QED
  BY <1>1, <1>2, <1>3

\* A step that writes no file.
LEMMA NoFileStep ==
  ASSUME IInv, UNCHANGED <<files, packs, torn, said>>, TypeOK', LeftInv', ChosenInv',
         pc \in {"data", "block"} => Done(Object),
         pc = "packblock" => PackDone(Pack)
  PROVE  IInv'
<1>1. /\ \A m \in ObjectNumbers : Done(m) => Done(m)'
      /\ \A p \in PackNumbers : PackDone(p) => PackDone(p)'
      /\ WholeUnlessTorn'
  BY DoneKept DEF IInv
<1>2. ObjectInv'
  BY <1>1 DEF IInv, ObjectInv, Writing, MetaRight
<1>3. PackInv'
  BY <1>1 DEF IInv, PackInv, Packing
<1> QED
  BY <1>1, <1>2, <1>3 DEF IInv

LEMMA StartHolds == IInv /\ Start => IInv'
<1> SUFFICES ASSUME IInv, Start PROVE IInv'
  OBVIOUS
<1>1. /\ pc = "off" /\ pc' = "object" /\ runs' = runs + 1 /\ runs < MaxRuns
      /\ level' \in {0, 1} /\ chosen' \in Selections /\ todo' = chosen'
      /\ UNCHANGED <<files, packs, left, torn, said>>
  BY DEF Start
<1>2. todo' \in Seq(ObjectNumbers)
  BY <1>1, SelectionsAssumption
<1>3. TypeOK'
  BY <1>1, <1>2, SizesAssumption DEF IInv, TypeOK
<1>4. LeftInv' /\ ChosenInv'
  BY <1>1 DEF LeftInv, ChosenInv
<1> QED
  BY <1>1, <1>3, <1>4, NoFileStep

\* The next object: the one in hand is done.
LEMMA NextChosen ==
  ASSUME IInv, todo # << >>, pc # "off", todo' = Tail(todo), Done(Object),
         UNCHANGED <<files, packs, torn, chosen>>, pc' = "object"
  PROVE  ChosenInv' /\ todo' \in Seq(ObjectNumbers)
<1>1. todo \in Seq(ObjectNumbers) /\ todo' \in Seq(ObjectNumbers) /\ chosen \in Seq(ObjectNumbers)
  BY HandType DEF IInv, TypeOK
<1>2. \A m \in ObjectNumbers : Done(m) => Done(m)'
  BY DoneKept
<1>3. ASSUME NEW i \in DOMAIN chosen, ~Done(chosen[i])
      PROVE  \E j \in DOMAIN todo' : todo'[j] = chosen[i]
  <2>1. PICK j \in DOMAIN todo : todo[j] = chosen[i]
    BY <1>3 DEF IInv, ChosenInv
  <2>2. j # 1
    BY <1>3, <2>1 DEF Object
  <2>3. j - 1 \in DOMAIN todo' /\ todo'[j - 1] = todo[j]
    BY <1>1, <2>1, <2>2
  <2> QED
    BY <2>1, <2>3
<1>4. \A i \in DOMAIN chosen : chosen[i] \in ObjectNumbers
  BY <1>1
<1> QED
  BY <1>1, <1>2, <1>3, <1>4 DEF IInv, ChosenInv

LEMMA SkipObjectHolds == IInv /\ SkipObject => IInv'
<1> SUFFICES ASSUME IInv, SkipObject PROVE IInv'
  OBVIOUS
<1>1. /\ pc = "object" /\ pc' = "object" /\ todo # << >> /\ MetaExists(Object) /\ todo' = Tail(todo)
      /\ UNCHANGED <<files, packs, level, chosen, left, torn, said, runs>>
  BY DEF SkipObject
<1>2. Object \in ObjectNumbers
  BY <1>1, HandType DEF IInv
<1>3. Done(Object)
  BY <1>1, <1>2 DEF IInv, ObjectInv, MetaExists, Nothing, Writing
<1>4. ChosenInv' /\ todo' \in Seq(ObjectNumbers)
  BY <1>1, <1>3, NextChosen
<1>5. TypeOK' /\ LeftInv'
  BY <1>1, <1>4 DEF IInv, TypeOK, LeftInv
<1> QED
  BY <1>1, <1>4, <1>5, NoFileStep

LEMMA NextObjectHolds == IInv /\ NextObject => IInv'
<1> SUFFICES ASSUME IInv, NextObject PROVE IInv'
  OBVIOUS
<1>1. /\ pc = "block" /\ left = 0 /\ pc' = "object" /\ todo' = Tail(todo) /\ todo # << >>
      /\ UNCHANGED <<files, packs, level, chosen, left, torn, said, runs>>
  BY DEF NextObject, IInv, TypeOK
<1>2. Object \in ObjectNumbers
  BY <1>1, HandType DEF IInv
<1>3. ObjectWhole(Object)
  <2>1. files[Object] \in [meta : Seq(Nat \X Nat), data : Nat, opened : BOOLEAN]
    BY <1>2 DEF IInv, TypeOK
  <2>2. MetaRight(Object) /\ files[Object].opened /\ files[Object].data + 0 = Objects[Object].size
    BY <1>1 DEF IInv, LeftInv
  <2>3. files[Object].data = Objects[Object].size
    BY <2>1, <2>2
  <2>4. files[Object] = [meta |-> files[Object].meta, data |-> files[Object].data, opened |-> TRUE]
    BY <2>1, <2>2, FileFields
  <2> QED
    BY <2>2, <2>3, <2>4 DEF ObjectWhole, MetaRight
<1>4. ChosenInv' /\ todo' \in Seq(ObjectNumbers)
  BY <1>1, <1>3, NextChosen DEF Done
<1>5. TypeOK' /\ LeftInv'
  BY <1>1, <1>4 DEF IInv, TypeOK, LeftInv
<1> QED
  BY <1>1, <1>3, <1>4, <1>5, NoFileStep DEF Done

\* A step that writes the files of the object in hand, which was not whole.
LEMMA ObjectStep ==
  ASSUME IInv, pc \in {"object", "data", "block"}, pc' \in {"data", "block"}, todo # << >>,
         UNCHANGED <<packs, level, chosen, todo, torn, said, runs>>,
         NEW f, files' = [files EXCEPT ![Object] = f],
         f \in [meta : Seq(Nat \X Nat), data : Nat, opened : BOOLEAN],
         f.meta = <<<<BlockOf(Object), OffsetOf(Object)>>>>, f.data <= Objects[Object].size,
         ~ObjectWhole(Object), left' \in Nat, LeftInv'
  PROVE  IInv'
<1>1. Object \in ObjectNumbers /\ files \in [ObjectNumbers -> [meta : Seq(Nat \X Nat), data : Nat, opened : BOOLEAN]]
  BY HandType DEF IInv, TypeOK
<1>2. files'[Object] = f /\ \A m \in ObjectNumbers : m # Object => files'[m] = files[m]
  BY <1>1
<1>3. /\ \A m \in ObjectNumbers : Done(m) => Done(m)'
      /\ \A p \in PackNumbers : PackDone(p) => PackDone(p)'
      /\ WholeUnlessTorn'
  BY <1>2, DoneKept DEF IInv
<1>4. TypeOK'
  BY <1>1 DEF IInv, TypeOK
<1>5. ObjectInv'
  <2> SUFFICES ASSUME NEW m \in ObjectNumbers
               PROVE  \/ files'[m] = Nothing
                      \/ MetaRight(m)' /\ files'[m].data <= Objects[m].size /\ (Done(m) \/ Writing(m))'
    BY DEF ObjectInv
  <2>1. CASE m = Object
    BY <1>2, <2>1 DEF MetaRight, Writing, Object
  <2>2. CASE m # Object
    BY <1>2, <1>3, <2>2 DEF IInv, ObjectInv, MetaRight, Writing, Object
  <2> QED
    BY <2>1, <2>2
<1>6. PackInv'
  BY <1>3 DEF IInv, PackInv, Packing
<1>7. ChosenInv'
  <2>1. \A i \in DOMAIN chosen : chosen[i] \in ObjectNumbers
    BY HandType DEF IInv
  <2> QED
    BY <1>3, <2>1 DEF IInv, ChosenInv
<1> QED
  BY <1>3, <1>4, <1>5, <1>6, <1>7 DEF IInv

LEMMA FirstMeta ==
  ASSUME NEW r \in [meta : Seq(Nat \X Nat), data : Nat, opened : BOOLEAN], ~r.opened,
         NEW meta \in Seq(Nat \X Nat)
  PROVE  [r EXCEPT !.meta = meta] = [meta |-> meta, data |-> r.data, opened |-> FALSE]
<1> DEFINE x == [r EXCEPT !.meta = meta]
<1>1. x \in [meta : Seq(Nat \X Nat), data : Nat, opened : BOOLEAN]
  OBVIOUS
<1>2. x.meta = meta /\ x.data = r.data /\ ~x.opened
  OBVIOUS
<1> HIDE DEF x
<1>3. x = [meta |-> x.meta, data |-> x.data, opened |-> FALSE]
  BY <1>1, <1>2, NewFields
<1> QED
  BY <1>2, <1>3 DEF x

LEMMA WriteMetaHolds == IInv /\ WriteMeta => IInv'
<1> SUFFICES ASSUME IInv, WriteMeta PROVE IInv'
  OBVIOUS
<1>1. /\ pc = "object" /\ pc' = "data" /\ todo # << >> /\ files[Object].meta = << >>
      /\ files' = [files EXCEPT ![Object].meta = Append(@, Located(Object))]
      /\ UNCHANGED <<packs, level, chosen, todo, left, torn, said, runs>>
  BY DEF WriteMeta, MetaExists
<1>2. Object \in ObjectNumbers /\ files[Object] = Nothing
  <2>1. Object \in ObjectNumbers
    BY <1>1, HandType DEF IInv
  <2> QED
    BY <1>1, <2>1 DEF IInv, ObjectInv, MetaRight
<1> DEFINE f == [meta |-> <<<<BlockOf(Object), OffsetOf(Object)>>>>, data |-> 0, opened |-> FALSE]
<1>3. files' = [files EXCEPT ![Object] = f]
  <2>1. files' = [files EXCEPT ![Object] = [Nothing EXCEPT !.meta = Append(@, Located(Object))]]
    BY <1>1, <1>2
  <2>2. [Nothing EXCEPT !.meta = Append(@, Located(Object))] = f
    <3>1. Append(<< >>, Located(Object)) = <<<<BlockOf(Object), OffsetOf(Object)>>>>
      BY <1>2, LocatedWhereFound
    <3>2. Nothing.meta = << >>
      BY DEF Nothing
    <3>3. [Nothing EXCEPT !.meta = Append(@, Located(Object))]
            = [Nothing EXCEPT !.meta = <<<<BlockOf(Object), OffsetOf(Object)>>>>]
      BY <3>1, <3>2
    <3>4. /\ Nothing \in [meta : Seq(Nat \X Nat), data : Nat, opened : BOOLEAN]
          /\ ~Nothing.opened /\ Nothing.data = 0
      BY DEF Nothing
    <3>5. <<<<BlockOf(Object), OffsetOf(Object)>>>> \in Seq(Nat \X Nat)
      BY <1>2, PlaceType
    <3> QED
      BY <3>3, <3>4, <3>5, FirstMeta
  <2> QED
    BY <2>1, <2>2
<1>4. f \in [meta : Seq(Nat \X Nat), data : Nat, opened : BOOLEAN]
  <2>1. BlockOf(Object) \in Nat /\ OffsetOf(Object) \in Nat
    BY <1>2, PlaceType
  <2> QED
    BY <2>1
<1>5. f.meta = <<<<BlockOf(Object), OffsetOf(Object)>>>> /\ f.data <= Objects[Object].size
  BY <1>2, TapeAssumption
<1>6. ~ObjectWhole(Object)
  BY <1>1 DEF ObjectWhole
<1>7. LeftInv' /\ left' \in Nat
  <2>1. Object' = Object /\ files'[Object] = f
    BY <1>1, <1>2, <1>3 DEF Object, IInv, TypeOK
  <2> QED
    BY <1>1, <2>1 DEF LeftInv, IInv, TypeOK, BlockOf, OffsetOf
<1> HIDE DEF f
<1> QED
  BY <1>1, <1>3, <1>4, <1>5, <1>6, <1>7, ObjectStep

LEMMA LeastType ==
  ASSUME NEW a \in Nat, NEW b \in Nat
  PROVE  Min({a, b}) = IF a <= b THEN a ELSE b
<1> DEFINE x == IF a <= b THEN a ELSE b
<1>1. x \in {a, b} /\ \A y \in {a, b} : x <= y
  OBVIOUS
<1>2. \A y \in {a, b} : (\A z \in {a, b} : y <= z) => y = x
  OBVIOUS
<1> QED
  BY <1>1, <1>2 DEF Min

LEMMA WriteFirstHolds == IInv /\ WriteFirst => IInv'
<1> SUFFICES ASSUME IInv, WriteFirst PROVE IInv'
  OBVIOUS
<1> DEFINE n == Min({Objects[Object].size, remained_tape_data_size(Object)})
<1>0. pc = "data" /\ todo # << >> /\ Object \in ObjectNumbers
  BY HandType DEF IInv, TypeOK, WriteFirst
<1>1. /\ pc' = "block"
      /\ files' = [files EXCEPT ![Object] = [meta |-> @.meta, data |-> @.data + n, opened |-> TRUE]]
      /\ left' = Objects[Object].size - n
      /\ UNCHANGED <<packs, level, chosen, todo, torn, said, runs>>
  BY DEF WriteFirst
<1>2. files[Object] = [meta |-> <<<<BlockOf(Object), OffsetOf(Object)>>>>, data |-> 0, opened |-> FALSE]
  BY <1>0 DEF IInv, LeftInv
<1>3. Objects[Object].size \in Nat /\ n \in 0..Objects[Object].size
  BY <1>0, RemainedType, TapeAssumption, LeastType
<1> HIDE DEF n
<1> DEFINE f == [meta |-> <<<<BlockOf(Object), OffsetOf(Object)>>>>, data |-> n, opened |-> TRUE]
<1>4. files' = [files EXCEPT ![Object] = f]
  <2> DEFINE g == [meta |-> files[Object].meta, data |-> files[Object].data + n, opened |-> TRUE]
  <2>1. files' = [files EXCEPT ![Object] = g]
    BY <1>1
  <2>2. g = f
    BY <1>2, <1>3
  <2> HIDE DEF f, g
  <2> QED
    BY <2>1, <2>2
<1>5. f \in [meta : Seq(Nat \X Nat), data : Nat, opened : BOOLEAN]
  <2>1. files[Object] \in [meta : Seq(Nat \X Nat), data : Nat, opened : BOOLEAN]
    BY <1>0 DEF IInv, TypeOK
  <2> QED
    BY <1>2, <1>3, <2>1
<1>6. f.meta = <<<<BlockOf(Object), OffsetOf(Object)>>>> /\ f.data <= Objects[Object].size
  BY <1>3
<1>7. ~ObjectWhole(Object)
  BY <1>2 DEF ObjectWhole
<1>8. LeftInv' /\ left' \in Nat
  <2>1. Object' = Object /\ files'[Object] = f
    BY <1>0, <1>1, <1>4 DEF Object, IInv, TypeOK
  <2>2. f.data + left' = Objects[Object].size /\ left' \in Nat /\ f.opened
    BY <1>1, <1>3
  <2> HIDE DEF f
  <2> QED
    BY <1>0, <1>1, <1>6, <2>1, <2>2 DEF LeftInv, MetaRight, BlockOf, OffsetOf
<1> HIDE DEF f
<1> QED
  BY <1>0, <1>1, <1>4, <1>5, <1>6, <1>7, <1>8, ObjectStep

LEMMA WriteBlockHolds == IInv /\ WriteBlock => IInv'
<1> SUFFICES ASSUME IInv, WriteBlock PROVE IInv'
  OBVIOUS
<1> DEFINE n == Min({left, BlockSize})
<1>0. /\ pc = "block" /\ todo # << >> /\ Object \in ObjectNumbers /\ left \in Nat /\ left > 0
      /\ files[Object] \in [meta : Seq(Nat \X Nat), data : Nat, opened : BOOLEAN]
  BY HandType DEF IInv, TypeOK, WriteBlock
<1>1. /\ files' = [files EXCEPT ![Object].data = @ + n] /\ left' = left - n
      /\ UNCHANGED <<packs, pc, level, chosen, todo, torn, said, runs>>
  BY DEF WriteBlock
<1>2. MetaRight(Object) /\ files[Object].opened /\ files[Object].data + left = Objects[Object].size
  BY <1>0 DEF IInv, LeftInv
<1>3. Objects[Object].size \in Nat /\ n \in 0..left
  <2>1. BlockSize \in Nat /\ Objects[Object].size \in Nat
    BY <1>0, SizesType, TapeAssumption
  <2> QED
    BY <1>0, <2>1, LeastType
<1> HIDE DEF n
<1> DEFINE f == [files[Object] EXCEPT !.data = @ + n]
<1>4. files' = [files EXCEPT ![Object] = f]
  BY <1>1
<1>5. /\ f \in [meta : Seq(Nat \X Nat), data : Nat, opened : BOOLEAN]
      /\ f.meta = <<<<BlockOf(Object), OffsetOf(Object)>>>> /\ f.opened
      /\ f.data + (left - n) = Objects[Object].size /\ f.data \in Nat /\ left - n \in Nat
  <2>1. files[Object] \in [meta : Seq(Nat \X Nat), data : Nat, opened : BOOLEAN]
    BY <1>0 DEF IInv, TypeOK
  <2>2. files[Object].data + n \in Nat /\ n \in Nat /\ left - n \in Nat
    BY <1>0, <1>3, <2>1
  <2>3. f.data = files[Object].data + n /\ f.meta = files[Object].meta /\ f.opened = files[Object].opened
    BY <2>1
  <2>4. files[Object].data + n + (left - n) = Objects[Object].size
    BY <1>0, <1>2, <1>3, <2>1
  <2>5. f \in [meta : Seq(Nat \X Nat), data : Nat, opened : BOOLEAN]
    BY <2>1, <2>2
  <2> HIDE DEF f
  <2> QED
    BY <1>2, <2>2, <2>3, <2>4, <2>5 DEF MetaRight
<1>6. f.data <= Objects[Object].size
  BY <1>3, <1>5
<1>7. ~ObjectWhole(Object)
  BY <1>0, <1>2, <1>3 DEF ObjectWhole
<1>8. LeftInv' /\ left' \in Nat
  <2>1. Object' = Object /\ files'[Object] = f
    BY <1>0, <1>1, <1>4 DEF Object, IInv, TypeOK
  <2> HIDE DEF f
  <2> QED
    BY <1>0, <1>1, <1>5, <2>1 DEF LeftInv, MetaRight, BlockOf, OffsetOf
<1> HIDE DEF f
<1> QED
  BY <1>0, <1>1, <1>4, <1>5, <1>6, <1>7, <1>8, ObjectStep

LEMMA SizePackHolds == IInv /\ SizePack => IInv'
<1> SUFFICES ASSUME IInv, SizePack PROVE IInv'
  OBVIOUS
<1>1. /\ pc = "object" /\ todo = << >> /\ level = 1 /\ pc' = "pack" /\ left' = po_size(Pack)
      /\ UNCHANGED <<files, packs, level, chosen, todo, torn, said, runs>>
  BY DEF SizePack
<1>2. Pack \in PackNumbers /\ Pack' = Pack
  BY <1>1, HandType DEF IInv, Pack
<1>3. left' = Packs[Pack].size /\ left' \in Nat
  BY <1>1, <1>2, SizeFound, TapeAssumption
<1>4. TypeOK'
  BY <1>1, <1>3 DEF IInv, TypeOK
<1>5. LeftInv'
  BY <1>1, <1>2, <1>3 DEF LeftInv
<1>6. ChosenInv'
  BY <1>1 DEF IInv, ChosenInv, Done, ObjectWhole
<1> QED
  BY <1>1, <1>4, <1>5, <1>6, NoFileStep

LEMMA WritePackHolds == IInv /\ WritePack => IInv'
<1> SUFFICES ASSUME IInv, WritePack PROVE IInv'
  OBVIOUS
<1> DEFINE n == Min({left, BlockSize})
<1>0. /\ pc \in {"pack", "packblock"} /\ Pack \in PackNumbers /\ left \in Nat /\ left > 0
      /\ packs \in [PackNumbers -> [bytes : Nat, opened : BOOLEAN]]
      /\ pc = "pack" => ~packs[Pack].opened
  BY HandType DEF IInv, TypeOK, WritePack
<1>1. /\ packs' = [packs EXCEPT ![Pack] = [bytes |-> @.bytes + n, opened |-> TRUE]] /\ left' = left - n
      /\ pc' = "packblock"
      /\ UNCHANGED <<files, level, chosen, todo, torn, said, runs>>
  BY DEF WritePack
<1>2. n \in 1..left
  BY <1>0, SizesAssumption, LeastType
<1> HIDE DEF n
<1>3. packs[Pack].bytes + left = Packs[Pack].size
  <2>1. CASE pc = "pack"
    <3>1. packs[Pack].bytes = 0 /\ left = Packs[Pack].size
      BY <1>0, <2>1 DEF IInv, PackInv, LeftInv
    <3> QED
      BY <1>0, <3>1
  <2>2. CASE pc = "packblock"
    BY <2>2 DEF IInv, LeftInv
  <2> QED
    BY <1>0, <2>1, <2>2
<1>4. /\ packs'[Pack] = [bytes |-> packs[Pack].bytes + n, opened |-> TRUE] /\ Pack' = Pack
      /\ \A p \in PackNumbers : p # Pack => packs'[p] = packs[p]
  BY <1>0, <1>1 DEF Pack
<1>5. /\ packs[Pack].bytes + n \in Nat /\ packs[Pack].bytes + n <= Packs[Pack].size
      /\ packs[Pack].bytes + n + left' = Packs[Pack].size /\ left' \in Nat
      /\ packs[Pack].bytes # Packs[Pack].size
  BY <1>0, <1>1, <1>2, <1>3, TapeAssumption
<1>6. TypeOK'
  BY <1>0, <1>1, <1>5 DEF IInv, TypeOK
<1>7. /\ \A m \in ObjectNumbers : Done(m) => Done(m)'
      /\ \A p \in PackNumbers : PackDone(p) => PackDone(p)'
      /\ WholeUnlessTorn'
  BY <1>1, <1>4, <1>5, DoneKept DEF IInv, PackWhole
<1>8. ObjectInv' /\ ChosenInv' /\ LeftInv'
  <2>1. \A i \in DOMAIN chosen : chosen[i] \in ObjectNumbers
    BY <1>0, HandType DEF IInv
  <2>2. ObjectInv'
    BY <1>0, <1>1, <1>7 DEF IInv, ObjectInv, Writing, MetaRight
  <2>3. ChosenInv'
    BY <1>0, <1>1, <1>7, <2>1 DEF IInv, ChosenInv
  <2>4. LeftInv'
    BY <1>1, <1>4, <1>5 DEF LeftInv
  <2> QED
    BY <2>2, <2>3, <2>4
<1>9. PackInv'
  <2> SUFFICES ASSUME NEW p \in PackNumbers
               PROVE  \/ packs'[p] = [bytes |-> 0, opened |-> FALSE]
                      \/ packs'[p].opened /\ packs'[p].bytes <= Packs[p].size /\ (PackDone(p) \/ Packing(p))'
    BY DEF PackInv
  <2>1. CASE p = Pack
    BY <1>1, <1>4, <1>5, <2>1 DEF Packing
  <2>2. CASE p # Pack
    BY <1>4, <1>7, <2>2 DEF IInv, PackInv, Packing
  <2> QED
    BY <2>1, <2>2
<1> QED
  BY <1>6, <1>7, <1>8, <1>9 DEF IInv

\* A run that says it is complete: what was chosen is done, and its PO if that was
\* asked for.
LEMMA CompleteHolds ==
  ASSUME IInv, pc # "off", todo = << >>, Complete, level = 1 => PackDone(Pack),
         pc \notin {"data", "block"}, pc = "packblock" => PackDone(Pack),
         UNCHANGED <<files, packs, level, chosen, todo, left, torn, runs>>
  PROVE  IInv'
<1>1. pc' = "off" /\ said' = said \cup {<<level, chosen>>} /\ chosen \in Selections
  BY DEF Complete, IInv, ChosenInv
<1>2. \A i \in DOMAIN chosen : Done(chosen[i])
  BY DEF IInv, ChosenInv
<1>3. Pack = Objects[chosen[1]].pack
  BY HandType DEF IInv, Pack
<1>4. WholeUnlessTorn'
  <2> SUFFICES ASSUME NEW s \in said'
               PROVE  /\ \A i \in DOMAIN s[2] : Done(s[2][i])
                      /\ s[1] = 1 => PackDone(Objects[s[2][1]].pack)
    BY DEF WholeUnlessTorn, Done, PackDone, ObjectWhole, PackWhole
  <2>1. CASE s \in said
    BY <2>1 DEF IInv, WholeUnlessTorn, Done, PackDone
  <2>2. CASE s = <<level, chosen>>
    <3>1. s[1] = level /\ s[2] = chosen
      BY <2>2
    <3> QED
      BY <1>2, <1>3, <3>1
  <2> QED
    BY <1>1, <2>1, <2>2
<1>5. TypeOK'
  BY <1>1 DEF IInv, TypeOK
<1>6. LeftInv' /\ ChosenInv'
  BY <1>1 DEF LeftInv, ChosenInv
<1>7. ObjectInv'
  BY <1>1 DEF IInv, ObjectInv, Done, Writing, MetaRight, ObjectWhole
<1>8. PackInv'
  BY <1>1 DEF IInv, PackInv, PackDone, Packing, PackWhole
<1> QED
  BY <1>4, <1>5, <1>6, <1>7, <1>8 DEF IInv

LEMMA EndHolds == IInv /\ (Finish \/ SkipPack \/ FinishPack) => IInv'
<1> SUFFICES ASSUME IInv, Finish \/ SkipPack \/ FinishPack PROVE IInv'
  OBVIOUS
<1>1. CASE Finish
  BY <1>1, CompleteHolds DEF Finish
<1>2. CASE SkipPack
  <2>1. pc = "pack" /\ packs[Pack].opened /\ todo = << >> /\ Pack \in PackNumbers
    BY <1>2, HandType DEF SkipPack, IInv, ChosenInv
  <2>2. PackDone(Pack)
    BY <2>1 DEF IInv, PackInv, Packing
  <2> QED
    BY <1>2, <2>1, <2>2, CompleteHolds DEF SkipPack
<1>3. CASE FinishPack
  <2>1. pc = "packblock" /\ left = 0 /\ todo = << >> /\ Pack \in PackNumbers
    BY <1>3, HandType DEF FinishPack, IInv, ChosenInv
  <2>2. packs[Pack].bytes + 0 = Packs[Pack].size /\ packs[Pack].bytes \in Nat
    BY <2>1 DEF IInv, LeftInv, TypeOK
  <2>3. PackDone(Pack)
    BY <2>2 DEF PackDone, PackWhole
  <2> QED
    BY <1>3, <2>1, <2>3, CompleteHolds DEF FinishPack
<1> QED
  BY <1>1, <1>2, <1>3

\* A run that is stopped leaves the file it was writing torn.
LEMMA StopHolds == IInv /\ Stop => IInv'
<1> SUFFICES ASSUME IInv, Stop PROVE IInv'
  OBVIOUS
<1>1. /\ pc' = "off" /\ torn \subseteq torn'
      /\ pc \in {"data", "block"} => <<"object", Object>> \in torn'
      /\ pc = "packblock" => <<"pack", Pack>> \in torn'
      /\ UNCHANGED <<files, packs, level, chosen, todo, left, said, runs>>
  BY DEF Stop
<1>2. /\ \A m \in ObjectNumbers : Done(m) => Done(m)'
      /\ \A p \in PackNumbers : PackDone(p) => PackDone(p)'
      /\ WholeUnlessTorn'
  BY <1>1, DoneKept DEF IInv
<1>3. TypeOK' /\ LeftInv' /\ ChosenInv'
  BY <1>1 DEF IInv, TypeOK, LeftInv, ChosenInv
<1>4. ObjectInv'
  BY <1>1, <1>2 DEF IInv, ObjectInv, Writing, MetaRight, Done
<1>5. PackInv'
  BY <1>1, <1>2 DEF IInv, PackInv, Packing, PackDone
<1> QED
  BY <1>2, <1>3, <1>4, <1>5 DEF IInv

LEMMA StepHolds == IInv /\ [Next]_vars => IInv'
<1> SUFFICES ASSUME IInv, [Next]_vars PROVE IInv'
  OBVIOUS
<1>1. CASE UNCHANGED vars
  <2>1. TypeOK' /\ LeftInv' /\ ChosenInv'
    BY <1>1 DEF vars, IInv, TypeOK, LeftInv, ChosenInv, Done, MetaRight, ObjectWhole, Object, Pack
  <2>2. ObjectInv'
    BY <1>1 DEF vars, IInv, ObjectInv, Done, Writing, MetaRight, ObjectWhole, Object
  <2>3. PackInv'
    BY <1>1 DEF vars, IInv, PackInv, PackDone, Packing, PackWhole, Pack
  <2>4. WholeUnlessTorn'
    BY <1>1 DEF vars, IInv, WholeUnlessTorn, ObjectWhole, PackWhole
  <2> QED
    BY <2>1, <2>2, <2>3, <2>4 DEF IInv
<1> QED
  BY <1>1, StartHolds, SkipObjectHolds, WriteMetaHolds, WriteFirstHolds, WriteBlockHolds,
     NextObjectHolds, SizePackHolds, WritePackHolds, EndHolds, StopHolds DEF Next

THEOREM ReadInvariant == Spec => []IInv
<1> QED
  BY InitHolds, StepHolds, PTL DEF Spec

-----------------------------------------------------------------------------
(* What follows from it *)

\* Whatever has been stopped and asked for again, nothing is appended to a file twice
\* (main writes with mode "a" and looks only whether the file is there).
THEOREM AppendedOnce == Spec => []NothingTwice
<1>1. IInv => NothingTwice
  <2> SUFFICES ASSUME IInv PROVE NothingTwice
    OBVIOUS
  <2>1. ASSUME NEW m \in ObjectNumbers
        PROVE  Len(files[m].meta) <= 1 /\ files[m].data <= Objects[m].size
    BY TapeAssumption DEF IInv, ObjectInv, Nothing, MetaRight
  <2>2. ASSUME NEW p \in PackNumbers
        PROVE  packs[p].bytes <= Packs[p].size
    BY TapeAssumption DEF IInv, PackInv
  <2> QED
    BY <2>1, <2>2 DEF NothingTwice
<1> QED
  BY <1>1, ReadInvariant, PTL

\* A run that says it is complete has left whole files of everything it was asked for,
\* but for those a run before was stopped in.
THEOREM CompleteUnlessTorn == Spec => []WholeUnlessTorn
<1>1. IInv => WholeUnlessTorn
  BY DEF IInv
<1> QED
  BY <1>1, ReadInvariant, PTL
=============================================================================
