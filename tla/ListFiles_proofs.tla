-------------------------- MODULE ListFiles_proofs --------------------------
(***************************************************************************)
(* The lists are whole and every object stands where a dump would put it,  *)
(* for any tape, any number of runs and whatever stopped runs have left.   *)
(***************************************************************************)
EXTENDS ListFiles, FiniteSetTheorems, SequenceTheorems, WellFoundedInduction, TLAPS

\* The tape has one name.
SameTape == MainDir = WalkDir

LEMMA ObjectsAre ==
  Objects = 1..Len(Entries) /\ Len(Entries) \in Nat /\ Closing \in Nat /\ Closing \notin Objects
BY EntriesAssumption DEF Objects, Closing

-----------------------------------------------------------------------------
(* What start-up finds of the subdirectories, as in ObjectDump *)

\* A non-empty set of natural numbers has a least element.
LEMMA LeastNatural ==
  ASSUME NEW S \in SUBSET Nat, S # {}
  PROVE  \E n \in S : \A m \in S : n <= m
<1> DEFINE R == OpToRel(<, Nat)
<1>1. PICK n \in S : \A m \in S : ~ (<<m, n>> \in R)
  <2>1. IsWellFoundedOn(R, Nat)
    BY NatLessThanWellFounded
  <2> HIDE DEF R
  <2> QED
    BY <2>1, WFMin
<1>2. \A m \in S : ~ (m < n)
  BY <1>1 DEF OpToRel
<1> QED
  BY <1>2

\* A bounded set of them has a greatest one, the Max of the community modules.
LEMMA MaxOfNaturals ==
  ASSUME NEW n \in Nat, NEW S \in SUBSET (0..n), S # {}
  PROVE  /\ Max(S) \in S
         /\ \A y \in S : y <= Max(S)
<1> DEFINE T == {n - x : x \in S}
<1>1. T \subseteq Nat
  OBVIOUS
<1>2. T # {}
  OBVIOUS
<1>3. PICK t \in T : \A u \in T : t <= u
  <2> HIDE DEF T
  <2> QED
    BY <1>1, <1>2, LeastNatural
<1>4. PICK x \in S : t = n - x
  OBVIOUS
<1>5. \A y \in S : x >= y
  <2> TAKE y \in S
  <2>1. n - y \in T
    OBVIOUS
  <2>2. n - x <= n - y
    BY <1>3, <1>4, <2>1
  <2> QED
    BY <2>2
<1> QED
  BY <1>5 DEF Max

\* A bucket in the list has a directory and a subdirectory from 1 on.
Listed(i) == i # NoInfo => i.dir >= 1 /\ i.sub >= 1

LEMMA NoInfoType == NoInfo \in BucketInfo
BY MaxSaveAssumption DEF NoInfo, BucketInfo

\* What initialize_bucket_info returns is a bucket information; no
\* subdirectory of the bucket comes after the one it finds, and the counter
\* sends the next object to a new one.
LEMMA InitializeInfo ==
  ASSUME NEW b, NEW used
  PROVE  LET i == initialize_bucket_info(b, used)
         IN  /\ i \in BucketInfo
             /\ Listed(i)
             /\ ~SubdirHasRoom(i) \/ i = NoInfo
             /\ \A d \in DirNumber, s \in DirNumber : <<b, d, s>> \in used =>
                  i # NoInfo /\ ~Before(i.dir, i.sub, d, s)
<1>1. CASE UsedDirs(b, used) = {}
  BY <1>1, NoInfoType DEF initialize_bucket_info, UsedDirs, Listed
<1>2. CASE UsedDirs(b, used) # {}
  <2> DEFINE d0 == Max(UsedDirs(b, used))
             s0 == Max(UsedSubs(b, d0, used))
  <2>1. MaxSave \in Nat /\ UsedDirs(b, used) \in SUBSET (0..MaxSave)
    BY MaxSaveAssumption DEF UsedDirs, DirNumber
  <2>2. d0 \in UsedDirs(b, used) /\ \A d \in UsedDirs(b, used) : d <= d0
    BY <1>2, <2>1, MaxOfNaturals
  <2>3. UsedSubs(b, d0, used) \in SUBSET (0..MaxSave) /\ UsedSubs(b, d0, used) # {}
    <3> HIDE DEF d0
    <3>1. ASSUME NEW s \in UsedSubs(b, d0, used)
          PROVE  s \in 0..MaxSave
      <4>1. s \in 1..MaxSave
        BY <3>1 DEF UsedSubs, DirNumber
      <4> QED
        BY <4>1, <2>1
    <3>2. PICK s \in DirNumber : <<b, d0, s>> \in used
      BY <2>2, Zenon DEF UsedDirs
    <3>3. s \in UsedSubs(b, d0, used)
      BY <3>2, Zenon DEF UsedSubs
    <3> QED
      BY <3>1, <3>3, Zenon
  <2>4. s0 \in UsedSubs(b, d0, used) /\ \A s \in UsedSubs(b, d0, used) : s <= s0
    <3> HIDE DEF d0
    <3> QED
      BY <2>1, <2>3, MaxOfNaturals
  <2>5. initialize_bucket_info(b, used) = [counter |-> MaxSave, dir |-> d0, sub |-> s0]
    BY <1>2 DEF initialize_bucket_info
  <2>6. d0 \in DirNumber /\ s0 \in DirNumber
    <3> HIDE DEF d0, s0
    <3> QED
      BY <2>2, <2>4 DEF UsedDirs, UsedSubs
  <2>7. \A d \in DirNumber, s \in DirNumber :
          <<b, d, s>> \in used => ~Before(d0, s0, d, s)
    <3> TAKE d \in DirNumber, s \in DirNumber
    <3> HAVE <<b, d, s>> \in used
    <3>1. d \in UsedDirs(b, used) /\ d <= d0
      BY <2>2 DEF UsedDirs
    <3>2. d = d0 => s <= s0
      BY <2>4 DEF UsedSubs
    <3> HIDE DEF d0, s0
    <3> QED
      BY <2>6, <3>1, <3>2 DEF Before, DirNumber
  <2> HIDE DEF d0, s0
  <2> QED
    BY <2>1, <2>5, <2>6, <2>7, MaxSaveAssumption
    DEF BucketInfo, Listed, SubdirHasRoom, NoInfo, DirNumber
<1> QED
  BY <1>1, <1>2

\* The subdirectory it finds is one of the bucket's.
LEMMA InitializeUsed ==
  ASSUME NEW b, NEW used, initialize_bucket_info(b, used) # NoInfo
  PROVE  LET i == initialize_bucket_info(b, used)
         IN  i.dir \in DirNumber /\ i.sub \in DirNumber /\ <<b, i.dir, i.sub>> \in used
<1> DEFINE d0 == Max(UsedDirs(b, used))
           s0 == Max(UsedSubs(b, d0, used))
<1>1. UsedDirs(b, used) # {} /\ initialize_bucket_info(b, used) = [counter |-> MaxSave, dir |-> d0, sub |-> s0]
  BY DEF initialize_bucket_info
<1>2. MaxSave \in Nat /\ UsedDirs(b, used) \in SUBSET (0..MaxSave)
  BY MaxSaveAssumption DEF UsedDirs, DirNumber
<1>3. d0 \in UsedDirs(b, used)
  BY <1>1, <1>2, MaxOfNaturals
<1>4. UsedSubs(b, d0, used) \in SUBSET (0..MaxSave) /\ UsedSubs(b, d0, used) # {}
  <2> HIDE DEF d0
  <2>1. ASSUME NEW s \in UsedSubs(b, d0, used)
        PROVE  s \in 0..MaxSave
    <3>1. s \in 1..MaxSave
      BY <2>1 DEF UsedSubs, DirNumber
    <3> QED
      BY <3>1, <1>2
  <2>2. PICK s \in DirNumber : <<b, d0, s>> \in used
    BY <1>3, Zenon DEF UsedDirs
  <2>3. s \in UsedSubs(b, d0, used)
    BY <2>2, Zenon DEF UsedSubs
  <2> QED
    BY <2>1, <2>3, Zenon
<1>5. s0 \in UsedSubs(b, d0, used)
  <2> HIDE DEF d0
  <2> QED
    BY <1>2, <1>4, MaxOfNaturals
<1> HIDE DEF d0, s0
<1>6. d0 \in DirNumber /\ s0 \in DirNumber /\ <<b, d0, s0>> \in used
  BY <1>3, <1>5 DEF UsedDirs, UsedSubs
<1> QED
  BY <1>1, <1>6

-----------------------------------------------------------------------------
(* The number of a list *)

LEMMA DivIs ==
  ASSUME NEW a \in Nat, NEW b \in Nat \ {0}, NEW q \in Nat, q * b <= a, a < (q + 1) * b
  PROVE  a \div b = q
OBVIOUS

LEMMA RoundUpIs ==
  ASSUME NEW a \in Nat, NEW b \in Nat \ {0}, NEW q \in Nat \ {0}, (q - 1) * b < a, a <= q * b
  PROVE  RoundUp(a, b) = q
<1>1. a + b - 1 \in Nat /\ q * b <= a + b - 1 /\ a + b - 1 < (q + 1) * b
  OBVIOUS
<1> QED
  BY <1>1, DivIs DEF RoundUp

\* The subdirectories of a bucket counted through its directories, and the objects
\* counted through its subdirectories.
SlotNumber(i) == (i.dir - 1) * MaxSave + i.sub
Place(i)      == (SlotNumber(i) - 1) * MaxSave + i.counter

\* A bucket with n places behind it.
Filled(i, n) ==
  /\ i \in BucketInfo /\ i.dir >= 1 /\ i.sub >= 1
  /\ IF Full(i)
     THEN i.sub = MaxSave /\ i.counter = MaxSave /\ n > MaxSave * MaxSave * MaxSave
     ELSE Place(i) = n

\* One more object takes the next place.
LEMMA UpdateFilled ==
  ASSUME NEW i, NEW n \in Nat, Filled(i, n)
  PROVE  Filled(update_bucket_info(i), n + 1) /\ update_bucket_info(i).counter >= 1
<1> DEFINE u == update_bucket_info(i)
<1>0. MaxSave \in Nat \ {0} /\ i \in BucketInfo /\ i.counter \in 0..MaxSave /\ i.sub \in 1..MaxSave /\ i.dir \in 1..(MaxSave + 1)
  BY MaxSaveAssumption DEF Filled, BucketInfo
<1>1. CASE SubdirHasRoom(i)
  <2>1. u = [i EXCEPT !.counter = i.counter + 1] /\ ~Full(i) /\ Place(i) = n
    BY <1>0, <1>1 DEF update_bucket_info, SubdirHasRoom, Filled
  <2>2. u \in BucketInfo /\ u.counter = i.counter + 1 /\ u.dir = i.dir /\ u.sub = i.sub
    BY <1>0, <1>1, <2>1 DEF BucketInfo, SubdirHasRoom
  <2>3. SlotNumber(u) = SlotNumber(i) /\ SlotNumber(i) \in Int
    BY <1>0, <2>2 DEF SlotNumber
  <2>4. Place(u) = n + 1
    BY <1>0, <2>1, <2>2, <2>3 DEF Place
  <2> QED
    BY <1>0, <2>1, <2>2, <2>4 DEF Filled, Full
<1>2. CASE ~SubdirHasRoom(i) /\ DirHasRoom(i)
  <2>1. u = [counter |-> 1, dir |-> i.dir, sub |-> i.sub + 1] /\ i.counter = MaxSave
    BY <1>0, <1>2 DEF update_bucket_info, SubdirHasRoom, DirHasRoom
  <2>2. ~Full(i) /\ Place(i) = n
    BY <1>0, <1>2 DEF Filled, DirHasRoom
  <2>3. SlotNumber(u) = SlotNumber(i) + 1 /\ SlotNumber(i) \in Int
    BY <1>0, <2>1 DEF SlotNumber
  <2>4. Place(u) = n + 1
    <3>1. Place(u) = SlotNumber(i) * MaxSave + 1
      BY <1>0, <2>1, <2>3 DEF Place
    <3> QED
      BY <1>0, <2>1, <2>2, <2>3, <3>1 DEF Place
  <2> QED
    BY <1>0, <1>2, <2>1, <2>2, <2>4 DEF Filled, Full, BucketInfo, DirHasRoom
<1>3. CASE ~SubdirHasRoom(i) /\ ~DirHasRoom(i) /\ BucketHasRoom(i)
  <2>1. u = [counter |-> 1, dir |-> i.dir + 1, sub |-> 1] /\ i.counter = MaxSave /\ i.sub = MaxSave /\ i.dir < MaxSave
    BY <1>0, <1>3 DEF update_bucket_info, SubdirHasRoom, DirHasRoom, BucketHasRoom
  <2>2. ~Full(i) /\ Place(i) = n
    BY <1>0, <2>1 DEF Filled, Full
  <2>3. SlotNumber(u) = SlotNumber(i) + 1 /\ SlotNumber(i) \in Int
    BY <1>0, <2>1 DEF SlotNumber
  <2>4. Place(u) = n + 1
    <3>1. Place(u) = SlotNumber(i) * MaxSave + 1
      BY <1>0, <2>1, <2>3 DEF Place
    <3> QED
      BY <1>0, <2>1, <2>2, <2>3, <3>1 DEF Place
  <2> QED
    BY <1>0, <2>1, <2>2, <2>4 DEF Filled, Full, BucketInfo
<1>4. CASE ~SubdirHasRoom(i) /\ ~DirHasRoom(i) /\ ~BucketHasRoom(i)
  <2>1. u = [counter |-> MaxSave, dir |-> MaxSave + 1, sub |-> MaxSave] /\ i.counter = MaxSave /\ i.sub = MaxSave /\ i.dir >= MaxSave
    BY <1>0, <1>4 DEF update_bucket_info, SubdirHasRoom, DirHasRoom, BucketHasRoom
  <2>2. n >= MaxSave * MaxSave * MaxSave
    <3>1. CASE Full(i)
      BY <1>0, <3>1 DEF Filled
    <3>2. CASE ~Full(i)
      <4>1. i.dir = MaxSave /\ Place(i) = n
        BY <1>0, <2>1, <3>2 DEF Full, Filled
      <4>2. SlotNumber(i) = MaxSave * MaxSave
        BY <1>0, <2>1, <4>1 DEF SlotNumber
      <4> QED
        BY <1>0, <2>1, <4>1, <4>2 DEF Place
    <3> QED
      BY <3>1, <3>2
  <2> QED
    BY <1>0, <2>1, <2>2 DEF Filled, Full, BucketInfo
<1> QED
  BY <1>1, <1>2, <1>3, <1>4

LEMMA PlacesAhead ==
  ASSUME NEW n \in Nat \ {0}, NEW m \in Nat, NEW s \in Nat, NEW r \in Nat, NEW c \in Nat,
         (n - 1) * m + c = s * m + r
  PROVE  r = (n - s - 1) * m + c
<1>1. (n - 1) * m - s * m = (n - 1 - s) * m
  OBVIOUS
<1> QED
  BY <1>1

\* The directory of an object's place, from the last subdirectory in use and the
\* object's number in its bucket.
LEMMA NumberOfPlace ==
  ASSUME NEW i, NEW s \in Nat, NEW r \in Nat \ {0}, Filled(i, s * MaxSave + r), i.counter >= 1
  PROVE  IF Full(i) THEN RoundUp(s + RoundUp(r, MaxSave), MaxSave) > MaxSave
         ELSE RoundUp(s + RoundUp(r, MaxSave), MaxSave) = i.dir
<1>0. MaxSave \in Nat \ {0} /\ i.counter \in 1..MaxSave /\ i.sub \in 1..MaxSave /\ i.dir \in 1..(MaxSave + 1)
  BY MaxSaveAssumption DEF Filled, BucketInfo
<1>1. CASE ~Full(i)
  <2> DEFINE q == SlotNumber(i) - s
  <2>1. SlotNumber(i) \in Nat \ {0}
    BY <1>0 DEF SlotNumber
  <2>2. r = (q - 1) * MaxSave + i.counter /\ q \in Int
    <3>1. (SlotNumber(i) - 1) * MaxSave + i.counter = s * MaxSave + r
      BY <1>1 DEF Filled, Place
    <3>2. MaxSave \in Nat /\ i.counter \in Nat /\ r \in Nat
      BY <1>0
    <3>3. r = (SlotNumber(i) - s - 1) * MaxSave + i.counter
      BY ONLY <2>1, <3>1, <3>2, s \in Nat, PlacesAhead
    <3> QED
      BY <2>1, <3>3
  <2>3. q \in Nat \ {0}
    BY <1>0, <2>2
  <2>4. RoundUp(r, MaxSave) = q
    <3>1. (q - 1) * MaxSave < r /\ r <= q * MaxSave
      BY <1>0, <2>2, <2>3
    <3> HIDE DEF q
    <3> QED
      BY <1>0, <2>3, <3>1, RoundUpIs
  <2>5. s + RoundUp(r, MaxSave) = (i.dir - 1) * MaxSave + i.sub
    BY <2>1, <2>4 DEF SlotNumber
  <2>6. (i.dir - 1) * MaxSave < s + RoundUp(r, MaxSave) /\ s + RoundUp(r, MaxSave) <= i.dir * MaxSave
    BY <1>0, <2>5
  <2> QED
    BY <1>0, <1>1, <2>3, <2>4, <2>6, RoundUpIs
<1>2. CASE Full(i)
  <2>1. s * MaxSave + r > MaxSave * MaxSave * MaxSave
    BY <1>2 DEF Filled
  <2> DEFINE q == RoundUp(r, MaxSave)
             d == RoundUp(s + q, MaxSave)
  <2>2. q \in Nat /\ r <= q * MaxSave
    BY <1>0 DEF RoundUp
  <2>3. d \in Nat /\ s + q <= d * MaxSave
    <3> HIDE DEF q
    <3> QED
      BY <1>0, <2>2 DEF RoundUp
  <2>4. (s + q) * MaxSave > MaxSave * MaxSave * MaxSave
    <3> HIDE DEF q, d
    <3> QED
      BY <1>0, <2>1, <2>2
  <2>5. s + q > MaxSave * MaxSave
    <3> HIDE DEF q, d
    <3> QED
      BY <1>0, <2>2, <2>4
  <2>6. d > MaxSave
    <3> HIDE DEF q, d
    <3> QED
      BY <1>0, <2>2, <2>3, <2>5
  <2> QED
    BY <1>2, <2>6
<1> QED
  BY <1>1, <1>2

LEMMA SlotOrder ==
  ASSUME NEW d1 \in DirNumber, NEW s1 \in DirNumber, NEW d2 \in DirNumber, NEW s2 \in DirNumber,
         ~Before(d1, s1, d2, s2)
  PROVE  (d2 - 1) * MaxSave + s2 <= (d1 - 1) * MaxSave + s1
<1>0. MaxSave \in Nat \ {0} /\ d1 \in 1..MaxSave /\ d2 \in 1..MaxSave /\ s1 \in 1..MaxSave /\ s2 \in 1..MaxSave
  BY MaxSaveAssumption DEF DirNumber
<1>1. CASE d1 = d2
  BY <1>0, <1>1 DEF Before
<1>2. CASE d2 < d1
  <2>1. PICK k \in Nat : d1 - 1 = d2 + k
    BY <1>0, <1>2
  <2>2. (d1 - 1) * MaxSave = (d2 - 1) * MaxSave + MaxSave + k * MaxSave
    BY <1>0, <2>1
  <2>3. k * MaxSave >= 0 /\ (d2 - 1) * MaxSave \in Nat /\ k * MaxSave \in Nat
    BY <1>0
  <2> QED
    BY <1>0, <2>2, <2>3
<1> QED
  BY <1>0, <1>1, <1>2 DEF Before

\* At start-up a bucket's places are those of the subdirectories in use.
LEMMA FilledAtStart ==
  ASSUME NEW b, NEW dirs \in SUBSET (Buckets \X DirNumber \X DirNumber)
  PROVE  /\ LastSlot(b, dirs) \in Nat
         /\ Filled(add_bucket_info(initialize_bucket_info(b, dirs)), LastSlot(b, dirs) * MaxSave)
<1> DEFINE i == initialize_bucket_info(b, dirs)
           S == {(s[2] - 1) * MaxSave + s[3] : s \in {t \in dirs : t[1] = b}}
           T == {0} \cup S
<1>0. MaxSave \in Nat \ {0}
  BY MaxSaveAssumption
<1>1. \A s \in dirs : s[1] = b => s = <<b, s[2], s[3]>> /\ s[2] \in DirNumber /\ s[3] \in DirNumber
  OBVIOUS
<1>2. MaxSave * MaxSave \in Nat /\ T \in SUBSET (0..(MaxSave * MaxSave)) /\ T # {}
  <2>1. MaxSave * MaxSave \in Nat
    BY <1>0
  <2>2. MaxSave \in DirNumber
    BY <1>0 DEF DirNumber
  <2>3. \A s \in dirs : s[1] = b => (s[2] - 1) * MaxSave + s[3] \in 0..(MaxSave * MaxSave)
    <3> TAKE s \in dirs
    <3> HAVE s[1] = b
    <3>1. s[2] \in 1..MaxSave /\ s[3] \in 1..MaxSave
      BY <1>1 DEF DirNumber
    <3>2. (s[2] - 1) * MaxSave + s[3] <= (MaxSave - 1) * MaxSave + MaxSave
      BY <1>0, <1>1, <2>2, <3>1, SlotOrder DEF Before, DirNumber
    <3>3. (s[2] - 1) * MaxSave \in Nat /\ (MaxSave - 1) * MaxSave + MaxSave = MaxSave * MaxSave
      BY <1>0, <3>1
    <3> QED
      BY <2>1, <3>1, <3>2, <3>3
  <2> QED
    BY <2>1, <2>3
<1>3. LastSlot(b, dirs) = Max(T)
  BY DEF LastSlot
<1>4. Max(T) \in T /\ \A y \in T : y <= Max(T)
  <2> HIDE DEF T
  <2> QED
    BY <1>2, MaxOfNaturals
<1>5. LastSlot(b, dirs) \in Nat
  BY <1>2, <1>3, <1>4
<1>6. /\ i \in BucketInfo /\ Listed(i) /\ (~SubdirHasRoom(i) \/ i = NoInfo)
      /\ i # NoInfo => i.dir \in DirNumber /\ i.sub \in DirNumber /\ <<b, i.dir, i.sub>> \in dirs
      /\ \A d \in DirNumber, s \in DirNumber : <<b, d, s>> \in dirs => i # NoInfo /\ ~Before(i.dir, i.sub, d, s)
  <2>1. i # NoInfo => i.dir \in DirNumber /\ i.sub \in DirNumber /\ <<b, i.dir, i.sub>> \in dirs
    BY InitializeUsed
  <2> QED
    BY <2>1, InitializeInfo
<1>7. CASE i = NoInfo
  <2>1. S = {}
    BY <1>1, <1>6, <1>7
  <2>2. LastSlot(b, dirs) = 0
    BY <1>3, <1>4, <2>1
  <2>3. add_bucket_info(i) = FirstInfo
    BY <1>7 DEF add_bucket_info
  <2>4. Filled(FirstInfo, 0)
    BY <1>0 DEF Filled, FirstInfo, BucketInfo, Full, Place, SlotNumber
  <2> QED
    BY <1>0, <1>5, <2>2, <2>3, <2>4
<1>8. CASE i # NoInfo
  <2>1. SlotNumber(i) \in S
    <3>1. <<b, i.dir, i.sub>> \in {t \in dirs : t[1] = b}
      BY <1>6, <1>8
    <3> HIDE DEF i
    <3> QED
      BY <3>1 DEF SlotNumber
  <2>2. \A y \in T : y <= SlotNumber(i)
    <3>1. SlotNumber(i) \in Nat
      BY <1>2, <2>1
    <3>2. \A s \in dirs : s[1] = b => (s[2] - 1) * MaxSave + s[3] <= SlotNumber(i)
      <4> TAKE s \in dirs
      <4> HAVE s[1] = b
      <4>1. ~Before(i.dir, i.sub, s[2], s[3])
        BY <1>1, <1>6
      <4> HIDE DEF i
      <4> QED
        BY <1>1, <1>6, <1>8, <4>1, SlotOrder DEF SlotNumber
    <3> QED
      BY <3>1, <3>2
  <2>3. LastSlot(b, dirs) = SlotNumber(i)
    <3>1. SlotNumber(i) \in T /\ SlotNumber(i) \in Nat
      BY <1>2, <2>1
    <3> HIDE DEF T, i
    <3> QED
      BY <1>3, <1>4, <1>5, <2>2, <3>1
  <2>4. add_bucket_info(i) = i
    BY <1>8 DEF add_bucket_info
  <2>5. i.counter = MaxSave /\ ~Full(i) /\ i.dir >= 1 /\ i.sub >= 1
    <3> HIDE DEF i
    <3> QED
      BY <1>0, <1>6, <1>8 DEF SubdirHasRoom, BucketInfo, Full, Listed, DirNumber
  <2>6. Place(i) = SlotNumber(i) * MaxSave
    <3> HIDE DEF i
    <3> QED
      BY <1>0, <1>5, <2>3, <2>5 DEF Place
  <2>7. Filled(i, SlotNumber(i) * MaxSave)
    <3> HIDE DEF i
    <3> QED
      BY <1>6, <2>5, <2>6 DEF Filled
  <2>8. Filled(add_bucket_info(i), LastSlot(b, dirs) * MaxSave)
    <3> HIDE DEF i
    <3> QED
      BY <2>3, <2>4, <2>7
  <2> QED
    BY <1>5, <2>8
<1> QED
  BY <1>7, <1>8

\* The objects of a bucket among the first n of the tape.
Seen(b, n) == Cardinality({m \in 1..n : Entries[m].bucket = b})

LEMMA SeenFacts ==
  ASSUME NEW b, NEW n \in Nat
  PROVE  /\ Seen(b, 0) = 0 /\ Seen(b, n) \in Nat
         /\ Seen(b, n + 1) = IF Entries[n + 1].bucket = b THEN Seen(b, n) + 1 ELSE Seen(b, n)
<1> DEFINE P(k) == {m \in 1..k : Entries[m].bucket = b}
<1>1. P(0) = {}
  OBVIOUS
<1>2. IsFiniteSet(P(n))
  <2>1. IsFiniteSet(1..n)
    BY FS_Interval
  <2> QED
    BY <2>1, FS_Subset
<1>3. CASE Entries[n + 1].bucket = b
  <2>1. P(n + 1) = P(n) \cup {n + 1} /\ n + 1 \notin P(n)
    BY <1>3
  <2> HIDE DEF P
  <2> QED
    BY <1>1, <1>2, <1>3, <2>1, FS_AddElement, FS_EmptySet, FS_CardinalityType DEF Seen, P
<1>4. CASE Entries[n + 1].bucket # b
  <2>1. P(n + 1) = P(n)
    BY <1>4
  <2> HIDE DEF P
  <2> QED
    BY <1>1, <1>2, <1>4, <2>1, FS_EmptySet, FS_CardinalityType DEF Seen, P
<1> QED
  BY <1>3, <1>4

LEMMA RankIsSeen == ASSUME NEW m PROVE Rank(m) = Seen(Entries[m].bucket, m)
BY DEF Rank, Seen

-----------------------------------------------------------------------------
(* The text of a list *)

\* An open list: the opening and objects in the order of the tape, all before n.
Begun(text, n) ==
  /\ text \in Seq(Nat) /\ Len(text) >= 2 /\ text[1] = Opening
  /\ \A i \in 2..Len(text) : text[i] \in Objects /\ text[i] < n
  /\ \A i, j \in 2..Len(text) : i < j => text[i] < text[j]

\* A completed one.
Whole(text) == \E body : Begun(body, Closing) /\ text = Append(body, Closing)

LEMMA BegunType ==
  ASSUME NEW text, NEW n, Begun(text, n)
  PROVE  text \in Seq(Nat) /\ Len(text) \in Nat /\ DOMAIN text = 1..Len(text)
BY DEF Begun

LEMMA BegunNew ==
  ASSUME NEW n \in Objects
  PROVE  /\ Begun(<<Opening, n>>, n + 1)
         /\ \A m \in Objects : InList(m, <<Opening, n>>) <=> m = n
<1>1. n \in Nat /\ n >= 1 /\ n < n + 1
  BY ObjectsAre
<1>2. <<Opening, n>> \in Seq(Nat) /\ Len(<<Opening, n>>) = 2 /\ <<Opening, n>>[1] = Opening /\ <<Opening, n>>[2] = n
  BY <1>1 DEF Opening
<1>3. Begun(<<Opening, n>>, n + 1)
  BY <1>1, <1>2 DEF Begun
<1>4. \A m \in Objects : m # Opening
  BY ObjectsAre DEF Opening
<1> QED
  BY <1>1, <1>2, <1>3, <1>4 DEF InList

LEMMA BegunAppend ==
  ASSUME NEW text, NEW n \in Objects, Begun(text, n)
  PROVE  /\ Begun(Append(text, n), n + 1)
         /\ \A m \in Objects : InList(m, Append(text, n)) <=> InList(m, text) \/ m = n
<1> DEFINE t == Append(text, n)
<1>1. n \in Nat /\ text \in Seq(Nat) /\ Len(text) \in Nat /\ Len(text) >= 2
  BY ObjectsAre DEF Begun
<1>2. t \in Seq(Nat) /\ Len(t) = Len(text) + 1 /\ t[Len(text) + 1] = n
      /\ (\A i \in 1..Len(text) : t[i] = text[i]) /\ DOMAIN t = 1..(Len(text) + 1) /\ DOMAIN text = 1..Len(text)
  BY <1>1
<1> HIDE DEF t
<1>3. \A i \in 2..Len(text) : t[i] = text[i] /\ t[i] \in Objects /\ t[i] < n /\ text[i] \in Nat
  BY <1>1, <1>2, ObjectsAre DEF Begun
<1>4. \A i \in 2..Len(t) : t[i] \in Objects /\ t[i] < n + 1
  BY <1>1, <1>2, <1>3
<1>5. \A i, j \in 2..Len(t) : i < j => t[i] < t[j]
  <2> TAKE i, j \in 2..Len(t)
  <2> HAVE i < j
  <2>1. i \in 2..Len(text)
    BY <1>1, <1>2
  <2>2. CASE j = Len(text) + 1
    BY <1>2, <1>3, <2>1, <2>2
  <2>3. CASE j \in 2..Len(text)
    BY <1>3, <2>1, <2>3 DEF Begun
  <2> QED
    BY <1>1, <1>2, <2>2, <2>3
<1>6. t[1] = Opening
  BY <1>1, <1>2 DEF Begun
<1>7. Begun(t, n + 1)
  BY <1>1, <1>2, <1>4, <1>5, <1>6 DEF Begun
<1>8. \A m \in Objects : InList(m, t) <=> InList(m, text) \/ m = n
  <2> TAKE m \in Objects
  <2>1. ASSUME InList(m, t) PROVE InList(m, text) \/ m = n
    <3>1. PICK i \in 1..(Len(text) + 1) : t[i] = m
      BY <1>2, <2>1 DEF InList
    <3>2. CASE i = Len(text) + 1
      BY <1>2, <3>1, <3>2
    <3>3. CASE i # Len(text) + 1
      <4>1. i \in 1..Len(text)
        BY <1>1, <3>3
      <4> QED
        BY <1>2, <3>1, <4>1 DEF InList
    <3> QED
      BY <3>2, <3>3
  <2>2. ASSUME InList(m, text) PROVE InList(m, t)
    <3>1. PICK i \in 1..Len(text) : text[i] = m
      BY <1>2, <2>2 DEF InList
    <3>2. i \in 1..(Len(text) + 1) /\ t[i] = m
      BY <1>1, <1>2, <3>1
    <3> QED
      BY <1>2, <3>2 DEF InList
  <2>3. ASSUME m = n PROVE InList(m, t)
    <3>1. Len(text) + 1 \in DOMAIN t
      BY <1>1, <1>2
    <3> QED
      BY <1>2, <2>3, <3>1 DEF InList
  <2> QED
    BY <2>1, <2>2, <2>3
<1> QED
  BY <1>7, <1>8 DEF t

LEMMA BegunMore ==
  ASSUME NEW text, NEW n \in Nat, NEW k \in Nat, n <= k, Begun(text, n)
  PROVE  Begun(text, k)
BY ObjectsAre DEF Begun

\* The entries of an open list come before n.
LEMMA BegunBefore ==
  ASSUME NEW text, NEW n \in Nat, Begun(text, n), NEW m \in Objects, InList(m, text)
  PROVE  m < n
<1>1. PICK i \in 1..Len(text) : text[i] = m
  BY BegunType DEF InList
<1>2. i # 1
  BY <1>1, ObjectsAre DEF Begun, Opening
<1> QED
  BY <1>1, <1>2 DEF Begun

LEMMA WholeFacts ==
  ASSUME NEW body, Begun(body, Closing)
  PROVE  /\ WellFormed(Append(body, Closing))
         /\ \A m \in Objects : InList(m, Append(body, Closing)) <=> InList(m, body)
<1> DEFINE t == Append(body, Closing)
<1>1. body \in Seq(Nat) /\ Len(body) \in Nat /\ Len(body) >= 2 /\ Closing \in Nat
  BY ObjectsAre DEF Begun
<1>2. t \in Seq(Nat) /\ Len(t) = Len(body) + 1 /\ t[Len(body) + 1] = Closing
      /\ (\A i \in 1..Len(body) : t[i] = body[i]) /\ DOMAIN t = 1..(Len(body) + 1) /\ DOMAIN body = 1..Len(body)
  BY <1>1
<1> HIDE DEF t
<1>3. \A i \in 2..(Len(t) - 1) : t[i] = body[i] /\ t[i] \in Objects
  BY <1>1, <1>2 DEF Begun
<1>4. \A i \in 2..(Len(t) - 2) : t[i] < t[i + 1]
  BY <1>1, <1>2, <1>3 DEF Begun
<1>5. Len(t) >= 3 /\ t[1] = Opening /\ t[Len(t)] = Closing
  BY <1>1, <1>2 DEF Begun
<1>7. WellFormed(t)
  BY <1>3, <1>4, <1>5 DEF WellFormed
<1>6. \A m \in Objects : InList(m, t) <=> InList(m, body)
  <2> TAKE m \in Objects
  <2>1. m # Closing
    BY ObjectsAre
  <2>2. \A i \in 1..(Len(body) + 1) : t[i] = m => i \in 1..Len(body) /\ body[i] = m
    BY <1>1, <1>2, <2>1
  <2>3. \A i \in 1..Len(body) : i \in 1..(Len(body) + 1) /\ t[i] = body[i]
    BY <1>1, <1>2
  <2> QED
    BY <1>2, <2>2, <2>3 DEF InList
<1> QED
  BY <1>6, <1>7 DEF t

-----------------------------------------------------------------------------
(* The invariant *)

\* The lists an object belongs in, and those it stands in.
Target(m, dirs) ==
  IF ListNumber(m, dirs) <= MaxSave
  THEN {Name(WalkDir, Entries[m].bucket, ListNumber(m, dirs))} ELSE {}
Homes(m, files) == {f \in DOMAIN files : InList(m, files[f])}

\* The buckets' information is that of the objects the walk has met.
InfoInv ==
  /\ info \in [Buckets -> BucketInfo]
  /\ \A b \in Buckets :
       Filled(add_bucket_info(info[b]), LastSlot(b, subs) * MaxSave + Seen(b, next - 1))

\* The list of the object before is open, unless its bucket was full.
OpenInv ==
  IF pre = None THEN fp_list = None
  ELSE \E b \in Buckets, d \in 1..(MaxSave + 1) :
         /\ pre = <<b, d>>
         /\ IF d > MaxSave THEN fp_list = None
            ELSE fp_list = Name(WalkDir, b, d) /\ fp_list \in DOMAIN lists

\* The objects met stand where they belong.
WalkInv ==
  /\ next \in 1..(Len(Entries) + 1)
  /\ \A f \in DOMAIN lists : Begun(lists[f], next)
  /\ \A m \in Objects : m < next => Homes(m, lists) = Target(m, subs)
  /\ InfoInv /\ OpenInv

CompleteInv ==
  /\ \A f \in DOMAIN lists : IF f \in todo THEN Begun(lists[f], Closing) ELSE Whole(lists[f])
  /\ \A m \in Objects : Homes(m, lists) = Target(m, subs)
  /\ todo \subseteq DOMAIN lists

FinishedInv ==
  /\ \A f \in DOMAIN lists : Whole(lists[f])
  /\ \A m \in Objects : Homes(m, lists) = Target(m, subs)

ListInv ==
  /\ subs \in SavedDirs /\ pc \in {"off", "delete", "walk", "complete"}
  /\ \A f \in DOMAIN lists : f[1] = WalkDir
  /\ finished => pc = "off" /\ FinishedInv
  /\ pc = "walk" => WalkInv
  /\ pc = "complete" => CompleteInv
  /\ pc # "walk" => fp_list = None

LEMMA ListedWhenFinished ==
  ASSUME FinishedInv
  PROVE  ListsWhole
<1>1. \A f \in DOMAIN lists : WellFormed(lists[f])
  BY WholeFacts DEF FinishedInv, Whole
<1>2. ListedOnce
  BY DEF FinishedInv, ListedOnce, Homes, Target
<1> QED
  BY <1>1, <1>2 DEF ListsWhole

LEMMA InitList == Init => ListInv
<1> SUFFICES ASSUME Init PROVE ListInv
  OBVIOUS
<1>1. DOMAIN lists = {}
  BY DEF Init
<1> QED
  BY <1>1 DEF Init, ListInv

LEMMA StartKeeps == ASSUME ListInv, StartList PROVE ListInv'
BY DEF ListInv, StartList

LEMMA DeleteKeeps == ASSUME ListInv, DeleteList PROVE ListInv'
<1>1. PICK f \in ListsIn(MainDir) : lists' = Restrict(lists, DOMAIN lists \ {f})
  BY DEF DeleteList
<1>2. DOMAIN lists' \subseteq DOMAIN lists
  BY <1>1 DEF Restrict
<1> QED
  BY <1>2 DEF ListInv, DeleteList

LEMMA BeginKeeps == ASSUME SameTape, ListInv, BeginWalk PROVE ListInv'
<1>1. DOMAIN lists = {}
  BY DEF ListInv, BeginWalk, MayBegin, ListsIn, SameTape
<1>2. InfoInv'
  <2>1. info' = [b \in Buckets |-> initialize_bucket_info(b, subs)] /\ next' = 1 /\ subs' = subs
    BY DEF BeginWalk
  <2>2. subs \in SUBSET (Buckets \X DirNumber \X DirNumber)
    BY SavedDirsAssumption DEF ListInv
  <2>3. \A b \in Buckets : initialize_bucket_info(b, subs) \in BucketInfo
    BY InitializeInfo
  <2>4. \A b \in Buckets : Filled(add_bucket_info(info'[b]), LastSlot(b, subs') * MaxSave + Seen(b, next' - 1))
    <3> TAKE b \in Buckets
    <3>1. Seen(b, next' - 1) = 0
      BY <2>1, SeenFacts
    <3>2. LastSlot(b, subs) \in Nat /\ Filled(add_bucket_info(initialize_bucket_info(b, subs)), LastSlot(b, subs) * MaxSave)
      BY <2>2, FilledAtStart
    <3>3. LastSlot(b, subs) * MaxSave + 0 = LastSlot(b, subs) * MaxSave
      BY <3>2, MaxSaveAssumption
    <3> QED
      BY <2>1, <3>1, <3>2, <3>3
  <2> QED
    BY <2>1, <2>3, <2>4 DEF InfoInv
<1>3. WalkInv'
  <2>1. next' = 1 /\ pre' = None /\ fp_list' = None /\ lists' = lists
    BY DEF BeginWalk
  <2> QED
    BY <1>1, <1>2, <2>1, ObjectsAre DEF WalkInv, OpenInv
<1> QED
  BY <1>1, <1>3 DEF ListInv, BeginWalk

LEMMA EndKeeps == ASSUME SameTape, ListInv, EndWalk PROVE ListInv'
<1>1. WalkInv /\ next = Closing
  BY ObjectsAre DEF ListInv, EndWalk, WalkInv, Closing
<1>2. todo' = DOMAIN lists /\ lists' = lists /\ subs' = subs
  BY DEF EndWalk, ListsIn, ListInv, SameTape
<1>3. \A m \in Objects : m < next
  BY <1>1, ObjectsAre DEF Closing
<1>4. CompleteInv'
  BY <1>1, <1>2, <1>3 DEF CompleteInv, WalkInv
<1> QED
  BY <1>2, <1>4 DEF ListInv, EndWalk

LEMMA FinishKeeps == ASSUME ListInv, Finish PROVE ListInv'
<1>1. FinishedInv'
  BY DEF ListInv, Finish, CompleteInv, FinishedInv
<1> QED
  BY <1>1 DEF ListInv, Finish

LEMMA CompleteKeeps == ASSUME ListInv, CompleteList PROVE ListInv'
<1>0. CompleteInv /\ pc = "complete" /\ UNCHANGED <<subs, pc, fp_list, finished>>
  BY DEF CompleteList, ListInv
<1>1. PICK f \in todo : lists' = SetText(f, Append(lists[f], Closing)) /\ todo' = todo \ {f}
  BY DEF CompleteList
<1>2. f \in DOMAIN lists /\ DOMAIN lists' = DOMAIN lists
  BY <1>0, <1>1 DEF SetText, CompleteInv
<1>3. \A g \in DOMAIN lists : lists'[g] = IF g = f THEN Append(lists[f], Closing) ELSE lists[g]
  BY <1>1, <1>2 DEF SetText
<1>4. Begun(lists[f], Closing)
  BY <1>0, <1>1, <1>2 DEF CompleteInv
<1>5. \A g \in DOMAIN lists : IF g \in todo' THEN Begun(lists'[g], Closing) ELSE Whole(lists'[g])
  BY <1>0, <1>1, <1>3, <1>4 DEF CompleteInv, Whole
<1>6. \A m \in Objects : Homes(m, lists') = Homes(m, lists)
  <2> TAKE m \in Objects
  <2>1. \A g \in DOMAIN lists : InList(m, lists'[g]) <=> InList(m, lists[g])
    BY <1>3, <1>4, WholeFacts
  <2> QED
    BY <1>2, <2>1 DEF Homes
<1>7. CompleteInv'
  BY <1>0, <1>1, <1>2, <1>5, <1>6 DEF CompleteInv
<1> QED
  BY <1>0, <1>2, <1>7 DEF ListInv

LEMMA StopKeeps == ASSUME ListInv, Stop PROVE ListInv'
<1>1. \A f \in DOMAIN lists' : f[1] = WalkDir
  <2>1. CASE fp_list = None
    BY <2>1 DEF Stop, ListInv
  <2>2. CASE fp_list # None
    <3>1. WalkInv
      BY <2>2 DEF ListInv
    <3>2. fp_list \in DOMAIN lists
      BY <2>2, <3>1 DEF WalkInv, OpenInv
    <3>3. DOMAIN lists' = DOMAIN lists
      BY <2>2, <3>2 DEF Stop, SetText
    <3> QED
      BY <3>3 DEF ListInv
  <2> QED
    BY <2>1, <2>2
<1> QED
  BY <1>1 DEF Stop, ListInv

\* The place the walk counts for an object, and the number of its list.
LEMMA EntryPlace ==
  ASSUME WalkInv, subs \in SavedDirs, next \in Objects,
         NEW b, b = Entries[next].bucket,
         NEW i, i = update_bucket_info(add_bucket_info(info[b]))
  PROVE  /\ b \in Buckets /\ i \in BucketInfo /\ add_bucket_info(i) = i
         /\ Filled(i, LastSlot(b, subs) * MaxSave + Seen(b, next))
         /\ IF Full(i) THEN Target(next, subs) = {} ELSE Target(next, subs) = {Name(WalkDir, b, i.dir)}
         /\ i.dir \in 1..(MaxSave + 1) /\ (Full(i) <=> i.dir > MaxSave)
<1>1. b \in Buckets /\ next \in Nat /\ next >= 1 /\ next - 1 \in Nat
  BY ObjectsAre DEF Buckets
<1>2. subs \in SUBSET (Buckets \X DirNumber \X DirNumber)
  BY SavedDirsAssumption
<1>3. LastSlot(b, subs) \in Nat /\ MaxSave \in Nat \ {0}
  BY <1>1, <1>2, FilledAtStart, MaxSaveAssumption
<1>4. Seen(b, next - 1) \in Nat /\ Seen(b, next) = Seen(b, next - 1) + 1
  <2>1. Seen(b, (next - 1) + 1) = Seen(b, next - 1) + 1 /\ Seen(b, next - 1) \in Nat
    <3>1. Entries[(next - 1) + 1].bucket = b
      BY <1>1
    <3> QED
      BY <1>1, <3>1, SeenFacts
  <2> QED
    BY <1>1, <2>1
<1> DEFINE n == LastSlot(b, subs) * MaxSave + Seen(b, next - 1)
<1>5. n \in Nat /\ n + 1 = LastSlot(b, subs) * MaxSave + Seen(b, next)
  BY <1>3, <1>4
<1>6. Filled(add_bucket_info(info[b]), n)
  BY <1>1 DEF WalkInv, InfoInv
<1>7. Filled(i, LastSlot(b, subs) * MaxSave + Seen(b, next)) /\ i.counter >= 1
  <2> HIDE DEF n
  <2>1. Filled(i, n + 1) /\ i.counter >= 1
    BY <1>5, <1>6, UpdateFilled
  <2> QED
    BY <1>5, <2>1
<1>8. i \in BucketInfo /\ i.dir \in 1..(MaxSave + 1) /\ (Full(i) <=> i.dir > MaxSave)
  BY <1>3, <1>7 DEF Filled, BucketInfo, Full
<1>9. add_bucket_info(i) = i
  BY <1>7 DEF Filled, add_bucket_info, NoInfo
<1>10. ListNumber(next, subs) = RoundUp(LastSlot(b, subs) + RoundUp(Seen(b, next), MaxSave), MaxSave)
  BY RankIsSeen DEF ListNumber
<1>11. IF Full(i) THEN ListNumber(next, subs) > MaxSave ELSE ListNumber(next, subs) = i.dir
  <2>1. Seen(b, next) \in Nat \ {0}
    BY <1>4
  <2> QED
    BY <1>3, <1>7, <1>10, <2>1, NumberOfPlace
<1>12. ListNumber(next, subs) \in Int
  <2>1. RoundUp(Seen(b, next), MaxSave) \in Int
    BY <1>3, <1>4 DEF RoundUp
  <2> QED
    BY <1>3, <1>10, <2>1 DEF RoundUp
<1>13. IF Full(i) THEN Target(next, subs) = {} ELSE Target(next, subs) = {Name(WalkDir, b, i.dir)}
  BY <1>3, <1>8, <1>11, <1>12 DEF Target
<1> QED
  BY <1>1, <1>7, <1>8, <1>9, <1>13

LEMMA NoneBefore == ASSUME NEW S, NEW text \in Seq(S) PROVE << >> \o text = text
OBVIOUS

LEMMA OneBehind == ASSUME NEW S, NEW text \in Seq(S), NEW n \in S PROVE text \o <<n>> = Append(text, n)
OBVIOUS

\* The object is written behind the entries of its list, or opens it.
LEMMA EntryWritten ==
  ASSUME WalkInv, NEW b \in Buckets, NEW d \in 1..MaxSave,
         NEW f, f = Name(WalkDir, b, d), NEW n \in Nat,
         NEW files,
         LET same == SameList(b, d)
             into == IF same THEN fp_list ELSE f
             new  == ~same /\ f \notin DOMAIN lists
         IN  files = SetText(into, Text(into) \o Added(new, n))
  PROVE  files = SetText(f, IF f \in DOMAIN lists THEN lists[f] \o <<n>> ELSE <<Opening, n>>)
<1>1. CASE SameList(b, d)
  <2>1. pre = <<b, d>> /\ pre # None
    BY <1>1 DEF SameList, None
  <2>2. PICK c \in Buckets, e \in 1..(MaxSave + 1) :
          pre = <<c, e>> /\ (IF e > MaxSave THEN fp_list = None ELSE fp_list = Name(WalkDir, c, e) /\ fp_list \in DOMAIN lists)
    BY <2>1 DEF WalkInv, OpenInv
  <2>3. c = b /\ e = d
    BY <2>1, <2>2
  <2>4. fp_list = f /\ f \in DOMAIN lists
    BY <2>2, <2>3, MaxSaveAssumption
  <2> QED
    BY <1>1, <2>4 DEF Added, Text
<1>2. CASE ~SameList(b, d)
  <2>1. CASE f \in DOMAIN lists
    <3> QED
      BY <1>2, <2>1 DEF Added, Text
  <2>2. CASE f \notin DOMAIN lists
    <3>1. << >> \o <<Opening, n>> = <<Opening, n>>
      <4>1. <<Opening, n>> \in Seq(Nat)
        BY DEF Opening
      <4> QED
        BY <4>1, NoneBefore
    <3> QED
      BY <1>2, <2>2, <3>1 DEF Added, Text
  <2> QED
    BY <2>1, <2>2
<1> QED
  BY <1>1, <1>2

\* Of the homes of the objects only those of n change, and it gets the one.
LEMMA HomesAfter ==
  ASSUME NEW n \in Objects, NEW f,
         \A g \in DOMAIN lists : Begun(lists[g], n),
         lists' = SetText(f, IF f \in DOMAIN lists THEN lists[f] \o <<n>> ELSE <<Opening, n>>)
  PROVE  /\ DOMAIN lists' = DOMAIN lists \cup {f}
         /\ \A g \in DOMAIN lists' : Begun(lists'[g], n + 1)
         /\ Homes(n, lists') = {f}
         /\ \A m \in Objects : m # n => Homes(m, lists') = Homes(m, lists)
<1>1. DOMAIN lists' = DOMAIN lists \cup {f}
  BY DEF SetText
<1>2. \A g \in DOMAIN lists : g # f => lists'[g] = lists[g]
  BY DEF SetText
<1>3. n \in Nat /\ n + 1 \in Nat /\ n <= n + 1 /\ ~(n < n)
  BY ObjectsAre
<1>4. /\ Begun(lists'[f], n + 1)
      /\ \A m \in Objects : InList(m, lists'[f]) <=> m = n \/ (f \in DOMAIN lists /\ InList(m, lists[f]))
  <2>1. CASE f \in DOMAIN lists
    <3>1. lists'[f] = Append(lists[f], n)
      <4>1. lists[f] \o <<n>> = Append(lists[f], n)
        BY <1>3, <2>1, BegunType, OneBehind
      <4> QED
        BY <2>1, <4>1 DEF SetText
    <3>2. Begun(lists[f], n)
      BY <2>1
    <3>3. Begun(lists'[f], n + 1)
      BY <3>1, <3>2, BegunAppend
    <3>4. ASSUME NEW m \in Objects PROVE InList(m, lists'[f]) <=> InList(m, lists[f]) \/ m = n
      <4>1. InList(m, Append(lists[f], n)) <=> InList(m, lists[f]) \/ m = n
        BY <3>2, BegunAppend
      <4> QED
        BY <3>1, <4>1
    <3> QED
      BY <2>1, <3>3, <3>4
  <2>2. CASE f \notin DOMAIN lists
    <3>1. lists'[f] = <<Opening, n>>
      BY <2>2 DEF SetText
    <3> QED
      BY <2>2, <3>1, BegunNew
  <2> QED
    BY <2>1, <2>2
<1>5. \A g \in DOMAIN lists : g # f => Begun(lists'[g], n + 1)
  BY <1>2, <1>3, BegunMore
<1>6. \A g \in DOMAIN lists : ~InList(n, lists[g])
  BY <1>3, BegunBefore
<1>7. ASSUME NEW m \in Objects
      PROVE  Homes(m, lists') = IF m = n THEN {f} ELSE Homes(m, lists)
  <2>1. CASE m = n
    <3>1. \A g \in DOMAIN lists' : InList(n, lists'[g]) <=> g = f
      BY <1>1, <1>2, <1>4, <1>6
    <3> QED
      BY <1>1, <2>1, <3>1 DEF Homes
  <2>2. CASE m # n
    <3>1. \A g \in DOMAIN lists' : InList(m, lists'[g]) <=> g \in DOMAIN lists /\ InList(m, lists[g])
      BY <1>1, <1>2, <1>4, <2>2
    <3> QED
      BY <1>1, <2>2, <3>1 DEF Homes
  <2> QED
    BY <2>1, <2>2
<1> QED
  BY <1>1, <1>4, <1>5, <1>7

LEMMA EntryKeeps == ASSUME ListInv, ListEntry PROVE ListInv'
<1> DEFINE b == Entries[next].bucket
           i == update_bucket_info(add_bucket_info(info[b]))
           f == Name(WalkDir, b, i.dir)
           same == SameList(b, i.dir)
           into == IF same THEN fp_list ELSE f
           new == ~same /\ f \notin DOMAIN lists
<1>0. WalkInv /\ pc = "walk" /\ next \in Objects /\ subs \in SavedDirs /\ UNCHANGED <<subs, pc, todo, finished, runs>>
  BY DEF ListInv, ListEntry
<1>1. /\ info' = [info EXCEPT ![b] = i] /\ pre' = <<b, i.dir>> /\ next' = next + 1
      /\ fp_list' = IF Full(i) THEN None ELSE into
      /\ lists' = IF Full(i) THEN lists ELSE SetText(into, Text(into) \o Added(new, next))
  BY DEF ListEntry
<1>2. /\ b \in Buckets /\ i \in BucketInfo /\ add_bucket_info(i) = i
      /\ Filled(i, LastSlot(b, subs) * MaxSave + Seen(b, next))
      /\ IF Full(i) THEN Target(next, subs) = {} ELSE Target(next, subs) = {f}
      /\ i.dir \in 1..(MaxSave + 1) /\ (Full(i) <=> i.dir > MaxSave)
  BY <1>0, EntryPlace
<1>3. next \in Nat /\ next >= 1 /\ next' \in 1..(Len(Entries) + 1)
  BY <1>0, <1>1, ObjectsAre
<1>4. /\ \A g \in DOMAIN lists' : Begun(lists'[g], next') /\ g[1] = WalkDir
      /\ \A m \in Objects : m < next' => Homes(m, lists') = Target(m, subs)
      /\ ~Full(i) => into = f /\ f \in DOMAIN lists'
  <2>0. \A g \in DOMAIN lists : Begun(lists[g], next) /\ g[1] = WalkDir
    BY <1>0 DEF WalkInv, ListInv
  <2>1. CASE Full(i)
    <3>1. lists' = lists
      BY <1>1, <2>1
    <3>2. \A g \in DOMAIN lists' : Begun(lists'[g], next')
      <4> SUFFICES ASSUME NEW g \in DOMAIN lists PROVE Begun(lists[g], next')
        BY <3>1
      <4>1. Begun(lists[g], next)
        BY <2>0
      <4>2. next' \in Nat /\ next <= next'
        BY <1>1, <1>3
      <4> QED
        BY <1>3, <4>1, <4>2, BegunMore
    <3>3. Homes(next, lists) = {}
      BY <1>0, <1>3, <2>0, BegunBefore DEF Homes
    <3>4. \A m \in Objects : m < next' => m < next \/ m = next
      BY <1>1, <1>3, ObjectsAre
    <3> HIDE DEF i, f, into
    <3> QED
      BY <1>0, <1>2, <2>0, <2>1, <3>1, <3>2, <3>3, <3>4 DEF WalkInv
  <2>2. CASE ~Full(i)
    <3>1. i.dir \in 1..MaxSave
      BY <1>2, <2>2, MaxSaveAssumption DEF Full
    <3>2. lists' = SetText(f, IF f \in DOMAIN lists THEN lists[f] \o <<next>> ELSE <<Opening, next>>)
      <4>1. lists' = SetText(into, Text(into) \o Added(new, next))
        BY <1>1, <2>2
      <4> HIDE DEF i
      <4> QED
        BY <1>0, <1>2, <1>3, <3>1, <4>1, EntryWritten
    <3>3. /\ DOMAIN lists' = DOMAIN lists \cup {f}
          /\ \A g \in DOMAIN lists' : Begun(lists'[g], next + 1)
          /\ \A m \in Objects : Homes(m, lists') = IF m = next THEN {f} ELSE Homes(m, lists)
      <4>1. \A g \in DOMAIN lists : Begun(lists[g], next)
        BY <2>0
      <4> HIDE DEF f
      <4>2. DOMAIN lists' = DOMAIN lists \cup {f}
        BY <1>0, <3>2, <4>1, HomesAfter
      <4>3. \A g \in DOMAIN lists' : Begun(lists'[g], next + 1)
        BY <1>0, <3>2, <4>1, HomesAfter
      <4>4. Homes(next, lists') = {f}
        BY <1>0, <3>2, <4>1, HomesAfter
      <4>5. \A m \in Objects : m # next => Homes(m, lists') = Homes(m, lists)
        BY <1>0, <3>2, <4>1, HomesAfter
      <4> QED
        BY <4>2, <4>3, <4>4, <4>5
    <3>4. f[1] = WalkDir
      BY DEF Name
    <3>5. into = f
      <4>1. CASE same
        <5>1. pre = <<b, i.dir>> /\ pre # None
          BY <4>1 DEF SameList, None
        <5>2. PICK c \in Buckets, e \in 1..(MaxSave + 1) :
                pre = <<c, e>> /\ (IF e > MaxSave THEN fp_list = None ELSE fp_list = Name(WalkDir, c, e))
          BY <1>0, <5>1 DEF WalkInv, OpenInv
        <5>3. c = b /\ e = i.dir
          BY <5>1, <5>2
        <5> QED
          BY <3>1, <4>1, <5>2, <5>3, MaxSaveAssumption
      <4> QED
        BY <4>1
    <3>6. \A m \in Objects : m < next' => m < next \/ m = next
      BY <1>1, <1>3, ObjectsAre
    <3>7. \A m \in Objects : m < next => m # next
      BY <1>3, ObjectsAre
    <3> HIDE DEF i, f, into, b
    <3> QED
      BY <1>0, <1>1, <1>2, <2>0, <2>2, <3>3, <3>4, <3>5, <3>6, <3>7 DEF WalkInv
  <2> QED
    BY <2>1, <2>2
<1>5. InfoInv'
  <2>1. info' \in [Buckets -> BucketInfo]
    BY <1>0, <1>1, <1>2 DEF WalkInv, InfoInv
  <2>2. ASSUME NEW c \in Buckets
        PROVE  Filled(add_bucket_info(info'[c]), LastSlot(c, subs') * MaxSave + Seen(c, next' - 1))
    <3>1. next' - 1 = next /\ subs' = subs
      BY <1>0, <1>1, <1>3
    <3>2. CASE c = b
      <4>1. info'[c] = i
        BY <1>0, <1>1, <1>2, <3>2 DEF WalkInv, InfoInv
      <4> HIDE DEF i, b
      <4> QED
        BY <1>2, <3>1, <3>2, <4>1
    <3>3. CASE c # b
      <4>1. info'[c] = info[c]
        BY <1>0, <1>1, <3>3 DEF WalkInv, InfoInv
      <4>2. Seen(c, next) = Seen(c, next - 1)
        <5>1. next - 1 \in Nat /\ (next - 1) + 1 = next
          BY <1>3
        <5>2. Seen(c, (next - 1) + 1) = Seen(c, next - 1)
          BY <3>3, <5>1, SeenFacts
        <5> QED
          BY <5>1, <5>2
      <4> QED
        BY <1>0, <3>1, <4>1, <4>2 DEF WalkInv, InfoInv
    <3> QED
      BY <3>2, <3>3
  <2> QED
    BY <2>1, <2>2 DEF InfoInv
<1>6. OpenInv'
  <2>1. pre' # None
    BY <1>1 DEF None
  <2> HIDE DEF i, into, f
  <2>2. IF i.dir > MaxSave THEN fp_list' = None ELSE fp_list' = f /\ fp_list' \in DOMAIN lists'
    BY <1>1, <1>2, <1>4
  <2> USE DEF f
  <2> QED
    BY <1>1, <1>2, <2>1, <2>2 DEF OpenInv
<1>7. WalkInv'
  <2>1. subs' = subs
    BY <1>0
  <2> QED
    BY <1>3, <1>4, <1>5, <1>6, <2>1 DEF WalkInv
<1>8. finished => FALSE
  BY <1>0 DEF ListInv
<1> QED
  BY <1>0, <1>4, <1>7, <1>8 DEF ListInv

LEMMA NextList == ASSUME SameTape, ListInv, [Next]_vars PROVE ListInv'
<1>1. CASE UNCHANGED vars
  BY <1>1 DEF vars, ListInv, WalkInv, CompleteInv, FinishedInv, InfoInv, OpenInv
<1>2. CASE Next
  BY <1>2, StartKeeps, DeleteKeeps, BeginKeeps, EntryKeeps, EndKeeps, CompleteKeeps, FinishKeeps, StopKeeps DEF Next
<1> QED
  BY <1>1, <1>2

LEMMA ListInvAlways == ASSUME SameTape PROVE Spec => []ListInv
<1>1. ListInv /\ [Next]_vars => ListInv'
  BY NextList
<1> QED
  BY <1>1, InitList, PTL DEF Spec

\* After a run with --list that went to its end every list is a whole text and every
\* object stands in the one list of the directory a dump would put it in, whatever
\* stopped runs have left (check_integriy.c's lists and comlete_list_files).
THEOREM ListsAreWhole ==
  ASSUME SameTape
  PROVE  Spec => []ListsWhole
<1>1. ListInv => ListsWhole
  BY ListedWhenFinished DEF ListInv, ListsWhole
<1> QED
  BY <1>1, ListInvAlways, PTL

-----------------------------------------------------------------------------
(* Recursive functions over the lines of a list and over lists *)

\* A function given by its first value and by a step.
IsRun(f, N, S, first, Step) ==
  f \in [0..N -> S] /\ f[0] = first /\ \A n \in 1..N : f[n] = Step[<<f[n - 1], n>>]

LEMMA Recursion ==
  ASSUME NEW N \in Nat, NEW S, NEW first \in S, NEW Step \in [S \X (1..N) -> S]
  PROVE  \E f : IsRun(f, N, S, first, Step)
<1> DEFINE Upto(f, k) == /\ f \in [0..k -> S] /\ f[0] = first
                         /\ \A n \in 1..k : f[n] = Step[<<f[n - 1], n>>]
           T == {k \in 0..N : ~\E f : Upto(f, k)}
<1>1. T = {}
  <2> SUFFICES ASSUME T # {} PROVE FALSE
    OBVIOUS
  <2>1. PICK k \in T : \A m \in T : k <= m
    <3>1. T \subseteq Nat
      OBVIOUS
    <3> HIDE DEF T
    <3> QED
      BY <3>1, LeastNatural
  <2>2. k # 0
    <3> DEFINE g == [n \in 0..0 |-> first]
    <3>1. Upto(g, 0)
      OBVIOUS
    <3> HIDE DEF g, Upto
    <3>2. 0 \notin T
      BY <3>1
    <3> QED
      BY <3>2
  <2>3. k \in 1..N /\ k - 1 \in 0..N /\ k - 1 \notin T
    <3>1. k \in 0..N
      OBVIOUS
    <3>2. k - 1 \in 0..N /\ ~(k <= k - 1)
      BY <2>2, <3>1
    <3> HIDE DEF T
    <3> QED
      BY <2>1, <2>2, <3>1, <3>2
  <2>4. PICK f : Upto(f, k - 1)
    BY <2>3
  <2> DEFINE g == [n \in 0..k |-> IF n < k THEN f[n] ELSE Step[<<f[k - 1], k>>]]
  <2>5. f[k - 1] \in S /\ Step[<<f[k - 1], k>>] \in S
    BY <2>3, <2>4
  <2>6. g \in [0..k -> S] /\ g[0] = first
    BY <2>3, <2>4, <2>5
  <2>7. ASSUME NEW n \in 1..k PROVE g[n] = Step[<<g[n - 1], n>>]
    <3>1. n - 1 \in 0..k /\ n - 1 < k /\ n \in 0..k /\ g[n - 1] = f[n - 1]
      BY <2>3
    <3>2. CASE n < k
      <4>1. n \in 1..(k - 1) /\ g[n] = f[n]
        BY <2>3, <3>1, <3>2
      <4> HIDE DEF g
      <4> QED
        BY <2>4, <3>1, <4>1
    <3>3. CASE n = k
      <4>1. g[n] = Step[<<f[k - 1], k>>]
        BY <2>3, <3>1, <3>3
      <4> HIDE DEF g
      <4> QED
        BY <3>1, <3>3, <4>1
    <3> QED
      BY <2>3, <3>2, <3>3
  <2> HIDE DEF g
  <2>8. Upto(g, k)
    BY <2>6, <2>7
  <2> HIDE DEF Upto
  <2>9. k \notin T
    BY <2>8
  <2> QED
    BY <2>9
<1>2. N \in 0..N
  OBVIOUS
<1>3. \E f : Upto(f, N)
  BY <1>1, <1>2
<1> QED
  BY <1>3 DEF IsRun

\* What holds for the first value and is kept by each step holds for all of them.
LEMMA HoldsThroughout ==
  ASSUME NEW N \in Nat, NEW Good \in SUBSET (0..N), 0 \in Good,
         \A n \in 1..N : n - 1 \in Good => n \in Good
  PROVE  Good = 0..N
<1> DEFINE T == (0..N) \ Good
<1>1. T = {}
  <2> SUFFICES ASSUME T # {} PROVE FALSE
    OBVIOUS
  <2>1. PICK k \in T : \A m \in T : k <= m
    <3>1. T \subseteq Nat
      OBVIOUS
    <3> HIDE DEF T
    <3> QED
      BY <3>1, LeastNatural
  <2>2. k \in 1..N
    OBVIOUS
  <2>3. k - 1 \in 0..N /\ ~(k <= k - 1)
    BY <2>2
  <2>4. k - 1 \in Good
    BY <2>1, <2>3
  <2> QED
    BY <2>2, <2>4
<1> QED
  BY <1>1

-----------------------------------------------------------------------------
(* The latest of several versions *)

Increasing(ms) == \A i, j \in DOMAIN ms : i < j => ms[i] < ms[j]

LEMMA OlderFacts ==
  ASSUME NEW l \in Objects, NEW m \in Objects, NEW n \in Objects
  PROVE  /\ ~Older(m, m)
         /\ Older(l, m) /\ Older(m, n) => Older(l, n)
         /\ Older(l, m) /\ ~Older(n, m) => Older(l, n)
         /\ ~Older(m, l) /\ ~Older(n, m) => ~Older(n, l)
         /\ ~Older(m, l) /\ Older(m, n) => Older(l, n)
BY EntriesAssumption DEF Older

LEMMA LatestSteps ==
  ASSUME NEW ms \in Seq(Objects), ms # << >>
  PROVE  \E f \in [0..(Len(ms) - 1) -> Objects] :
           /\ f[0] = ms[1]
           /\ \A n \in 1..(Len(ms) - 1) : f[n] = IF Older(f[n - 1], ms[n + 1]) THEN ms[n + 1] ELSE f[n - 1]
           /\ Latest(ms) = f[Len(ms) - 1]
<1> DEFINE N == Len(ms) - 1
           Step == [p \in Objects \X (1..N) |-> IF Older(p[1], ms[p[2] + 1]) THEN ms[p[2] + 1] ELSE p[1]]
           l == CHOOSE f : f = [n \in 0..N |-> IF n = 0 THEN ms[1]
                                               ELSE IF Older(f[n - 1], ms[n + 1]) THEN ms[n + 1] ELSE f[n - 1]]
<1>1. N \in Nat /\ ms[1] \in Objects /\ \A n \in 1..N : ms[n + 1] \in Objects
  OBVIOUS
<1>2. Step \in [Objects \X (1..N) -> Objects]
  BY <1>1
<1>10. PICK f : IsRun(f, N, Objects, ms[1], Step)
  <2>1. N \in Nat /\ ms[1] \in Objects
    BY <1>1
  <2> HIDE DEF N, Step
  <2> QED
    BY <1>2, <2>1, Recursion
<1>3. f \in [0..N -> Objects] /\ f[0] = ms[1] /\ \A n \in 1..N : f[n] = Step[<<f[n - 1], n>>]
  <2> HIDE DEF N, Step
  <2> QED
    BY <1>10 DEF IsRun
<1>4. \A n \in 1..N : f[n] = IF Older(f[n - 1], ms[n + 1]) THEN ms[n + 1] ELSE f[n - 1]
  <2> TAKE n \in 1..N
  <2>1. f[n - 1] \in Objects
    <3>1. n - 1 \in 0..N
      BY <1>1
    <3> HIDE DEF N, Step
    <3> QED
      BY <1>3, <3>1
  <2>2. Step[<<f[n - 1], n>>] = IF Older(f[n - 1], ms[n + 1]) THEN ms[n + 1] ELSE f[n - 1]
    BY <2>1
  <2> QED
    BY <1>3, <2>2
<1>5. f = [n \in 0..N |-> IF n = 0 THEN ms[1]
                          ELSE IF Older(f[n - 1], ms[n + 1]) THEN ms[n + 1] ELSE f[n - 1]]
  <2> HIDE DEF N, Step
  <2>1. \A n \in 0..N : f[n] = IF n = 0 THEN ms[1]
                               ELSE IF Older(f[n - 1], ms[n + 1]) THEN ms[n + 1] ELSE f[n - 1]
    <3> TAKE n \in 0..N
    <3>1. n = 0 \/ n \in 1..N
      BY <1>1
    <3> QED
      BY <1>3, <1>4, <3>1
  <2> QED
    BY <1>3, <2>1
<1>6. l = [n \in 0..N |-> IF n = 0 THEN ms[1]
                          ELSE IF Older(l[n - 1], ms[n + 1]) THEN ms[n + 1] ELSE l[n - 1]]
  BY <1>5
<1>7. Latest(ms) = l[N]
  BY DEF Latest
<1> HIDE DEF l, N, Step
<1>8. \A n \in 0..N : l[n] = f[n]
  <2> DEFINE Good == {n \in 0..N : l[n] = f[n]}
  <2>1. l[0] = f[0]
    BY <1>1, <1>3, <1>6
  <2>2. ASSUME NEW n \in 1..N, n - 1 \in Good PROVE n \in Good
    <3>1. n \in 0..N /\ n # 0 /\ l[n - 1] = f[n - 1]
      BY <1>1, <2>2
    <3>2. l[n] = IF Older(l[n - 1], ms[n + 1]) THEN ms[n + 1] ELSE l[n - 1]
      BY <1>6, <3>1
    <3> QED
      BY <1>4, <3>1, <3>2
  <2>3. Good \in SUBSET (0..N) /\ 0 \in Good
    BY <1>1, <2>1
  <2>4. Good = 0..N
    <3> HIDE DEF Good
    <3> QED
      BY <1>1, <2>2, <2>3, HoldsThroughout
  <2> QED
    BY <2>4
<1>9. Latest(ms) = f[N]
  BY <1>1, <1>7, <1>8
<1> QED
  BY <1>3, <1>4, <1>9 DEF N

LEMMA LatestType ==
  ASSUME NEW ms \in Seq(Objects), ms # << >>
  PROVE  Latest(ms) \in Objects
<1>1. PICK f \in [0..(Len(ms) - 1) -> Objects] : Latest(ms) = f[Len(ms) - 1]
  BY LatestSteps
<1>2. Len(ms) - 1 \in 0..(Len(ms) - 1)
  OBVIOUS
<1> QED
  BY <1>1, <1>2

\* One more version, behind all the others.
LEMMA LatestOfMore ==
  ASSUME NEW S \in SUBSET Objects, NEW l \in LatestOf(S), NEW m \in Objects, \A n \in S : n < m
  PROVE  (IF Older(l, m) THEN m ELSE l) \in LatestOf(S \cup {m})
<1>1. l \in S /\ l \in Objects /\ \A n \in S \ {l} : Older(n, l) \/ (~Older(l, n) /\ l < n)
  BY DEF LatestOf
<1>2. CASE Older(l, m)
  <2>1. \A n \in (S \cup {m}) \ {m} : Older(n, m)
    <3> TAKE n \in (S \cup {m}) \ {m}
    <3>1. n \in S /\ n \in Objects
      OBVIOUS
    <3>2. n = l \/ Older(n, l) \/ ~Older(l, n)
      BY <1>1, <3>1
    <3> QED
      BY <1>1, <1>2, <3>1, <3>2, OlderFacts
  <2> QED
    BY <1>2, <2>1 DEF LatestOf
<1>3. CASE ~Older(l, m)
  BY <1>1, <1>3 DEF LatestOf
<1> QED
  BY <1>2, <1>3

\* Of versions in the order of the tape the program takes the right one.
LEMMA LatestIs ==
  ASSUME NEW ms \in Seq(Objects), ms # << >>, Increasing(ms)
  PROVE  Latest(ms) \in LatestOf(Range(ms))
<1> DEFINE N == Len(ms) - 1
           First(n) == {ms[i] : i \in 1..(n + 1)}
<1>0. N \in Nat /\ DOMAIN ms = 1..(N + 1) /\ \A i \in 1..(N + 1) : ms[i] \in Objects
  OBVIOUS
<1>1. PICK f \in [0..N -> Objects] :
        /\ f[0] = ms[1]
        /\ \A n \in 1..N : f[n] = IF Older(f[n - 1], ms[n + 1]) THEN ms[n + 1] ELSE f[n - 1]
        /\ Latest(ms) = f[N]
  BY LatestSteps
<1> HIDE DEF N
<1> DEFINE Good == {n \in 0..N : f[n] \in LatestOf(First(n))}
<1>2. f[0] \in LatestOf(First(0))
  <2>1. First(0) = {ms[1]}
    OBVIOUS
  <2> QED
    BY <1>1, <2>1 DEF LatestOf
<1>3. ASSUME NEW n \in 1..N, n - 1 \in Good PROVE n \in Good
  <2>1. First(n - 1) \in SUBSET Objects /\ ms[n + 1] \in Objects /\ n \in 0..N /\ n - 1 \in 0..N
    BY <1>0
  <2>2. \A l \in First(n - 1) : l < ms[n + 1]
    <3>1. \A i \in 1..((n - 1) + 1) : i \in 1..(N + 1) /\ n + 1 \in 1..(N + 1) /\ i < n + 1
      BY <1>0
    <3> QED
      BY <1>0, <3>1 DEF Increasing
  <2>3. First(n) = First(n - 1) \cup {ms[n + 1]}
    <3>1. \A i : i \in 1..(n + 1) <=> i \in 1..((n - 1) + 1) \/ i = n + 1
      BY <1>0
    <3> QED
      BY <3>1
  <2>4. f[n - 1] \in LatestOf(First(n - 1))
    BY <1>3
  <2> HIDE DEF First
  <2>5. f[n] \in LatestOf(First(n))
    BY <1>1, <2>1, <2>2, <2>3, <2>4, LatestOfMore
  <2> QED
    BY <2>1, <2>5
<1>4. Good = 0..N
  <2>1. Good \in SUBSET (0..N) /\ 0 \in Good
    BY <1>0, <1>2
  <2> HIDE DEF Good
  <2> QED
    BY <1>0, <1>3, <2>1, HoldsThroughout
<1>5. f[N] \in LatestOf(First(N))
  <2>1. N \in Good
    BY <1>0, <1>4
  <2> QED
    BY <2>1
<1> QED
  BY <1>0, <1>1, <1>5 DEF Range

\* There is one latest version at most.
LEMMA OneLatestOf ==
  ASSUME NEW S \in SUBSET Objects, NEW l \in LatestOf(S)
  PROVE  LatestOf(S) = {l}
<1> SUFFICES ASSUME NEW k \in LatestOf(S), k # l PROVE FALSE
  OBVIOUS
<1>1. k \in S /\ l \in S /\ k \in Objects /\ l \in Objects
  BY DEF LatestOf
<1>2. (Older(k, l) \/ (~Older(l, k) /\ l < k)) /\ (Older(l, k) \/ (~Older(k, l) /\ k < l))
  BY <1>1 DEF LatestOf
<1>3. ~(k < l /\ l < k)
  BY <1>1, ObjectsAre
<1>4. ~(Older(k, l) /\ Older(l, k))
  BY <1>1, OlderFacts
<1> QED
  BY <1>2, <1>3, <1>4

\* The latest of the latest of some and of later ones is the latest of all.
LEMMA LatestOfLatest ==
  ASSUME NEW S \in SUBSET Objects, NEW T \in SUBSET Objects, NEW l \in LatestOf(S),
         \A m \in S, n \in T : m < n,
         NEW k \in LatestOf({l} \cup T)
  PROVE  k \in LatestOf(S \cup T)
<1>1. l \in S /\ k \in {l} \cup T /\ k \in Objects /\ l \in Objects
  BY DEF LatestOf
<1>2. ASSUME NEW n \in (S \cup T) \ {k} PROVE Older(n, k) \/ (~Older(k, n) /\ k < n)
  <2>1. CASE n \in {l} \cup T
    BY <1>2, <2>1 DEF LatestOf
  <2>2. CASE n \in S \ {l}
    <3>1. Older(n, l) \/ (~Older(l, n) /\ l < n)
      BY <2>2 DEF LatestOf
    <3>2. CASE k = l
      BY <3>1, <3>2
    <3>3. CASE k # l
      <4>1. k \in T /\ l < k
        BY <1>1, <3>3
      <4>2. Older(l, k)
        <5>1. Older(l, k) \/ (~Older(k, l) /\ k < l)
          BY <1>1, <3>3 DEF LatestOf
        <5>2. ~(k < l)
          BY <1>1, <4>1, ObjectsAre
        <5> QED
          BY <5>1, <5>2
      <4>3. n \in Objects
        BY <2>2
      <4> QED
        BY <1>1, <3>1, <4>2, <4>3, OlderFacts
    <3> QED
      BY <3>2, <3>3
  <2> QED
    BY <2>1, <2>2
<1> QED
  BY <1>1, <1>2 DEF LatestOf

-----------------------------------------------------------------------------
(* Reading a list *)

SearchState ==
  [objects : Seq(Objects), inside : BOOLEAN, key : BOOLEAN, oid : BOOLEAN, stop : BOOLEAN]

LEMMA ReadLineCases ==
  ASSUME NEW s \in SearchState, NEW line, NEW r
  PROVE  /\ s.stop => ReadLine(s, line, r) = s
         /\ ~s.stop /\ ~s.inside => ReadLine(s, line, r) = [s EXCEPT !.inside = line = Opening]
         /\ ~s.stop /\ s.inside /\ line = Closing => ReadLine(s, line, r) = ReadClosing(s, r)
         /\ ~s.stop /\ s.inside /\ line \in Objects => ReadLine(s, line, r) = ReadEntry(s, line, r)
         /\ ~s.stop /\ s.inside /\ line # Closing /\ line \notin Objects => ReadLine(s, line, r) = s
<1>1. CASE s.stop
  BY <1>1 DEF ReadLine
<1>2. CASE ~s.stop /\ ~s.inside
  BY <1>2 DEF ReadLine
<1>3. CASE ~s.stop /\ s.inside /\ line = Closing
  BY <1>3, ObjectsAre DEF ReadLine
<1>4. CASE ~s.stop /\ s.inside /\ line \in Objects
  BY <1>4, ObjectsAre DEF ReadLine
<1>5. CASE ~s.stop /\ s.inside /\ line # Closing /\ line \notin Objects
  BY <1>5 DEF ReadLine
<1> QED
  BY <1>1, <1>2, <1>3, <1>4, <1>5 DEF SearchState

LEMMA ReadLineType ==
  ASSUME NEW s \in SearchState, NEW line, NEW r
  PROVE  ReadLine(s, line, r) \in SearchState
<1>1. CASE ~s.stop /\ s.inside /\ line = Closing
  <2>1. s.objects # << >> => <<Latest(s.objects)>> \in Seq(Objects)
    <3>1. s.objects # << >> => Latest(s.objects) \in Objects
      BY LatestType DEF SearchState
    <3> QED
      BY <3>1
  <2>2. ReadClosing(s, r) \in SearchState
    BY <2>1 DEF ReadClosing, SearchState
  <2> QED
    BY <1>1, <2>2, ReadLineCases
<1>2. CASE ~s.stop /\ s.inside /\ line \in Objects
  <2>1. Append(s.objects, line) \in Seq(Objects)
    BY <1>2 DEF SearchState
  <2>2. ReadEntry(s, line, r) \in SearchState
    BY <2>1 DEF ReadEntry, SearchState, KeyFlag, OidFlag
  <2> QED
    BY <1>2, <2>2, ReadLineCases
<1>3. CASE ~s.stop /\ ~s.inside
  <2>1. [s EXCEPT !.inside = line = Opening] \in SearchState
    BY DEF SearchState
  <2> QED
    BY <1>3, <2>1, ReadLineCases
<1>4. CASE s.stop \/ (~s.stop /\ s.inside /\ line # Closing /\ line \notin Objects)
  BY <1>4, ReadLineCases
<1> QED
  BY <1>1, <1>2, <1>3, <1>4

\* The states of the search line by line.
IsReading(f, r, text, objects) ==
  /\ f \in [0..Len(text) -> SearchState] /\ f[0] = BeforeReading(objects)
  /\ \A n \in 1..Len(text) : f[n] = ReadLine(f[n - 1], text[n], r)
  /\ get_object_info_in_list(r, text, objects) = f[Len(text)].objects

LEMMA ReadSteps ==
  ASSUME NEW r, NEW text \in Seq(Nat), NEW objects \in Seq(Objects)
  PROVE  \E f : IsReading(f, r, text, objects)
<1> DEFINE N == Len(text)
           Step == [p \in SearchState \X (1..N) |-> ReadLine(p[1], text[p[2]], r)]
           l == CHOOSE f : f = [n \in 0..N |-> IF n = 0 THEN BeforeReading(objects)
                                               ELSE ReadLine(f[n - 1], text[n], r)]
<1>1. N \in Nat /\ BeforeReading(objects) \in SearchState
  BY DEF BeforeReading, SearchState
<1>2. Step \in [SearchState \X (1..N) -> SearchState]
  BY ReadLineType
<1>3. PICK f : IsRun(f, N, SearchState, BeforeReading(objects), Step)
  <2> HIDE DEF N, Step
  <2> QED
    BY <1>1, <1>2, Recursion
<1>4. f \in [0..N -> SearchState] /\ f[0] = BeforeReading(objects) /\ \A n \in 1..N : f[n] = Step[<<f[n - 1], n>>]
  <2> HIDE DEF N, Step
  <2> QED
    BY <1>3 DEF IsRun
<1>5. ASSUME NEW n \in 1..N PROVE f[n] = ReadLine(f[n - 1], text[n], r)
  <2>1. f[n - 1] \in SearchState
    <3>1. n - 1 \in 0..N
      BY <1>1
    <3> HIDE DEF N, Step
    <3> QED
      BY <1>4, <3>1
  <2>2. Step[<<f[n - 1], n>>] = ReadLine(f[n - 1], text[n], r)
    BY <2>1
  <2> QED
    BY <1>4, <2>2
<1>6. f = [n \in 0..N |-> IF n = 0 THEN BeforeReading(objects) ELSE ReadLine(f[n - 1], text[n], r)]
  <2> HIDE DEF N, Step
  <2>1. \A n \in 0..N : f[n] = IF n = 0 THEN BeforeReading(objects) ELSE ReadLine(f[n - 1], text[n], r)
    <3> TAKE n \in 0..N
    <3>1. n = 0 \/ n \in 1..N
      BY <1>1
    <3> QED
      BY <1>4, <1>5, <3>1
  <2> QED
    BY <1>4, <2>1
<1>7. l = [n \in 0..N |-> IF n = 0 THEN BeforeReading(objects) ELSE ReadLine(l[n - 1], text[n], r)]
  BY <1>6
<1>8. get_object_info_in_list(r, text, objects) = l[N].objects
  BY DEF get_object_info_in_list
<1> HIDE DEF l, N, Step
<1>9. \A n \in 0..N : l[n] = f[n]
  <2> DEFINE Good == {n \in 0..N : l[n] = f[n]}
  <2>1. l[0] = f[0]
    BY <1>1, <1>4, <1>7
  <2>2. ASSUME NEW n \in 1..N, n - 1 \in Good PROVE n \in Good
    <3>1. n \in 0..N /\ n # 0 /\ l[n - 1] = f[n - 1]
      BY <1>1, <2>2
    <3>2. l[n] = ReadLine(l[n - 1], text[n], r)
      BY <1>7, <3>1
    <3> QED
      BY <1>5, <3>1, <3>2
  <2>3. Good \in SUBSET (0..N) /\ 0 \in Good
    BY <1>1, <2>1
  <2>4. Good = 0..N
    <3> HIDE DEF Good
    <3> QED
      BY <1>1, <2>2, <2>3, HoldsThroughout
  <2> QED
    BY <2>4
<1>10. get_object_info_in_list(r, text, objects) = f[N].objects
  BY <1>1, <1>8, <1>9
<1> QED
  BY <1>4, <1>5, <1>10 DEF N, IsReading

LEMMA WholeLines ==
  ASSUME NEW body, Begun(body, Closing), NEW text, text = Append(body, Closing)
  PROVE  /\ text \in Seq(Nat) /\ Len(body) \in Nat /\ Len(body) >= 2 /\ Len(text) = Len(body) + 1
         /\ text[1] = Opening /\ text[Len(body) + 1] = Closing
         /\ \A i \in 2..Len(body) : text[i] = body[i] /\ body[i] \in Objects
<1>1. body \in Seq(Nat) /\ Len(body) \in Nat /\ Len(body) >= 2 /\ Closing \in Nat
  BY ObjectsAre DEF Begun
<1>2. /\ text \in Seq(Nat) /\ Len(text) = Len(body) + 1 /\ text[Len(body) + 1] = Closing
      /\ \A i \in 1..Len(body) : text[i] = body[i]
  BY <1>1
<1>3. text[1] = Opening
  BY <1>1, <1>2 DEF Begun
<1>4. \A i \in 2..Len(body) : text[i] = body[i] /\ body[i] \in Objects
  BY <1>1, <1>2 DEF Begun
<1> QED
  BY <1>1, <1>2, <1>3, <1>4

\* One more object behind all that have been selected.
LEMMA OneMore ==
  ASSUME NEW ms \in Seq(Objects), Increasing(ms), NEW m \in Objects, \A n \in Range(ms) : n < m
  PROVE  /\ Append(ms, m) \in Seq(Objects) /\ Increasing(Append(ms, m))
         /\ Range(Append(ms, m)) = Range(ms) \cup {m}
<1> DEFINE t == Append(ms, m)
<1>1. /\ t \in Seq(Objects) /\ Len(ms) \in Nat /\ DOMAIN ms = 1..Len(ms) /\ DOMAIN t = 1..(Len(ms) + 1)
      /\ (\A i \in 1..Len(ms) : t[i] = ms[i]) /\ t[Len(ms) + 1] = m
  OBVIOUS
<1> HIDE DEF t
<1>2. Increasing(t)
  <2> SUFFICES ASSUME NEW i \in DOMAIN t, NEW j \in DOMAIN t, i < j PROVE t[i] < t[j]
    BY DEF Increasing
  <2>1. i \in DOMAIN ms /\ t[i] = ms[i] /\ ms[i] \in Range(ms)
    BY <1>1 DEF Range
  <2>2. CASE j = Len(ms) + 1
    BY <1>1, <2>1, <2>2
  <2>3. CASE j \in DOMAIN ms
    BY <1>1, <2>1, <2>3 DEF Increasing
  <2> QED
    BY <1>1, <2>2, <2>3
<1>3. Range(t) = Range(ms) \cup {m}
  <2>1. \A i \in DOMAIN t : i \in DOMAIN ms \/ i = Len(ms) + 1
    BY <1>1
  <2>2. \A i \in DOMAIN ms : i \in DOMAIN t
    BY <1>1
  <2> QED
    BY <1>1, <2>1, <2>2 DEF Range
<1> QED
  BY <1>1, <1>2, <1>3 DEF t

\* The entries of a list up to a line that have the key.
Matching(body, k, r) == {body[i] : i \in {j \in 2..k : Entries[body[j]].key = r.key}}

\* With "all" or "latest" a list adds the entries with the key, in their order.
LEMMA ReadAny ==
  ASSUME NEW r, r.id \in AnyId, NEW body, Begun(body, Closing),
         NEW objects \in Seq(Objects), Increasing(objects),
         \A m \in Range(objects) : \A i \in 2..Len(body) : m < body[i]
  PROVE  \E ms \in Seq(Objects) :
           /\ Increasing(ms) /\ Range(ms) = Range(objects) \cup Matching(body, Len(body), r)
           /\ get_object_info_in_list(r, Append(body, Closing), objects) =
                IF ms # << >> /\ r.id = "latest" THEN <<Latest(ms)>> ELSE ms
<1> DEFINE text == Append(body, Closing)
           N == Len(body)
<1>1. /\ text \in Seq(Nat) /\ N \in Nat /\ N >= 2 /\ Len(text) = N + 1
      /\ text[1] = Opening /\ text[N + 1] = Closing
      /\ \A i \in 2..N : text[i] = body[i] /\ body[i] \in Objects
  BY WholeLines
<1>2. PICK f : IsReading(f, r, text, objects)
  <2> HIDE DEF text
  <2> QED
    BY <1>1, ReadSteps
<1> HIDE DEF text, N
<1>3. /\ \A n \in 0..(N + 1) : f[n] \in SearchState
      /\ f[0] = BeforeReading(objects)
      /\ \A n \in 1..(N + 1) : f[n] = ReadLine(f[n - 1], text[n], r)
      /\ get_object_info_in_list(r, text, objects) = f[N + 1].objects
  BY <1>1, <1>2 DEF IsReading
<1> DEFINE At(k) == /\ f[k].inside /\ ~f[k].stop /\ ~f[k].key /\ Increasing(f[k].objects)
                    /\ Range(f[k].objects) = Range(objects) \cup Matching(body, k, r)
           Good == {k \in 0..N : k = 0 \/ At(k)}
<1>4. At(1)
  <2>1. f[0] = BeforeReading(objects) /\ f[0] \in SearchState /\ f[1] = ReadLine(f[0], Opening, r)
    <3>1. 1 \in 1..(N + 1) /\ 0 \in 0..(N + 1) /\ 1 - 1 = 0
      BY <1>1
    <3> QED
      BY <1>1, <1>3, <3>1
  <2>6. ~f[0].stop /\ ~f[0].inside
    BY <2>1 DEF BeforeReading
  <2>2. f[1] = [f[0] EXCEPT !.inside = Opening = Opening]
    BY <2>1, <2>6, ReadLineCases
  <2>3. f[1] = [BeforeReading(objects) EXCEPT !.inside = TRUE]
    BY <2>1, <2>2
  <2>4. f[1].inside /\ ~f[1].stop /\ ~f[1].key /\ f[1].objects = objects
    BY <2>3 DEF BeforeReading
  <2>5. Matching(body, 1, r) = {}
    BY DEF Matching
  <2> QED
    BY <2>4, <2>5
<1>5. ASSUME NEW k \in 1..N, k - 1 \in Good PROVE k \in Good
  <2>1. CASE k = 1
    BY <1>1, <1>4, <2>1
  <2>2. CASE k # 1
    <3>1. k \in 2..N /\ k - 1 # 0 /\ k - 1 \in 0..(N + 1) /\ k \in 1..(N + 1) /\ k \in 0..N
      BY <1>1, <2>2
    <3> DEFINE s == f[k - 1]
               m == body[k]
    <3>2. /\ s \in SearchState /\ s.inside /\ ~s.stop /\ ~s.key /\ Increasing(s.objects)
          /\ Range(s.objects) = Range(objects) \cup Matching(body, k - 1, r)
      BY <1>3, <1>5, <3>1
    <3>3. m \in Objects /\ f[k] = ReadEntry(s, m, r)
      <4>1. m \in Objects /\ f[k] = ReadLine(s, m, r)
        BY <1>1, <1>3, <3>1
      <4> HIDE DEF s, m
      <4> QED
        BY <3>2, <4>1, ReadLineCases
    <3>4. OidFlag(s, m, r) /\ (KeyFlag(s, m, r) <=> Entries[m].key = r.key)
      <4> HIDE DEF s, m
      <4> QED
        BY <3>2 DEF OidFlag, KeyFlag
    <3>5. CASE Entries[m].key = r.key
      <4>1. f[k] = [s EXCEPT !.objects = Append(s.objects, m), !.key = FALSE, !.oid = FALSE, !.stop = FALSE]
        <5> HIDE DEF s, m
        <5> QED
          BY <3>3, <3>4, <3>5 DEF ReadEntry
      <4>2. f[k].objects = Append(s.objects, m) /\ f[k].inside /\ ~f[k].stop /\ ~f[k].key
        <5> HIDE DEF s, m
        <5> QED
          BY <3>2, <4>1 DEF SearchState
      <4>3. \A n \in Range(s.objects) : n < m
        <5>1. \A n \in Range(objects) : n < m
          BY <3>1 DEF N
        <5>2. \A n \in Matching(body, k - 1, r) : n < m
          <6>1. \A i \in 2..(k - 1) : i \in 2..N /\ k \in 2..N /\ i < k
            BY <1>1, <3>1
          <6> QED
            BY <6>1 DEF Matching, Begun, N
        <5> HIDE DEF s, m
        <5> QED
          BY <3>2, <5>1, <5>2
      <4>4. Increasing(Append(s.objects, m)) /\ Range(Append(s.objects, m)) = Range(s.objects) \cup {m}
        <5>1. s.objects \in Seq(Objects)
          BY <3>2 DEF SearchState
        <5> HIDE DEF s, m
        <5>2. Increasing(Append(s.objects, m))
          BY <3>2, <3>3, <4>3, <5>1, OneMore
        <5>3. Range(Append(s.objects, m)) = Range(s.objects) \cup {m}
          BY <3>2, <3>3, <4>3, <5>1, OneMore
        <5> QED
          BY <5>2, <5>3
      <4>5. Matching(body, k, r) = Matching(body, k - 1, r) \cup {m}
        <5>1. \A j : j \in 2..k <=> j \in 2..(k - 1) \/ j = k
          BY <3>1
        <5> QED
          BY <3>5, <5>1 DEF Matching
      <4> HIDE DEF s, m
      <4> QED
        BY <3>1, <3>2, <4>2, <4>4, <4>5
    <3>6. CASE Entries[m].key # r.key
      <4>1. f[k] = [s EXCEPT !.key = FALSE, !.oid = TRUE]
        <5>1. KeyFlag(s, m, r) = FALSE /\ OidFlag(s, m, r) = TRUE
          <6> HIDE DEF s, m
          <6> QED
            BY <3>2, <3>4, <3>6 DEF SearchState, KeyFlag, OidFlag
        <5> HIDE DEF s, m
        <5> QED
          BY <3>3, <5>1 DEF ReadEntry
      <4>2. f[k].objects = s.objects /\ f[k].inside /\ ~f[k].stop /\ ~f[k].key
        <5> HIDE DEF s, m
        <5> QED
          BY <3>2, <4>1 DEF SearchState
      <4>3. Matching(body, k, r) = Matching(body, k - 1, r)
        <5>1. \A j : j \in 2..k <=> j \in 2..(k - 1) \/ j = k
          BY <3>1
        <5> QED
          BY <3>6, <5>1 DEF Matching
      <4> HIDE DEF s, m
      <4> QED
        BY <3>1, <3>2, <4>2, <4>3
    <3> QED
      BY <3>5, <3>6
  <2> QED
    BY <2>1, <2>2
<1>6. Good = 0..N
  <2>1. Good \in SUBSET (0..N) /\ 0 \in Good
    BY <1>1
  <2> HIDE DEF Good
  <2> QED
    BY <1>1, <1>5, <2>1, HoldsThroughout
<1>7. At(N)
  <2>1. N \in Good /\ N # 0
    BY <1>1, <1>6
  <2> QED
    BY <2>1
<1>8. f[N + 1] = ReadClosing(f[N], r) /\ f[N] \in SearchState
  <2>1. f[N] \in SearchState /\ f[N + 1] = ReadLine(f[N], Closing, r)
    <3>1. N + 1 \in 1..(N + 1) /\ (N + 1) - 1 = N /\ N \in 0..(N + 1)
      BY <1>1
    <3> QED
      BY <1>1, <1>3, <3>1
  <2> QED
    BY <1>7, <2>1, ReadLineCases
<1>9. f[N + 1].objects = IF f[N].objects # << >> /\ r.id = "latest" THEN <<Latest(f[N].objects)>> ELSE f[N].objects
  BY <1>8 DEF ReadClosing, SearchState
<1>10. f[N].objects \in Seq(Objects)
  BY <1>8 DEF SearchState
<1> QED
  BY <1>3, <1>7, <1>9, <1>10 DEF text, N

\* With an id of an object that has the key a list adds that object, if it is there.
LEMMA ReadId ==
  ASSUME NEW r, r.id \notin AnyId, NEW m \in Objects, Entries[m].id = r.id, Entries[m].key = r.key,
         NEW body, Begun(body, Closing), NEW objects \in Seq(Objects)
  PROVE  get_object_info_in_list(r, Append(body, Closing), objects) =
           IF InList(m, body) THEN Append(objects, m) ELSE objects
<1> DEFINE text == Append(body, Closing)
           N == Len(body)
<1>1. /\ text \in Seq(Nat) /\ N \in Nat /\ N >= 2 /\ Len(text) = N + 1
      /\ text[1] = Opening /\ text[N + 1] = Closing
      /\ \A i \in 2..N : text[i] = body[i] /\ body[i] \in Objects
  BY WholeLines
<1>2. PICK f : IsReading(f, r, text, objects)
  <2> HIDE DEF text
  <2> QED
    BY <1>1, ReadSteps
<1> HIDE DEF text, N
<1>3. /\ \A n \in 0..(N + 1) : f[n] \in SearchState
      /\ f[0] = BeforeReading(objects)
      /\ \A n \in 1..(N + 1) : f[n] = ReadLine(f[n - 1], text[n], r)
      /\ get_object_info_in_list(r, text, objects) = f[N + 1].objects
  BY <1>1, <1>2 DEF IsReading
<1> DEFINE Met(k) == \E i \in 2..k : body[i] = m
           At(k) == IF Met(k) THEN f[k].stop /\ f[k].objects = Append(objects, m)
                    ELSE f[k].inside /\ ~f[k].stop /\ ~f[k].oid /\ f[k].objects = objects
           Good == {k \in 0..N : k = 0 \/ At(k)}
<1>4. At(1)
  <2>1. f[0] = BeforeReading(objects) /\ f[0] \in SearchState /\ f[1] = ReadLine(f[0], Opening, r)
    <3>1. 1 \in 1..(N + 1) /\ 0 \in 0..(N + 1) /\ 1 - 1 = 0
      BY <1>1
    <3> QED
      BY <1>1, <1>3, <3>1
  <2>2. ~f[0].stop /\ ~f[0].inside
    BY <2>1 DEF BeforeReading
  <2>3. f[1] = [f[0] EXCEPT !.inside = Opening = Opening]
    BY <2>1, <2>2, ReadLineCases
  <2>4. f[1] = [BeforeReading(objects) EXCEPT !.inside = TRUE]
    BY <2>1, <2>3
  <2>5. f[1].inside /\ ~f[1].stop /\ ~f[1].oid /\ f[1].objects = objects
    BY <2>4 DEF BeforeReading
  <2> QED
    BY <2>5
<1>5. ASSUME NEW k \in 1..N, k - 1 \in Good PROVE k \in Good
  <2>1. CASE k = 1
    BY <1>1, <1>4, <2>1
  <2>2. CASE k # 1
    <3>1. k \in 2..N /\ k - 1 # 0 /\ k - 1 \in 0..(N + 1) /\ k \in 1..(N + 1) /\ k \in 0..N
      BY <1>1, <2>2
    <3> DEFINE s == f[k - 1]
               l == body[k]
    <3>2. s \in SearchState /\ At(k - 1)
      BY <1>3, <1>5, <3>1
    <3>3. l \in Objects /\ f[k] = ReadLine(s, l, r)
      BY <1>1, <1>3, <3>1
    <3>4. Met(k) <=> Met(k - 1) \/ l = m
      <4>1. \A j : j \in 2..k <=> j \in 2..(k - 1) \/ j = k
        BY <3>1
      <4> QED
        BY <4>1
    <3>5. CASE Met(k - 1)
      <4>1. s.stop /\ s.objects = Append(objects, m)
        BY <3>2, <3>5
      <4>2. f[k] = s
        <5> HIDE DEF s, l
        <5> QED
          BY <3>2, <3>3, <4>1, ReadLineCases
      <4> QED
        BY <3>1, <3>4, <3>5, <4>1, <4>2
    <3>6. CASE ~Met(k - 1) /\ l = m
      <4>1. s.inside /\ ~s.stop /\ s.objects = objects
        BY <3>2, <3>6
      <4>2. f[k] = ReadEntry(s, m, r)
        <5> HIDE DEF s, l
        <5> QED
          BY <3>2, <3>3, <3>6, <4>1, ReadLineCases
      <4>3. KeyFlag(s, m, r) /\ OidFlag(s, m, r)
        BY DEF KeyFlag, OidFlag
      <4>4. f[k] = [s EXCEPT !.objects = Append(s.objects, m), !.key = FALSE, !.oid = FALSE, !.stop = TRUE]
        <5> HIDE DEF s, l
        <5> QED
          BY <4>2, <4>3 DEF ReadEntry
      <4>5. f[k].stop /\ f[k].objects = Append(objects, m)
        <5> HIDE DEF s, l
        <5> QED
          BY <3>2, <4>1, <4>4 DEF SearchState
      <4> QED
        BY <3>1, <3>4, <3>6, <4>5
    <3>7. CASE ~Met(k - 1) /\ l # m
      <4>1. s.inside /\ ~s.stop /\ ~s.oid /\ s.objects = objects
        BY <3>2, <3>7
      <4>2. f[k] = ReadEntry(s, l, r)
        <5> HIDE DEF s, l
        <5> QED
          BY <3>2, <3>3, <4>1, ReadLineCases
      <4>3. Entries[l].id # r.id
        <5> HIDE DEF l
        <5> QED
          BY <3>3, <3>7, EntriesAssumption
      <4>4. ~OidFlag(s, l, r)
        <5> HIDE DEF s, l
        <5> QED
          BY <4>1, <4>3 DEF OidFlag
      <4>5. f[k] = [s EXCEPT !.key = KeyFlag(s, l, r), !.oid = OidFlag(s, l, r)]
        <5> HIDE DEF s, l
        <5> QED
          BY <4>2, <4>4 DEF ReadEntry
      <4>6. f[k].inside /\ ~f[k].stop /\ f[k].objects = objects /\ f[k].oid = OidFlag(s, l, r)
        <5> HIDE DEF s, l
        <5> QED
          BY <3>2, <4>1, <4>5 DEF SearchState
      <4>7. ~f[k].oid
        <5> HIDE DEF s, l
        <5> QED
          BY <4>4, <4>6
      <4> QED
        BY <3>1, <3>4, <3>7, <4>6, <4>7
    <3> QED
      BY <3>5, <3>6, <3>7
  <2> QED
    BY <2>1, <2>2
<1>6. Good = 0..N
  <2>1. Good \in SUBSET (0..N) /\ 0 \in Good
    BY <1>1
  <2> HIDE DEF Good
  <2> QED
    BY <1>1, <1>5, <2>1, HoldsThroughout
<1>7. At(N)
  <2>1. N \in Good /\ N # 0
    BY <1>1, <1>6
  <2> QED
    BY <2>1
<1>8. f[N] \in SearchState /\ f[N + 1] = ReadLine(f[N], Closing, r)
  <2>1. N + 1 \in 1..(N + 1) /\ (N + 1) - 1 = N /\ N \in 0..(N + 1)
    BY <1>1
  <2> QED
    BY <1>1, <1>3, <2>1
<1>9. Met(N) <=> InList(m, body)
  <2>1. body[1] # m /\ DOMAIN body = 1..N
    BY ObjectsAre, BegunType DEF Begun, Opening, N
  <2>2. \A j : j \in 1..N <=> j = 1 \/ j \in 2..N
    BY <1>1
  <2> QED
    BY <2>1, <2>2 DEF InList
<1>10. CASE Met(N)
  <2>1. f[N + 1] = f[N]
    BY <1>7, <1>8, <1>10, ReadLineCases
  <2> QED
    BY <1>3, <1>7, <1>9, <1>10, <2>1 DEF text
<1>11. CASE ~Met(N)
  <2>1. f[N + 1] = ReadClosing(f[N], r)
    BY <1>7, <1>8, <1>11, ReadLineCases
  <2>2. f[N + 1].objects = f[N].objects
    BY <1>8, <2>1 DEF ReadClosing, SearchState, AnyId
  <2> QED
    BY <1>3, <1>7, <1>9, <1>11, <2>2 DEF text
<1> QED
  BY <1>10, <1>11

-----------------------------------------------------------------------------
(* The numbers of the lists when there has been no dump *)

LEMMA RoundUpFacts ==
  ASSUME NEW a \in Nat, NEW c \in Nat, NEW b \in Nat \ {0}
  PROVE  /\ RoundUp(a, b) \in Nat
         /\ a >= 1 => RoundUp(a, b) >= 1
         /\ RoundUp(0, b) = 0 /\ RoundUp(1, b) = 1
         /\ a <= c => RoundUp(a, b) <= RoundUp(c, b)
         /\ RoundUp(a + 1, b) <= RoundUp(a, b) + 1
         /\ a <= c * b => RoundUp(a, b) <= c
<1> DEFINE q(x) == RoundUp(x, b)
<1>1. ASSUME NEW x \in Nat PROVE q(x) \in Nat /\ x <= q(x) * b /\ q(x) * b < x + b
  <2>1. (x + b - 1) \in Nat
    OBVIOUS
  <2>2. q(x) \in Nat /\ q(x) * b <= x + b - 1 /\ x + b - 1 < q(x) * b + b
    BY <2>1 DEF RoundUp
  <2> HIDE DEF q
  <2> QED
    BY <2>2
<1> HIDE DEF q
<1>2. ASSUME NEW x \in Nat, NEW y \in Nat, x <= y * b PROVE q(x) <= y
  <2> SUFFICES ASSUME q(x) > y PROVE FALSE
    BY <1>1
  <2>1. q(x) \in Nat /\ q(x) * b < x + b
    BY <1>1
  <2> DEFINE d == q(x) - y - 1
  <2>2. d \in Nat /\ q(x) = y + 1 + d
    BY <2>1
  <2> HIDE DEF d
  <2>3. q(x) * b = y * b + b + d * b /\ d * b \in Nat /\ y * b \in Nat
    BY <2>2
  <2> QED
    BY <1>2, <2>1, <2>3
<1>3. a >= 1 => q(a) >= 1
  <2> SUFFICES ASSUME a >= 1, q(a) = 0 PROVE FALSE
    BY <1>1
  <2> QED
    BY <1>1
<1>4. q(0) = 0
  <2>1. 0 <= 0 * b
    OBVIOUS
  <2> QED
    BY <1>1, <1>2, <2>1
<1>5. q(1) = 1
  <2>1. 1 <= 1 * b
    OBVIOUS
  <2>2. q(1) <= 1 /\ q(1) \in Nat /\ 1 <= q(1) * b
    BY <1>1, <1>2, <2>1
  <2>3. q(1) # 0
    BY <2>2
  <2> QED
    BY <2>2, <2>3
<1>6. a <= c => q(a) <= q(c)
  <2> SUFFICES ASSUME a <= c PROVE q(a) <= q(c)
    OBVIOUS
  <2>1. q(c) \in Nat /\ a <= q(c) * b
    <3>1. q(c) \in Nat /\ c <= q(c) * b
      BY <1>1
    <3> QED
      BY <3>1
  <2> QED
    BY <1>2, <2>1
<1>7. q(a + 1) <= q(a) + 1
  <2>1. q(a) \in Nat /\ a <= q(a) * b
    BY <1>1
  <2>2. a + 1 <= (q(a) + 1) * b
    BY <2>1
  <2> QED
    BY <1>2, <2>1, <2>2
<1>8. a <= c * b => q(a) <= c
  BY <1>2
<1>9. q(a) \in Nat
  BY <1>1
<1> QED
  BY <1>3, <1>4, <1>5, <1>6, <1>7, <1>8, <1>9 DEF q

LEMMA RoundUpNat == ASSUME NEW a \in Nat, NEW b \in Nat \ {0} PROVE RoundUp(a, b) \in Nat
BY RoundUpFacts

LEMMA RoundUpSome == ASSUME NEW a \in Nat \ {0}, NEW b \in Nat \ {0} PROVE RoundUp(a, b) \in Nat \ {0}
BY RoundUpFacts

LEMMA RoundUpNext ==
  ASSUME NEW a \in Nat, NEW b \in Nat \ {0} PROVE RoundUp(a + 1, b) <= RoundUp(a, b) + 1
BY RoundUpFacts

Num(m) == ListNumber(m, {})

LEMMA NumIs ==
  ASSUME NEW m \in Objects
  PROVE  /\ Rank(m) = Seen(Entries[m].bucket, m) /\ Rank(m) \in Nat \ {0}
         /\ Rank(m) = Seen(Entries[m].bucket, m - 1) + 1
         /\ Num(m) = RoundUp(RoundUp(Rank(m), MaxSave), MaxSave) /\ Num(m) \in Nat \ {0}
<1> DEFINE b == Entries[m].bucket
<1>0. m \in Nat /\ m - 1 \in Nat /\ (m - 1) + 1 = m /\ MaxSave \in Nat \ {0}
  BY ObjectsAre, MaxSaveAssumption
<1>1. Rank(m) = Seen(b, m)
  BY RankIsSeen
<1>2. Seen(b, m - 1) \in Nat /\ Seen(b, (m - 1) + 1) = Seen(b, m - 1) + 1
  <2>1. Entries[(m - 1) + 1].bucket = b
    BY <1>0
  <2> QED
    BY <1>0, <2>1, SeenFacts
<1>3. Rank(m) = Seen(b, m - 1) + 1 /\ Rank(m) \in Nat \ {0}
  BY <1>0, <1>1, <1>2
<1>4. LastSlot(b, {}) = 0
  <2>1. LastSlot(b, {}) = Max({0})
    BY DEF LastSlot
  <2>2. {0} \in SUBSET (0..0) /\ {0} # {}
    OBVIOUS
  <2>3. Max({0}) \in {0}
    BY <2>2, MaxOfNaturals
  <2> QED
    BY <2>1, <2>3
<1>5. RoundUp(Rank(m), MaxSave) \in Nat \ {0}
  BY <1>0, <1>3, RoundUpSome
<1>6. Num(m) = RoundUp(RoundUp(Rank(m), MaxSave), MaxSave)
  <2>1. Num(m) = RoundUp(0 + RoundUp(Rank(m), MaxSave), MaxSave)
    BY <1>4 DEF Num, ListNumber
  <2>2. 0 + RoundUp(Rank(m), MaxSave) = RoundUp(Rank(m), MaxSave)
    BY <1>5
  <2> QED
    BY <2>1, <2>2
<1>7. Num(m) \in Nat \ {0}
  BY <1>0, <1>5, <1>6, RoundUpSome
<1> QED
  BY <1>1, <1>3, <1>6, <1>7

LEMMA SeenMore ==
  ASSUME NEW b, NEW k \in Nat, NEW n \in Nat, k <= n
  PROVE  Seen(b, k) <= Seen(b, n)
<1> DEFINE P(i) == {m \in 1..i : Entries[m].bucket = b}
<1>1. IsFiniteSet(P(n)) /\ P(k) \subseteq P(n)
  <2>1. IsFiniteSet(1..n)
    BY FS_Interval
  <2>2. P(n) \subseteq 1..n /\ P(k) \subseteq P(n)
    OBVIOUS
  <2> HIDE DEF P
  <2> QED
    BY <2>1, <2>2, FS_Subset
<1>2. Cardinality(P(k)) <= Cardinality(P(n))
  <2> HIDE DEF P
  <2> QED
    BY <1>1, FS_Subset
<1> QED
  BY <1>2 DEF Seen

\* The lists of a bucket follow the tape.
LEMMA NumOrder ==
  ASSUME NEW k \in Objects, NEW m \in Objects, Entries[k].bucket = Entries[m].bucket, k <= m
  PROVE  Num(k) <= Num(m)
<1>0. k \in Nat /\ m \in Nat /\ MaxSave \in Nat \ {0}
  BY ObjectsAre, MaxSaveAssumption
<1>1. Rank(k) <= Rank(m) /\ Rank(k) \in Nat /\ Rank(m) \in Nat
  BY <1>0, NumIs, SeenMore
<1>2. RoundUp(Rank(k), MaxSave) <= RoundUp(Rank(m), MaxSave)
      /\ RoundUp(Rank(k), MaxSave) \in Nat /\ RoundUp(Rank(m), MaxSave) \in Nat
  BY <1>0, <1>1, RoundUpFacts
<1>3. RoundUp(RoundUp(Rank(k), MaxSave), MaxSave) <= RoundUp(RoundUp(Rank(m), MaxSave), MaxSave)
  BY <1>0, <1>2, RoundUpFacts
<1> QED
  BY <1>3, NumIs

\* They leave out no number.
LEMMA NumBefore ==
  ASSUME NEW m \in Objects, Num(m) >= 2
  PROVE  \E k \in Objects : k < m /\ Entries[k].bucket = Entries[m].bucket /\ Num(m) <= Num(k) + 1
<1> DEFINE b == Entries[m].bucket
           P == {j \in 1..(m - 1) : Entries[j].bucket = b}
<1>0. m \in Nat /\ m - 1 \in Nat /\ MaxSave \in Nat \ {0}
  BY ObjectsAre, MaxSaveAssumption
<1>1. Rank(m) # 1
  <2> SUFFICES ASSUME Rank(m) = 1 PROVE FALSE
    OBVIOUS
  <2>1. RoundUp(1, MaxSave) = 1
    BY <1>0, RoundUpFacts
  <2> QED
    BY <2>1, NumIs
<1>2. P # {}
  <2> SUFFICES ASSUME P = {} PROVE FALSE
    OBVIOUS
  <2>1. Seen(b, m - 1) = Cardinality(P)
    BY DEF Seen
  <2>2. Seen(b, m - 1) = 0
    BY <2>1, FS_EmptySet
  <2> QED
    BY <1>1, <2>2, NumIs
<1>3. PICK k \in P : \A j \in P : j <= k
  <2>1. P \in SUBSET (0..(m - 1))
    BY <1>0
  <2>2. Max(P) \in P /\ \A j \in P : j <= Max(P)
    <3> HIDE DEF P
    <3> QED
      BY <1>0, <1>2, <2>1, MaxOfNaturals
  <2> QED
    BY <2>2
<1>4. k \in Objects /\ k < m /\ Entries[k].bucket = b
  BY <1>0, ObjectsAre
<1>5. Seen(b, k) = Seen(b, m - 1)
  <2>1. \A j \in 1..k : j \in 1..(m - 1)
    BY <1>0
  <2>2. \A j \in 1..(m - 1) : Entries[j].bucket = b => j \in 1..k
    BY <1>0, <1>3
  <2>3. P = {j \in 1..k : Entries[j].bucket = b}
    BY <2>1, <2>2
  <2> QED
    BY <2>3 DEF Seen
<1>6. Rank(m) = Rank(k) + 1 /\ Rank(k) \in Nat
  BY <1>4, <1>5, NumIs
<1>7. RoundUp(Rank(m), MaxSave) <= RoundUp(Rank(k), MaxSave) + 1
      /\ RoundUp(Rank(m), MaxSave) \in Nat /\ RoundUp(Rank(k), MaxSave) \in Nat
  <2>1. RoundUp(Rank(k) + 1, MaxSave) <= RoundUp(Rank(k), MaxSave) + 1
    BY <1>0, <1>6, RoundUpNext
  <2>2. RoundUp(Rank(k), MaxSave) \in Nat
    BY <1>0, <1>6, RoundUpNat
  <2>3. Rank(m) \in Nat
    BY <1>6
  <2>4. RoundUp(Rank(m), MaxSave) \in Nat
    BY <1>0, <2>3, RoundUpNat
  <2> QED
    BY <1>6, <2>1, <2>2, <2>4
<1> DEFINE x == RoundUp(Rank(m), MaxSave)
           y == RoundUp(Rank(k), MaxSave)
<1> HIDE DEF x, y
<1>8. RoundUp(x, MaxSave) <= RoundUp(y + 1, MaxSave) /\ RoundUp(y + 1, MaxSave) <= RoundUp(y, MaxSave) + 1
      /\ RoundUp(x, MaxSave) \in Nat /\ RoundUp(y, MaxSave) \in Nat /\ RoundUp(y + 1, MaxSave) \in Nat
  <2>1. x \in Nat /\ y \in Nat /\ y + 1 \in Nat /\ x <= y + 1
    BY <1>7 DEF x, y
  <2> QED
    BY <1>0, <2>1, RoundUpFacts
<1>9. RoundUp(x, MaxSave) <= RoundUp(y, MaxSave) + 1
  BY <1>8
<1>10. Num(m) = RoundUp(x, MaxSave) /\ Num(k) = RoundUp(y, MaxSave)
  BY <1>4, NumIs DEF x, y
<1> QED
  BY <1>4, <1>9, <1>10

LEMMA NumFits ==
  ASSUME BucketsFit, NEW m \in Objects
  PROVE  Num(m) <= MaxSave
<1> DEFINE b == Entries[m].bucket
           A == {n \in Objects : Entries[n].bucket = b}
           P == {n \in 1..m : Entries[n].bucket = b}
<1>0. m \in Nat /\ MaxSave \in Nat \ {0} /\ 1..m \subseteq Objects /\ Objects = 1..Len(Entries) /\ Len(Entries) \in Nat
  BY ObjectsAre, MaxSaveAssumption
<1>1. IsFiniteSet(A) /\ P \subseteq A
  <2>1. IsFiniteSet(Objects)
    BY <1>0, FS_Interval
  <2>2. A \subseteq Objects /\ P \subseteq A
    BY <1>0
  <2> HIDE DEF A, P
  <2> QED
    BY <2>1, <2>2, FS_Subset
<1>2. Rank(m) = Cardinality(P)
  BY DEF Rank
<1>3. Cardinality(P) <= Cardinality(A) /\ Cardinality(A) \in Nat
  <2> HIDE DEF A, P
  <2> QED
    BY <1>1, FS_Subset, FS_CardinalityType
<1>4. Cardinality(A) <= MaxSave * MaxSave * MaxSave
  BY DEF BucketsFit, Buckets
<1>5. Rank(m) \in Nat /\ Rank(m) <= (MaxSave * MaxSave) * MaxSave /\ MaxSave * MaxSave \in Nat
  <2>1. MaxSave * MaxSave \in Nat /\ (MaxSave * MaxSave) * MaxSave \in Nat
    BY <1>0
  <2>2. Rank(m) \in Nat
    BY NumIs
  <2> QED
    BY <1>2, <1>3, <1>4, <2>1, <2>2
<1>6. RoundUp(Rank(m), MaxSave) \in Nat /\ RoundUp(Rank(m), MaxSave) <= MaxSave * MaxSave
  BY <1>0, <1>5, RoundUpFacts
<1>7. RoundUp(RoundUp(Rank(m), MaxSave), MaxSave) <= MaxSave
  BY <1>0, <1>6, RoundUpFacts
<1> QED
  BY <1>7, NumIs

-----------------------------------------------------------------------------
(* The lists main looks into *)

LEMMA ListOfNumber ==
  ASSUME SameTape, BucketsFit, FinishedInv, subs = {},
         NEW b, NEW n, Name(MainDir, b, n) \in DOMAIN lists
  PROVE  \E body :
           /\ Begun(body, Closing) /\ lists[Name(MainDir, b, n)] = Append(body, Closing)
           /\ \A m \in Objects : InList(m, body) <=> Entries[m].bucket = b /\ Num(m) = n
<1> DEFINE f == Name(MainDir, b, n)
<1>1. PICK body : Begun(body, Closing) /\ lists[f] = Append(body, Closing)
  BY DEF FinishedInv, Whole
<1>2. ASSUME NEW m \in Objects PROVE InList(m, body) <=> Entries[m].bucket = b /\ Num(m) = n
  <2>1. InList(m, body) <=> InList(m, lists[f])
    BY <1>1, WholeFacts
  <2>2. InList(m, lists[f]) <=> f \in Homes(m, lists)
    BY DEF Homes
  <2>3. Homes(m, lists) = {Name(MainDir, Entries[m].bucket, Num(m))}
    BY NumFits DEF FinishedInv, Target, Num, SameTape
  <2>4. f \in Homes(m, lists) <=> Entries[m].bucket = b /\ Num(m) = n
    BY <2>3 DEF Name
  <2> QED
    BY <2>1, <2>2, <2>4
<1> QED
  BY <1>1, <1>2

\* They end with the first number that is missing, and no object of the bucket is
\* behind it.
LEMMA ListsAre ==
  ASSUME SameTape, BucketsFit, FinishedInv, subs = {}, NEW b
  PROVE  /\ ListsSearched(b) \in 0..MaxSave
         /\ \A n \in 1..ListsSearched(b) : Name(MainDir, b, n) \in DOMAIN lists
         /\ \A m \in Objects : Entries[m].bucket = b => Num(m) \in 1..ListsSearched(b)
<1> DEFINE There(n) == Name(MainDir, b, n) \in DOMAIN lists
           S == {n \in 0..MaxSave : \A i \in 1..n : There(i)}
           K == Max(S)
           T == {m \in Objects : Entries[m].bucket = b /\ Num(m) > K}
<1>0. MaxSave \in Nat \ {0} /\ ListsSearched(b) = K
  BY MaxSaveAssumption DEF ListsSearched
<1>1. K \in S /\ \A n \in S : n <= K
  <2>1. S \in SUBSET (0..MaxSave) /\ 0 \in S
    BY <1>0
  <2> HIDE DEF S
  <2> QED
    BY <1>0, <2>1, MaxOfNaturals
<1>2. K \in 0..MaxSave /\ \A n \in 1..K : There(n)
  <2> HIDE DEF K
  <2> QED
    BY <1>1
<1> HIDE DEF K
<1>3. T = {}
  <2> SUFFICES ASSUME T # {} PROVE FALSE
    OBVIOUS
  <2>1. PICK m \in T : \A k \in T : m <= k
    <3>1. T \subseteq Nat
      BY ObjectsAre
    <3> HIDE DEF T
    <3> QED
      BY <3>1, LeastNatural
  <2>2. m \in Objects /\ Entries[m].bucket = b /\ Num(m) > K /\ Num(m) <= MaxSave /\ Num(m) \in Nat /\ m \in Nat
    BY NumFits, NumIs, ObjectsAre
  <2>3. ~There(K + 1)
    <3>1. K + 1 \in 0..MaxSave /\ K + 1 \notin S
      <4>1. K + 1 \in 0..MaxSave /\ ~(K + 1 <= K)
        BY <1>0, <1>2, <2>2
      <4> HIDE DEF S
      <4> QED
        BY <1>1, <4>1
    <3>2. \A i \in 1..(K + 1) : i \in 1..K \/ i = K + 1
      BY <1>2
    <3> HIDE DEF There
    <3> QED
      BY <1>2, <3>1, <3>2
  <2>4. There(Num(m))
    <3>1. Homes(m, lists) = {Name(MainDir, b, Num(m))}
      BY <2>2 DEF FinishedInv, Target, Num, SameTape
    <3> QED
      BY <3>1 DEF Homes
  <2>5. Num(m) # K + 1
    BY <2>3, <2>4
  <2>6. Num(m) >= 2
    BY <1>2, <2>2, <2>5
  <2>7. PICK k \in Objects : k < m /\ Entries[k].bucket = b /\ Num(m) <= Num(k) + 1
    BY <2>2, <2>6, NumBefore
  <2>8. Num(k) \in Nat /\ k \in Nat
    BY NumIs, ObjectsAre
  <2>9. k \in T
    BY <1>2, <2>2, <2>5, <2>7, <2>8
  <2> HIDE DEF T
  <2> QED
    BY <2>1, <2>2, <2>7, <2>8, <2>9
<1>4. ASSUME NEW m \in Objects, Entries[m].bucket = b PROVE Num(m) \in 1..K
  BY <1>2, <1>3, <1>4, NumIs
<1> QED
  BY <1>0, <1>2, <1>4

-----------------------------------------------------------------------------
(* The search *)

\* What has been found list by list.
IsSearch(f, r) ==
  /\ f \in [0..ListsSearched(r.bucket) -> Seq(Objects)] /\ f[0] = << >>
  /\ \A n \in 1..ListsSearched(r.bucket) :
       f[n] = get_object_info_in_list(r, lists[Name(MainDir, r.bucket, n)], f[n - 1])
  /\ Search(r) = f[ListsSearched(r.bucket)]

LEMMA ReadType ==
  ASSUME NEW r, NEW text \in Seq(Nat), NEW objects \in Seq(Objects)
  PROVE  get_object_info_in_list(r, text, objects) \in Seq(Objects)
<1>1. PICK f : IsReading(f, r, text, objects)
  BY ReadSteps
<1>2. f[Len(text)] \in SearchState
  BY <1>1 DEF IsReading
<1> QED
  BY <1>1, <1>2 DEF IsReading, SearchState

LEMMA SearchSteps ==
  ASSUME NEW r, ListsSearched(r.bucket) \in Nat,
         \A n \in 1..ListsSearched(r.bucket) : lists[Name(MainDir, r.bucket, n)] \in Seq(Nat)
  PROVE  \E f : IsSearch(f, r)
<1> DEFINE N == ListsSearched(r.bucket)
           text(n) == lists[Name(MainDir, r.bucket, n)]
           Step == [p \in Seq(Objects) \X (1..N) |-> get_object_info_in_list(r, text(p[2]), p[1])]
           l == CHOOSE f : f = [n \in 0..N |-> IF n = 0 THEN << >>
                                               ELSE get_object_info_in_list(r, text(n), f[n - 1])]
<1>1. N \in Nat /\ << >> \in Seq(Objects) /\ \A n \in 1..N : text(n) \in Seq(Nat)
  OBVIOUS
<1>2. Search(r) = l[N]
  BY DEF Search
<1> HIDE DEF N, text
<1>3. Step \in [Seq(Objects) \X (1..N) -> Seq(Objects)]
  BY <1>1, ReadType
<1>4. PICK f : IsRun(f, N, Seq(Objects), << >>, Step)
  <2> HIDE DEF Step
  <2> QED
    BY <1>1, <1>3, Recursion
<1>5. f \in [0..N -> Seq(Objects)] /\ f[0] = << >> /\ \A n \in 1..N : f[n] = Step[<<f[n - 1], n>>]
  <2> HIDE DEF Step
  <2> QED
    BY <1>4 DEF IsRun
<1>6. ASSUME NEW n \in 1..N PROVE f[n] = get_object_info_in_list(r, text(n), f[n - 1])
  <2>1. f[n - 1] \in Seq(Objects)
    <3>1. n - 1 \in 0..N
      BY <1>1
    <3> HIDE DEF Step
    <3> QED
      BY <1>5, <3>1
  <2>2. Step[<<f[n - 1], n>>] = get_object_info_in_list(r, text(n), f[n - 1])
    BY <2>1
  <2> QED
    BY <1>5, <2>2
<1>7. f = [n \in 0..N |-> IF n = 0 THEN << >> ELSE get_object_info_in_list(r, text(n), f[n - 1])]
  <2> HIDE DEF Step
  <2>1. \A n \in 0..N : f[n] = IF n = 0 THEN << >> ELSE get_object_info_in_list(r, text(n), f[n - 1])
    <3> TAKE n \in 0..N
    <3>1. n = 0 \/ n \in 1..N
      BY <1>1
    <3> QED
      BY <1>5, <1>6, <3>1
  <2> QED
    BY <1>5, <2>1
<1>8. l = [n \in 0..N |-> IF n = 0 THEN << >> ELSE get_object_info_in_list(r, text(n), l[n - 1])]
  BY <1>7
<1> HIDE DEF l, Step
<1>9. \A n \in 0..N : l[n] = f[n]
  <2> DEFINE Good == {n \in 0..N : l[n] = f[n]}
  <2>1. l[0] = f[0]
    BY <1>1, <1>5, <1>8
  <2>2. ASSUME NEW n \in 1..N, n - 1 \in Good PROVE n \in Good
    <3>1. n \in 0..N /\ n # 0 /\ l[n - 1] = f[n - 1]
      BY <1>1, <2>2
    <3>2. l[n] = get_object_info_in_list(r, text(n), l[n - 1])
      BY <1>8, <3>1
    <3> QED
      BY <1>6, <3>1, <3>2
  <2>3. Good \in SUBSET (0..N) /\ 0 \in Good
    BY <1>1, <2>1
  <2>4. Good = 0..N
    <3> HIDE DEF Good
    <3> QED
      BY <1>1, <2>2, <2>3, HoldsThroughout
  <2> QED
    BY <2>4
<1>10. Search(r) = f[N]
  BY <1>1, <1>2, <1>9
<1> QED
  BY <1>5, <1>6, <1>10 DEF N, text, IsSearch

\* The versions of the first n lists.
Upto(r, n) == {v \in Versions(r) : Num(v) <= n}

\* The search in the lists of a finished run, one list after the other.
LEMMA SearchRuns ==
  ASSUME SameTape, BucketsFit, FinishedInv, subs = {}, NEW r
  PROVE  \E f : IsSearch(f, r)
<1>1. /\ ListsSearched(r.bucket) \in 0..MaxSave
      /\ \A n \in 1..ListsSearched(r.bucket) : Name(MainDir, r.bucket, n) \in DOMAIN lists
  BY ListsAre
<1>2. ASSUME NEW n \in 1..ListsSearched(r.bucket) PROVE lists[Name(MainDir, r.bucket, n)] \in Seq(Nat)
  <2>1. Name(MainDir, r.bucket, n) \in DOMAIN lists
    BY <1>1
  <2>2. PICK body : Begun(body, Closing) /\ lists[Name(MainDir, r.bucket, n)] = Append(body, Closing)
    BY <2>1, ListOfNumber
  <2> QED
    BY <2>2, WholeLines
<1>3. ListsSearched(r.bucket) \in Nat
  BY <1>1
<1> QED
  BY <1>2, <1>3, SearchSteps

LEMMA UptoFacts ==
  ASSUME SameTape, BucketsFit, FinishedInv, subs = {}, NEW r
  PROVE  Upto(r, 0) = {} /\ Upto(r, ListsSearched(r.bucket)) = Versions(r)
<1>1. \A m \in Objects : Entries[m].bucket = r.bucket => Num(m) \in 1..ListsSearched(r.bucket)
  BY ListsAre
<1>2. ListsSearched(r.bucket) \in 0..MaxSave
  BY ListsAre
<1>3. \A m \in Objects : Num(m) \in Nat \ {0}
  BY NumIs
<1> QED
  BY <1>1, <1>2, <1>3, MaxSaveAssumption DEF Upto, Versions

\* What a step of the search with "all" or "latest" is given.
LEMMA SearchStep ==
  ASSUME SameTape, BucketsFit, FinishedInv, subs = {}, NEW r, NEW n \in 1..ListsSearched(r.bucket)
  PROVE  \E body :
           /\ Begun(body, Closing)
           /\ lists[Name(MainDir, r.bucket, n)] = Append(body, Closing)
           /\ \A m \in Objects : InList(m, body) <=> Entries[m].bucket = r.bucket /\ Num(m) = n
           /\ \A m \in Upto(r, n - 1) : \A i \in 2..Len(body) : m < body[i]
           /\ Upto(r, n) = Upto(r, n - 1) \cup Matching(body, Len(body), r)
           /\ \A m \in Upto(r, n - 1), k \in Matching(body, Len(body), r) : m < k
<1>0. n \in Nat \ {0}
  <2>1. ListsSearched(r.bucket) \in 0..MaxSave
    BY ListsAre
  <2> QED
    BY <2>1, MaxSaveAssumption
<1>1. Name(MainDir, r.bucket, n) \in DOMAIN lists
  BY ListsAre
<1>2. PICK body :
        /\ Begun(body, Closing) /\ lists[Name(MainDir, r.bucket, n)] = Append(body, Closing)
        /\ \A m \in Objects : InList(m, body) <=> Entries[m].bucket = r.bucket /\ Num(m) = n
  BY <1>1, ListOfNumber
<1>3. ASSUME NEW i \in 2..Len(body)
      PROVE  body[i] \in Objects /\ Entries[body[i]].bucket = r.bucket /\ Num(body[i]) = n
  <2>1. body[i] \in Objects /\ i \in DOMAIN body
    BY <1>2, BegunType DEF Begun
  <2>2. InList(body[i], body)
    BY <2>1 DEF InList
  <2> QED
    BY <1>2, <2>1, <2>2
<1>4. ASSUME NEW m \in Upto(r, n - 1), NEW i \in 2..Len(body) PROVE m < body[i]
  <2>1. m \in Objects /\ Entries[m].bucket = r.bucket /\ Num(m) <= n - 1 /\ Num(m) \in Nat
    BY NumIs DEF Upto, Versions
  <2>2. ~(body[i] <= m)
    <3> SUFFICES ASSUME body[i] <= m PROVE FALSE
      OBVIOUS
    <3>1. Num(body[i]) <= Num(m)
      BY <1>3, <2>1, NumOrder
    <3> QED
      BY <1>0, <1>3, <2>1, <3>1
  <2>3. m \in Nat /\ body[i] \in Nat
    BY <1>3, <2>1, ObjectsAre
  <2> QED
    BY <2>2, <2>3
<1>5. ASSUME NEW v \in Versions(r) PROVE Num(v) = n <=> v \in Matching(body, Len(body), r)
  <2>1. v \in Objects /\ Entries[v].bucket = r.bucket /\ Entries[v].key = r.key
    BY DEF Versions
  <2>2. CASE Num(v) = n
    <3>1. InList(v, body)
      BY <1>2, <2>1, <2>2
    <3>2. PICK i \in 1..Len(body) : body[i] = v
      BY <1>2, <3>1, BegunType DEF InList
    <3>3. i # 1
      BY <1>2, <2>1, <3>2, ObjectsAre DEF Begun, Opening
    <3>4. i \in 2..Len(body)
      BY <3>2, <3>3
    <3> QED
      BY <2>1, <2>2, <3>2, <3>4 DEF Matching
  <2>3. CASE v \in Matching(body, Len(body), r)
    BY <1>3, <2>3 DEF Matching
  <2> QED
    BY <2>2, <2>3
<1>6. Matching(body, Len(body), r) \subseteq Versions(r)
  BY <1>3 DEF Matching, Versions
<1>7. \A v \in Versions(r) : Num(v) \in Nat
  BY NumIs DEF Versions
<1>8. Upto(r, n) = Upto(r, n - 1) \cup Matching(body, Len(body), r)
  <2>1. \A v \in Versions(r) : Num(v) <= n <=> Num(v) <= n - 1 \/ Num(v) = n
    BY <1>0, <1>7
  <2> QED
    BY <1>5, <1>6, <2>1 DEF Upto
<1>9. \A m \in Upto(r, n - 1), k \in Matching(body, Len(body), r) : m < k
  BY <1>4 DEF Matching
<1> QED
  BY <1>2, <1>4, <1>8, <1>9

\* "all": every version, in the order of the tape.
LEMMA SearchAll ==
  ASSUME SameTape, BucketsFit, FinishedInv, subs = {}, NEW r, r.id = "all"
  PROVE  Enumerates(Search(r), Versions(r))
<1> DEFINE K == ListsSearched(r.bucket)
<1>0. K \in Nat
  <2>1. K \in 0..MaxSave
    BY ListsAre
  <2> QED
    BY <2>1, MaxSaveAssumption
<1>1. PICK f : IsSearch(f, r)
  BY SearchRuns
<1>2. /\ f \in [0..K -> Seq(Objects)] /\ f[0] = << >> /\ Search(r) = f[K]
      /\ \A n \in 1..K : f[n] = get_object_info_in_list(r, lists[Name(MainDir, r.bucket, n)], f[n - 1])
  BY <1>1 DEF IsSearch
<1> DEFINE At(n) == Increasing(f[n]) /\ Range(f[n]) = Upto(r, n)
           Good == {n \in 0..K : At(n)}
<1>3. At(0)
  BY <1>2, UptoFacts DEF Increasing, Range
<1>4. ASSUME NEW n \in 1..K, n - 1 \in Good PROVE n \in Good
  <2>1. n - 1 \in 0..K /\ n \in 0..K
    BY <1>0
  <2>2. f[n - 1] \in Seq(Objects) /\ Increasing(f[n - 1]) /\ Range(f[n - 1]) = Upto(r, n - 1)
    BY <1>2, <1>4, <2>1
  <2>3. PICK body :
          /\ Begun(body, Closing)
          /\ lists[Name(MainDir, r.bucket, n)] = Append(body, Closing)
          /\ \A m \in Upto(r, n - 1) : \A i \in 2..Len(body) : m < body[i]
          /\ Upto(r, n) = Upto(r, n - 1) \cup Matching(body, Len(body), r)
    BY SearchStep
  <2>4. r.id \in AnyId /\ r.id # "latest"
    BY DEF AnyId
  <2>5. PICK ms \in Seq(Objects) :
          /\ Increasing(ms) /\ Range(ms) = Range(f[n - 1]) \cup Matching(body, Len(body), r)
          /\ get_object_info_in_list(r, Append(body, Closing), f[n - 1]) =
               IF ms # << >> /\ r.id = "latest" THEN <<Latest(ms)>> ELSE ms
    BY <2>2, <2>3, <2>4, ReadAny
  <2>6. f[n] = ms
    BY <1>2, <2>3, <2>4, <2>5
  <2> QED
    BY <2>1, <2>2, <2>3, <2>5, <2>6
<1>5. Good = 0..K
  <2>1. Good \in SUBSET (0..K) /\ 0 \in Good
    BY <1>0, <1>3
  <2> HIDE DEF Good, K
  <2> QED
    BY <1>0, <1>4, <2>1, HoldsThroughout
<1>6. At(K)
  <2>1. K \in Good
    BY <1>0, <1>5
  <2> QED
    BY <2>1
<1> QED
  BY <1>2, <1>6, UptoFacts DEF Enumerates, Increasing

LEMMA OneEnumerated == ASSUME NEW x \in Nat PROVE Enumerates(<<x>>, {x})
BY DEF Enumerates, Range

LEMMA OneIncreasing == ASSUME NEW x \in Objects PROVE <<x>> \in Seq(Objects) /\ Increasing(<<x>>) /\ Range(<<x>>) = {x}
BY DEF Increasing, Range

LEMMA NoneFacts ==
  /\ << >> \in Seq(Objects) /\ Increasing(<< >>) /\ Range(<< >>) = {}
  /\ \A ms \in Seq(Objects) : ms # << >> <=> Range(ms) # {}
<1>1. << >> \in Seq(Objects) /\ Increasing(<< >>) /\ Range(<< >>) = {}
  BY DEF Increasing, Range
<1>2. ASSUME NEW ms \in Seq(Objects), ms # << >> PROVE Range(ms) # {}
  <2>1. Len(ms) \in Nat /\ DOMAIN ms = 1..Len(ms) /\ Len(ms) # 0
    BY <1>2, EmptySeq
  <2>2. 1 \in DOMAIN ms
    BY <2>1
  <2> QED
    BY <2>2 DEF Range
<1> QED
  BY <1>1, <1>2

\* "latest": the latest version.
LEMMA SearchLatest ==
  ASSUME SameTape, BucketsFit, FinishedInv, subs = {}, NEW r, r.id = "latest"
  PROVE  Enumerates(Search(r), LatestOf(Versions(r)))
<1> DEFINE K == ListsSearched(r.bucket)
<1>0. K \in Nat
  <2>1. K \in 0..MaxSave
    BY ListsAre
  <2> QED
    BY <2>1, MaxSaveAssumption
<1>1. PICK f : IsSearch(f, r)
  BY SearchRuns
<1>2. /\ f \in [0..K -> Seq(Objects)] /\ f[0] = << >> /\ Search(r) = f[K]
      /\ \A n \in 1..K : f[n] = get_object_info_in_list(r, lists[Name(MainDir, r.bucket, n)], f[n - 1])
  BY <1>1 DEF IsSearch
<1> DEFINE At(n) == IF Upto(r, n) = {} THEN f[n] = << >>
                    ELSE \E x \in LatestOf(Upto(r, n)) : f[n] = <<x>>
           Good == {n \in 0..K : At(n)}
<1>3. At(0)
  BY <1>2, UptoFacts
<1>4. ASSUME NEW n \in 1..K, n - 1 \in Good PROVE n \in Good
  <2>1. n - 1 \in 0..K /\ n \in 0..K
    BY <1>0
  <2>2. f[n - 1] \in Seq(Objects) /\ At(n - 1)
    BY <1>2, <1>4, <2>1
  <2>3. PICK body :
          /\ Begun(body, Closing)
          /\ lists[Name(MainDir, r.bucket, n)] = Append(body, Closing)
          /\ \A m \in Upto(r, n - 1) : \A i \in 2..Len(body) : m < body[i]
          /\ Upto(r, n) = Upto(r, n - 1) \cup Matching(body, Len(body), r)
          /\ \A m \in Upto(r, n - 1), k \in Matching(body, Len(body), r) : m < k
    BY SearchStep
  <2>4. r.id \in AnyId
    BY DEF AnyId
  <2> DEFINE S == Upto(r, n - 1)
             T == Matching(body, Len(body), r)
  <2>5. S \in SUBSET Objects /\ Upto(r, n) \in SUBSET Objects /\ T \in SUBSET Objects
    BY <2>3 DEF Upto, Versions
  <2>6. /\ Increasing(f[n - 1]) /\ Range(f[n - 1]) \subseteq S
        /\ \A m \in Range(f[n - 1]) : \A i \in 2..Len(body) : m < body[i]
    <3>1. CASE S = {}
      BY <2>2, <3>1, NoneFacts
    <3>2. CASE S # {}
      <4>1. PICK x \in LatestOf(S) : f[n - 1] = <<x>>
        BY <2>2, <3>2
      <4>2. x \in S /\ x \in Objects
        BY <2>5 DEF LatestOf
      <4> QED
        BY <2>3, <4>1, <4>2, OneIncreasing
    <3> QED
      BY <3>1, <3>2
  <2>7. PICK ms \in Seq(Objects) :
          /\ Increasing(ms) /\ Range(ms) = Range(f[n - 1]) \cup T
          /\ get_object_info_in_list(r, Append(body, Closing), f[n - 1]) =
               IF ms # << >> /\ r.id = "latest" THEN <<Latest(ms)>> ELSE ms
    BY <2>2, <2>3, <2>4, <2>6, ReadAny
  <2>8. f[n] = IF ms # << >> THEN <<Latest(ms)>> ELSE ms
    BY <1>2, <2>3, <2>7
  <2> HIDE DEF S, T
  <2>9. CASE Range(ms) = {}
    <3>1. f[n] = << >>
      BY <2>8, <2>9, NoneFacts
    <3>2. T = {} /\ Range(f[n - 1]) = {}
      BY <2>7, <2>9
    <3>3. S = {}
      <4> SUFFICES ASSUME S # {} PROVE FALSE
        OBVIOUS
      <4>1. PICK x \in LatestOf(S) : f[n - 1] = <<x>>
        BY <2>2 DEF S
      <4>2. x \in Objects
        BY <2>5 DEF LatestOf
      <4> QED
        BY <3>2, <4>1, <4>2, OneIncreasing
    <3>4. Upto(r, n) = {}
      BY <2>3, <3>2, <3>3 DEF S, T
    <3> QED
      BY <2>1, <3>1, <3>4
  <2>10. CASE Range(ms) # {}
    <3>1. f[n] = <<Latest(ms)>> /\ Latest(ms) \in LatestOf(Range(ms))
      BY <2>7, <2>8, <2>10, LatestIs, NoneFacts
    <3>2. Latest(ms) \in LatestOf(Upto(r, n))
      <4>1. CASE S = {}
        <5>1. Range(f[n - 1]) = {}
          BY <2>6, <4>1
        <5>2. Range(ms) = Upto(r, n)
          BY <2>3, <2>7, <4>1, <5>1 DEF S, T
        <5> QED
          BY <3>1, <5>2
      <4>2. CASE S # {}
        <5>1. PICK x \in LatestOf(S) : f[n - 1] = <<x>>
          BY <2>2, <4>2 DEF S
        <5>2. x \in Objects
          BY <2>5 DEF LatestOf
        <5>3. Range(ms) = {x} \cup T
          BY <2>7, <5>1, <5>2, OneIncreasing
        <5>4. \A m \in S, k \in T : m < k
          BY <2>3 DEF S, T
        <5>5. Latest(ms) \in LatestOf(S \cup T)
          BY <2>5, <3>1, <5>3, <5>4, LatestOfLatest
        <5> QED
          BY <2>3, <5>5 DEF S, T
      <4> QED
        BY <4>1, <4>2
    <3>3. Upto(r, n) # {}
      BY <3>2 DEF LatestOf
    <3> QED
      BY <2>1, <3>1, <3>2, <3>3
  <2> QED
    BY <2>9, <2>10
<1>5. Good = 0..K
  <2>1. Good \in SUBSET (0..K) /\ 0 \in Good
    BY <1>0, <1>3
  <2> HIDE DEF Good, K
  <2> QED
    BY <1>0, <1>4, <2>1, HoldsThroughout
<1>6. At(K)
  <2>1. K \in Good
    BY <1>0, <1>5
  <2> QED
    BY <2>1
<1>7. Upto(r, K) = Versions(r) /\ Versions(r) \in SUBSET Objects
  BY UptoFacts DEF Versions
<1>8. CASE Versions(r) = {}
  <2>1. Search(r) = << >>
    BY <1>2, <1>6, <1>7, <1>8
  <2>2. LatestOf(Versions(r)) = {}
    BY <1>8 DEF LatestOf
  <2> QED
    BY <2>1, <2>2 DEF Enumerates, Range
<1>9. CASE Versions(r) # {}
  <2>1. PICK x \in LatestOf(Versions(r)) : Search(r) = <<x>>
    BY <1>2, <1>6, <1>7, <1>9
  <2>2. LatestOf(Versions(r)) = {x}
    BY <1>7, OneLatestOf
  <2>3. x \in Nat
    BY <1>7, ObjectsAre DEF LatestOf
  <2> QED
    BY <2>1, <2>2, <2>3, OneEnumerated
<1> QED
  BY <1>8, <1>9

LEMMA NoneAppend == ASSUME NEW m PROVE Append(<< >>, m) = <<m>>
OBVIOUS

\* The id of an object that has the key: that object.
LEMMA SearchId ==
  ASSUME SameTape, BucketsFit, FinishedInv, subs = {},
         NEW r, r.id \notin AnyId, NEW m \in Versions(r), Entries[m].id = r.id
  PROVE  Search(r) = <<m>>
<1> DEFINE K == ListsSearched(r.bucket)
<1>0. K \in Nat
  <2>1. K \in 0..MaxSave
    BY ListsAre
  <2> QED
    BY <2>1, MaxSaveAssumption
<1>1. PICK f : IsSearch(f, r)
  BY SearchRuns
<1>2. /\ f \in [0..K -> Seq(Objects)] /\ f[0] = << >> /\ Search(r) = f[K]
      /\ \A n \in 1..K : f[n] = get_object_info_in_list(r, lists[Name(MainDir, r.bucket, n)], f[n - 1])
  BY <1>1 DEF IsSearch
<1>3. m \in Objects /\ Entries[m].bucket = r.bucket /\ Entries[m].key = r.key
  BY DEF Versions
<1>4. Num(m) \in 1..K
  BY <1>3, ListsAre
<1> DEFINE At(n) == f[n] = IF n < Num(m) THEN << >> ELSE <<m>>
           Good == {n \in 0..K : At(n)}
<1>5. At(0)
  BY <1>0, <1>2, <1>4
<1>6. ASSUME NEW n \in 1..K, n - 1 \in Good PROVE n \in Good
  <2>1. n - 1 \in 0..K /\ n \in 0..K
    BY <1>0
  <2>2. f[n - 1] \in Seq(Objects) /\ At(n - 1)
    BY <1>2, <1>6, <2>1
  <2>3. PICK body :
          /\ Begun(body, Closing)
          /\ lists[Name(MainDir, r.bucket, n)] = Append(body, Closing)
          /\ \A k \in Objects : InList(k, body) <=> Entries[k].bucket = r.bucket /\ Num(k) = n
    BY SearchStep
  <2>4. f[n] = IF InList(m, body) THEN Append(f[n - 1], m) ELSE f[n - 1]
    <3> DEFINE g == f[n - 1]
               a == Append(body, Closing)
    <3>1. g \in Seq(Objects)
      BY <2>2
    <3>2. f[n] = get_object_info_in_list(r, a, g)
      BY <1>2, <2>3
    <3> HIDE DEF g
    <3>3. get_object_info_in_list(r, a, g) = IF InList(m, body) THEN Append(g, m) ELSE g
      BY <1>3, <2>3, <3>1, ReadId
    <3> HIDE DEF a
    <3>4. f[n] = IF InList(m, body) THEN Append(g, m) ELSE g
      BY <3>2, <3>3
    <3> QED
      BY <3>4 DEF g
  <2>5. f[n] = IF Num(m) = n THEN Append(f[n - 1], m) ELSE f[n - 1]
    BY <1>3, <2>3, <2>4
  <2>6. CASE n < Num(m)
    <3>1. n - 1 < Num(m) /\ Num(m) # n
      BY <1>0, <1>4, <2>6
    <3> QED
      BY <2>1, <2>2, <2>5, <2>6, <3>1
  <2>7. CASE n = Num(m)
    <3>1. n - 1 < Num(m) /\ ~(n < Num(m))
      BY <1>0, <1>4, <2>7
    <3> QED
      BY <2>1, <2>2, <2>5, <2>7, <3>1, NoneAppend
  <2>8. CASE n > Num(m)
    <3>1. ~(n - 1 < Num(m)) /\ ~(n < Num(m)) /\ Num(m) # n
      BY <1>0, <1>4, <2>8
    <3> QED
      BY <2>1, <2>2, <2>5, <3>1
  <2> QED
    BY <1>0, <1>4, <2>6, <2>7, <2>8
<1>7. Good = 0..K
  <2>1. Good \in SUBSET (0..K) /\ 0 \in Good
    BY <1>0, <1>5
  <2> HIDE DEF Good, K
  <2> QED
    BY <1>0, <1>6, <2>1, HoldsThroughout
<1>8. At(K)
  <2>1. K \in Good
    BY <1>0, <1>7
  <2> QED
    BY <2>1
<1>9. ~(K < Num(m))
  BY <1>0, <1>4
<1> QED
  BY <1>2, <1>8, <1>9

\* After a run with --list that went to its end, into a save path no dump has been
\* made into, the search in the lists finds all versions of a key, the latest one,
\* or the one with the id, however many lists the bucket has (the search in
\* object_reader.c and get_object_info_in_list).
THEOREM SearchIsRight ==
  ASSUME SameTape, BucketsFit
  PROVE  Spec => []SearchFinds
<1>1. ListInv => SearchFinds
  <2> SUFFICES ASSUME ListInv, finished, subs = {}, NEW r \in Requests
               PROVE  CASE r.id = "all" -> Enumerates(Search(r), Versions(r))
                        [] r.id = "latest" -> Enumerates(Search(r), LatestOf(Versions(r)))
                        [] OTHER -> \A m \in Versions(r) : Entries[m].id = r.id => Search(r) = <<m>>
    BY DEF SearchFinds
  <2>1. FinishedInv
    BY DEF ListInv
  <2>2. CASE r.id = "all"
    BY <2>1, <2>2, SearchAll
  <2>3. CASE r.id = "latest"
    BY <2>1, <2>3, SearchLatest
  <2>4. CASE r.id # "all" /\ r.id # "latest"
    <3>1. r.id \notin AnyId
      BY <2>4 DEF AnyId
    <3>2. \A m \in Versions(r) : Entries[m].id = r.id => Search(r) = <<m>>
      BY <2>1, <3>1, SearchId
    <3> QED
      BY <2>4, <3>2
  <2> QED
    BY <2>2, <2>3, <2>4
<1> QED
  BY <1>1, ListInvAlways, PTL
=============================================================================
