------------------------- MODULE ObjectDump_proofs --------------------------
(***************************************************************************)
(* Theorems about ObjectDump, for every tape, every MaxSave and any number *)
(* of runs.                                                                *)
(***************************************************************************)
EXTENDS ObjectDump, SequenceTheorems, FiniteSetTheorems, WellFoundedInduction, TLAPS

-----------------------------------------------------------------------------
(* The bucket information: it keeps its type, each object goes to the current
   subdirectory or to a later one, and what start-up finds on disk is the latest. *)

\* A non-empty set of natural numbers has a least element.
LEMMA LeastNatural ==
  ASSUME NEW S \in SUBSET Nat, S # {}
  PROVE  \E n \in S : \A m \in S : n <= m
<1> DEFINE R == OpToRel(<, Nat)
<1>1. PICK n \in S : \A m \in S : ~ (<<m, n>> \in R)
  <2>1. IsWellFoundedOn(R, Nat)
    BY NatLessThanWellFounded
  <2> HIDE DEF R
  <2> QED
    BY <2>1, WFMin
<1>2. \A m \in S : ~ (m < n)
  BY <1>1 DEF OpToRel
<1> QED
  BY <1>2

\* The Min and Max of the community modules exist: the least element of a set
\* of natural numbers, and the greatest of a bounded one.
LEMMA MinOfNaturals ==
  ASSUME NEW S \in SUBSET Nat, S # {}
  PROVE  Min(S) \in S
<1>1. \E n \in S : \A m \in S : n <= m
  BY LeastNatural
<1> QED
  BY <1>1 DEF Min

LEMMA MaxOfNaturals ==
  ASSUME NEW n \in Nat, NEW S \in SUBSET (0..n), S # {}
  PROVE  /\ Max(S) \in S
         /\ \A y \in S : y <= Max(S)
<1> DEFINE T == {n - x : x \in S}
<1>1. T \subseteq Nat
  OBVIOUS
<1>2. T # {}
  OBVIOUS
<1>3. PICK t \in T : \A u \in T : t <= u
  <2> HIDE DEF T
  <2> QED
    BY <1>1, <1>2, LeastNatural
<1>4. PICK x \in S : t = n - x
  OBVIOUS
<1>5. \A y \in S : x >= y
  <2> TAKE y \in S
  <2>1. n - y \in T
    OBVIOUS
  <2>2. n - x <= n - y
    BY <1>3, <1>4, <2>1
  <2> QED
    BY <2>2
<1> QED
  BY <1>5 DEF Max

\* A bucket in the list has a directory and a subdirectory from 1 on.
Listed(i) == i # NoInfo => i.dir >= 1 /\ i.sub >= 1

LEMMA NoInfoType == NoInfo \in BucketInfo
BY MaxSaveAssumption DEF NoInfo, BucketInfo

LEMMA AddType ==
  ASSUME NEW i \in BucketInfo, Listed(i)
  PROVE  /\ add_bucket_info(i) \in BucketInfo
         /\ add_bucket_info(i) # NoInfo
         /\ Listed(add_bucket_info(i))
BY MaxSaveAssumption DEF add_bucket_info, FirstInfo, NoInfo, BucketInfo, Listed

\* update_bucket_info keeps a listed bucket listed, and its counts in range.
LEMMA UpdateType ==
  ASSUME NEW i \in BucketInfo, Listed(i), i # NoInfo
  PROVE  /\ update_bucket_info(i) \in BucketInfo
         /\ update_bucket_info(i) # NoInfo
         /\ Listed(update_bucket_info(i))
BY MaxSaveAssumption DEF update_bucket_info, SubdirHasRoom, DirHasRoom, BucketHasRoom,
                         NoInfo, BucketInfo, Listed

\* An object goes to the current subdirectory while that one has room, and
\* otherwise to a later one, or nowhere.
LEMMA UpdateSlot ==
  ASSUME NEW i \in BucketInfo
  PROVE  LET u == update_bucket_info(i)
         IN  \/ SubdirHasRoom(i) /\ u.dir = i.dir /\ u.sub = i.sub
                /\ u.counter = i.counter + 1
             \/ ~SubdirHasRoom(i) /\ Before(i.dir, i.sub, u.dir, u.sub)
             \/ Full(u)
BY MaxSaveAssumption DEF update_bucket_info, SubdirHasRoom, DirHasRoom, BucketHasRoom,
                         BucketInfo, Full, Before

\* What initialize_bucket_info returns is a bucket information; no
\* subdirectory of the bucket comes after the one it finds, and the counter
\* sends the next object to a new one.
LEMMA InitializeInfo ==
  ASSUME NEW b, NEW used
  PROVE  LET i == initialize_bucket_info(b, used)
         IN  /\ i \in BucketInfo
             /\ Listed(i)
             /\ ~SubdirHasRoom(i) \/ i = NoInfo
             /\ \A d \in DirNumber, s \in DirNumber : <<b, d, s>> \in used =>
                  i # NoInfo /\ ~Before(i.dir, i.sub, d, s)
<1>1. CASE UsedDirs(b, used) = {}
  BY <1>1, NoInfoType DEF initialize_bucket_info, UsedDirs, Listed
<1>2. CASE UsedDirs(b, used) # {}
  <2> DEFINE d0 == Max(UsedDirs(b, used))
             s0 == Max(UsedSubs(b, d0, used))
  <2>1. MaxSave \in Nat /\ UsedDirs(b, used) \in SUBSET (0..MaxSave)
    BY MaxSaveAssumption DEF UsedDirs, DirNumber
  <2>2. d0 \in UsedDirs(b, used) /\ \A d \in UsedDirs(b, used) : d <= d0
    BY <1>2, <2>1, MaxOfNaturals
  <2>3. UsedSubs(b, d0, used) \in SUBSET (0..MaxSave) /\ UsedSubs(b, d0, used) # {}
    <3> HIDE DEF d0
    <3>1. ASSUME NEW s \in UsedSubs(b, d0, used)
          PROVE  s \in 0..MaxSave
      <4>1. s \in 1..MaxSave
        BY <3>1 DEF UsedSubs, DirNumber
      <4> QED
        BY <4>1, <2>1
    <3>2. PICK s \in DirNumber : <<b, d0, s>> \in used
      BY <2>2, Zenon DEF UsedDirs
    <3>3. s \in UsedSubs(b, d0, used)
      BY <3>2, Zenon DEF UsedSubs
    <3> QED
      BY <3>1, <3>3, Zenon
  <2>4. s0 \in UsedSubs(b, d0, used) /\ \A s \in UsedSubs(b, d0, used) : s <= s0
    <3> HIDE DEF d0
    <3> QED
      BY <2>1, <2>3, MaxOfNaturals
  <2>5. initialize_bucket_info(b, used) = [counter |-> MaxSave, dir |-> d0, sub |-> s0]
    BY <1>2 DEF initialize_bucket_info
  <2>6. d0 \in DirNumber /\ s0 \in DirNumber
    <3> HIDE DEF d0, s0
    <3> QED
      BY <2>2, <2>4 DEF UsedDirs, UsedSubs
  <2>7. \A d \in DirNumber, s \in DirNumber :
          <<b, d, s>> \in used => ~Before(d0, s0, d, s)
    <3> TAKE d \in DirNumber, s \in DirNumber
    <3> HAVE <<b, d, s>> \in used
    <3>1. d \in UsedDirs(b, used) /\ d <= d0
      BY <2>2 DEF UsedDirs
    <3>2. d = d0 => s <= s0
      BY <2>4 DEF UsedSubs
    <3> HIDE DEF d0, s0
    <3> QED
      BY <2>6, <3>1, <3>2 DEF Before, DirNumber
  <2> HIDE DEF d0, s0
  <2> QED
    BY <2>1, <2>5, <2>6, <2>7, MaxSaveAssumption
    DEF BucketInfo, Listed, SubdirHasRoom, NoInfo, DirNumber
<1> QED
  BY <1>1, <1>2

\* The subdirectory it finds is one of the bucket's.
LEMMA InitializeUsed ==
  ASSUME NEW b, NEW used, initialize_bucket_info(b, used) # NoInfo
  PROVE  LET i == initialize_bucket_info(b, used)
         IN  i.dir \in DirNumber /\ i.sub \in DirNumber /\ <<b, i.dir, i.sub>> \in used
<1> DEFINE d0 == Max(UsedDirs(b, used))
           s0 == Max(UsedSubs(b, d0, used))
<1>1. UsedDirs(b, used) # {} /\ initialize_bucket_info(b, used) = [counter |-> MaxSave, dir |-> d0, sub |-> s0]
  BY DEF initialize_bucket_info
<1>2. MaxSave \in Nat /\ UsedDirs(b, used) \in SUBSET (0..MaxSave)
  BY MaxSaveAssumption DEF UsedDirs, DirNumber
<1>3. d0 \in UsedDirs(b, used)
  BY <1>1, <1>2, MaxOfNaturals
<1>4. UsedSubs(b, d0, used) \in SUBSET (0..MaxSave) /\ UsedSubs(b, d0, used) # {}
  <2> HIDE DEF d0
  <2>1. ASSUME NEW s \in UsedSubs(b, d0, used)
        PROVE  s \in 0..MaxSave
    <3>1. s \in 1..MaxSave
      BY <2>1 DEF UsedSubs, DirNumber
    <3> QED
      BY <3>1, <1>2
  <2>2. PICK s \in DirNumber : <<b, d0, s>> \in used
    BY <1>3, Zenon DEF UsedDirs
  <2>3. s \in UsedSubs(b, d0, used)
    BY <2>2, Zenon DEF UsedSubs
  <2> QED
    BY <2>1, <2>3, Zenon
<1>5. s0 \in UsedSubs(b, d0, used)
  <2> HIDE DEF d0
  <2> QED
    BY <1>2, <1>4, MaxOfNaturals
<1> HIDE DEF d0, s0
<1>6. d0 \in DirNumber /\ s0 \in DirNumber /\ <<b, d0, s0>> \in used
  BY <1>3, <1>5 DEF UsedDirs, UsedSubs
<1> QED
  BY <1>1, <1>6

-----------------------------------------------------------------------------
(* The tape *)

LEMMA NumberType == \A t \in MarkerTypes : Number(t) \in Nat
BY TapeAssumption DEF Number

LEMMA AddressType ==
  \A t \in MarkerTypes : \A i \in 1..Number(t) :
    Address[t][i] \in Nat /\ 1 <= Address[t][i] /\ Address[t][i] < LastRcm
<1> TAKE t \in MarkerTypes
<1> TAKE i \in 1..Number(t)
<1>1. Address[t] \in Seq(1..(LastRcm - 1))
  BY TapeAssumption
<1>2. Address[t][i] \in 1..(LastRcm - 1)
  BY <1>1, ElementOfSeq DEF Number
<1> QED
  BY <1>2, TapeAssumption

LEMMA ObjectRange == Object = 1..Number("META")
BY TapeAssumption DEF Object, Number, MarkerTypes

LEMMA DataEndType == \A m \in Object : DataEnd[m] \in Nat
BY TapeAssumption DEF Object

\* AddressOf is a block, below LastRcm exactly when there is such a marker.
LEMMA AddressOfType ==
  ASSUME NEW t \in MarkerTypes, NEW n \in Nat
  PROVE  /\ AddressOf(t, n) \in Nat
         /\ AddressOf(t, n) <= LastRcm
         /\ AddressOf(t, n) < LastRcm <=> n \in 1..Number(t)
BY AddressType, TapeAssumption DEF AddressOf, NoAddress

\* While the loop goes on, the marker that get_next_marker chooses exists.
LEMMA NextMarkerInRange ==
  ASSUME NEW c \in Counts, Complete(c), MoreMarkers(c)
  PROVE  /\ get_next_marker(c) \in MarkerTypes
         /\ c[get_next_marker(c)] \in 1..Number(get_next_marker(c))
<1> DEFINE a(t) == AddressOf(t, c[t])
<1>1. \A t \in MarkerTypes : /\ a(t) \in Nat /\ a(t) <= LastRcm
                             /\ a(t) < LastRcm <=> c[t] \in 1..Number(t)
  BY AddressOfType DEF Counts
<1>2. PICK t \in MarkerTypes : a(t) < LastRcm
  BY <1>1, NumberType DEF MoreMarkers, Complete, Counts
<1>3. \A u \in MarkerTypes : LastRcm \in Nat /\ c[u] \in Nat
  BY TapeAssumption DEF Counts
<1> HIDE DEF a
<1>4. get_next_marker(c) \in MarkerTypes /\ a(get_next_marker(c)) < LastRcm
  <2>1. get_next_marker(c) =
          IF a("PR") < a("OCM") /\ a("PR") < a("PO") /\ a("PR") < a("META") THEN "PR"
          ELSE IF a("OCM") < a("PO") /\ a("OCM") < a("META") THEN "OCM"
          ELSE IF a("PO") <= a("META") THEN "PO"
          ELSE "META"
    BY DEF get_next_marker, a
  <2> QED
    BY <1>1, <1>2, <1>3, <2>1 DEF MarkerTypes
<1> QED
  BY <1>1, <1>4

LEMMA FileMarksType == FileMarks \subseteq Nat
<1> DEFINE around(i) == {Address["OCM"][i] - 1, Address["OCM"][i] + 1}
           ocms == UNION {around(i) : i \in 1..Number("OCM")}
           prs  == {Address["PR"][i] + 1 : i \in 1..Number("PR")}
<1>1. \A i \in 1..Number("OCM") : around(i) \subseteq Nat
  BY AddressType DEF MarkerTypes
<1>2. ocms \subseteq Nat
  <2> HIDE DEF around
  <2> QED
    BY <1>1
<1>3. prs \subseteq Nat
  BY AddressType DEF MarkerTypes
<1>4. FileMarks = prs \union ocms
  BY DEF FileMarks
<1> HIDE DEF ocms, prs
<1> QED
  BY <1>2, <1>3, <1>4

LEMMA HeadTypes ==
  ASSUME NEW h \in Nat
  PROVE  AfterMark(h) \in Nat /\ ReadBlock(h) \in Nat
<1> DEFINE next == {f \in FileMarks : h <= f}
<1>1. next \in SUBSET Nat
  BY FileMarksType
<1>2. next # {} => Min(next) \in Nat
  <2> HIDE DEF next
  <2> QED
    BY <1>1, MinOfNaturals
<1>3. AfterMark(h) \in Nat
  BY <1>2 DEF AfterMark
<1> QED
  BY <1>3 DEF ReadBlock

LEMMA BucketReadType ==
  ASSUME NEW h \in Nat
  PROVE  IF h \in FileMarks THEN BucketRead(h) = bucket ELSE BucketRead(h) \in Names
<1>1. CASE h \in FileMarks
  BY <1>1 DEF BucketRead
<1>2. CASE h \notin FileMarks /\ \E p \in 1..Number("PO") : Address["PO"][p] = h
  <2> DEFINE q == CHOOSE p \in 1..Number("PO") : Address["PO"][p] = h
  <2>1. q \in 1..Number("PO")
    BY <1>2
  <2>2. PoBucket[q] \in Names
    <3> HIDE DEF q
    <3> QED
      BY <2>1, TapeAssumption DEF Number
  <2> QED
    BY <1>2, <2>2 DEF BucketRead
<1>3. CASE h \notin FileMarks /\ ~\E p \in 1..Number("PO") : Address["PO"][p] = h
  BY <1>3 DEF BucketRead, Names
<1> QED
  BY <1>1, <1>2, <1>3

-----------------------------------------------------------------------------
(* Types *)

\* The object being written is one of the tape, in a subdirectory of a bucket.
InHand ==
  pc \in {"mkdir", "meta", "data"} =>
    /\ mode \in DumpModes /\ bucket \in Names
    /\ Complete(cnt) /\ cnt["META"] \in Object
    /\ info[bucket].dir \in DirNumber /\ info[bucket].sub \in DirNumber
    /\ pc = "data" => ObjectFile \in metaFiles

\* bucket_info_4_obj_reader holds the bucket of the PO being read.
BucketsListed ==
  /\ \A b \in Names : Listed(info[b])
  /\ bucket \in Names => info[bucket] # NoInfo

TypeInv == TypeOK /\ InHand /\ BucketsListed

LEMMA StartInfoType ==
  StartInfo \in [Names -> BucketInfo] /\ \A b \in Names : Listed(StartInfo[b])
BY InitializeInfo, NoInfoType DEF StartInfo, Listed

LEMMA KeysLength == Len(HistoryKeys) = 4
BY DEF HistoryKeys

LEMMA FirstCountsType == FirstCounts \in Counts /\ NoHistory \in Counts
BY DEF FirstCounts, NoHistory, Counts

\* The memory of a process that is not there.
LEMMA IdleType ==
  ASSUME Idle
  PROVE  /\ cnt \in Counts /\ info \in [Names -> BucketInfo] /\ field \in 1..Len(HistoryKeys)
         /\ bucket = Null /\ bucket \notin Names
         /\ \A b \in Names : Listed(info[b])
BY NamesAssumption, NoInfoType, KeysLength, FirstCountsType DEF Idle, Listed

LEMMA GoDownIsIdle == GoDown => Idle'
BY DEF GoDown, Idle

\* The conjuncts of TypeOK about the disk and the observers.
DiskType ==
  /\ hist \in Counts /\ ini \in {"none", "file", "temp"}
  /\ subs \subseteq Slots /\ metaFiles \subseteq Files /\ whole \subseteq metaFiles
  /\ backup \in BOOLEAN
  /\ runs \in Nat /\ mixed \in BOOLEAN /\ dropped \subseteq Object \X Names

LEMMA IdleTypeInv == Idle /\ DiskType => TypeInv
<1> SUFFICES ASSUME Idle, DiskType PROVE TypeInv
  OBVIOUS
<1>1. pc = "down" /\ mode = "none" /\ locate = FALSE /\ head = 0
  BY DEF Idle
<1> QED
  BY <1>1, IdleType DEF DiskType, TypeInv, TypeOK, InHand, BucketsListed, AllModes

LEMMA GoDownType ==
  ASSUME TypeInv, GoDown, ini' \in {"none", "file", "temp"}, backup' \in BOOLEAN,
         UNCHANGED <<hist, subs, metaFiles, whole, observed>>
  PROVE  TypeInv'
<1>1. Idle'
  BY GoDownIsIdle
<1>2. DiskType'
  BY DEF DiskType, TypeInv, TypeOK, observed
<1>3. (Idle /\ DiskType => TypeInv)'
  BY IdleTypeInv, PTL
<1> QED
  BY <1>1, <1>2, <1>3

LEMMA TypeInit == Init => TypeInv
<1> SUFFICES ASSUME Init PROVE TypeInv
  OBVIOUS
<1>1. Idle
  BY DEF Init
<1> QED
  BY <1>1, IdleTypeInv, FirstCountsType DEF Init, DiskType

LEMMA StartType ==
  ASSUME TypeInv, NEW m \in AllModes, NEW c \in Counts, Start(m, c),
         mixed' \in BOOLEAN
  PROVE  TypeInv'
<1>1. head' \in Nat
  BY TapeAssumption DEF Start
<1>2. locate' \in BOOLEAN
  BY DEF Start, first_locate_flag, TypeInv, TypeOK
<1> QED
  BY <1>1, <1>2, StartInfoType, NamesAssumption
  DEF Start, disk, TypeInv, TypeOK, InHand, BucketsListed, AllModes, DumpModes, HistoryKeys,
      Slots, Files

LEMMA PassedType ==
  ASSUME cnt \in Counts, NEW t \in MarkerTypes, Passed(t)
  PROVE  cnt' \in Counts /\ cnt'[t] = cnt[t] + 1
BY DEF Passed, Counts

\* A walking process is at a marker that exists, and so is where the head goes.
LEMMA NextMarker ==
  ASSUME TypeInv, NEW t \in MarkerTypes, Next_is(t)
  PROVE  /\ cnt[t] \in 1..Number(t)
         /\ HeadAt(t) \in Nat
         /\ Address[t][cnt[t]] \in Nat
<1>1. cnt[t] \in 1..Number(t)
  BY NextMarkerInRange DEF Next_is, TypeInv, TypeOK
<1> QED
  BY <1>1, AddressType DEF HeadAt, TypeInv, TypeOK

\* get_bucket_info_4_obj_reader on the bucket of the object.
LEMMA TakeObjectType ==
  ASSUME TypeInv, TakeObject
  PROVE  /\ bucket \in Names
         /\ NextInfo \in BucketInfo /\ NextInfo # NoInfo /\ Listed(NextInfo)
         /\ info' \in [Names -> BucketInfo]
         /\ \A b \in Names : Listed(info'[b])
         /\ info'[bucket] = NextInfo
         /\ cnt["META"] \in Object
         /\ FirstBlock \in Nat /\ LastBlock \in Nat
<1>1. bucket \in Names /\ info[bucket] \in BucketInfo /\ Listed(info[bucket])
      /\ info[bucket] # NoInfo
  BY DEF TakeObject, TypeInv, TypeOK, BucketsListed
<1>2. NextInfo \in BucketInfo /\ NextInfo # NoInfo /\ Listed(NextInfo)
  BY <1>1, UpdateType DEF NextInfo
<1>3. cnt["META"] \in 1..Number("META")
  BY NextMarker DEF TakeObject, MarkerTypes
<1>4. FirstBlock \in Nat /\ LastBlock \in Nat
  BY <1>3, ObjectRange, AddressType, DataEndType DEF FirstBlock, LastBlock, MarkerTypes
<1> QED
  BY <1>1, <1>2, <1>3, <1>4, ObjectRange DEF TakeObject, TypeInv, TypeOK, BucketsListed

\* A step that changes only the process's memory.
LEMMA MemoryStepType ==
  ASSUME TypeInv, UNCHANGED disk, UNCHANGED <<runs, mixed>>,
         pc # "down", mode' = mode,
         pc' \in {"walk", "history", "mkdir"},
         cnt' \in Counts, locate' \in BOOLEAN, head' \in Nat, field' \in 1..4,
         bucket' \in Names \union {Null}, info' \in [Names -> BucketInfo],
         dropped' \subseteq Object \X Names,
         InHand', BucketsListed'
  PROVE  TypeInv'
<1>1. pc' # "down" /\ mode' # "none"
  BY DEF TypeInv, TypeOK
<1> QED
  BY <1>1, KeysLength DEF TypeInv, TypeOK, disk

LEMMA TypeNext == TypeInv /\ [Next]_vars => TypeInv'
<1> SUFFICES ASSUME TypeInv, [Next]_vars PROVE TypeInv'
  OBVIOUS
<1> USE KeysLength
<1>1. CASE StartFullDump
  BY <1>1, StartType, FirstCountsType DEF StartFullDump, AllModes, DumpModes, TypeInv, TypeOK
<1>2. CASE StartOutputList
  BY <1>2, StartType, FirstCountsType DEF StartOutputList, AllModes, TypeInv, TypeOK
<1>3. CASE StartResumeDump
  <2>1. mixed' \in BOOLEAN
    BY <1>3 DEF StartResumeDump, TypeInv, TypeOK
  <2> QED
    BY <1>3, <2>1, StartType
    DEF StartResumeDump, get_history, AllModes, DumpModes, TypeInv, TypeOK
<1>4. CASE Stop
  BY <1>4, GoDownType DEF Stop, TypeInv, TypeOK
<1>5. CASE ExitOnMarkerZero
  BY <1>5, GoDownType DEF ExitOnMarkerZero, disk, TypeInv, TypeOK
<1>6. CASE WalkPr
  <2>1. head' \in Nat
    BY <1>6, NextMarker, HeadTypes, TapeAssumption DEF WalkPr, MarkerTypes
  <2>2. cnt' \in Counts
    BY <1>6, PassedType DEF WalkPr, MarkerTypes, TypeInv, TypeOK
  <2> QED
    BY <1>6, <2>1, <2>2, MemoryStepType
    DEF WalkPr, Next_is, observed, TypeInv, TypeOK, InHand, BucketsListed
<1>7. CASE WalkOcm
  <2>1. head' \in Nat
    BY <1>7, NextMarker, HeadTypes DEF WalkOcm, MarkerTypes
  <2>2. cnt' \in Counts
    BY <1>7, PassedType DEF WalkOcm, MarkerTypes, TypeInv, TypeOK
  <2> QED
    BY <1>7, <2>1, <2>2, MemoryStepType
    DEF WalkOcm, Next_is, observed, TypeInv, TypeOK, InHand, BucketsListed
<1>8. CASE WalkPo
  <2> DEFINE h == HeadAt("PO")
             b == BucketRead(h)
  <2>1. h \in Nat /\ head' = ReadBlock(h) /\ head' \in Nat
    BY <1>8, NextMarker, HeadTypes DEF WalkPo, MarkerTypes
  <2>2. IF h \in FileMarks THEN b = bucket ELSE b \in Names
    BY <2>1, BucketReadType
  <2>3. /\ bucket' = b
        /\ info' = IF h \in FileMarks THEN info
                   ELSE [info EXCEPT ![b] = add_bucket_info(@)]
    BY <1>8 DEF WalkPo
  <2>4. cnt' \in Counts
    BY <1>8, PassedType DEF WalkPo, MarkerTypes, TypeInv, TypeOK
  <2> HIDE DEF h, b
  <2>5. info' \in [Names -> BucketInfo] /\ BucketsListed'
    BY <2>2, <2>3, AddType, NamesAssumption DEF TypeInv, TypeOK, BucketsListed
  <2>6. bucket' \in Names \union {Null}
    BY <2>2, <2>3 DEF TypeInv, TypeOK
  <2>7. /\ UNCHANGED <<disk, mode, observed>> /\ locate' = FALSE
        /\ pc = "walk" /\ pc' \in {"walk", "history"} /\ field' \in 1..4
    BY <1>8 DEF WalkPo, Next_is, TypeInv, TypeOK
  <2> QED
    BY <2>1, <2>4, <2>5, <2>6, <2>7, MemoryStepType
    DEF observed, TypeInv, TypeOK, InHand
<1>9. CASE CreateHistory
  BY <1>9, FirstCountsType
  DEF CreateHistory, memory, observed, TypeInv, TypeOK, InHand, BucketsListed
<1>10. CASE RemoveHistory
  <2>1. HistoryKeys[field] \in MarkerTypes
    BY DEF HistoryKeys, MarkerTypes, TypeInv, TypeOK
  <2>2. hist' \in Counts
    BY <1>10, <2>1 DEF RemoveHistory, HistoryEntry, Counts, TypeInv, TypeOK
  <2> QED
    BY <1>10, <2>2
    DEF RemoveHistory, observed, TypeInv, TypeOK, InHand, BucketsListed
<1>11. CASE RenameHistory
  <2>1. cnt' \in Counts
    BY <1>11, PassedType DEF RenameHistory, MarkerTypes, TypeInv, TypeOK
  <2>2. field' \in 1..4 /\ pc' \in {"history", "walk"}
    BY <1>11 DEF RenameHistory, TypeInv, TypeOK
  <2> QED
    BY <1>11, <2>1, <2>2
    DEF RenameHistory, observed, TypeInv, TypeOK, InHand, BucketsListed
<1>12. CASE DieOnObject
  BY <1>12, GoDownType DEF DieOnObject, disk, TypeInv, TypeOK
<1>13. CASE ListObject \/ DropObject \/ SkipObject
  <2>1. TakeObject
    BY <1>13 DEF ListObject, DropObject, SkipObject
  <2>2. head' \in Nat
    BY <1>13, <2>1, TakeObjectType DEF ListObject, DropObject, SkipObject
  <2>3. cnt' \in Counts
    BY <1>13, PassedType
    DEF ListObject, DropObject, SkipObject, MarkerTypes, TypeInv, TypeOK
  <2>4. dropped' \subseteq Object \X Names
    BY <1>13, <2>1, TakeObjectType
    DEF ListObject, DropObject, SkipObject, observed, TypeInv, TypeOK
  <2>5. /\ UNCHANGED <<disk, mode, bucket, field, runs, mixed>>
        /\ pc = "walk" /\ pc' = "walk" /\ locate' = FALSE
    BY <1>13 DEF ListObject, DropObject, SkipObject, TakeObject, Next_is, observed
  <2>6. InHand' /\ BucketsListed'
    BY <2>1, <2>5, TakeObjectType DEF InHand, BucketsListed
  <2> QED
    BY <2>1, <2>2, <2>3, <2>4, <2>5, <2>6, TakeObjectType, MemoryStepType
    DEF TypeInv, TypeOK
<1>14. CASE BeginObject
  <2>1. TakeObject /\ ~Full(NextInfo) /\ mode \in DumpModes /\ pc = "walk" /\ Complete(cnt)
    BY <1>14 DEF BeginObject, TakeObject, Next_is
  <2>2. NextInfo.dir \in DirNumber /\ NextInfo.sub \in DirNumber
    <3>1. Listed(NextInfo)
      BY <2>1, TakeObjectType
    <3> QED
      BY <2>1, <3>1, TakeObjectType, MaxSaveAssumption
      DEF Full, Listed, BucketInfo, DirNumber
  <2>3. InHand' /\ BucketsListed'
    BY <1>14, <2>1, <2>2, TakeObjectType DEF BeginObject, InHand, BucketsListed
  <2>4. head' \in Nat
    BY <1>14, <2>1, TakeObjectType DEF BeginObject
  <2>5. locate' \in BOOLEAN
    BY <2>1 DEF TakeObject
  <2> QED
    BY <1>14, <2>1, <2>3, <2>4, <2>5, TakeObjectType, MemoryStepType
    DEF BeginObject, observed, TypeInv, TypeOK
<1>15. CASE MakeDirs
  <2>1. subs' \subseteq Slots
    BY <1>15 DEF MakeDirs, TypeInv, TypeOK, InHand, Slots
  <2> QED
    BY <1>15, <2>1 DEF MakeDirs, observed, TypeInv, TypeOK, InHand, BucketsListed
<1>16. CASE WriteMeta
  <2>1. ObjectFile \in Files
    BY <1>16 DEF WriteMeta, ObjectFile, FileIn, Files, TypeInv, InHand
  <2>2. metaFiles' \subseteq Files /\ whole' \subseteq metaFiles'
    BY <1>16, <2>1 DEF WriteMeta, TypeInv, TypeOK
  <2> QED
    BY <1>16, <2>2
    DEF WriteMeta, observed, TypeInv, TypeOK, InHand, BucketsListed, ObjectFile, FileIn
<1>17. CASE WriteData
  <2>1. whole' \subseteq metaFiles'
    BY <1>17 DEF WriteData, TypeInv, TypeOK, InHand
  <2>2. cnt' \in Counts
    BY <1>17, PassedType DEF WriteData, MarkerTypes, TypeInv, TypeOK
  <2>3. head' \in Nat
    BY <1>17 DEF WriteData, TypeInv, TypeOK
  <2>4. pc' \in {"data", "walk"} /\ pc # "down" /\ (pc' = "data" => cnt' = cnt)
    BY <1>17 DEF WriteData
  <2>5. InHand'
    BY <1>17, <2>4 DEF WriteData, TypeInv, InHand, ObjectFile, FileIn
  <2> QED
    BY <1>17, <2>1, <2>2, <2>3, <2>4, <2>5
    DEF WriteData, observed, TypeInv, TypeOK, BucketsListed
<1>18. CASE Finish
  BY <1>18, GoDownType DEF Finish, TypeInv, TypeOK
<1>19. CASE UNCHANGED vars
  BY <1>19
  DEF vars, disk, memory, observed, TypeInv, TypeOK, InHand, BucketsListed, ObjectFile,
      FileIn
<1> QED
  BY <1>1, <1>2, <1>3, <1>4, <1>5, <1>6, <1>7, <1>8, <1>9, <1>10, <1>11, <1>12, <1>13,
     <1>14, <1>15, <1>16, <1>17, <1>18, <1>19
  DEF Next, Walk

\* The types of all variables, at every step of every sequence of runs (TypeOK).
THEOREM TypeCorrect == Spec => []TypeOK
<1>1. Spec => []TypeInv
  BY TypeInit, TypeNext, PTL DEF Spec
<1>2. TypeInv => TypeOK
  BY DEF TypeInv
<1> QED
  BY <1>1, <1>2, PTL

-----------------------------------------------------------------------------
(* Subdirectories *)

\* Files are in subdirectories that exist, and the subdirectory of the object
\* being written has been made before its files.
FilesInSubs ==
  /\ \A f \in metaFiles : <<f[2], f[3], f[4]>> \in subs
  /\ pc \in {"meta", "data"} => <<bucket, info[bucket].dir, info[bucket].sub>> \in subs

\* A file in the current subdirectory of a bucket is of an object before the
\* one the walk is at.
Earlier(f) == f[1] < cnt["META"] \/ (f[1] = cnt["META"] /\ pc = "data")

\* While a process runs, no subdirectory of bucket b is later than the current
\* one, and if that one has room its files are of earlier objects of this run.
CurrentIsLast(b) ==
  /\ \A d \in DirNumber, s \in DirNumber : <<b, d, s>> \in subs =>
        info[b] # NoInfo /\ ~Before(info[b].dir, info[b].sub, d, s)
  /\ SubdirHasRoom(info[b]) =>
       \A f \in metaFiles : <<f[2], f[3], f[4]>> = <<b, info[b].dir, info[b].sub>>
                              => Earlier(f)

SlotInv == FilesInSubs /\ (pc # "down" => \A b \in Buckets : CurrentIsLast(b))

FullInv == TypeInv /\ SlotInv

LEMMA FileParts ==
  ASSUME TypeInv, NEW f \in metaFiles
  PROVE  f[1] \in Object /\ f[2] \in Names /\ f[3] \in DirNumber /\ f[4] \in DirNumber
BY DEF TypeInv, TypeOK, Files

LEMMA SlotInit == Init => SlotInv
BY DEF Init, Idle, SlotInv, FilesInSubs

LEMMA GoDownSlot ==
  ASSUME SlotInv, GoDown, UNCHANGED <<subs, metaFiles>>
  PROVE  SlotInv'
BY DEF SlotInv, GoDown, FilesInSubs

\* What start-up finds on disk is the last subdirectory, and it counts as full.
LEMMA StartSlot ==
  ASSUME FullInv, NEW m \in AllModes, NEW c \in Counts, Start(m, c)
  PROVE  SlotInv'
<1>1. subs' = subs /\ metaFiles' = metaFiles /\ info' = StartInfo /\ pc' = "walk"
  BY DEF Start, disk
<1>2. FilesInSubs'
  BY <1>1 DEF FullInv, SlotInv, FilesInSubs
<1>3. ASSUME NEW b \in Buckets PROVE CurrentIsLast(b)'
  <2>1. info'[b] = initialize_bucket_info(b, subs)
    BY <1>1, NamesAssumption DEF StartInfo, Names
  <2>2. /\ ~SubdirHasRoom(info'[b]) \/ info'[b] = NoInfo
        /\ \A d \in DirNumber, s \in DirNumber : <<b, d, s>> \in subs =>
             info'[b] # NoInfo /\ ~Before(info'[b].dir, info'[b].sub, d, s)
    BY <2>1, InitializeInfo
  <2>3. \A f \in metaFiles : f[2] = b => info'[b] # NoInfo
    BY <2>2, FileParts DEF FullInv, SlotInv, FilesInSubs
  <2> QED
    BY <1>1, <2>2, <2>3 DEF CurrentIsLast
<1> QED
  BY <1>2, <1>3 DEF SlotInv

\* A step that leaves the files, the bucket information and the object count.
LEMMA SameSlots ==
  ASSUME SlotInv, pc \notin {"down", "data"}, pc' \notin {"meta", "data"},
         UNCHANGED <<subs, metaFiles, info>>, cnt'["META"] = cnt["META"]
  PROVE  SlotInv'
BY DEF SlotInv, FilesInSubs, CurrentIsLast, Earlier

\* Taking an object: its bucket moves to a subdirectory that is not behind.
LEMMA TakeSlot ==
  ASSUME FullInv, TakeObject, UNCHANGED <<subs, metaFiles>>, pc = "walk",
         pc' \in {"walk", "mkdir"}, cnt'["META"] \in {cnt["META"], cnt["META"] + 1}
  PROVE  SlotInv'
<1>1. FilesInSubs'
  BY DEF FullInv, SlotInv, FilesInSubs
<1>2. ASSUME NEW b \in Buckets PROVE CurrentIsLast(b)'
  <2>1. CurrentIsLast(b)
    BY DEF FullInv, SlotInv
  <2>2. cnt["META"] \in Nat /\ info \in [Names -> BucketInfo] /\ b \in Names
    BY DEF FullInv, TypeInv, TypeOK, Counts, MarkerTypes, Names
  <2>3. \A f \in metaFiles : Earlier(f) => Earlier(f)'
    BY <2>2, FileParts, ObjectRange DEF FullInv, Earlier
  <2>4. CASE b # bucket
    <3>1. info'[b] = info[b]
      BY <2>2, <2>4 DEF TakeObject
    <3> QED
      BY <2>1, <2>3, <3>1 DEF CurrentIsLast
  <2>5. CASE b = bucket
    <3> DEFINE i == info[b]
               u == update_bucket_info(i)
    <3>1. i \in BucketInfo /\ u \in BucketInfo /\ u # NoInfo /\ info'[b] = u
      BY <2>2, <2>5, TakeObjectType DEF NextInfo, FullInv
    <3>2. \/ SubdirHasRoom(i) /\ u.dir = i.dir /\ u.sub = i.sub
          \/ ~SubdirHasRoom(i) /\ Before(i.dir, i.sub, u.dir, u.sub)
          \/ Full(u)
      BY <3>1, UpdateSlot
    <3> HIDE DEF i, u
    <3>3. CASE SubdirHasRoom(i) /\ u.dir = i.dir /\ u.sub = i.sub
      BY <2>1, <2>3, <3>1, <3>3 DEF CurrentIsLast, i
    <3>4. CASE Before(i.dir, i.sub, u.dir, u.sub) \/ Full(u)
      <4>1. \A d \in DirNumber, s \in DirNumber :
               <<b, d, s>> \in subs => ~Before(u.dir, u.sub, d, s)
        BY <2>1, <3>1, <3>4, MaxSaveAssumption
        DEF CurrentIsLast, Before, Full, BucketInfo, DirNumber, i
      <4>2. \A f \in metaFiles : <<f[2], f[3], f[4]>> # <<b, u.dir, u.sub>>
        <5> TAKE f \in metaFiles
        <5>1. f[3] \in DirNumber /\ f[4] \in DirNumber /\ <<f[2], f[3], f[4]>> \in subs
          BY FileParts DEF FullInv, SlotInv, FilesInSubs
        <5>2. f[2] = b => ~Before(i.dir, i.sub, f[3], f[4])
          BY <2>1, <5>1 DEF CurrentIsLast, i
        <5> QED
          BY <3>4, <5>1, <5>2, MaxSaveAssumption DEF Full, DirNumber
      <4> QED
        BY <3>1, <4>1, <4>2 DEF CurrentIsLast
    <3> QED
      BY <3>2, <3>3, <3>4
  <2> QED
    BY <2>4, <2>5
<1> QED
  BY <1>1, <1>2 DEF SlotInv

LEMMA SlotNext == FullInv /\ [Next]_vars => SlotInv'
<1> SUFFICES ASSUME FullInv, [Next]_vars PROVE SlotInv'
  OBVIOUS
<1>0. TypeInv /\ SlotInv
  BY DEF FullInv
<1>1. CASE StartFullDump \/ StartOutputList \/ StartResumeDump
  BY <1>0, <1>1, StartSlot, FirstCountsType
  DEF StartFullDump, StartOutputList, StartResumeDump, get_history, AllModes, DumpModes,
      TypeInv, TypeOK
<1>2. CASE Stop \/ ExitOnMarkerZero \/ DieOnObject \/ Finish
  BY <1>0, <1>2, GoDownSlot DEF Stop, ExitOnMarkerZero, DieOnObject, Finish, disk
<1>3. CASE WalkPr \/ WalkOcm
  <2>1. cnt'["META"] = cnt["META"]
    BY <1>0, <1>3 DEF WalkPr, WalkOcm, Passed, TypeInv, TypeOK, Counts, MarkerTypes
  <2> QED
    BY <1>0, <1>3, <2>1, SameSlots DEF WalkPr, WalkOcm, Next_is, disk
<1>4. CASE CreateHistory \/ RemoveHistory \/ RenameHistory
  <2>1. cnt'["META"] = cnt["META"]
    BY <1>0, <1>4
    DEF CreateHistory, RemoveHistory, RenameHistory, memory, Passed, TypeInv, TypeOK,
        Counts, MarkerTypes
  <2> QED
    BY <1>0, <1>4, <2>1, SameSlots DEF CreateHistory, RemoveHistory, RenameHistory, memory
<1>5. CASE WalkPo
  <2> DEFINE h == HeadAt("PO")
             n == BucketRead(h)
  <2>1. cnt'["META"] = cnt["META"]
    BY <1>0, <1>5 DEF WalkPo, Passed, TypeInv, TypeOK, Counts, MarkerTypes
  <2>2. /\ pc = "walk" /\ pc' \in {"walk", "history"} /\ UNCHANGED <<subs, metaFiles>>
        /\ info' = IF h \in FileMarks THEN info
                   ELSE [info EXCEPT ![n] = add_bucket_info(@)]
    BY <1>5 DEF WalkPo, Next_is, disk
  <2>3. CASE info' = info
    BY <1>0, <2>1, <2>2, <2>3, SameSlots
  <2>4. CASE info' = [info EXCEPT ![n] = add_bucket_info(@)]
    <3> HIDE DEF n
    <3>1. FilesInSubs'
      BY <1>0, <2>2 DEF SlotInv, FilesInSubs
    <3>2. ASSUME NEW b \in Buckets PROVE CurrentIsLast(b)'
      <4>1. CurrentIsLast(b) /\ info \in [Names -> BucketInfo] /\ b \in Names
        BY <1>0, <2>2 DEF SlotInv, TypeInv, TypeOK, Names
      <4>2. CASE info'[b] = info[b]
        BY <2>1, <2>2, <4>1, <4>2 DEF CurrentIsLast, Earlier
      <4>3. CASE info'[b] # info[b]
        <5>1. info[b] = NoInfo
          BY <2>4, <4>1, <4>3 DEF add_bucket_info
        <5>2. \A d \in DirNumber, s \in DirNumber : <<b, d, s>> \notin subs
          BY <4>1, <5>1 DEF CurrentIsLast
        <5>3. \A f \in metaFiles : f[2] # b
          BY <1>0, <5>2, FileParts DEF SlotInv, FilesInSubs
        <5> QED
          BY <2>2, <5>2, <5>3 DEF CurrentIsLast
      <4> QED
        BY <4>2, <4>3
    <3> QED
      BY <3>1, <3>2 DEF SlotInv
  <2> QED
    BY <2>2, <2>3, <2>4
<1>6. CASE ListObject \/ DropObject \/ SkipObject \/ BeginObject
  <2>1. TakeObject /\ pc = "walk" /\ pc' \in {"walk", "mkdir"} /\ UNCHANGED <<subs, metaFiles>>
    BY <1>6
    DEF ListObject, DropObject, SkipObject, BeginObject, TakeObject, Next_is, disk
  <2>2. cnt'["META"] \in {cnt["META"], cnt["META"] + 1}
    BY <1>0, <1>6
    DEF ListObject, DropObject, SkipObject, BeginObject, Passed, TypeInv, TypeOK, Counts,
        MarkerTypes
  <2> QED
    BY <2>1, <2>2, TakeSlot
<1>7. CASE MakeDirs
  <2>1. FilesInSubs'
    BY <1>0, <1>7 DEF MakeDirs, SlotInv, FilesInSubs
  <2>2. info[bucket] # NoInfo /\ info[bucket] \in BucketInfo
    BY <1>0, <1>7 DEF MakeDirs, TypeInv, TypeOK, InHand, BucketsListed
  <2>3. ASSUME NEW b \in Buckets PROVE CurrentIsLast(b)'
    <3>1. CurrentIsLast(b)
      BY <1>0, <1>7 DEF MakeDirs, SlotInv
    <3>2. \A f \in metaFiles : Earlier(f) => Earlier(f)'
      BY <1>7 DEF MakeDirs, Earlier
    <3> QED
      BY <1>7, <2>2, <3>1, <3>2 DEF MakeDirs, CurrentIsLast, Before, BucketInfo
  <2> QED
    BY <2>1, <2>3 DEF SlotInv
<1>8. CASE WriteMeta
  <2>1. FilesInSubs'
    BY <1>0, <1>8 DEF WriteMeta, SlotInv, FilesInSubs, ObjectFile, FileIn
  <2>2. \A f \in metaFiles' : f \in metaFiles \/ Earlier(f)'
    BY <1>8 DEF WriteMeta, Earlier, ObjectFile, FileIn
  <2>3. \A f \in metaFiles : Earlier(f) => Earlier(f)'
    BY <1>8 DEF WriteMeta, Earlier
  <2> QED
    BY <1>0, <1>8, <2>1, <2>2, <2>3 DEF WriteMeta, SlotInv, CurrentIsLast
<1>9. CASE WriteData
  <2>1. cnt["META"] \in Nat
    BY <1>0 DEF TypeInv, TypeOK, Counts, MarkerTypes
  <2>2. \A f \in metaFiles : Earlier(f) => Earlier(f)'
    <3>1. \/ pc' = pc /\ cnt' = cnt
          \/ cnt'["META"] = cnt["META"] + 1
      BY <1>0, <1>9 DEF WriteData, Passed, TypeInv, TypeOK, Counts, MarkerTypes
    <3>2. \A f \in metaFiles : f[1] \in Nat
      BY <1>0, FileParts, ObjectRange
    <3> QED
      BY <2>1, <3>1, <3>2 DEF Earlier
  <2>3. FilesInSubs'
    BY <1>0, <1>9 DEF WriteData, SlotInv, FilesInSubs
  <2> QED
    BY <1>0, <1>9, <2>2, <2>3 DEF WriteData, SlotInv, CurrentIsLast
<1>10. CASE UNCHANGED vars
  BY <1>0, <1>10 DEF vars, disk, memory, SlotInv, FilesInSubs, CurrentIsLast, Earlier
<1> QED
  BY <1>1, <1>2, <1>3, <1>4, <1>5, <1>6, <1>7, <1>8, <1>9, <1>10 DEF Next, Walk

LEMMA FullInvariant == Spec => []FullInv
<1>1. Init => FullInv
  BY TypeInit, SlotInit DEF FullInv
<1>2. FullInv /\ [Next]_vars => FullInv'
  BY TypeNext, SlotNext DEF FullInv
<1> QED
  BY <1>1, <1>2, PTL DEF Spec

\* No restart ever makes a dump find the file of an object of a known bucket
\* already there (check_integriy.c:533).
LEMMA FreshFile == FullInv => NoStaleSkip
<1> SUFFICES ASSUME FullInv, Next_is("META"), bucket \in Buckets, mode \in DumpModes,
                    ~Full(NextInfo), FileIn(NextInfo) \in metaFiles
             PROVE  FALSE
  BY DEF NoStaleSkip
<1> DEFINE i == info[bucket]
           f == FileIn(NextInfo)
<1>1. CurrentIsLast(bucket) /\ i \in BucketInfo
  BY DEF FullInv, SlotInv, Next_is, TypeInv, TypeOK, Names
<1>2. /\ f[1] = cnt["META"] /\ f[2] = bucket /\ f[3] = NextInfo.dir /\ f[4] = NextInfo.sub
  BY DEF FileIn
<1>3. f[3] \in DirNumber /\ f[4] \in DirNumber /\ <<bucket, f[3], f[4]>> \in subs
  BY <1>2, FileParts DEF FullInv, SlotInv, FilesInSubs
<1>4. ~Before(i.dir, i.sub, f[3], f[4])
  BY <1>1, <1>3 DEF CurrentIsLast
<1>5. SubdirHasRoom(i) /\ f[3] = i.dir /\ f[4] = i.sub
  BY <1>1, <1>2, <1>4, UpdateSlot DEF NextInfo
<1>6. Earlier(f)
  BY <1>1, <1>2, <1>5 DEF CurrentIsLast
<1>7. cnt["META"] \in Nat
  BY DEF FullInv, TypeInv, TypeOK, Counts, MarkerTypes
<1> QED
  BY <1>2, <1>6, <1>7 DEF Earlier, Next_is

\* NoStaleSkip holds of every sequence of runs, listings included.
THEOREM RestartsAreFresh == Spec => []NoStaleSkip
BY FullInvariant, FreshFile, PTL

-----------------------------------------------------------------------------
(* Saved objects *)

\* When the operator dumps and resumes but does not list, every object before
\* the one the walk is at is settled, and every one before the recorded point.
Behind(n) == \A m \in Object : m < n => Settled(m)

SaveInv ==
  /\ mode \in Modes \union {"none"}
  /\ Behind(hist["META"])
  /\ pc # "down" => Behind(cnt["META"])

LEMMA SaveInit == Init => SaveInv
<1> SUFFICES ASSUME Init PROVE SaveInv
  OBVIOUS
<1>1. Behind(hist["META"])
  BY ObjectRange DEF Init, NoHistory, MarkerTypes, Behind
<1> QED
  BY <1>1 DEF Init, Idle, SaveInv

\* What is saved stays saved.
LEMMA FilesKept ==
  ASSUME [Next]_vars
  PROVE  whole \subseteq whole' /\ metaFiles \subseteq metaFiles' /\ dropped \subseteq dropped'
<1>1. CASE StartFullDump \/ StartResumeDump \/ StartOutputList
  BY <1>1 DEF StartFullDump, StartResumeDump, StartOutputList, Start, disk
<1>2. CASE Stop \/ ExitOnMarkerZero \/ DieOnObject \/ Finish
  BY <1>2 DEF Stop, ExitOnMarkerZero, DieOnObject, Finish, disk, observed
<1>3. CASE WalkPr \/ WalkOcm \/ WalkPo \/ CreateHistory \/ RemoveHistory \/ RenameHistory
  BY <1>3
  DEF WalkPr, WalkOcm, WalkPo, CreateHistory, RemoveHistory, RenameHistory, disk, observed
<1>4. CASE ListObject \/ DropObject \/ SkipObject \/ BeginObject
  BY <1>4 DEF ListObject, DropObject, SkipObject, BeginObject, disk, observed
<1>5. CASE MakeDirs \/ WriteMeta \/ WriteData
  BY <1>5 DEF MakeDirs, WriteMeta, WriteData, observed
<1>6. CASE UNCHANGED vars
  BY <1>6 DEF vars, disk, observed
<1> QED
  BY <1>1, <1>2, <1>3, <1>4, <1>5, <1>6 DEF Next, Walk

LEMMA SettledKept ==
  ASSUME [Next]_vars
  PROVE  \A m \in Object : Settled(m) => Settled(m)'
BY FilesKept DEF Settled

LEMMA BehindKept ==
  ASSUME [Next]_vars
  PROVE  /\ Behind(hist["META"]) /\ hist'["META"] = hist["META"] => Behind(hist["META"])'
         /\ Behind(cnt["META"]) /\ hist'["META"] = cnt["META"] => Behind(hist["META"])'
         /\ Behind(cnt["META"]) /\ cnt'["META"] = cnt["META"] => Behind(cnt["META"])'
BY SettledKept DEF Behind

\* Passing an object that is settled.
LEMMA PassObject ==
  ASSUME TypeInv, [Next]_vars, Behind(cnt["META"]), Passed("META"),
         NEW n \in Object, n = cnt["META"], Settled(n)'
  PROVE  Behind(cnt["META"])'
<1>1. cnt["META"] \in Nat /\ cnt'["META"] = cnt["META"] + 1
  BY PassedType DEF TypeInv, TypeOK, MarkerTypes, Counts
<1>2. \A m \in Object : m < cnt["META"] => Settled(m)'
  BY SettledKept DEF Behind
<1>3. \A m \in Object : m < cnt'["META"] => m < cnt["META"] \/ m = n
  BY <1>1, ObjectRange
<1> QED
  BY <1>2, <1>3 DEF Behind

\* A dump passes an object by dropping it, by finding its file under the empty
\* name, or by completing its copy.
LEMMA DumpPasses ==
  ASSUME FullInv, DropObject \/ SkipObject \/ WriteData, Passed("META")
  PROVE  cnt["META"] \in Object /\ \A n : n = cnt["META"] => Settled(n)'
<1>1. CASE DropObject
  <2>1. cnt["META"] \in Object /\ bucket \in Names
    BY <1>1, TakeObjectType DEF DropObject, FullInv
  <2>2. <<cnt["META"], bucket>> \in dropped'
    BY <1>1 DEF DropObject
  <2> QED
    BY <2>1, <2>2 DEF Settled
<1>2. CASE SkipObject
  <2>1. /\ TakeObject /\ Next_is("META") /\ mode \in DumpModes /\ ~Full(NextInfo)
        /\ FileIn(NextInfo) \in metaFiles /\ metaFiles' = metaFiles
    BY <1>2 DEF SkipObject, TakeObject, disk
  <2>2. cnt["META"] \in Object /\ bucket \in Names
    BY <2>1, TakeObjectType DEF FullInv
  <2>3. bucket = NoName
    BY <2>1, <2>2, FreshFile DEF NoStaleSkip, Names
  <2>4. FileIn(NextInfo)[1] = cnt["META"] /\ FileIn(NextInfo)[2] = NoName
    BY <2>3 DEF FileIn
  <2> QED
    BY <2>1, <2>2, <2>4 DEF Settled
<1>3. CASE WriteData
  <2>1. cnt["META"] \in Object /\ cnt["META"] \in Nat
    BY <1>3 DEF WriteData, FullInv, TypeInv, TypeOK, InHand, Counts, MarkerTypes
  <2>2. cnt' # cnt
    BY <2>1, PassedType DEF FullInv, TypeInv, TypeOK, MarkerTypes
  <2>3. ObjectFile \in whole' /\ ObjectFile[1] = cnt["META"]
    BY <1>3, <2>2 DEF WriteData, ObjectFile, FileIn
  <2> QED
    BY <2>1, <2>3 DEF Settled
<1> QED
  BY <1>1, <1>2, <1>3

LEMMA SaveNext ==
  ASSUME "output_list" \notin Modes
  PROVE  FullInv /\ SaveInv /\ [Next]_vars => SaveInv'
<1> SUFFICES ASSUME FullInv, SaveInv, [Next]_vars PROVE SaveInv'
  OBVIOUS
<1>0. TypeInv /\ Behind(hist["META"]) /\ mode \in Modes \union {"none"}
  BY DEF FullInv, SaveInv
<1>1. CASE StartFullDump
  <2>1. hist' = hist /\ cnt' = FirstCounts /\ mode' \in Modes
    BY <1>1 DEF StartFullDump, Start, disk
  <2>2. Behind(cnt["META"])'
    BY <2>1, ObjectRange DEF Behind, FirstCounts, MarkerTypes
  <2> QED
    BY <1>0, <2>1, <2>2, BehindKept DEF SaveInv
<1>2. CASE StartResumeDump
  <2>1. hist' = hist /\ cnt' = hist /\ mode' \in Modes
    BY <1>2 DEF StartResumeDump, Start, disk, get_history
  <2>2. Behind(cnt["META"])'
    BY <1>0, <2>1, SettledKept DEF Behind
  <2> QED
    BY <1>0, <2>1, <2>2, BehindKept DEF SaveInv
<1>3. CASE StartOutputList
  BY <1>3 DEF StartOutputList, Start
<1>4. CASE Stop \/ ExitOnMarkerZero \/ DieOnObject \/ Finish
  <2>1. hist' = hist /\ GoDown
    BY <1>4 DEF Stop, ExitOnMarkerZero, DieOnObject, Finish, disk
  <2> QED
    BY <1>0, <2>1, BehindKept DEF SaveInv, GoDown
<1>5. CASE WalkPr \/ WalkOcm \/ WalkPo \/ RenameHistory \/ MakeDirs \/ WriteMeta
             \/ BeginObject \/ UNCHANGED vars
  <2>1. hist' = hist /\ mode' = mode /\ (pc = "down" => pc' = "down")
    BY <1>5
    DEF WalkPr, WalkOcm, WalkPo, RenameHistory, MakeDirs, WriteMeta, BeginObject,
        TakeObject, Next_is, vars, disk, memory
  <2>2. cnt'["META"] = cnt["META"]
    BY <1>0, <1>5
    DEF WalkPr, WalkOcm, WalkPo, RenameHistory, MakeDirs, WriteMeta, BeginObject, Passed,
        vars, memory, TypeInv, TypeOK, Counts, MarkerTypes
  <2> QED
    BY <1>0, <2>1, <2>2, BehindKept DEF SaveInv
<1>6. CASE CreateHistory
  <2>1. hist' = NoHistory /\ UNCHANGED <<mode, pc, cnt>>
    BY <1>6 DEF CreateHistory, memory
  <2>2. Behind(hist["META"])'
    BY <2>1, ObjectRange DEF Behind, NoHistory, MarkerTypes
  <2> QED
    BY <1>0, <2>1, <2>2, BehindKept DEF SaveInv
<1>7. CASE RemoveHistory
  <2>1. HistoryKeys[field] \in MarkerTypes
    BY <1>0, KeysLength DEF HistoryKeys, MarkerTypes, TypeInv, TypeOK
  <2>2. hist'["META"] = hist["META"] \/ hist'["META"] = cnt["META"]
    BY <1>0, <1>7, <2>1
    DEF RemoveHistory, HistoryEntry, TypeInv, TypeOK, Counts, MarkerTypes
  <2>3. /\ UNCHANGED <<mode, cnt>> /\ pc # "down"
    BY <1>7 DEF RemoveHistory
  <2> QED
    BY <1>0, <2>2, <2>3, BehindKept DEF SaveInv
<1>8. CASE ListObject
  BY <1>0, <1>8 DEF ListObject
<1>9. CASE DropObject \/ SkipObject \/ WriteData
  <2>1. hist' = hist /\ mode' = mode /\ pc # "down"
    BY <1>9 DEF DropObject, SkipObject, WriteData, TakeObject, Next_is, disk
  <2>2. Behind(cnt["META"])
    BY <2>1 DEF SaveInv
  <2>3. CASE cnt' = cnt
    BY <1>0, <2>1, <2>2, <2>3, BehindKept DEF SaveInv
  <2>4. CASE cnt' # cnt
    <3>1. Passed("META")
      BY <1>9, <2>4 DEF DropObject, SkipObject, WriteData
    <3>2. Behind(cnt["META"])'
      BY <1>0, <1>9, <2>2, <3>1, DumpPasses, PassObject
    <3> QED
      BY <1>0, <2>1, <3>2, BehindKept DEF SaveInv
  <2> QED
    BY <2>3, <2>4
<1> QED
  BY <1>1, <1>2, <1>3, <1>4, <1>5, <1>6, <1>7, <1>8, <1>9 DEF Next, Walk

\* If the operator never lists, the point a resume dump would start from is
\* never past an object that is not saved (ResumePointSaved).  The run
\* list_then_resume shows that the hypothesis is needed.
THEOREM ResumeLosesNothing ==
  ASSUME "output_list" \notin Modes
  PROVE  Spec => []ResumePointSaved
<1>1. FullInv /\ SaveInv /\ [Next]_vars => SaveInv'
  BY SaveNext
<1>2. FullInv /\ SaveInv => ResumePointSaved
  BY DEF SaveInv, Behind, ResumePointSaved
<1> QED
  BY <1>1, <1>2, SaveInit, FullInvariant, PTL DEF Spec

\* If the operator never lists, a dump that comes to the end of its walk has
\* saved every object (CompleteDumpSaved).
LEMMA WalkedAll ==
  ASSUME FullInv, SaveInv, pc = "walk", Complete(cnt), ~MoreMarkers(cnt)
  PROVE  \A m \in Object : Settled(m)
<1>1. Behind(cnt["META"])
  BY DEF SaveInv
<1>2. cnt["META"] > Number("META")
  BY NumberType DEF MoreMarkers, MarkerTypes, FullInv, TypeInv, TypeOK, Counts
<1>3. cnt["META"] \in Nat /\ Number("META") \in Nat
  BY NumberType DEF MarkerTypes, FullInv, TypeInv, TypeOK, Counts
<1> QED
  BY <1>1, <1>2, <1>3, ObjectRange DEF Behind

THEOREM CompleteMeansSaved ==
  ASSUME "output_list" \notin Modes
  PROVE  Spec => []CompleteDumpSaved
<1>1. FullInv /\ SaveInv /\ [Next]_vars => SaveInv'
  BY SaveNext
<1>2. FullInv /\ SaveInv => CompleteDumpSaved
  BY WalkedAll DEF CompleteDumpSaved
<1> QED
  BY <1>1, <1>2, SaveInit, FullInvariant, PTL DEF Spec

-----------------------------------------------------------------------------
(* Refinement *)

LEMMA PromiseInit == Init => Promised!PromiseInit
<1> SUFFICES ASSUME Init PROVE Promised!PromiseInit
  OBVIOUS
<1>1. Saved = {}
  BY DEF Init, Saved, Settled
<1> QED
  BY <1>1 DEF Init, NoHistory, MarkerTypes, Promised!PromiseInit

LEMMA PromiseNext ==
  ASSUME "output_list" \notin Modes
  PROVE  FullInv /\ SaveInv /\ [Next]_vars => [Promised!PromiseNext]_(Promised!promised)
<1> SUFFICES ASSUME FullInv, SaveInv, [Next]_vars
             PROVE  [Promised!PromiseNext]_(Promised!promised)
  OBVIOUS
<1>0. TypeInv /\ Behind(hist["META"]) /\ mode \in Modes \union {"none"}
  BY DEF FullInv, SaveInv
<1>1. ASSUME UNCHANGED <<metaFiles, whole, dropped>> PROVE Saved' = Saved
  BY <1>1 DEF Saved, Settled
<1>2. CASE StartFullDump \/ StartResumeDump \/ StartOutputList \/ Stop \/ ExitOnMarkerZero
             \/ DieOnObject \/ WalkPr \/ WalkOcm \/ WalkPo \/ RenameHistory \/ MakeDirs
             \/ ListObject \/ SkipObject \/ BeginObject \/ UNCHANGED vars
  <2>1. UNCHANGED <<hist, metaFiles, whole, dropped, backup>>
    BY <1>2
    DEF StartFullDump, StartResumeDump, StartOutputList, Start, Stop, ExitOnMarkerZero,
        DieOnObject, WalkPr, WalkOcm, WalkPo, RenameHistory, MakeDirs, ListObject,
        SkipObject, BeginObject, vars, disk, observed
  <2> QED
    BY <1>1, <2>1 DEF Promised!promised
<1>3. CASE CreateHistory \/ RemoveHistory
  <2>1. UNCHANGED <<metaFiles, whole, dropped, backup>>
    BY <1>3 DEF CreateHistory, RemoveHistory, observed
  <2>2. SaveInv' /\ TypeInv'
    BY SaveNext, TypeNext DEF FullInv
  <2>3. hist'["META"] \in Nat
    BY <2>2 DEF TypeInv, TypeOK, Counts, MarkerTypes
  <2>4. \A m \in Object : m < hist'["META"] => m \in Saved'
    BY <2>2 DEF SaveInv, Behind, Saved
  <2>5. Saved' = Saved
    BY <1>1, <2>1
  <2> QED
    BY <2>1, <2>3, <2>4, <2>5 DEF Promised!PromiseNext, Promised!RecordPoint
<1>4. CASE DropObject \/ WriteMeta \/ WriteData
  <2>1. UNCHANGED <<hist, backup>>
    BY <1>4 DEF DropObject, WriteMeta, WriteData, disk
  <2>2. cnt["META"] \in Object
    BY <1>0, <1>4, TakeObjectType DEF DropObject, WriteMeta, WriteData, TypeInv, InHand
  <2>3. Saved' \in {Saved, Saved \union {cnt["META"]}}
    <3>1. /\ \A f \in whole' : f \in whole \/ f[1] = cnt["META"]
          /\ \A f \in metaFiles' : f \in metaFiles \/ f[1] = cnt["META"]
          /\ \A d \in dropped' : d \in dropped \/ d[1] = cnt["META"]
      BY <1>4 DEF DropObject, WriteMeta, WriteData, disk, observed, ObjectFile, FileIn
    <3>2. \A m \in Object : Settled(m)' => Settled(m) \/ m = cnt["META"]
      BY <3>1 DEF Settled
    <3>3. \A m \in Object : Settled(m) => Settled(m)'
      BY SettledKept
    <3>4. Saved \subseteq Saved' /\ Saved' \subseteq Saved \union {cnt["META"]}
      BY <3>2, <3>3 DEF Saved
    <3> QED
      BY <3>4
  <2> QED
    BY <2>1, <2>2, <2>3
    DEF Promised!PromiseNext, Promised!SaveObject, Promised!promised
<1>5. CASE Finish
  <2>1. UNCHANGED <<hist, metaFiles, whole, dropped>> /\ backup' \in {TRUE, backup}
    BY <1>0, <1>5 DEF Finish, observed, TypeInv, TypeOK
  <2>2. Object \subseteq Saved
    BY <1>5, WalkedAll DEF Finish, Saved
  <2>3. Saved' = Saved
    BY <1>1, <2>1
  <2> QED
    BY <2>1, <2>2, <2>3
    DEF Promised!PromiseNext, Promised!CompleteDump, Promised!promised
<1> QED
  BY <1>2, <1>3, <1>4, <1>5 DEF Next, Walk

\* If the operator never lists, the dumps keep the promise of DumpPromise.
THEOREM DumpKeepsPromise ==
  ASSUME "output_list" \notin Modes
  PROVE  Spec => KeepsPromise
<1>1. FullInv /\ SaveInv /\ [Next]_vars => SaveInv'
  BY SaveNext
<1>2. FullInv /\ SaveInv /\ [Next]_vars => [Promised!PromiseNext]_(Promised!promised)
  BY PromiseNext
<1> QED
  BY <1>1, <1>2, SaveInit, PromiseInit, FullInvariant, PTL
  DEF Spec, KeepsPromise, Promised!Promise

-----------------------------------------------------------------------------
(* Full buckets *)

\* While a dump runs the subdirectory a bucket is at exists, once an object has been
\* counted in it; or it is the one that is about to be made.  A full bucket has its
\* last subdirectory.
Held(b) ==
  LET i == info[b]
  IN  /\ i.counter = 0 => ~Full(i)
      /\ i.counter > 0 =>
           IF Full(i) THEN <<b, MaxSave, MaxSave>> \in subs
           ELSE <<b, i.dir, i.sub>> \in subs \/ (pc = "mkdir" /\ b = bucket)

HeldInv ==
  /\ DroppedOnlyWhenFull
  /\ mode \in DumpModes => \A b \in Names : Held(b)

LEMMA InitializeHeld ==
  ASSUME NEW b, NEW S
  PROVE  LET i == initialize_bucket_info(b, S)
         IN  /\ ~Full(i) /\ (i.counter > 0 => <<b, i.dir, i.sub>> \in S)
<1>1. CASE UsedDirs(b, S) = {}
  BY <1>1, MaxSaveAssumption DEF initialize_bucket_info, NoInfo, Full
<1>2. CASE UsedDirs(b, S) # {}
  <2> DEFINE d0 == Max(UsedDirs(b, S))
             s0 == Max(UsedSubs(b, d0, S))
  <2>1. MaxSave \in Nat /\ UsedDirs(b, S) \in SUBSET (0..MaxSave)
    BY MaxSaveAssumption DEF UsedDirs, DirNumber
  <2>2. d0 \in UsedDirs(b, S)
    BY <1>2, <2>1, MaxOfNaturals
  <2>3. UsedSubs(b, d0, S) \in SUBSET (0..MaxSave) /\ UsedSubs(b, d0, S) # {}
    <3> HIDE DEF d0
    <3>1. \E s \in DirNumber : <<b, d0, s>> \in S
      BY <2>2 DEF UsedDirs
    <3> QED
      BY <2>1, <3>1 DEF UsedSubs, DirNumber
  <2>4. s0 \in UsedSubs(b, d0, S)
    <3> HIDE DEF d0
    <3> QED
      BY <2>1, <2>3, MaxOfNaturals
  <2>5. d0 \in DirNumber /\ <<b, d0, s0>> \in S
    BY <2>2, <2>4 DEF UsedDirs, UsedSubs
  <2>6. initialize_bucket_info(b, S) = [counter |-> MaxSave, dir |-> d0, sub |-> s0]
    BY <1>2 DEF initialize_bucket_info
  <2> HIDE DEF d0, s0
  <2> QED
    BY <2>1, <2>5, <2>6 DEF Full, DirNumber
<1> QED
  BY <1>1, <1>2

\* The next object goes where the last one went, to a subdirectory that has to be
\* made, or nowhere because the last subdirectory is there.
LEMMA TakeHeld ==
  ASSUME NEW i \in BucketInfo, NEW b, NEW S,
         i.counter = 0 => ~Full(i),
         i.counter > 0 => <<b, IF Full(i) THEN MaxSave ELSE i.dir, IF Full(i) THEN MaxSave ELSE i.sub>> \in S
  PROVE  LET u == update_bucket_info(i)
         IN  /\ u.counter > 0
             /\ Full(u) => <<b, MaxSave, MaxSave>> \in S
<1>1. MaxSave \in Nat /\ MaxSave > 0
  BY MaxSaveAssumption
<1>2. i.counter \in Nat /\ i.dir \in 0..(MaxSave + 1) /\ i.sub \in 0..MaxSave
  BY <1>1 DEF BucketInfo
<1> QED
  BY <1>1, <1>2 DEF update_bucket_info, SubdirHasRoom, DirHasRoom, BucketHasRoom, BucketInfo, Full

LEMMA SameHeld ==
  ASSUME HeldInv, pc # "mkdir", mode' \in DumpModes => mode' = mode,
         UNCHANGED <<subs, info, dropped>>
  PROVE  HeldInv'
BY DEF HeldInv, Held, DroppedOnlyWhenFull

LEMMA HeldNext == FullInv /\ HeldInv /\ [Next]_vars => HeldInv'
<1> SUFFICES ASSUME FullInv, HeldInv, [Next]_vars PROVE HeldInv'
  OBVIOUS
<1>0. TypeInv /\ SlotInv /\ info \in [Names -> BucketInfo]
  BY DEF FullInv, TypeInv, TypeOK
<1>1. CASE StartFullDump \/ StartOutputList \/ StartResumeDump
  <2>1. info' = StartInfo /\ UNCHANGED <<subs, dropped>>
    BY <1>1 DEF StartFullDump, StartOutputList, StartResumeDump, Start, disk
  <2>2. ASSUME NEW b \in Names PROVE Held(b)'
    <3>1. info'[b] = NoInfo \/ info'[b] = initialize_bucket_info(b, subs)
      BY <2>1 DEF StartInfo
    <3>2. ~Full(NoInfo) /\ NoInfo.counter = 0
      BY MaxSaveAssumption DEF NoInfo, Full
    <3> QED
      BY <2>1, <3>1, <3>2, InitializeHeld DEF Held
  <2> QED
    BY <2>1, <2>2 DEF HeldInv, DroppedOnlyWhenFull
<1>2. CASE Stop \/ ExitOnMarkerZero \/ DieOnObject \/ Finish
  <2>1. mode' = "none" /\ UNCHANGED <<subs, dropped>>
    BY <1>2 DEF Stop, ExitOnMarkerZero, DieOnObject, Finish, GoDown, disk, observed
  <2> QED
    BY <2>1 DEF HeldInv, DroppedOnlyWhenFull, DumpModes
<1>3. CASE WalkPr \/ WalkOcm
  BY <1>3, SameHeld DEF WalkPr, WalkOcm, Next_is, disk, observed
<1>4. CASE CreateHistory \/ RemoveHistory \/ RenameHistory
  BY <1>4, SameHeld DEF CreateHistory, RemoveHistory, RenameHistory, memory, observed
<1>5. CASE WalkPo
  <2> DEFINE n == BucketRead(HeadAt("PO"))
  <2>1. /\ pc = "walk" /\ UNCHANGED <<subs, dropped, mode>>
        /\ info' = info \/ info' = [info EXCEPT ![n] = add_bucket_info(@)]
    BY <1>5 DEF WalkPo, Next_is, disk, observed
  <2> HIDE DEF n
  <2>2. ASSUME NEW b \in Names, Held(b) PROVE Held(b)'
    <3>1. info'[b] = info[b] \/ info'[b] = add_bucket_info(info[b])
      BY <1>0, <2>1
    <3>2. info'[b] = info[b] \/ info'[b] = FirstInfo
      BY <3>1 DEF add_bucket_info
    <3>3. FirstInfo.counter = 0 /\ ~Full(FirstInfo)
      BY MaxSaveAssumption DEF FirstInfo, Full
    <3> QED
      BY <2>1, <2>2, <3>2, <3>3 DEF Held
  <2> QED
    BY <2>1, <2>2 DEF HeldInv, DroppedOnlyWhenFull
<1>6. CASE ListObject
  BY <1>6 DEF ListObject, HeldInv, DroppedOnlyWhenFull, DumpModes, disk, observed
<1>7. CASE DropObject \/ SkipObject \/ BeginObject
  <2>1. /\ TakeObject /\ pc = "walk" /\ mode \in DumpModes /\ UNCHANGED <<subs, mode, bucket>>
        /\ bucket \in Names /\ NextInfo \in BucketInfo
        /\ info' = [info EXCEPT ![bucket] = NextInfo]
    BY <1>0, <1>7, TakeObjectType DEF DropObject, SkipObject, BeginObject, TakeObject, Next_is, disk
  <2>2. Held(bucket)
    BY <2>1 DEF HeldInv
  <2>3. NextInfo.counter > 0 /\ (Full(NextInfo) => <<bucket, MaxSave, MaxSave>> \in subs)
    BY <1>0, <2>1, <2>2, TakeHeld DEF NextInfo, Held
  <2>4. ASSUME NEW b \in Names, b # bucket PROVE Held(b)'
    <3>1. Held(b) /\ info'[b] = info[b]
      BY <1>0, <2>1, <2>4 DEF HeldInv
    <3> QED
      BY <2>1, <2>4, <3>1 DEF Held
  <2>5. info'[bucket] = NextInfo
    BY <1>0, <2>1
  <2>6. CASE DropObject
    <3>1. Full(NextInfo) /\ dropped' = dropped \union {<<cnt["META"], bucket>>}
      BY <2>6 DEF DropObject
    <3>2. Held(bucket)'
      BY <2>1, <2>3, <2>5, <3>1 DEF Held
    <3>3. DroppedOnlyWhenFull'
      BY <2>1, <2>3, <3>1 DEF HeldInv, DroppedOnlyWhenFull
    <3> QED
      BY <2>1, <2>4, <3>2, <3>3 DEF HeldInv
  <2>7. CASE SkipObject
    <3>1. FileIn(NextInfo) \in metaFiles /\ ~Full(NextInfo) /\ UNCHANGED dropped
      BY <2>7 DEF SkipObject, observed
    <3>2. <<bucket, NextInfo.dir, NextInfo.sub>> \in subs
      BY <1>0, <3>1 DEF SlotInv, FilesInSubs, FileIn
    <3>3. Held(bucket)'
      BY <2>1, <2>3, <2>5, <3>1, <3>2 DEF Held
    <3> QED
      BY <2>1, <2>4, <3>1, <3>3 DEF HeldInv, DroppedOnlyWhenFull
  <2>8. CASE BeginObject
    <3>1. pc' = "mkdir" /\ ~Full(NextInfo) /\ UNCHANGED dropped
      BY <2>8 DEF BeginObject, observed
    <3>2. Held(bucket)'
      BY <2>1, <2>3, <2>5, <3>1 DEF Held
    <3> QED
      BY <2>1, <2>4, <3>1, <3>2 DEF HeldInv, DroppedOnlyWhenFull
  <2> QED
    BY <1>7, <2>6, <2>7, <2>8
<1>8. CASE MakeDirs
  BY <1>8 DEF MakeDirs, HeldInv, Held, DroppedOnlyWhenFull, observed
<1>9. CASE WriteMeta \/ WriteData
  BY <1>9, SameHeld DEF WriteMeta, WriteData, observed
<1>10. CASE UNCHANGED vars
  BY <1>10 DEF vars, disk, memory, observed, HeldInv, Held, DroppedOnlyWhenFull
<1> QED
  BY <1>1, <1>2, <1>3, <1>4, <1>5, <1>6, <1>7, <1>8, <1>9, <1>10 DEF Next, Walk

\* "The number of directories has reached the limit" is only ever said of a bucket
\* whose last subdirectory is in use, in whatever run that was made.
THEOREM DroppedWhenFull == Spec => []DroppedOnlyWhenFull
<1>1. Init => HeldInv
  BY DEF Init, Idle, HeldInv, DroppedOnlyWhenFull, DumpModes
<1>2. HeldInv => DroppedOnlyWhenFull
  BY DEF HeldInv
<1> QED
  BY <1>1, <1>2, HeldNext, FullInvariant, PTL DEF Spec

-----------------------------------------------------------------------------
(* Files of a subdirectory *)

InSlot(b, d, s) == {f \in metaFiles : <<f[2], f[3], f[4]>> = <<b, d, s>>}
Count(b, d, s)  == Cardinality(InSlot(b, d, s))

\* An object that is counted but not yet written.
Pending(b) == IF pc \in {"mkdir", "meta"} /\ b = bucket THEN 1 ELSE 0

\* No subdirectory has more than MaxSave files; the one a bucket is at has no more
\* than are counted.
CountInv ==
  /\ IsFiniteSet(metaFiles)
  /\ SubdirCapacity
  /\ pc # "down" =>
       \A b \in Buckets :
         info[b].dir \in DirNumber /\ info[b].sub \in DirNumber =>
           Count(b, info[b].dir, info[b].sub) + Pending(b) <= info[b].counter

LEMMA CountType ==
  ASSUME IsFiniteSet(metaFiles), NEW b, NEW d, NEW s
  PROVE  Count(b, d, s) \in Nat /\ IsFiniteSet(InSlot(b, d, s))
<1>1. InSlot(b, d, s) \subseteq metaFiles
  BY DEF InSlot
<1>2. IsFiniteSet(InSlot(b, d, s))
  BY <1>1, FS_Subset
<1> QED
  BY <1>2, FS_CardinalityType DEF Count

LEMMA NoFilesNoCount ==
  ASSUME NEW b, NEW d, NEW s, \A f \in metaFiles : <<f[2], f[3], f[4]>> # <<b, d, s>>
  PROVE  Count(b, d, s) = 0
<1>1. InSlot(b, d, s) = {}
  BY DEF InSlot
<1> QED
  BY <1>1, FS_EmptySet DEF Count

\* A step of a process that makes no file and leaves a bucket's record and what is
\* pending for it.
LEMMA SameCount ==
  ASSUME CountInv, pc # "down", UNCHANGED <<metaFiles, info>>,
         \A b \in Buckets : Pending(b)' = Pending(b)
  PROVE  CountInv'
BY DEF CountInv, SubdirCapacity, Count, InSlot

LEMMA StartCount ==
  ASSUME CountInv, info' = StartInfo, pc' = "walk", UNCHANGED metaFiles
  PROVE  CountInv'
<1>1. ASSUME NEW b \in Buckets, info'[b].dir \in DirNumber, info'[b].sub \in DirNumber
      PROVE  Count(b, info'[b].dir, info'[b].sub) + Pending(b)' <= info'[b].counter
  <2>1. info'[b] = initialize_bucket_info(b, subs)
    BY NamesAssumption DEF StartInfo, Names
  <2>2. info'[b] # NoInfo /\ info'[b] \in BucketInfo
    BY <1>1, <2>1, InitializeInfo DEF NoInfo, DirNumber
  <2>3. info'[b].counter >= MaxSave
    BY <2>1, <2>2, InitializeInfo, MaxSaveAssumption DEF SubdirHasRoom, BucketInfo
  <2>4. Count(b, info'[b].dir, info'[b].sub) <= MaxSave
    BY <1>1 DEF CountInv, SubdirCapacity, Count, InSlot
  <2>5. Count(b, info'[b].dir, info'[b].sub) \in Nat /\ Pending(b)' = 0
    BY CountType DEF CountInv, Pending
  <2> QED
    BY <2>2, <2>3, <2>4, <2>5, MaxSaveAssumption DEF BucketInfo
<1> QED
  BY <1>1 DEF CountInv, SubdirCapacity, Count, InSlot

\* Taking an object counts it where the others of its subdirectory are, or in a
\* subdirectory that has no files.
LEMMA TakeCount ==
  ASSUME FullInv, CountInv, TakeObject, pc = "walk", UNCHANGED <<metaFiles, bucket>>,
         pc' \in {"walk", "mkdir"}
  PROVE  CountInv'
<1> DEFINE i == info[bucket]
           u == update_bucket_info(i)
<1>0. /\ bucket \in Names /\ i \in BucketInfo /\ info' = [info EXCEPT ![bucket] = u]
      /\ info'[bucket] = u /\ TypeInv /\ SlotInv
  BY TakeObjectType DEF FullInv, TypeInv, TypeOK, TakeObject, NextInfo
<1>1. ASSUME NEW b \in Buckets, info'[b].dir \in DirNumber, info'[b].sub \in DirNumber
      PROVE  Count(b, info'[b].dir, info'[b].sub) + Pending(b)' <= info'[b].counter
  <2>1. /\ info[b].dir \in DirNumber /\ info[b].sub \in DirNumber
             => Count(b, info[b].dir, info[b].sub) + Pending(b) <= info[b].counter
        /\ Pending(b) = 0 /\ Pending(b)' \in {0, 1}
    BY DEF CountInv, Pending
  <2>2. CASE b # bucket
    <3>1. info'[b] = info[b] /\ Pending(b)' = 0
      BY <1>0, <2>2 DEF Pending, Names
    <3> QED
      BY <1>1, <2>1, <3>1
  <2>3. CASE b = bucket
    <3> HIDE DEF u
    <3>1. CASE SubdirHasRoom(i)
      <4>1. u.dir = i.dir /\ u.sub = i.sub /\ u.counter = i.counter + 1 /\ i.counter \in Nat
        BY <1>0, <3>1, MaxSaveAssumption DEF update_bucket_info, BucketInfo, u
      <4>2. Count(b, i.dir, i.sub) + 0 <= i.counter /\ Count(b, i.dir, i.sub) \in Nat
        BY <1>0, <1>1, <2>1, <2>3, <4>1, CountType DEF CountInv
      <4> QED
        BY <1>0, <2>1, <2>3, <4>1, <4>2
    <3>2. CASE ~SubdirHasRoom(i)
      <4>1. u.dir \in DirNumber /\ u.sub \in DirNumber
        BY <1>0, <1>1, <2>3
      <4>2. Before(i.dir, i.sub, u.dir, u.sub) /\ u.counter >= 1 /\ u.counter \in Nat
        BY <1>0, <3>2, <4>1, MaxSaveAssumption
        DEF update_bucket_info, DirHasRoom, BucketHasRoom, BucketInfo, Before, DirNumber, u
      <4>3. CurrentIsLast(b)
        BY <1>0 DEF SlotInv
      <4>4. <<b, u.dir, u.sub>> \notin subs
        BY <2>3, <4>1, <4>2, <4>3 DEF CurrentIsLast
      <4>5. \A f \in metaFiles : <<f[2], f[3], f[4]>> # <<b, u.dir, u.sub>>
        BY <1>0, <4>4 DEF SlotInv, FilesInSubs
      <4>6. Count(b, u.dir, u.sub) = 0
        BY <4>5, NoFilesNoCount
      <4> QED
        BY <1>0, <2>1, <2>3, <4>2, <4>6
    <3> QED
      BY <3>1, <3>2
  <2> QED
    BY <2>2, <2>3
<1> QED
  BY <1>1 DEF CountInv, SubdirCapacity, Count, InSlot

LEMMA CountNext == FullInv /\ CountInv /\ [Next]_vars => CountInv'
<1> SUFFICES ASSUME FullInv, CountInv, [Next]_vars PROVE CountInv'
  OBVIOUS
<1>0. TypeInv /\ SlotInv /\ info \in [Names -> BucketInfo]
  BY DEF FullInv, TypeInv, TypeOK
<1>1. CASE StartFullDump \/ StartOutputList \/ StartResumeDump
  BY <1>1, StartCount DEF StartFullDump, StartOutputList, StartResumeDump, Start, disk
<1>2. CASE Stop \/ ExitOnMarkerZero \/ DieOnObject \/ Finish
  <2>1. pc' = "down" /\ UNCHANGED metaFiles
    BY <1>2 DEF Stop, ExitOnMarkerZero, DieOnObject, Finish, GoDown, disk
  <2> QED
    BY <2>1 DEF CountInv, SubdirCapacity
<1>3. CASE WalkPr \/ WalkOcm
  BY <1>3, SameCount DEF WalkPr, WalkOcm, Next_is, disk, Pending
<1>4. CASE CreateHistory \/ RemoveHistory \/ RenameHistory
  BY <1>4, SameCount DEF CreateHistory, RemoveHistory, RenameHistory, memory, Pending
<1>5. CASE WalkPo
  <2> DEFINE n == BucketRead(HeadAt("PO"))
  <2>1. /\ pc = "walk" /\ pc' \in {"walk", "history"} /\ UNCHANGED <<subs, metaFiles>>
        /\ info' = info \/ info' = [info EXCEPT ![n] = add_bucket_info(@)]
    BY <1>5 DEF WalkPo, Next_is, disk
  <2> HIDE DEF n
  <2>2. ASSUME NEW b \in Buckets, info'[b].dir \in DirNumber, info'[b].sub \in DirNumber
        PROVE  Count(b, info'[b].dir, info'[b].sub) + Pending(b)' <= info'[b].counter
    <3>1. Pending(b) = 0 /\ Pending(b)' = 0
      BY <2>1 DEF Pending
    <3>2. CASE info'[b] = info[b]
      BY <2>1, <2>2, <3>1, <3>2 DEF CountInv
    <3>3. CASE info'[b] # info[b]
      <4>1. info[b] = NoInfo /\ info'[b] = FirstInfo
        BY <1>0, <2>1, <3>3 DEF add_bucket_info, Names
      <4>2. CurrentIsLast(b)
        BY <1>0, <2>1 DEF SlotInv
      <4>3. \A f \in metaFiles : f[2] # b
        BY <1>0, <4>1, <4>2, FileParts DEF SlotInv, FilesInSubs, CurrentIsLast
      <4>4. Count(b, info'[b].dir, info'[b].sub) = 0
        BY <4>3, NoFilesNoCount
      <4> QED
        BY <3>1, <4>1, <4>4 DEF FirstInfo
    <3> QED
      BY <3>2, <3>3
  <2> QED
    BY <2>1, <2>2 DEF CountInv, SubdirCapacity, Count, InSlot
<1>6. CASE ListObject \/ DropObject \/ SkipObject \/ BeginObject
  <2>1. TakeObject /\ pc = "walk" /\ pc' \in {"walk", "mkdir"} /\ UNCHANGED <<metaFiles, bucket>>
    BY <1>6 DEF ListObject, DropObject, SkipObject, BeginObject, TakeObject, Next_is, disk
  <2> QED
    BY <2>1, TakeCount
<1>7. CASE MakeDirs
  BY <1>7, SameCount DEF MakeDirs, Pending
<1>8. CASE WriteMeta
  <2>1. /\ pc = "meta" /\ pc' = "data" /\ metaFiles' = metaFiles \union {ObjectFile}
        /\ UNCHANGED <<bucket, info>>
    BY <1>8 DEF WriteMeta
  <2>2. IsFiniteSet(metaFiles')
    BY <2>1, FS_AddElement DEF CountInv
  <2>3. ASSUME NEW b \in Buckets, NEW d \in DirNumber, NEW s \in DirNumber
        PROVE  /\ Count(b, d, s)' \in Nat
               /\ IF <<b, d, s>> = <<bucket, info[bucket].dir, info[bucket].sub>>
                  THEN Count(b, d, s)' <= Count(b, d, s) + 1
                  ELSE Count(b, d, s)' = Count(b, d, s)
    <3>1. /\ IsFiniteSet(InSlot(b, d, s)) /\ Count(b, d, s) \in Nat
      BY CountType DEF CountInv
    <3>2. InSlot(b, d, s)' = InSlot(b, d, s)
            \union (IF <<b, d, s>> = <<bucket, info[bucket].dir, info[bucket].sub>> THEN {ObjectFile} ELSE {})
      BY <2>1 DEF InSlot, ObjectFile, FileIn
    <3>3. CASE <<b, d, s>> = <<bucket, info[bucket].dir, info[bucket].sub>>
      <4>1. InSlot(b, d, s)' = InSlot(b, d, s) \union {ObjectFile}
        BY <3>2, <3>3
      <4>2. Cardinality(InSlot(b, d, s)') = Cardinality(InSlot(b, d, s))
            \/ Cardinality(InSlot(b, d, s)') = Cardinality(InSlot(b, d, s)) + 1
        BY <3>1, <4>1, FS_AddElement
      <4> QED
        BY <3>1, <3>3, <4>2 DEF Count
    <3>4. CASE <<b, d, s>> # <<bucket, info[bucket].dir, info[bucket].sub>>
      <4>1. InSlot(b, d, s)' = InSlot(b, d, s)
        BY <3>2, <3>4
      <4> QED
        BY <3>1, <3>4, <4>1 DEF Count
    <3> QED
      BY <3>3, <3>4
  <2>4. ASSUME NEW b \in Buckets, info[b].dir \in DirNumber, info[b].sub \in DirNumber
        PROVE  Count(b, info[b].dir, info[b].sub)' + Pending(b)' <= info[b].counter
    <3>1. /\ Count(b, info[b].dir, info[b].sub) + Pending(b) <= info[b].counter
          /\ Pending(b) = (IF b = bucket THEN 1 ELSE 0) /\ Pending(b)' = 0
      BY <2>1, <2>4 DEF CountInv, Pending
    <3>2. /\ Count(b, info[b].dir, info[b].sub) \in Nat
          /\ Count(b, info[b].dir, info[b].sub)' \in Nat
          /\ info[b].counter \in Nat
      <4>1. b \in Names
        BY DEF Names
      <4> QED
        BY <1>0, <2>1, <2>3, <2>4, <4>1, CountType, MaxSaveAssumption DEF CountInv, BucketInfo
    <3>3. IF b = bucket THEN Count(b, info[b].dir, info[b].sub)' <= Count(b, info[b].dir, info[b].sub) + 1
          ELSE Count(b, info[b].dir, info[b].sub)' = Count(b, info[b].dir, info[b].sub)
      BY <2>1, <2>3, <2>4
    <3> QED
      BY <3>1, <3>2, <3>3
  <2>5. ASSUME NEW b \in Buckets, NEW d \in DirNumber, NEW s \in DirNumber
        PROVE  Count(b, d, s)' <= MaxSave
    <3>1. CASE <<b, d, s>> = <<bucket, info[bucket].dir, info[bucket].sub>>
      <4>1. Count(b, d, s)' + Pending(b)' <= info[b].counter
        BY <2>1, <2>4, <3>1
      <4>2. Pending(b)' = 0 /\ Count(b, d, s)' \in Nat
        BY <2>1, <2>3 DEF Pending
      <4>3. info[b].counter <= MaxSave /\ info[b].counter \in Nat /\ MaxSave \in Nat
        <5>1. b \in Names
          BY DEF Names
        <5> QED
          BY <1>0, <5>1, MaxSaveAssumption DEF BucketInfo
      <4> QED
        BY <4>1, <4>2, <4>3
    <3>2. CASE <<b, d, s>> # <<bucket, info[bucket].dir, info[bucket].sub>>
      <4>1. Count(b, d, s)' = Count(b, d, s)
        BY <2>3, <3>2
      <4>2. Count(b, d, s) <= MaxSave
        BY DEF CountInv, SubdirCapacity, Count, InSlot
      <4> QED
        BY <4>1, <4>2
    <3> QED
      BY <3>1, <3>2
  <2> QED
    BY <2>1, <2>2, <2>4, <2>5 DEF CountInv, SubdirCapacity, Count, InSlot
<1>9. CASE WriteData
  BY <1>9, SameCount DEF WriteData, Pending
<1>10. CASE UNCHANGED vars
  BY <1>10 DEF vars, disk, memory, CountInv, SubdirCapacity, Count, InSlot, Pending
<1> QED
  BY <1>1, <1>2, <1>3, <1>4, <1>5, <1>6, <1>7, <1>8, <1>9, <1>10 DEF Next, Walk

\* No subdirectory ever has more than MaxSave objects, whatever runs have written into
\* its bucket and wherever they were stopped.
THEOREM SubdirsKeepCapacity == Spec => []SubdirCapacity
<1>1. Init => CountInv
  <2> SUFFICES ASSUME Init PROVE CountInv
    OBVIOUS
  <2>1. metaFiles = {} /\ pc = "down"
    BY DEF Init, Idle
  <2>2. \A b, d, s : Count(b, d, s) = 0
    BY <2>1, NoFilesNoCount
  <2> QED
    BY <2>1, <2>2, FS_EmptySet, MaxSaveAssumption DEF CountInv, SubdirCapacity, Count, InSlot
<1>2. CountInv => SubdirCapacity
  BY DEF CountInv
<1> QED
  BY <1>1, <1>2, CountNext, FullInvariant, PTL DEF Spec
-----------------------------------------------------------------------------
(* The order of the walk *)

\* On a tape in the format, what the walk has passed comes before what it has not.
InOrder(c) ==
  \A t, u \in MarkerTypes : \A i \in 1..Number(t), j \in 1..Number(u) :
    i < c[t] /\ j >= c[u] => Precedes(t, i, u, j)

\* InFormat, part by part.
LEMMA Layout ==
  ASSUME InFormat
  PROVE  /\ \A t \in MarkerTypes \ {"META"} : \A i, j \in 1..Number(t) :
              i < j => Address[t][i] < Address[t][j]
         /\ \A i, j \in 1..Number("META") : i < j => DataEnd[i] <= Address["META"][j]
         /\ \A t, u \in MarkerTypes : \A i \in 1..Number(t), j \in 1..Number(u) :
              Address[t][i] = Address[u][j] => t = u \/ {t, u} = {"PO", "META"}
         /\ \A m \in 1..Number("META") : DataEnd[m] \in Nat /\ Address["META"][m] <= DataEnd[m]
<1>1. \A t \in MarkerTypes : \A i, j \in 1..Number(t) :
        i < j => IF t = "META" THEN DataEnd[i] <= Address[t][j] ELSE Address[t][i] < Address[t][j]
  BY DEF InFormat
<1>2. \A t, u \in MarkerTypes : \A i \in 1..Number(t), j \in 1..Number(u) :
        Address[t][i] = Address[u][j] => t = u \/ {t, u} = {"PO", "META"}
  BY DEF InFormat
<1>3. \A m \in 1..Number("META") : DataEnd[m] \in Nat /\ Address["META"][m] <= DataEnd[m]
  BY TapeAssumption, ObjectRange, DataEndType
<1>4. "META" \in MarkerTypes
  BY DEF MarkerTypes
<1> QED
  BY <1>1, <1>2, <1>3, <1>4

LEMMA SameTypeOrder ==
  ASSUME InFormat, NEW t \in MarkerTypes, NEW i \in 1..Number(t), NEW j \in 1..Number(t)
  PROVE  /\ i < j => Address[t][i] <= Address[t][j] /\ Precedes(t, i, t, j)
         /\ Precedes(t, i, t, j) => i < j
<1>1. Address[t][i] \in Nat /\ Address[t][j] \in Nat /\ Number(t) \in Nat
  BY AddressType, NumberType
<1>2. CASE t = "META"
  BY <1>1, <1>2, Layout DEF Precedes
<1>3. CASE t # "META"
  BY <1>1, <1>3, Layout DEF Precedes
<1> QED
  BY <1>2, <1>3

\* Precedes is an order.
LEMMA OnlyOneFirst ==
  ASSUME InFormat, NEW t \in MarkerTypes, NEW u \in MarkerTypes,
         NEW i \in 1..Number(t), NEW j \in 1..Number(u), Precedes(t, i, u, j)
  PROVE  ~Precedes(u, j, t, i) /\ Address[t][i] <= Address[u][j]
<1>1. Address[t][i] \in Nat /\ Address[u][j] \in Nat /\ i \in Nat /\ j \in Nat
  BY AddressType, NumberType
<1> QED
  BY <1>1 DEF Precedes

\* The marker that get_next_marker chooses comes before all others that are left.
LEMMA NextIsFirst ==
  ASSUME InFormat, NEW c \in Counts, Complete(c), MoreMarkers(c),
         NEW u \in MarkerTypes, NEW j \in 1..Number(u), j >= c[u],
         <<u, j>> # <<get_next_marker(c), c[get_next_marker(c)]>>
  PROVE  Precedes(get_next_marker(c), c[get_next_marker(c)], u, j)
<1> DEFINE n == get_next_marker(c)
           a(t) == AddressOf(t, c[t])
<1>1. n \in MarkerTypes /\ c[n] \in 1..Number(n)
  BY NextMarkerInRange
<1>2. a(n) = Address[n][c[n]] /\ \A t \in MarkerTypes : a(t) \in Nat
  BY <1>1, AddressOfType DEF AddressOf, Counts
<1>3. CASE u = n
  <2>1. j > c[n]
    BY <1>3, <1>1
  <2> QED
    BY <1>1, <1>3, <2>1, SameTypeOrder
<1>4. CASE u # n
  <2>1. c[u] \in 1..Number(u) /\ a(u) = Address[u][c[u]]
    BY NumberType DEF AddressOf, Counts, Complete
  <2>2. Address[u][c[u]] <= Address[u][j] /\ Address[u][j] \in Nat
    BY <2>1, SameTypeOrder, AddressType, NumberType
  <2>3. a(n) # a(u) \/ {n, u} = {"PO", "META"}
    BY <1>1, <1>2, <1>4, <2>1, Layout
  <2>4. n = IF a("PR") < a("OCM") /\ a("PR") < a("PO") /\ a("PR") < a("META") THEN "PR"
            ELSE IF a("OCM") < a("PO") /\ a("OCM") < a("META") THEN "OCM"
            ELSE IF a("PO") <= a("META") THEN "PO"
            ELSE "META"
    BY DEF get_next_marker
  <2> HIDE DEF n, a
  <2>5. a(n) < a(u) \/ (a(n) = a(u) /\ n = "PO" /\ u = "META")
    <3>1. n \in {"PR", "OCM", "PO", "META"} /\ u \in {"PR", "OCM", "PO", "META"}
      BY <1>1 DEF MarkerTypes
    <3>2. /\ a("PR") \in Nat /\ a("OCM") \in Nat /\ a("PO") \in Nat /\ a("META") \in Nat
      BY <1>2 DEF MarkerTypes
    <3>3. CASE n = "PR"
      BY <1>4, <2>3, <2>4, <3>1, <3>2, <3>3
    <3>4. CASE n = "OCM"
      BY <1>4, <2>3, <2>4, <3>1, <3>2, <3>4
    <3>5. CASE n = "PO"
      BY <1>4, <2>3, <2>4, <3>1, <3>2, <3>5
    <3>6. CASE n = "META"
      BY <1>4, <2>3, <2>4, <3>1, <3>2, <3>6
    <3> QED
      BY <3>1, <3>3, <3>4, <3>5, <3>6
  <2> QED
    BY <1>1, <1>2, <2>1, <2>2, <2>5, AddressType DEF Precedes, n
<1> QED
  BY <1>3, <1>4

\* Passing it keeps the order.
LEMMA PassKeepsOrder ==
  ASSUME InFormat, NEW c \in Counts, Complete(c), MoreMarkers(c), InOrder(c)
  PROVE  InOrder([c EXCEPT ![get_next_marker(c)] = @ + 1])
<1> DEFINE n == get_next_marker(c)
           d == [c EXCEPT ![n] = @ + 1]
<1>1. n \in MarkerTypes /\ c[n] \in 1..Number(n)
  BY NextMarkerInRange
<1> SUFFICES ASSUME NEW t \in MarkerTypes, NEW u \in MarkerTypes,
                    NEW i \in 1..Number(t), NEW j \in 1..Number(u),
                    i < d[t], j >= d[u]
             PROVE  Precedes(t, i, u, j)
  BY DEF InOrder
<1>2. j >= c[u] /\ c[u] \in Nat /\ c[t] \in Nat /\ i \in Nat /\ j \in Nat
  BY NumberType DEF Counts
<1>3. CASE i < c[t]
  BY <1>2, <1>3 DEF InOrder
<1>4. CASE ~(i < c[t])
  <2>1. t = n /\ i = c[n]
    BY <1>2, <1>4 DEF Counts
  <2>2. <<u, j>> # <<n, c[n]>>
    BY <1>1, <1>2 DEF Counts
  <2> QED
    BY <1>2, <2>1, <2>2, NextIsFirst
<1> QED
  BY <1>3, <1>4

-----------------------------------------------------------------------------
(* File marks *)

LEMMA LeastIsMin ==
  ASSUME NEW S \in SUBSET Nat, NEW f \in S, \A y \in S : f <= y
  PROVE  Min(S) = f
<1> DEFINE x == Min(S)
<1>1. x \in S /\ \A y \in S : x <= y
  BY DEF Min
<1> HIDE DEF x
<1>2. x \in Nat /\ f \in Nat /\ x <= f /\ f <= x
  BY <1>1
<1>3. x = f
  BY <1>2
<1> QED
  BY <1>3 DEF x

LEMMA MarksAround ==
  /\ \A i \in 1..Number("PR") : Address["PR"][i] + 1 \in FileMarks
  /\ \A i \in 1..Number("OCM") : /\ Address["OCM"][i] - 1 \in FileMarks
                                 /\ Address["OCM"][i] + 1 \in FileMarks
BY DEF FileMarks

\* SPACE from a file mark, and from the block before one.
LEMMA AfterFileMark ==
  ASSUME NEW h \in FileMarks
  PROVE  AfterMark(h) = h + 1
<1> DEFINE next == {f \in FileMarks : h <= f}
<1>1. next \in SUBSET Nat /\ h \in Nat /\ \A y \in next : h <= y
  BY FileMarksType
<1>3. h \in next
  BY <1>1
<1>2. Min(next) = h /\ next # {}
  <2> HIDE DEF next
  <2> QED
    BY <1>1, <1>3, LeastIsMin
<1> QED
  BY <1>2 DEF AfterMark

LEMMA AfterBlock ==
  ASSUME NEW h \in Nat, h \notin FileMarks, h + 1 \in FileMarks
  PROVE  AfterMark(h) = h + 2
<1> DEFINE next == {f \in FileMarks : h <= f}
<1>0. h <= h + 1
  OBVIOUS
<1>1. next \in SUBSET Nat /\ h + 1 \in next
  BY <1>0, FileMarksType
<1>3. \A y \in next : h + 1 <= y
  <2> TAKE y \in next
  <2>1. y \in Nat /\ h <= y /\ y # h
    BY FileMarksType
  <2> QED
    BY <2>1
<1>2. Min(next) = h + 1 /\ next # {}
  <2> HIDE DEF next
  <2> QED
    BY <1>1, <1>3, LeastIsMin
<1> QED
  BY <1>2 DEF AfterMark

\* A marker begins in no file mark.
LEMMA NotAtMark ==
  ASSUME InFormat, NEW t \in MarkerTypes, NEW i \in 1..Number(t)
  PROVE  Address[t][i] \notin FileMarks
BY DEF InFormat

\* Checking an OCM or a PR leaves the tape behind the file mark after it.
LEMMA BehindMarker ==
  ASSUME InFormat, NEW t \in {"PR", "OCM"}, NEW i \in 1..Number(t)
  PROVE  /\ AfterMark(Address[t][i]) = EndOf(t, i)
         /\ t = "OCM" => /\ AfterMark(Address[t][i] - 1) = Address[t][i]
                         /\ AfterMark(ReadBlock(Address[t][i])) = EndOf(t, i)
<1>1. Address[t][i] \in Nat /\ Address[t][i] \notin FileMarks
  BY AddressType, NotAtMark DEF MarkerTypes
<1>2. AfterMark(Address[t][i]) = Address[t][i] + 2
  BY <1>1, MarksAround, AfterBlock
<1>3. t = "OCM" => /\ AfterMark(Address[t][i] - 1) = Address[t][i]
                   /\ AfterMark(Address[t][i] + 1) = Address[t][i] + 2
  BY <1>1, MarksAround, AfterFileMark
<1> QED
  BY <1>1, <1>2, <1>3 DEF EndOf, ReadBlock

-----------------------------------------------------------------------------
(* Where a walk starts *)

\* The data begin with the first PO.
LEMMA FirstIsPo ==
  ASSUME InFormat, NEW t \in MarkerTypes, NEW i \in 1..Number(t)
  PROVE  /\ 1 \in 1..Number("PO") /\ Address["PO"][1] = FirstData
         /\ FirstData <= Address[t][i]
<1> USE DEF MarkerTypes
<1>0. \A u \in MarkerTypes : Number(u) \in Nat /\ \A j \in 1..Number(u) : Address[u][j] \in Nat
  BY NumberType, AddressType
<1>1. \A p \in 1..Number("PO") : 1 \in 1..Number("PO") /\ Address["PO"][1] <= Address["PO"][p]
  BY <1>0, SameTypeOrder
<1>2. 1 \in 1..Number("PO") => Address["PO"][1] = FirstData
  BY DEF InFormat
<1>3. \A m \in 1..Number("META") :
        1 \in 1..Number("PO") /\ FirstData <= Address["META"][m] /\ FirstData <= DataEnd[m]
  <2> TAKE m \in 1..Number("META")
  <2>1. PICK p \in 1..Number("PO") : Address["PO"][p] <= Address["META"][m]
    BY ObjectRange DEF InFormat
  <2> QED
    BY <1>0, <1>1, <1>2, <2>1, Layout
<1>4. \A o \in 1..Number("OCM") : 1 \in 1..Number("PO") /\ FirstData <= Address["OCM"][o]
  <2> TAKE o \in 1..Number("OCM")
  <2>1. PICK m \in 1..Number("META") : Address["OCM"][o] = DataEnd[m] + 1 + 1
    BY ObjectRange DEF InFormat, EndOf
  <2>2. 1 \in 1..Number("PO") /\ FirstData <= DataEnd[m] /\ DataEnd[m] \in Nat /\ FirstData \in Nat
    BY <1>3, Layout, TapeAssumption
  <2> QED
    BY <2>1, <2>2
<1>5. \A r \in 1..Number("PR") : 1 \in 1..Number("PO") /\ FirstData <= Address["PR"][r]
  <2> TAKE r \in 1..Number("PR")
  <2>1. PICK o \in 1..Number("OCM") : Address["PR"][r] = Address["OCM"][o] + 2
    BY DEF InFormat, EndOf
  <2> QED
    BY <1>0, <1>4, <2>1, TapeAssumption
<1> QED
  BY <1>1, <1>2, <1>3, <1>4, <1>5

\* A walk from the start of the data meets the first PO there.
LEMMA WalkFromStart ==
  ASSUME InFormat
  PROVE  /\ InOrder(FirstCounts)
         /\ MoreMarkers(FirstCounts) =>
              get_next_marker(FirstCounts) = "PO" /\ Address["PO"][FirstCounts["PO"]] = FirstData
<1>1. InOrder(FirstCounts)
  BY NumberType DEF InOrder, FirstCounts
<1>2. ASSUME MoreMarkers(FirstCounts)
      PROVE  get_next_marker(FirstCounts) = "PO" /\ Address["PO"][FirstCounts["PO"]] = FirstData
  <2> DEFINE n == get_next_marker(FirstCounts)
  <2>1. FirstCounts \in Counts /\ Complete(FirstCounts) /\ \A t \in MarkerTypes : FirstCounts[t] = 1
    BY FirstCountsType DEF FirstCounts, Complete
  <2>2. n \in MarkerTypes /\ 1 \in 1..Number(n)
    BY <1>2, <2>1, NextMarkerInRange
  <2>3. 1 \in 1..Number("PO") /\ Address["PO"][1] = FirstData /\ FirstData <= Address[n][1]
    BY <2>2, FirstIsPo
  <2>4. n # "PO" => Precedes(n, 1, "PO", 1)
    BY <1>2, <2>1, <2>2, <2>3, NextIsFirst DEF MarkerTypes
  <2>5. Address[n][1] \in Nat /\ FirstData \in Nat
    BY <2>2, AddressType, TapeAssumption
  <2> QED
    BY <2>1, <2>3, <2>4, <2>5 DEF Precedes, MarkerTypes
<1> QED
  BY <1>1, <1>2

\* The size of an initial part of 1..n is its last number.
LEMMA InitialPart ==
  ASSUME NEW n \in Nat, NEW S \in SUBSET (1..n),
         \A i \in S : \A j \in 1..n : j < i => j \in S
  PROVE  Cardinality(S) \in Nat /\ \A i \in 1..n : i \in S <=> i < 1 + Cardinality(S)
<1>1. CASE S = {}
  BY <1>1, FS_EmptySet
<1>2. CASE S # {}
  <2> DEFINE k == Max(S)
  <2>0. S \in SUBSET (0..n)
    OBVIOUS
  <2>1. k \in S /\ \A y \in S : y <= k
    BY <1>2, <2>0, MaxOfNaturals
  <2> HIDE DEF k
  <2>4. k \in 1..n
    BY <2>1
  <2>2. \A i \in 1..n : i \in S <=> i <= k
    BY <2>1, <2>4
  <2>3. Cardinality(1..k) = k
    BY <2>4, FS_Interval
  <2>5. S = 1..k
    <3>1. \A i : i \in S => i \in 1..k
      BY <2>2, <2>4
    <3>2. \A i : i \in 1..k => i \in S
      BY <2>2, <2>4
    <3> QED
      BY <3>1, <3>2
  <2> QED
    BY <2>2, <2>3, <2>4, <2>5
<1> QED
  BY <1>1, <1>2

\* The counts saved at a PO are those of a walk that has come to it.
LEMMA CountsOfPo ==
  ASSUME InFormat, NEW p \in 1..Number("PO")
  PROVE  /\ CountsAt(p) \in Counts /\ Complete(CountsAt(p))
         /\ CountsAt(p)["PO"] = p
         /\ InOrder(CountsAt(p))
         /\ MoreMarkers(CountsAt(p)) /\ get_next_marker(CountsAt(p)) = "PO"
<1> DEFINE Passed_(t) == {i \in 1..Number(t) : \/ Address[t][i] < Address["PO"][p]
                                               \/ t = "PO" /\ i < p}
           c == CountsAt(p)
<1>1. /\ p \in Nat /\ Address["PO"][p] \in Nat
      /\ \A t \in MarkerTypes : Number(t) \in Nat /\ \A i \in 1..Number(t) : Address[t][i] \in Nat
  BY NumberType, AddressType DEF MarkerTypes
<1>2. ASSUME NEW t \in MarkerTypes
      PROVE  /\ c[t] \in Nat /\ c[t] >= 1
             /\ \A i \in 1..Number(t) :
                  i < c[t] <=> Address[t][i] < Address["PO"][p] \/ (t = "PO" /\ i < p)
  <2>1. Passed_(t) \in SUBSET (1..Number(t)) /\ c[t] = 1 + Cardinality(Passed_(t))
    BY DEF CountsAt
  <2>2. \A i \in Passed_(t) : \A j \in 1..Number(t) : j < i => j \in Passed_(t)
    BY <1>1, SameTypeOrder
  <2>3. /\ Cardinality(Passed_(t)) \in Nat
        /\ \A i \in 1..Number(t) : i \in Passed_(t) <=> i < 1 + Cardinality(Passed_(t))
    <3> HIDE DEF Passed_
    <3> QED
      BY <1>1, <2>1, <2>2, InitialPart
  <2> QED
    BY <2>1, <2>3
<1>3. c \in Counts /\ Complete(c)
  <2>1. DOMAIN c = MarkerTypes /\ c = [t \in MarkerTypes |-> c[t]]
    BY DEF CountsAt
  <2> HIDE DEF c
  <2> QED
    BY <1>2, <2>1 DEF Counts, Complete
<1> HIDE DEF c
<1>4. \A i \in 1..Number("PO") : Address["PO"][i] < Address["PO"][p] <=> i < p
  BY <1>1, Layout DEF MarkerTypes
<1>5. c["PO"] = p
  <2>1. \A i \in 1..Number("PO") : i < c["PO"] <=> i < p
    BY <1>2, <1>4 DEF MarkerTypes
  <2>2. c["PO"] \in Nat /\ c["PO"] >= 1
    BY <1>2 DEF MarkerTypes
  <2>3. ~(p < c["PO"])
    BY <1>1, <2>1
  <2>4. ~(c["PO"] < p)
    <3> SUFFICES ASSUME c["PO"] < p PROVE FALSE
      OBVIOUS
    <3>1. c["PO"] \in 1..Number("PO")
      BY <2>2, NumberType DEF MarkerTypes
    <3> QED
      BY <2>1, <2>2, <3>1
  <2> QED
    BY <1>1, <2>2, <2>3, <2>4
<1>6. InOrder(c)
  <2> SUFFICES ASSUME NEW t \in MarkerTypes, NEW u \in MarkerTypes,
                      NEW i \in 1..Number(t), NEW j \in 1..Number(u),
                      i < c[t], j >= c[u]
               PROVE  Precedes(t, i, u, j)
    BY DEF InOrder
  <2>1. Address[t][i] < Address["PO"][p]
    BY <1>2, <1>4
  <2>2. ~(Address[u][j] < Address["PO"][p])
    BY <1>1, <1>2
  <2> QED
    BY <1>1, <2>1, <2>2 DEF Precedes
<1>7. MoreMarkers(c)
  BY <1>1, <1>5 DEF MoreMarkers, MarkerTypes
<1>8. get_next_marker(c) = "PO"
  <2> DEFINE a(t) == AddressOf(t, c[t])
  <2>1. a("PO") = Address["PO"][p] /\ Address["PO"][p] < LastRcm
    BY <1>5, AddressType DEF AddressOf, MarkerTypes
  <2>2. ASSUME NEW t \in MarkerTypes PROVE a(t) \in Nat /\ ~(a(t) < a("PO"))
    <3>1. CASE c[t] \in 1..Number(t)
      BY <1>1, <1>2, <2>1, <3>1 DEF AddressOf
    <3>2. CASE c[t] \notin 1..Number(t)
      <4>1. a(t) = LastRcm
        BY <3>2 DEF AddressOf, NoAddress
      <4>2. LastRcm \in Nat /\ Address["PO"][p] \in Nat
        BY <1>1, AddressType, TapeAssumption DEF MarkerTypes
      <4> QED
        BY <2>1, <4>1, <4>2
    <3> QED
      BY <3>1, <3>2
  <2>3. a("PR") \in Nat /\ a("OCM") \in Nat /\ a("META") \in Nat /\ a("PO") \in Nat
        /\ ~(a("PR") < a("PO")) /\ ~(a("OCM") < a("PO")) /\ ~(a("META") < a("PO"))
    BY <2>2 DEF MarkerTypes
  <2>4. get_next_marker(c) =
          IF a("PR") < a("OCM") /\ a("PR") < a("PO") /\ a("PR") < a("META") THEN "PR"
          ELSE IF a("OCM") < a("PO") /\ a("OCM") < a("META") THEN "OCM"
          ELSE IF a("PO") <= a("META") THEN "PO"
          ELSE "META"
    BY DEF get_next_marker
  <2> HIDE DEF a
  <2> QED
    BY <2>3, <2>4
<1> QED
  BY <1>3, <1>5, <1>6, <1>7, <1>8 DEF c

-----------------------------------------------------------------------------
(* From one marker to the next *)

\* The marker n, i that a walk passes and the one it comes to then, e, k.
Consecutive(c, n, i, d, e, k) ==
  /\ c \in Counts /\ Complete(c) /\ MoreMarkers(c) /\ InOrder(c)
  /\ n = get_next_marker(c) /\ i = c[n]
  /\ d = [c EXCEPT ![n] = @ + 1] /\ MoreMarkers(d)
  /\ e = get_next_marker(d) /\ k = d[e]

LEMMA ConsecutiveType ==
  ASSUME InFormat, NEW c, NEW n, NEW i, NEW d, NEW e, NEW k, Consecutive(c, n, i, d, e, k)
  PROVE  /\ n \in MarkerTypes /\ i \in 1..Number(n) /\ i \in Nat /\ Address[n][i] \in Nat
         /\ e \in MarkerTypes /\ k \in 1..Number(e) /\ k \in Nat /\ Address[e][k] \in Nat
         /\ Number(n) \in Nat /\ Number(e) \in Nat
         /\ d \in Counts /\ Complete(d) /\ InOrder(d)
         /\ d[n] = i + 1 /\ \A t \in MarkerTypes \ {n} : d[t] = c[t]
<1> USE DEF Consecutive
<1>1. n \in MarkerTypes /\ i \in 1..Number(n)
  BY NextMarkerInRange
<1>2. d \in Counts /\ d[n] = i + 1 /\ \A t \in MarkerTypes \ {n} : d[t] = c[t]
  BY <1>1 DEF Counts
<1>3. i \in Nat /\ Number(n) \in Nat
  BY <1>1, NumberType
<1>4. Complete(d)
  BY <1>2, <1>3 DEF Complete
<1>5. InOrder(d)
  BY PassKeepsOrder
<1>6. e \in MarkerTypes /\ k \in 1..Number(e)
  BY <1>2, <1>4, NextMarkerInRange
<1>7. k \in Nat /\ Number(e) \in Nat
  BY <1>6, NumberType
<1>8. Address[n][i] \in Nat /\ Address[e][k] \in Nat
  BY <1>1, <1>6, AddressType
<1> QED
  BY <1>1, <1>2, <1>3, <1>4, <1>5, <1>6, <1>7, <1>8

LEMMA ConsecutiveOrder ==
  ASSUME InFormat, NEW c, NEW n, NEW i, NEW d, NEW e, NEW k, Consecutive(c, n, i, d, e, k)
  PROVE  /\ Precedes(n, i, e, k)
         /\ \A t \in MarkerTypes : \A x \in 1..Number(t) :
              /\ Address[t][x] < Address[e][k] => x < d[t]
              /\ x < d[t] => <<t, x>> = <<n, i>> \/ Precedes(t, x, n, i)
<1>0. /\ n \in MarkerTypes /\ i \in 1..Number(n) /\ i \in Nat /\ i < d[n]
      /\ e \in MarkerTypes /\ k \in 1..Number(e) /\ k \in Nat /\ k >= d[e]
      /\ InOrder(c) /\ InOrder(d) /\ i >= c[n]
      /\ c \in Counts /\ d \in Counts /\ Complete(d) /\ MoreMarkers(d)
      /\ e = get_next_marker(d) /\ k = d[e]
  <2>1. InOrder(c) /\ c \in Counts /\ MoreMarkers(d) /\ e = get_next_marker(d) /\ k = d[e] /\ i = c[n]
    BY DEF Consecutive
  <2>2. /\ n \in MarkerTypes /\ i \in 1..Number(n) /\ i \in Nat /\ d[n] = i + 1
        /\ e \in MarkerTypes /\ k \in 1..Number(e) /\ k \in Nat
        /\ d \in Counts /\ Complete(d) /\ InOrder(d)
    BY ConsecutiveType
  <2> QED
    BY <2>1, <2>2
<1>1. Precedes(n, i, e, k)
  BY <1>0 DEF InOrder
<1>2. ASSUME NEW t \in MarkerTypes, NEW x \in 1..Number(t), Address[t][x] < Address[e][k]
      PROVE  x < d[t]
  <2>1. x \in Nat /\ d[t] \in Nat /\ Address[t][x] \in Nat
    BY ConsecutiveType, NumberType, AddressType DEF Counts
  <2>2. <<t, x>> # <<e, k>>
    BY <1>2, <2>1, ConsecutiveType
  <2>3. x >= d[t] => Precedes(e, k, t, x)
    BY <1>0, <2>2, NextIsFirst
  <2>4. Precedes(e, k, t, x) => Address[e][k] <= Address[t][x]
    BY ConsecutiveType, OnlyOneFirst
  <2> QED
    BY <1>2, <2>1, <2>3, <2>4, ConsecutiveType
<1>3. ASSUME NEW t \in MarkerTypes, NEW x \in 1..Number(t), x < d[t], <<t, x>> # <<n, i>>
      PROVE  Precedes(t, x, n, i)
  <2>1. x \in Nat /\ c[t] \in Nat
    BY NumberType DEF Counts, Consecutive
  <2>2. x < c[t]
    BY <1>3, <2>1, ConsecutiveType DEF Consecutive
  <2> QED
    BY <1>0, <2>2 DEF InOrder
<1> QED
  BY <1>1, <1>2, <1>3

\* The marker that is passed next ends where the one after it begins, gap blocks
\* before it: so says the format of some marker (t, x).
LEMMA EndsAtNext ==
  ASSUME InFormat, NEW c, NEW n, NEW i, NEW d, NEW e, NEW k, Consecutive(c, n, i, d, e, k),
         NEW t \in MarkerTypes \ {"PO"}, NEW x \in 1..Number(t), NEW gap \in {0, 1},
         e # "META", gap = 1 => e = "OCM" /\ t = "META",
         Address[e][k] = EndOf(t, x) + gap
  PROVE  n = t /\ Address[e][k] = EndOf(n, i) + gap
<1> DEFINE A == Address[e][k]
           a == Address[n][i]
           b == Address[t][x]
<1>1. /\ n \in MarkerTypes /\ i \in 1..Number(n) /\ i \in Nat
      /\ e \in MarkerTypes /\ k \in 1..Number(e) /\ k \in Nat
      /\ x \in Nat /\ a \in Nat /\ A \in Nat /\ b \in Nat
  BY ConsecutiveType, AddressType, NumberType
<1>2. t = "META" => DataEnd[x] \in Nat /\ b <= DataEnd[x] /\ x \in Object
  BY Layout, ObjectRange
<1>3. b < A
  BY <1>1, <1>2 DEF EndOf
<1>4. Precedes(n, i, e, k) /\ (<<t, x>> = <<n, i>> \/ Precedes(t, x, n, i))
  BY <1>3, ConsecutiveOrder
<1>5. a < A
  <2>1. a <= A
    BY <1>1, <1>4, OnlyOneFirst
  <2>2. ASSUME a = A PROVE FALSE
    <3>1. n = e \/ {n, e} = {"PO", "META"}
      BY <1>1, <2>2, Layout
    <3>2. n = e \/ (n = "META" /\ e = "PO")
      BY <3>1
    <3>3. n = e /\ i < k
      BY <1>1, <1>4, <2>2, <3>2 DEF Precedes
    <3> QED
      BY <1>1, <2>2, <3>3, Layout
  <2> QED
    BY <1>1, <2>1, <2>2
<1>6. CASE <<t, x>> = <<n, i>>
  BY <1>6
<1>7. CASE Precedes(t, x, n, i) /\ <<t, x>> # <<n, i>>
  <2>1. b <= a
    BY <1>1, <1>7, OnlyOneFirst
  <2>2. b = a => t = "META" /\ n = "META"
    <3> SUFFICES ASSUME b = a PROVE t = "META" /\ n = "META"
      OBVIOUS
    <3>1. t = n /\ x < i
      BY <1>1, <1>7 DEF Precedes
    <3> QED
      BY <1>1, <3>1, Layout
  <2>3. a \notin FileMarks
    BY <1>1, NotAtMark
  <2>4. CASE t # "META"
    <3>1. A = b + 2 + gap /\ b + 1 \in FileMarks /\ gap = 0
      BY <1>1, <2>4, MarksAround DEF EndOf, MarkerTypes
    <3>2. a = b + 1
      BY <1>1, <1>5, <2>1, <2>2, <2>4, <3>1
    <3> QED
      BY <2>3, <3>1, <3>2
  <2>5. CASE t = "META"
    <3> DEFINE z == DataEnd[x]
    <3>1. A = z + 1 + gap
      BY <2>5 DEF EndOf
    <3>2. z \in Nat /\ b <= z
      BY <1>2, <2>5
    <3> HIDE DEF z
    <3>3. gap = 1 => z + 1 \in FileMarks
      <4> SUFFICES ASSUME gap = 1 PROVE z + 1 \in FileMarks
        OBVIOUS
      <4>1. A - 1 \in FileMarks
        BY <1>1, MarksAround
      <4>2. A - 1 = z + 1
        BY <3>1, <3>2
      <4> QED
        BY <4>1, <4>2
    <3>4. a # z + 1
      BY <1>1, <1>5, <2>3, <3>1, <3>2, <3>3
    <3>5. a <= z
      BY <1>1, <1>5, <3>1, <3>2, <3>4
    <3>6. n = "META"
      <4> SUFFICES ASSUME n # "META" PROVE FALSE
        OBVIOUS
      <4>1. b < a
        BY <1>1, <2>1, <2>2
      <4>2. ~(Address["META"][x] < a /\ a <= DataEnd[x])
        BY <1>1, <1>2, <2>5 DEF InFormat
      <4> QED
        BY <2>5, <3>5, <4>1, <4>2 DEF z
    <3>7. x < i
      BY <1>1, <1>7, <2>5, <3>6, SameTypeOrder
    <3>8. z <= a /\ DataEnd[i] \in Nat /\ a <= DataEnd[i] /\ i \in Object
      BY <1>1, <2>5, <3>6, <3>7, Layout, ObjectRange DEF z
    <3>9. ~(a < A /\ A <= DataEnd[i]) /\ \A f \in FileMarks : ~(a <= f /\ f <= DataEnd[i])
      BY <1>1, <3>6, <3>8 DEF InFormat
    <3>10. gap = 0 => DataEnd[i] = z
      BY <1>1, <1>5, <3>1, <3>2, <3>5, <3>8, <3>9
    <3>11. gap = 1 => DataEnd[i] = z
      BY <1>1, <3>2, <3>3, <3>5, <3>8, <3>9
    <3> QED
      BY <2>5, <3>1, <3>6, <3>10, <3>11 DEF EndOf
  <2> QED
    BY <2>4, <2>5
<1> QED
  BY <1>4, <1>6, <1>7

\* Behind a PO comes an object; and behind everything else an object, or a marker
\* that follows without a gap.  Nothing is behind the last PR.
LEMMA Contiguous ==
  ASSUME InFormat, NEW c, NEW n, NEW i, NEW d, NEW e, NEW k, Consecutive(c, n, i, d, e, k)
  PROVE  /\ \/ e = "META"
            \/ e \in {"PR", "PO"} /\ n # "PO" /\ Address[e][k] = EndOf(n, i)
            \/ e = "OCM" /\ n = "META" /\ Address[e][k] = EndOf(n, i) + 1
         /\ n = "PR" => i # Number(n)
<1>1. /\ n \in MarkerTypes /\ i \in 1..Number(n) /\ i \in Nat /\ Address[n][i] \in Nat
      /\ e \in MarkerTypes /\ k \in 1..Number(e) /\ k \in Nat /\ Address[e][k] \in Nat
      /\ Number(n) \in Nat
  BY ConsecutiveType
<1>2. Precedes(n, i, e, k)
  BY ConsecutiveOrder
<1>3. \A t \in MarkerTypes : \A x \in 1..Number(t) : EndOf(t, x) \in Nat /\ EndOf(t, x) + 0 = EndOf(t, x)
  BY AddressType, Layout DEF EndOf
<1>4. ASSUME e = "PO" PROVE n # "PO" /\ Address[e][k] = EndOf(n, i)
  <2>1. k # 1
    <3> SUFFICES ASSUME k = 1 PROVE FALSE
      OBVIOUS
    <3>1. Address[e][k] <= Address[n][i]
      BY <1>1, <1>4, FirstIsPo
    <3>2. n = "PO" /\ i < 1
      BY <1>1, <1>2, <1>4, <3>1 DEF Precedes
    <3> QED
      BY <1>1, <3>2
  <2>2. \E t \in MarkerTypes \ {"PO"} : \E x \in 1..Number(t) : Address["PO"][k] = EndOf(t, x)
    <3>1. \A p \in 1..Number("PO") :
            p # 1 => \E t \in MarkerTypes \ {"PO"} : \E x \in 1..Number(t) : Address["PO"][p] = EndOf(t, x)
      BY DEF InFormat
    <3> QED
      BY <1>1, <1>4, <2>1, <3>1
  <2>3. PICK t \in MarkerTypes \ {"PO"} : \E x \in 1..Number(t) : Address["PO"][k] = EndOf(t, x)
    BY <2>2
  <2>4. PICK x \in 1..Number(t) : Address[e][k] = EndOf(t, x) + 0
    BY <1>3, <1>4, <2>3
  <2>5. n = t /\ Address[e][k] = EndOf(n, i) + 0
    BY <1>4, <2>4, EndsAtNext
  <2> QED
    BY <1>1, <1>3, <1>4, <2>3, <2>5
<1>5. ASSUME e = "OCM" PROVE n = "META" /\ Address[e][k] = EndOf(n, i) + 1
  <2>1. PICK x \in 1..Number("META") : Address[e][k] = EndOf("META", x) + 1
    BY <1>1, <1>5, ObjectRange DEF InFormat
  <2>2. n = "META" /\ Address[e][k] = EndOf(n, i) + 1
    BY <1>5, <2>1, EndsAtNext DEF MarkerTypes
  <2> QED
    BY <1>5, <2>2
<1>6. ASSUME e = "PR" PROVE n # "PO" /\ Address[e][k] = EndOf(n, i)
  <2>1. PICK x \in 1..Number("OCM") : Address[e][k] = EndOf("OCM", x)
    BY <1>1, <1>6 DEF InFormat
  <2>2. Address[e][k] = EndOf("OCM", x) + 0
    BY <1>3, <2>1 DEF MarkerTypes
  <2>3. n = "OCM" /\ Address[e][k] = EndOf(n, i) + 0
    BY <1>6, <2>2, EndsAtNext DEF MarkerTypes
  <2> QED
    BY <1>1, <1>3, <1>6, <2>3
<1>7. n = "PR" => i # Number(n)
  <2> SUFFICES ASSUME n = "PR", i = Number(n) PROVE FALSE
    OBVIOUS
  <2>1. Address[e][k] <= Address[n][i]
    BY <1>1 DEF InFormat
  <2>2. e = "PR" /\ i < k
    BY <1>1, <1>2, <2>1 DEF Precedes
  <2> QED
    BY <1>1, <2>2
<1> QED
  BY <1>1, <1>4, <1>5, <1>6, <1>7 DEF MarkerTypes

\* The PO an object is packed in is the last one the walk has passed.
LEMMA PoOfIs ==
  ASSUME InFormat, NEW c \in Counts, Complete(c), MoreMarkers(c), InOrder(c),
         get_next_marker(c) = "META", c["PO"] - 1 \in 1..Number("PO")
  PROVE  PoOf(c["META"]) = c["PO"] - 1
<1> DEFINE m == c["META"]
           S == {p \in 1..Number("PO") : Address["PO"][p] <= Address["META"][m]}
           q == c["PO"] - 1
<1>1. m \in 1..Number("META") /\ c["PO"] \in Nat /\ q \in Nat /\ Number("PO") \in Nat
  BY NextMarkerInRange, NumberType DEF Counts, MarkerTypes
<1>2. Address["META"][m] \in Nat /\ \A p \in 1..Number("PO") : Address["PO"][p] \in Nat
  BY <1>1, AddressType DEF MarkerTypes
<1>3. ASSUME NEW p \in 1..Number("PO") PROVE p \in S <=> p <= q
  <2>1. CASE p <= q
    <3>1. p < c["PO"] /\ m >= c["META"]
      BY <1>1, <2>1
    <3>2. Precedes("PO", p, "META", m)
      BY <1>1, <3>1 DEF InOrder, MarkerTypes
    <3> QED
      BY <1>1, <1>2, <2>1, <3>2 DEF Precedes
  <2>2. CASE ~(p <= q)
    <3>1. p >= c["PO"]
      BY <1>1, <2>2
    <3>2. Precedes("META", m, "PO", p)
      BY <3>1, NextIsFirst DEF MarkerTypes
    <3> QED
      BY <1>1, <1>2, <2>2, <3>2 DEF Precedes
  <2> QED
    BY <2>1, <2>2
<1>4. q \in S /\ S \in SUBSET (0..Number("PO"))
  BY <1>1, <1>3
<1>5. PoOf(m) = Max(S)
  BY DEF PoOf
<1> HIDE DEF S, q
<1>6. Max(S) \in S /\ \A y \in S : y <= Max(S)
  BY <1>1, <1>4, MaxOfNaturals
<1> DEFINE x == Max(S)
<1>7. x \in S /\ q <= x
  BY <1>4, <1>6
<1> HIDE DEF x
<1>8. x \in 1..Number("PO")
  BY <1>7 DEF S
<1>9. x <= q /\ x \in Nat
  BY <1>1, <1>3, <1>7, <1>8
<1>10. x = q
  BY <1>1, <1>7, <1>9
<1> QED
  BY <1>5, <1>10 DEF x, q

-----------------------------------------------------------------------------
(* The head, the bucket and the files *)

\* The head when the loop comes to marker t, which it has not located.
AtMarker(t, h, c) ==
  /\ t \in {"PR", "PO"} => h = Address[t][c[t]]
  /\ t = "OCM"          => h = Address[t][c[t]] - 1

\* The bucket is that of the last PO that has been passed.
BucketOfPo == bucket # Null => cnt["PO"] - 1 \in 1..Number("PO") /\ bucket = PoBucket[cnt["PO"] - 1]

\* What the walk knows when it comes to its loop, when it writes the history at a
\* PO, and when it has an object in hand.
InLoop ==
  /\ InOrder(cnt)
  /\ MoreMarkers(cnt) =>
       IF locate THEN get_next_marker(cnt) = "PO" ELSE AtMarker(get_next_marker(cnt), head, cnt)
  /\ BucketOfPo

AtPo ==
  /\ Complete(cnt) /\ MoreMarkers(cnt) /\ get_next_marker(cnt) = "PO" /\ ~locate
  /\ ~mixed => InOrder(cnt) /\ bucket = PoBucket[cnt["PO"]]

AtObject ==
  /\ MoreMarkers(cnt) /\ get_next_marker(cnt) = "META" /\ ~locate
  /\ ~mixed => InOrder(cnt) /\ BucketOfPo /\ FirstBlock < head /\ head <= LastBlock + 1

\* Unless a resume has started from keys of two different writes, the walk goes over
\* the tape in order, the head is at the next marker, the bucket is that of the last
\* PO, and the files are under the buckets of their POs.
StepInv ==
  /\ ~mixed => FiledByBucket
  /\ pc = "walk" /\ Complete(cnt) /\ ~mixed => InLoop
  /\ pc \in {"history", "rename"} => AtPo
  /\ pc \in {"mkdir", "meta", "data"} => AtObject

LEMMA PassToLoop ==
  ASSUME InFormat, cnt \in Counts, Complete(cnt), MoreMarkers(cnt), InOrder(cnt),
         NEW n, n = get_next_marker(cnt), Passed(n), ~locate', BucketOfPo',
         n # "PO" /\ (n = "PR" => cnt[n] # Number(n)) => head' = EndOf(n, cnt[n])
  PROVE  InLoop'
<1>1. cnt' = [cnt EXCEPT ![n] = @ + 1]
  BY DEF Passed
<1>2. InOrder(cnt')
  BY <1>1, PassKeepsOrder
<1>3. ASSUME MoreMarkers(cnt') PROVE AtMarker(get_next_marker(cnt'), head', cnt')
  <2> DEFINE i == cnt[n]
             e == get_next_marker(cnt')
             k == cnt'[e]
  <2>1. Consecutive(cnt, n, i, cnt', e, k)
    BY <1>1, <1>3 DEF Consecutive
  <2>2. /\ \/ e = "META"
           \/ e \in {"PR", "PO"} /\ n # "PO" /\ Address[e][k] = EndOf(n, i)
           \/ e = "OCM" /\ n = "META" /\ Address[e][k] = EndOf(n, i) + 1
        /\ n = "PR" => i # Number(n)
    BY <2>1, Contiguous
  <2>3. n = "META" => EndOf(n, i) \in Nat
    BY <2>1, ConsecutiveType, Layout DEF EndOf
  <2> HIDE DEF e
  <2>4. AtMarker(e, head', cnt')
    BY <2>2, <2>3 DEF AtMarker
  <2> QED
    BY <2>4 DEF e
<1> QED
  BY <1>2, <1>3 DEF InLoop

\* A walk that starts at the first markers, or where history.log says.
LEMMA StartInLoop ==
  ASSUME InFormat, NEW m, NEW c, Start(m, c), c = FirstCounts \/ OneWrite(c)
  PROVE  InLoop'
<1>1. cnt' = c /\ bucket' = Null /\ locate' = (backup \/ c # FirstCounts)
      /\ head' = IF backup THEN LastRcm ELSE FirstData
  BY DEF Start, first_locate_flag
<1>2. BucketOfPo'
  BY <1>1 DEF BucketOfPo
<1>3. InOrder(c) /\ (MoreMarkers(c) => get_next_marker(c) = "PO")
  BY WalkFromStart, CountsOfPo DEF OneWrite
<1>4. MoreMarkers(c) /\ ~locate' => Address["PO"][c["PO"]] = FirstData /\ head' = FirstData
  BY <1>1, WalkFromStart
<1> QED
  BY <1>1, <1>2, <1>3, <1>4 DEF InLoop, AtMarker

\* Reading a PO where it begins gives its bucket.
LEMMA ReadsItsBucket ==
  ASSUME InFormat, NEW p \in 1..Number("PO")
  PROVE  /\ BucketRead(Address["PO"][p]) = PoBucket[p]
         /\ PoBucket[p] \in Buckets
<1>1. Address["PO"][p] \notin FileMarks
  BY NotAtMark DEF MarkerTypes
<1>2. \A q \in 1..Number("PO") : Address["PO"][q] = Address["PO"][p] => q = p
  <2> TAKE q \in 1..Number("PO")
  <2>1. p \in Nat /\ q \in Nat /\ Address["PO"][p] \in Nat /\ Address["PO"][q] \in Nat
    BY AddressType, NumberType DEF MarkerTypes
  <2>2. /\ p < q => Address["PO"][p] < Address["PO"][q]
        /\ q < p => Address["PO"][q] < Address["PO"][p]
    BY Layout DEF MarkerTypes
  <2> QED
    BY <2>1, <2>2
<1>3. (CHOOSE q \in 1..Number("PO") : Address["PO"][q] = Address["PO"][p]) = p
  BY <1>2
<1>4. PoBucket[p] \in Names
  BY TapeAssumption DEF Number
<1> QED
  BY <1>1, <1>3, <1>4 DEF BucketRead, InFormat, Names

\* On reading marker t the head is, or goes, to its first block.
LEMMA HeadAtMarker ==
  ASSUME InFormat, InLoop, MoreMarkers(cnt), NEW t, t = get_next_marker(cnt)
  PROVE  /\ t \in {"PR", "PO"} => HeadAt(t) = Address[t][cnt[t]]
         /\ t = "OCM" => HeadAt(t) = Address[t][cnt[t]] - 1
BY DEF InLoop, AtMarker, HeadAt

\* A step that passes no marker and makes no file.
LEMMA SameStep ==
  ASSUME StepInv, UNCHANGED <<cnt, metaFiles, mixed, locate, bucket, head>>,
         pc' = pc \/ {pc, pc'} = {"history", "rename"}
  PROVE  StepInv'
<1>1. AtPo => AtPo'
  BY DEF AtPo
<1>2. AtObject => AtObject'
  BY DEF AtObject, BucketOfPo, FirstBlock, LastBlock
<1>3. InLoop => InLoop'
  BY DEF InLoop, BucketOfPo
<1> QED
  BY <1>1, <1>2, <1>3 DEF StepInv, FiledByBucket

LEMMA StepNext ==
  ASSUME InFormat
  PROVE  FullInv /\ StepInv /\ [Next]_vars => StepInv'
<1> SUFFICES ASSUME FullInv, StepInv, [Next]_vars PROVE StepInv'
  OBVIOUS
<1>0. TypeInv /\ cnt \in Counts /\ mixed \in BOOLEAN
  BY DEF FullInv, TypeInv, TypeOK
<1>1. ASSUME NEW m, NEW c, Start(m, c), ~mixed' => ~mixed /\ (Complete(c) => c = FirstCounts \/ OneWrite(c))
      PROVE  StepInv'
  <2>1. cnt' = c /\ pc' = "walk" /\ metaFiles' = metaFiles
    BY <1>1 DEF Start, disk
  <2>2. Complete(cnt') /\ ~mixed' => InLoop'
    BY <1>1, <2>1, StartInLoop
  <2> QED
    BY <1>1, <2>1, <2>2 DEF StepInv, FiledByBucket
<1>2. CASE StartFullDump \/ StartOutputList
  BY <1>1, <1>2 DEF StartFullDump, StartOutputList
<1>3. CASE StartResumeDump
  <2>1. Start("resume_dump", hist) /\ mixed' = (mixed \/ (Complete(hist) /\ ~OneWrite(hist)))
    BY <1>3 DEF StartResumeDump, get_history
  <2>2. ~mixed' => ~mixed /\ (Complete(hist) => OneWrite(hist))
    BY <2>1
  <2> QED
    BY <1>1, <2>1, <2>2
<1>4. CASE Stop \/ ExitOnMarkerZero \/ DieOnObject \/ Finish
  <2>1. pc' = "down" /\ UNCHANGED <<metaFiles, mixed>>
    BY <1>4 DEF Stop, ExitOnMarkerZero, DieOnObject, Finish, GoDown, disk, observed
  <2> QED
    BY <2>1 DEF StepInv, FiledByBucket
<1>5. CASE WalkPr
  <2>1. /\ pc = "walk" /\ pc' = "walk" /\ Complete(cnt) /\ MoreMarkers(cnt)
        /\ get_next_marker(cnt) = "PR" /\ ~locate' /\ Passed("PR")
        /\ UNCHANGED <<metaFiles, mixed, bucket>>
        /\ cnt["PR"] # Number("PR") => head' = AfterMark(HeadAt("PR"))
    BY <1>5 DEF WalkPr, Next_is, disk, observed
  <2>2. ASSUME ~mixed PROVE InLoop'
    <3>1. InLoop
      BY <2>1, <2>2 DEF StepInv
    <3>2. AfterMark(HeadAt("PR")) = EndOf("PR", cnt["PR"])
      BY <1>0, <2>1, <3>1, HeadAtMarker, NextMarkerInRange, BehindMarker
    <3>3. BucketOfPo'
      BY <1>0, <2>1, <3>1 DEF InLoop, BucketOfPo, Passed, Counts, MarkerTypes
    <3> QED
      BY <1>0, <2>1, <3>1, <3>2, <3>3, PassToLoop DEF InLoop
  <2> QED
    BY <2>1, <2>2 DEF StepInv, FiledByBucket
<1>6. CASE WalkOcm
  <2>1. /\ pc = "walk" /\ pc' = "walk" /\ Complete(cnt) /\ MoreMarkers(cnt)
        /\ get_next_marker(cnt) = "OCM" /\ ~locate' /\ Passed("OCM")
        /\ UNCHANGED <<metaFiles, mixed, bucket>>
        /\ head' = AfterMark(ReadBlock(AfterMark(HeadAt("OCM"))))
    BY <1>6 DEF WalkOcm, Next_is, disk, observed
  <2>2. ASSUME ~mixed PROVE InLoop'
    <3>1. InLoop
      BY <2>1, <2>2 DEF StepInv
    <3>2. head' = EndOf("OCM", cnt["OCM"])
      BY <1>0, <2>1, <3>1, HeadAtMarker, NextMarkerInRange, BehindMarker
    <3>3. BucketOfPo'
      BY <1>0, <2>1, <3>1 DEF InLoop, BucketOfPo, Passed, Counts, MarkerTypes
    <3> QED
      BY <1>0, <2>1, <3>1, <3>2, <3>3, PassToLoop DEF InLoop
  <2> QED
    BY <2>1, <2>2 DEF StepInv, FiledByBucket
<1>7. CASE WalkPo
  <2>1. /\ pc = "walk" /\ Complete(cnt) /\ MoreMarkers(cnt) /\ get_next_marker(cnt) = "PO"
        /\ ~locate' /\ UNCHANGED <<metaFiles, mixed>> /\ bucket' = BucketRead(HeadAt("PO"))
        /\ (pc' = "history" /\ cnt' = cnt) \/ (pc' = "walk" /\ Passed("PO"))
    BY <1>7 DEF WalkPo, Next_is, disk, observed
  <2>2. cnt["PO"] \in 1..Number("PO")
    BY <1>0, <2>1, NextMarkerInRange
  <2>3. ASSUME ~mixed PROVE InOrder(cnt) /\ bucket' = PoBucket[cnt["PO"]]
    <3>1. InLoop
      BY <2>1, <2>3 DEF StepInv
    <3>2. HeadAt("PO") = Address["PO"][cnt["PO"]]
      BY <2>1, <3>1, HeadAtMarker
    <3> QED
      BY <2>1, <2>2, <3>1, <3>2, ReadsItsBucket DEF InLoop
  <2>4. CASE pc' = "history" /\ cnt' = cnt
    <3>1. AtPo'
      BY <2>1, <2>3, <2>4 DEF AtPo
    <3> QED
      BY <2>1, <2>4, <3>1 DEF StepInv, FiledByBucket
  <2>5. CASE pc' = "walk" /\ Passed("PO")
    <3>1. ASSUME ~mixed PROVE InLoop'
      <4>1. cnt'["PO"] - 1 = cnt["PO"]
        BY <1>0, <2>2, <2>5 DEF Passed, Counts, MarkerTypes
      <4>2. BucketOfPo'
        BY <2>2, <2>3, <3>1, <4>1 DEF BucketOfPo
      <4> QED
        BY <1>0, <2>1, <2>3, <2>5, <3>1, <4>2, PassToLoop
    <3> QED
      BY <2>1, <2>5, <3>1 DEF StepInv, FiledByBucket
  <2> QED
    BY <2>1, <2>4, <2>5
<1>8. CASE CreateHistory \/ RemoveHistory
  BY <1>8, SameStep DEF CreateHistory, RemoveHistory, memory, observed
<1>9. CASE RenameHistory
  <2>1. CASE field < Len(HistoryKeys)
    BY <1>9, <2>1, SameStep DEF RenameHistory, observed
  <2>2. CASE ~(field < Len(HistoryKeys))
    <3>1. /\ pc' = "walk" /\ Passed("PO") /\ pc = "rename" /\ AtPo
          /\ UNCHANGED <<metaFiles, mixed, bucket, locate>>
      BY <1>9, <2>2 DEF RenameHistory, observed, StepInv
    <3>2. ASSUME ~mixed PROVE InLoop'
      <4>1. cnt["PO"] \in 1..Number("PO") /\ cnt'["PO"] - 1 = cnt["PO"]
        BY <1>0, <3>1, NextMarkerInRange DEF AtPo, Passed, Counts, MarkerTypes
      <4>2. BucketOfPo'
        BY <3>1, <3>2, <4>1 DEF BucketOfPo, AtPo
      <4> QED
        BY <1>0, <3>1, <3>2, <4>2, PassToLoop DEF AtPo
    <3> QED
      BY <3>1, <3>2 DEF StepInv, FiledByBucket
  <2> QED
    BY <2>1, <2>2
<1>10. CASE ListObject \/ DropObject
  <2>1. /\ pc = "walk" /\ pc' = "walk" /\ Complete(cnt) /\ MoreMarkers(cnt)
        /\ get_next_marker(cnt) = "META" /\ ~locate' /\ Passed("META")
        /\ UNCHANGED <<metaFiles, mixed, bucket>> /\ head' = EndOf("META", cnt["META"])
    BY <1>10 DEF ListObject, DropObject, TakeObject, Next_is, LastBlock, EndOf, disk, observed
  <2>2. ASSUME ~mixed PROVE InLoop'
    <3>1. InLoop
      BY <2>1, <2>2 DEF StepInv
    <3>2. BucketOfPo'
      BY <1>0, <2>1, <3>1 DEF InLoop, BucketOfPo, Passed, Counts, MarkerTypes
    <3> QED
      BY <1>0, <2>1, <3>1, <3>2, PassToLoop DEF InLoop
  <2> QED
    BY <2>1, <2>2 DEF StepInv, FiledByBucket
<1>11. CASE SkipObject
  <2>1. /\ TakeObject /\ Next_is("META") /\ mode \in DumpModes /\ ~Full(NextInfo)
        /\ FileIn(NextInfo) \in metaFiles /\ pc' = pc /\ UNCHANGED <<metaFiles, mixed>>
    BY <1>11 DEF SkipObject, TakeObject, disk, observed
  <2>2. mixed
    <3> SUFFICES ASSUME ~mixed PROVE FALSE
      OBVIOUS
    <3>1. bucket \in Names /\ bucket # Null
      BY <1>0, <2>1, TakeObjectType DEF TakeObject
    <3>2. BucketOfPo
      BY <2>1 DEF StepInv, InLoop, Next_is
    <3>3. bucket \in Buckets
      BY <3>1, <3>2, ReadsItsBucket DEF BucketOfPo
    <3> QED
      BY <2>1, <3>3, FreshFile DEF NoStaleSkip
  <2> QED
    BY <2>1, <2>2 DEF StepInv, Next_is
<1>12. CASE BeginObject
  <2>1. /\ pc = "walk" /\ pc' = "mkdir" /\ Complete(cnt) /\ MoreMarkers(cnt)
        /\ get_next_marker(cnt) = "META" /\ ~locate' /\ cnt' = cnt
        /\ UNCHANGED <<metaFiles, mixed, bucket>> /\ head' = FirstBlock + 1
        /\ TakeObject
    BY <1>12 DEF BeginObject, TakeObject, Next_is, disk, observed
  <2>2. FirstBlock \in Nat /\ LastBlock \in Nat /\ cnt["META"] \in 1..Number("META")
    BY <1>0, <2>1, TakeObjectType, ObjectRange
  <2>3. FirstBlock <= LastBlock
    BY <2>2, Layout DEF FirstBlock, LastBlock
  <2>4. FirstBlock' = FirstBlock /\ LastBlock' = LastBlock
    BY <2>1 DEF FirstBlock, LastBlock
  <2>5. FirstBlock' < head' /\ head' <= LastBlock' + 1
    BY <2>1, <2>2, <2>3, <2>4
  <2>6. ~mixed => InOrder(cnt) /\ BucketOfPo
    BY <2>1 DEF StepInv, InLoop
  <2>7. AtObject'
    BY <2>1, <2>5, <2>6 DEF AtObject, BucketOfPo
  <2> QED
    BY <2>1, <2>7 DEF StepInv, FiledByBucket
<1>13. CASE MakeDirs
  <2>1. /\ AtObject /\ pc' = "meta" /\ UNCHANGED <<metaFiles, mixed, cnt, locate, bucket, head>>
    BY <1>13 DEF MakeDirs, observed, StepInv
  <2>2. AtObject'
    BY <2>1 DEF AtObject, BucketOfPo, FirstBlock, LastBlock
  <2> QED
    BY <2>1, <2>2 DEF StepInv, FiledByBucket
<1>14. CASE WriteMeta
  <2>1. /\ AtObject /\ pc = "meta" /\ pc' = "data" /\ metaFiles' = metaFiles \union {ObjectFile}
        /\ UNCHANGED <<mixed, cnt, locate, bucket, head>>
    BY <1>14 DEF WriteMeta, observed, StepInv
  <2>2. AtObject'
    BY <2>1 DEF AtObject, BucketOfPo, FirstBlock, LastBlock
  <2>3. ASSUME ~mixed PROVE FiledByBucket'
    <3>1. bucket \in Names /\ Complete(cnt)
      BY <1>0, <2>1 DEF TypeInv, InHand
    <3>2. BucketOfPo /\ InOrder(cnt) /\ MoreMarkers(cnt) /\ get_next_marker(cnt) = "META"
      BY <2>1, <2>3 DEF AtObject
    <3>3. cnt["PO"] - 1 \in 1..Number("PO") /\ bucket = PoBucket[cnt["PO"] - 1]
      BY <3>1, <3>2, NamesAssumption DEF BucketOfPo
    <3>4. bucket = PoBucket[PoOf(cnt["META"])]
      BY <1>0, <3>1, <3>2, <3>3, PoOfIs
    <3>5. ObjectFile[1] = cnt["META"] /\ ObjectFile[2] = bucket
      BY DEF ObjectFile, FileIn
    <3> QED
      BY <2>1, <2>3, <3>4, <3>5 DEF StepInv, FiledByBucket
  <2> QED
    BY <2>1, <2>2, <2>3 DEF StepInv
<1>15. CASE WriteData
  <2>1. AtObject /\ pc = "data" /\ UNCHANGED <<metaFiles, mixed, locate, bucket>>
        /\ IF head <= LastBlock THEN head' = head + 1 /\ cnt' = cnt /\ pc' = "data"
           ELSE pc' = "walk" /\ Passed("META") /\ head' = head
    BY <1>15 DEF WriteData, observed, StepInv
  <2>2. /\ Complete(cnt) /\ head \in Nat /\ FirstBlock \in Nat /\ LastBlock \in Nat
        /\ MoreMarkers(cnt) /\ get_next_marker(cnt) = "META" /\ ~locate
    <3>1. Complete(cnt) /\ cnt["META"] \in Object /\ head \in Nat
      BY <1>0, <2>1 DEF TypeInv, TypeOK, InHand
    <3>2. FirstBlock \in Nat /\ LastBlock \in Nat
      BY <3>1, ObjectRange, DataEndType, AddressType DEF FirstBlock, LastBlock, MarkerTypes
    <3> QED
      BY <2>1, <3>1, <3>2 DEF AtObject
  <2>3. CASE head <= LastBlock
    <3>1. FirstBlock' = FirstBlock /\ LastBlock' = LastBlock
      BY <2>1, <2>3 DEF FirstBlock, LastBlock
    <3>2. ~mixed => FirstBlock' < head' /\ head' <= LastBlock' + 1
      BY <2>1, <2>2, <2>3, <3>1 DEF AtObject
    <3>3. AtObject'
      BY <2>1, <2>2, <2>3, <3>2 DEF AtObject, BucketOfPo
    <3> QED
      BY <2>1, <2>3, <3>3 DEF StepInv, FiledByBucket
  <2>4. CASE ~(head <= LastBlock)
    <3>1. ASSUME ~mixed PROVE InLoop'
      <4>1. InOrder(cnt) /\ BucketOfPo /\ head <= LastBlock + 1
        BY <2>1, <3>1 DEF AtObject
      <4>2. head' = EndOf("META", cnt["META"])
        BY <2>1, <2>2, <2>4, <4>1 DEF EndOf, LastBlock
      <4>3. BucketOfPo'
        BY <1>0, <2>1, <2>4, <4>1 DEF BucketOfPo, Passed, Counts, MarkerTypes
      <4> QED
        BY <1>0, <2>1, <2>2, <2>4, <4>1, <4>2, <4>3, PassToLoop
    <3> QED
      BY <2>1, <2>4, <3>1 DEF StepInv, FiledByBucket
  <2> QED
    BY <2>3, <2>4
<1>16. CASE UNCHANGED vars
  BY <1>16, SameStep DEF vars, disk, memory, observed
<1> QED
  BY <1>2, <1>3, <1>4, <1>5, <1>6, <1>7, <1>8, <1>9, <1>10, <1>11, <1>12, <1>13, <1>14, <1>15, <1>16
  DEF Next, Walk

LEMMA StepInvariant ==
  ASSUME InFormat
  PROVE  Spec => []StepInv
<1>1. Init => StepInv
  BY DEF Init, Idle, StepInv, FiledByBucket
<1>2. FullInv /\ StepInv /\ [Next]_vars => StepInv'
  BY StepNext
<1> QED
  BY <1>1, <1>2, FullInvariant, PTL DEF Spec

\* On every tape in the format whose POs are of known buckets, an object is filed
\* under the bucket of its PO, in all orders of runs and stops, unless a resume
\* has started from keys of two different writes (OwnBucket).
THEOREM FiledInOwnBucket ==
  ASSUME InFormat
  PROVE  Spec => []OwnBucket
<1>1. Spec => []StepInv
  BY StepInvariant
<1>2. StepInv => OwnBucket
  BY DEF StepInv, OwnBucket
<1> QED
  BY <1>1, <1>2, PTL

\* On such a tape the head is at the marker that the walk reads next, whatever has
\* been read, skipped or dropped before (HeadInStep).
THEOREM HeadStaysInStep ==
  ASSUME InFormat
  PROVE  Spec => []HeadInStep
<1>1. Spec => []StepInv
  BY StepInvariant
<1>2. FullInv /\ StepInv => HeadInStep
  <2> SUFFICES ASSUME FullInv, StepInv, ~mixed, pc = "walk", Complete(cnt), MoreMarkers(cnt), ~locate
               PROVE  LET t == get_next_marker(cnt)
                      IN  CASE t \in {"PR", "PO"} -> head = Address[t][cnt[t]]
                            [] t = "OCM"          -> AfterMark(head) = Address[t][cnt[t]]
                            [] OTHER              -> TRUE
    BY DEF HeadInStep
  <2> DEFINE t == get_next_marker(cnt)
  <2>1. AtMarker(t, head, cnt)
    BY DEF StepInv, InLoop
  <2>2. t \in MarkerTypes /\ cnt[t] \in 1..Number(t)
    BY NextMarkerInRange DEF FullInv, TypeInv, TypeOK
  <2>3. t = "OCM" => AfterMark(Address[t][cnt[t]] - 1) = Address[t][cnt[t]]
    BY <2>2, BehindMarker
  <2> HIDE DEF t
  <2>4. CASE t = "OCM"
    BY <2>1, <2>3, <2>4 DEF AtMarker, t
  <2>5. CASE t # "OCM"
    BY <2>1, <2>5 DEF AtMarker, t
  <2> QED
    BY <2>4, <2>5
<1> QED
  BY <1>1, <1>2, FullInvariant, PTL

-----------------------------------------------------------------------------
(* Resuming *)

\* A resume dump has read a history that is there, and its walk is not behind it.
GoesInv ==
  mode = "resume_dump" => hist["META"] <= cnt["META"] /\ (ini = "file" \/ pc = "rename")

LEMMA GoesNext ==
  ASSUME FullInv, GoesInv, [Next]_vars
  PROVE  /\ GoesInv'
         /\ mode = "resume_dump" => /\ hist'["META"] >= hist["META"]
                                    /\ metaFiles' # metaFiles => cnt["META"] >= hist["META"]
<1>0. /\ TypeInv /\ cnt \in Counts /\ hist \in Counts /\ "META" \in MarkerTypes
      /\ cnt["META"] \in Nat /\ hist["META"] \in Nat
  BY DEF FullInv, TypeInv, TypeOK, Counts, MarkerTypes
<1> DEFINE Forward == mode = "resume_dump" => /\ hist'["META"] >= hist["META"]
                                              /\ metaFiles' # metaFiles => cnt["META"] >= hist["META"]
<1>1. ASSUME hist' = hist PROVE Forward
  BY <1>0, <1>1 DEF GoesInv
<1>2. CASE StartFullDump \/ StartOutputList
  BY <1>1, <1>2 DEF StartFullDump, StartOutputList, Start, disk, GoesInv
<1>3. CASE StartResumeDump
  BY <1>0, <1>1, <1>3 DEF StartResumeDump, Start, disk, GoesInv, get_history
<1>4. CASE Stop \/ ExitOnMarkerZero \/ DieOnObject \/ Finish
  BY <1>1, <1>4 DEF Stop, ExitOnMarkerZero, DieOnObject, Finish, GoDown, disk, GoesInv
<1>5. CASE CreateHistory
  <2>1. mode # "resume_dump" /\ mode' = mode
    BY <1>5 DEF CreateHistory, GoesInv, memory
  <2> QED
    BY <2>1 DEF GoesInv
<1>6. CASE RemoveHistory
  <2>1. HistoryKeys[field] \in MarkerTypes
    BY <1>0, KeysLength DEF HistoryKeys, MarkerTypes, TypeInv, TypeOK
  <2>2. hist'["META"] = hist["META"] \/ hist'["META"] = cnt["META"]
    BY <1>0, <1>6, <2>1 DEF RemoveHistory, HistoryEntry, Counts
  <2>3. pc' = "rename" /\ mode' = mode /\ cnt' = cnt
    BY <1>6 DEF RemoveHistory
  <2> QED
    BY <1>0, <2>2, <2>3 DEF GoesInv
<1>7. CASE RenameHistory
  <2>1. hist' = hist /\ mode' = mode /\ ini' = "file" /\ cnt'["META"] = cnt["META"]
    BY <1>0, <1>7 DEF RenameHistory, Passed, Counts, MarkerTypes
  <2> QED
    BY <1>1, <2>1 DEF GoesInv
<1>8. CASE WalkPr \/ WalkOcm \/ WalkPo \/ ListObject \/ DropObject \/ SkipObject \/ BeginObject
             \/ MakeDirs \/ WriteMeta \/ WriteData \/ UNCHANGED vars
  <2>1. hist' = hist /\ ini' = ini /\ mode' = mode /\ (pc = "rename" => pc' = pc)
    BY <1>8 DEF WalkPr, WalkOcm, WalkPo, ListObject, DropObject, SkipObject, BeginObject, TakeObject,
                Next_is, MakeDirs, WriteMeta, WriteData, vars, disk, memory
  <2>2. cnt'["META"] = cnt["META"] \/ cnt'["META"] = cnt["META"] + 1
    BY <1>0, <1>8 DEF WalkPr, WalkOcm, WalkPo, ListObject, DropObject, SkipObject, BeginObject,
                      MakeDirs, WriteMeta, WriteData, vars, memory, Passed, Counts, MarkerTypes
  <2> QED
    BY <1>0, <1>1, <2>1, <2>2 DEF GoesInv
<1> QED
  BY <1>2, <1>3, <1>4, <1>5, <1>6, <1>7, <1>8 DEF Next, Walk

\* A resume dump never moves the recorded point back and writes no object before it
\* (ResumeGoesForward), on every tape.
THEOREM ResumeOnlyForward == Spec => ResumeGoesForward
<1>1. Init => GoesInv
  BY DEF Init, Idle, GoesInv
<1>2. FullInv /\ GoesInv /\ [Next]_vars => GoesInv'
  BY GoesNext
<1>3. FullInv /\ GoesInv /\ [Next]_vars =>
        [mode = "resume_dump" =>
           /\ hist'["META"] >= hist["META"]
           /\ metaFiles' # metaFiles => cnt["META"] >= hist["META"]]_vars
  BY GoesNext
<1> QED
  BY <1>1, <1>2, <1>3, FullInvariant, PTL DEF Spec, ResumeGoesForward
=============================================================================
