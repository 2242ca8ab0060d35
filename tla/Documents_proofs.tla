-------------------------- MODULE Documents_proofs --------------------------
(***************************************************************************)
(* Proofs about the checks of documents, for all documents and names.      *)
(*                                                                         *)
(* The invariants follow the loops: what the members behind "at" and the   *)
(* objects behind "objnum" have shown of the document is what the flags,   *)
(* what has been said and what will be returned agree with.                *)
(***************************************************************************)
EXTENDS Documents, FiniteSetTheorems, WellFoundedInduction, TLAPS

IsDocument(d) == d \in Seq(Seq(Member))

\* The places, and what the kinds of documents have of their own.
TypeOK ==
  /\ kind \in Kinds /\ said \in BOOLEAN /\ ret \in {"OK", "NG"}
  /\ kind = "name" => objects \in Seq(STRING) /\ at \in {0, 1}
  /\ kind # "name" => /\ IsDocument(objects) /\ objnum \in 1..(Len(objects) + 1) /\ at \in Nat
                      /\ at > 0 => objnum \in 1..Len(objects)
  /\ kind = "metadata" =>
       \A n \in DOMAIN objects : \A i, j \in DOMAIN objects[n] : objects[n][i].key = objects[n][j].key => i = j
  /\ kind = "label" => Len(objects) = 1 /\ (More => at <= Len(Members))
  /\ kind = "VOL1" /\ More => at <= Len(Members)

\* The keys of the members that come before a place.
KeysBefore(o, n) == {o[i].key : i \in {j \in DOMAIN o : j < n}}

\* The flags are those of the members that have been seen.
FoundInv ==
  /\ (kind = "buckets" /\ More /\ at > 0) => found = KeysBefore(Members, at) \cap BucketRequired
  /\ (kind = "label" /\ More) => found = KeysBefore(Members, at + 1) \cap LabelRequired

\* Of a right document nothing is said at any time.
QuietInv == (kind # "name" /\ \A n \in DOMAIN objects : RightObject(kind, objects[n])) => ~said /\ ret = "OK"

\* What has been looked at and is wrong has been said.
SaidInv ==
  /\ kind # "name" => \A n \in DOMAIN objects : n < objnum /\ ~SeenRight(kind, objects[n]) => said
  /\ (kind = "metadata" /\ More /\ at > 0) =>
       /\ ~(MetadataRequired \subseteq Keys(Members)) => said
       /\ \A i \in DOMAIN Members : Members[i].key \in MetadataRequired /\ ~RequiredMetaOk(Members[i]) => said
       /\ \A i \in DOMAIN Members \ Unread(Members) :
            i < at /\ ~(IF KnownMeta(Members[i]) THEN OptionalMetaOk(Members[i]) ELSE IsVendor(Members[i])) => said
  /\ (kind = "buckets" /\ More) => \A i \in DOMAIN Members : i < at /\ ~BucketOk(Members[i]) => said
  /\ (kind = "label" /\ More) => \A i \in DOMAIN Members : i <= at /\ ~LabelOk(Members[i]) => said
  /\ (kind = "VOL1" /\ More) => \A i \in DOMAIN Members : i <= at /\ Members[i].wrong # {} => said

\* What has been said is returned, but for the block size.
ReturnInv ==
  /\ ret = "NG" => said
  /\ (kind # "name" /\ said /\ ret = "OK") =>
       kind = "label" /\ \E i \in DOMAIN objects[1] : objects[1][i].key = "BlockSize" /\ ~BlockSizeOk(objects[1][i])
  /\ block_size >= MIN_BLOCKSIZE_IN_LABEL

DocInv == TypeOK /\ FoundInv /\ QuietInv /\ SaidInv /\ ReturnInv

NameInv == kind = "name" => (ret = "OK" <=> (at = 0 \/ check_bucket_name(objects)))

-----------------------------------------------------------------------------
(* Members *)

\* The required keys are known and ask nothing more of a member.
LEMMA RequiredIsKnown ==
  ASSUME NEW m, m.key \in MetadataRequired
  PROVE  KnownMeta(m) /\ OptionalMetaOk(m)
BY DEF KnownMeta, OptionalMetaOk, MetadataRequired, MetadataTexts

LEMMA VendorIsUnknown ==
  ASSUME NEW m, IsVendor(m)
  PROVE  ~KnownMeta(m) /\ m.key \notin MetadataRequired
BY DEF KnownMeta, IsVendor, MetadataRequired, MetadataTexts

LEMMA RightMetadata ==
  ASSUME NEW o, RightObject("metadata", o)
  PROVE  /\ \A key \in MetadataRequired : \E i \in DOMAIN o : o[i].key = key /\ RequiredMetaOk(o[i])
         /\ \A i \in DOMAIN o : IF KnownMeta(o[i]) THEN OptionalMetaOk(o[i]) ELSE IsVendor(o[i])
<1>1. /\ MetadataRequired \subseteq Keys(o)
      /\ \A i \in DOMAIN o :
           IF o[i].key \in MetadataRequired THEN RequiredMetaOk(o[i])
           ELSE IsVendor(o[i]) \/ (KnownMeta(o[i]) /\ OptionalMetaOk(o[i]))
  BY DEF RightObject
<1>2. ASSUME NEW key \in MetadataRequired
      PROVE  \E i \in DOMAIN o : o[i].key = key /\ RequiredMetaOk(o[i])
  BY <1>1 DEF Keys
<1>3. ASSUME NEW i \in DOMAIN o
      PROVE  IF KnownMeta(o[i]) THEN OptionalMetaOk(o[i]) ELSE IsVendor(o[i])
  <2>1. CASE o[i].key \in MetadataRequired
    BY <2>1, RequiredIsKnown
  <2>2. CASE o[i].key \notin MetadataRequired
    BY <1>1, <2>2, VendorIsUnknown
  <2> QED
    BY <2>1, <2>2
<1> QED
  BY <1>2, <1>3

LEMMA RightBucket ==
  ASSUME NEW o
  PROVE  RightObject("buckets", o) <=> BucketRequired \subseteq Keys(o) /\ \A i \in DOMAIN o : BucketOk(o[i])
BY DEF RightObject

LEMMA RightLabel ==
  ASSUME NEW o
  PROVE  RightObject("label", o) <=> LabelRequired \subseteq Keys(o) /\ \A i \in DOMAIN o : LabelOk(o[i])
BY DEF RightObject

LEMMA RightVol1 ==
  ASSUME NEW o
  PROVE  RightObject("VOL1", o) <=> \A i \in DOMAIN o : o[i].wrong = {}
BY DEF RightObject

LEMMA SeenOthers ==
  ASSUME NEW k, NEW o, k # "metadata"
  PROVE  SeenRight(k, o) <=> RightObject(k, o)
BY DEF SeenRight

\* The keys before a place, one place after the other.
LEMMA NoKeysBefore ==
  ASSUME NEW S, NEW o \in Seq(S)
  PROVE  KeysBefore(o, 1) = {}
BY DEF KeysBefore

LEMMA NextKeys ==
  ASSUME NEW S, NEW o \in Seq(S), NEW n \in DOMAIN o
  PROVE  KeysBefore(o, n + 1) = KeysBefore(o, n) \cup {o[n].key}
BY DEF KeysBefore

LEMMA AllKeys ==
  ASSUME NEW S, NEW o \in Seq(S), NEW n \in Nat, n > Len(o)
  PROVE  KeysBefore(o, n) = Keys(o)
BY DEF KeysBefore, Keys

-----------------------------------------------------------------------------
(* Places *)

LEMMA InitType == Init => TypeOK
<1> SUFFICES ASSUME Init PROVE TypeOK
  OBVIOUS
<1>1. kind \in Kinds /\ said \in BOOLEAN /\ ret \in {"OK", "NG"}
  BY DEF Init, Kinds
<1>2. objnum = 1 /\ at = 0
  BY DEF Init
<1>3. kind = "name" => objects \in Seq(STRING)
  BY DocumentsAssumption DEF Init
<1>4. kind # "name" => IsDocument(objects)
  BY DocumentsAssumption DEF Init, IsDocument
<1>5. kind # "name" => Len(objects) \in Nat
  BY <1>4 DEF IsDocument
<1>6. kind = "metadata" =>
        \A n \in DOMAIN objects : \A i, j \in DOMAIN objects[n] : objects[n][i].key = objects[n][j].key => i = j
  BY DocumentsAssumption DEF Init
<1>7. kind = "label" => Len(objects) = 1
  BY DocumentsAssumption DEF Init
<1>8. (kind # "name" /\ More) => Len(Members) \in Nat
  BY <1>2, <1>4, <1>5 DEF More, Members, IsDocument
<1>9. (kind = "label" \/ kind = "VOL1") /\ More => at <= Len(Members)
  BY <1>2, <1>8
<1> QED
  BY <1>1, <1>2, <1>3, <1>4, <1>5, <1>6, <1>7, <1>9 DEF TypeOK

\* What every step but that of a name does to the places.
LEMMA StepPlaces ==
  ASSUME TypeOK, Next, kind # "name"
  PROVE  /\ kind' = kind /\ objects' = objects /\ IsDocument(objects) /\ More
         /\ objnum \in 1..Len(objects) /\ Members \in Seq(Member) /\ Len(Members) \in Nat /\ at \in Nat
         /\ \/ objnum' = objnum /\ at' \in Nat /\ at' > 0 /\ Members' = Members
               /\ (kind \in {"label", "VOL1"} => at' <= Len(Members))
            \/ objnum' = objnum + 1 /\ at' = 0
<1>1. kind' = kind /\ objects' = objects /\ More
  BY DEF Next, StartMetadata, MetadataMember, EndMetadata, StartBucket, BucketMember, EndBucket,
         LabelMember, EndLabel, Vol1Field, EndVol1, CheckName
<1>2. IsDocument(objects) /\ objnum \in 1..(Len(objects) + 1) /\ at \in Nat /\ Len(objects) \in Nat
  BY DEF TypeOK, IsDocument
<1>3. objnum \in 1..Len(objects)
  BY <1>1, <1>2 DEF More
<1>4. Members \in Seq(Member)
  BY <1>2, <1>3 DEF Members, IsDocument
<1>5. Len(Members) \in Nat
  BY <1>4
<1>6. \/ objnum' = objnum /\ at' \in Nat /\ at' > 0 /\ (kind \in {"label", "VOL1"} => at' <= Len(Members))
      \/ objnum' = objnum + 1 /\ at' = 0
  <2>1. CASE StartMetadata
    BY <2>1 DEF StartMetadata
  <2>2. CASE MetadataMember
    BY <1>2, <1>5, <2>2 DEF MetadataMember
  <2>3. CASE StartBucket
    BY <2>3 DEF StartBucket
  <2>4. CASE BucketMember
    BY <1>2, <2>4 DEF BucketMember
  <2>5. CASE LabelMember
    BY <1>2, <1>5, <2>5 DEF LabelMember
  <2>6. CASE Vol1Field
    BY <1>2, <1>5, <2>6 DEF Vol1Field
  <2>7. CASE EndMetadata \/ EndBucket \/ EndLabel \/ EndVol1
    BY <2>7 DEF EndMetadata, EndBucket, EndLabel, EndVol1
  <2> QED
    BY <2>1, <2>2, <2>3, <2>4, <2>5, <2>6, <2>7 DEF Next, CheckName
<1>7. objnum' = objnum => Members' = Members
  BY <1>1 DEF Members
<1> QED
  BY <1>1, <1>2, <1>3, <1>4, <1>5, <1>6, <1>7

LEMMA SaidType ==
  ASSUME TypeOK, Next
  PROVE  said' \in BOOLEAN /\ ret' \in {"OK", "NG"}
<1> USE DEF TypeOK
<1>1. CASE StartMetadata
  BY <1>1 DEF StartMetadata, Error
<1>2. CASE MetadataMember
  BY <1>2 DEF MetadataMember, Error
<1>3. CASE BucketMember
  BY <1>3 DEF BucketMember, Error
<1>4. CASE LabelMember
  BY <1>4 DEF LabelMember, Error
<1>5. CASE Vol1Field
  BY <1>5 DEF Vol1Field, Error
<1>6. CASE EndBucket \/ EndLabel
  BY <1>6 DEF EndBucket, EndLabel, Error
<1>7. CASE CheckName
  BY <1>7 DEF CheckName, Error
<1>8. CASE EndMetadata \/ StartBucket \/ EndVol1
  BY <1>8 DEF EndMetadata, StartBucket, EndVol1
<1> QED
  BY <1>1, <1>2, <1>3, <1>4, <1>5, <1>6, <1>7, <1>8 DEF Next

LEMMA StepType == ASSUME TypeOK, Next PROVE TypeOK'
<1>1. said' \in BOOLEAN /\ ret' \in {"OK", "NG"}
  BY SaidType
<1>2. CASE kind = "name"
  <2>1. kind' = kind /\ objects' = objects /\ at' = 1
    BY <1>2 DEF Next, StartMetadata, MetadataMember, EndMetadata, StartBucket, BucketMember, EndBucket,
                LabelMember, EndLabel, Vol1Field, EndVol1, CheckName
  <2> QED
    BY <1>1, <1>2, <2>1 DEF TypeOK
<1>3. CASE kind # "name"
  <2>1. /\ kind' = kind /\ objects' = objects /\ IsDocument(objects) /\ More
        /\ objnum \in 1..Len(objects) /\ Len(Members) \in Nat
        /\ \/ objnum' = objnum /\ at' \in Nat /\ at' > 0 /\ Members' = Members
              /\ (kind \in {"label", "VOL1"} => at' <= Len(Members))
           \/ objnum' = objnum + 1 /\ at' = 0
    BY <1>3, StepPlaces
  <2>2. Len(objects) \in Nat
    BY <2>1 DEF IsDocument
  <2>3. objnum' \in 1..(Len(objects) + 1) /\ at' \in Nat /\ (at' > 0 => objnum' \in 1..Len(objects))
    BY <2>1, <2>2
  <2>4. kind = "metadata" =>
          \A n \in DOMAIN objects : \A i, j \in DOMAIN objects[n] : objects[n][i].key = objects[n][j].key => i = j
    BY DEF TypeOK
  <2>5. kind = "label" => Len(objects) = 1
    BY DEF TypeOK
  <2>6. ASSUME kind = "label" \/ kind = "VOL1", More'
        PROVE  at' <= Len(Members')
    <3>1. CASE objnum' = objnum
      BY <2>1, <2>6, <3>1
    <3>2. CASE objnum' = objnum + 1 /\ at' = 0
      <4>1. objnum' \in 1..Len(objects)
        BY <2>1, <2>2, <2>3, <2>6, <3>2 DEF More
      <4>2. Members' \in Seq(Member)
        BY <2>1, <4>1 DEF Members, IsDocument
      <4> QED
        BY <3>2, <4>2
    <3> QED
      BY <2>1, <3>1, <3>2
  <2> QED
    BY <1>1, <1>3, <2>1, <2>3, <2>4, <2>5, <2>6 DEF TypeOK
<1> QED
  BY <1>2, <1>3

-----------------------------------------------------------------------------
(* The flags of the required members *)

LEMMA FoundStep == ASSUME TypeOK, FoundInv, Next PROVE FoundInv'
<1>1. CASE kind = "name"
  <2>1. kind' = "name"
    BY <1>1 DEF Next, StartMetadata, MetadataMember, EndMetadata, StartBucket, BucketMember, EndBucket,
                LabelMember, EndLabel, Vol1Field, EndVol1, CheckName
  <2> QED
    BY <2>1 DEF FoundInv
<1>2. CASE kind # "name"
  <2>1. /\ kind' = kind /\ objects' = objects /\ More /\ objnum \in 1..Len(objects)
        /\ Members \in Seq(Member) /\ Len(Members) \in Nat /\ at \in Nat
        /\ objnum' = objnum => Members' = Members
    BY <1>2, StepPlaces DEF Members
  <2>2. ASSUME kind = "buckets", More', at' > 0
        PROVE  found' = KeysBefore(Members', at') \cap BucketRequired
    <3>1. CASE StartBucket
      BY <2>1, <3>1, NoKeysBefore DEF StartBucket, NoFlags
    <3>2. CASE BucketMember
      <4>1. at \in DOMAIN Members /\ at > 0
        BY <2>1, <3>2 DEF BucketMember
      <4>2. KeysBefore(Members, at + 1) = KeysBefore(Members, at) \cup {m_.key}
        BY <2>1, <4>1, NextKeys DEF m_
      <4>3. found = KeysBefore(Members, at) \cap BucketRequired
        BY <2>1, <2>2, <4>1 DEF FoundInv
      <4>4. found' = found \cup ({m_.key} \cap BucketRequired) /\ at' = at + 1 /\ objnum' = objnum
        BY <3>2 DEF BucketMember
      <4> QED
        BY <2>1, <4>2, <4>3, <4>4
    <3> QED
      BY <2>1, <2>2, <3>1, <3>2 DEF Next, StartMetadata, MetadataMember, EndMetadata, EndBucket,
                LabelMember, EndLabel, Vol1Field, EndVol1, CheckName
  <2>3. ASSUME kind = "label", More'
        PROVE  found' = KeysBefore(Members', at' + 1) \cap LabelRequired
    <3>1. LabelMember
      <4>0. Len(objects) = 1
        BY <2>3 DEF TypeOK
      <4>1. ~EndLabel
        BY <2>1, <2>3, <4>0 DEF EndLabel, More
      <4> QED
        BY <2>3, <4>1 DEF Next, StartMetadata, MetadataMember, EndMetadata, StartBucket, BucketMember, EndBucket,
                Vol1Field, EndVol1, CheckName
    <3>2. at + 1 \in DOMAIN Members /\ at' = at + 1 /\ objnum' = objnum
      BY <2>1, <3>1 DEF LabelMember
    <3>3. KeysBefore(Members, at + 1 + 1) = KeysBefore(Members, at + 1) \cup {Members[at + 1].key}
      BY <2>1, <3>2, NextKeys
    <3>4. found = KeysBefore(Members, at + 1) \cap LabelRequired
      BY <2>1, <2>3 DEF FoundInv
    <3>5. found' = found \cup ({Members[at + 1].key} \cap LabelRequired)
      BY <3>1 DEF LabelMember
    <3> QED
      BY <2>1, <3>2, <3>3, <3>4, <3>5
  <2> QED
    BY <2>1, <2>2, <2>3 DEF FoundInv
<1> QED
  BY <1>1, <1>2

-----------------------------------------------------------------------------
(* Right documents *)

LEMMA QuietStep == ASSUME TypeOK, FoundInv, QuietInv, Next PROVE QuietInv'
<1> SUFFICES ASSUME kind' # "name", \A n \in DOMAIN objects' : RightObject(kind', objects'[n])
             PROVE  ~said' /\ ret' = "OK"
  BY DEF QuietInv
<1>1. kind # "name"
  BY DEF Next, StartMetadata, MetadataMember, EndMetadata, StartBucket, BucketMember, EndBucket,
         LabelMember, EndLabel, Vol1Field, EndVol1, CheckName
<1>2. /\ kind' = kind /\ objects' = objects /\ IsDocument(objects) /\ objnum \in 1..Len(objects)
      /\ Members \in Seq(Member) /\ Len(Members) \in Nat /\ at \in Nat
  BY <1>1, StepPlaces
<1>3. RightObject(kind, Members) /\ ~said /\ ret = "OK"
  <2>1. \A n \in DOMAIN objects : RightObject(kind, objects[n])
    BY <1>2
  <2>2. objnum \in DOMAIN objects
    BY <1>2 DEF IsDocument
  <2> QED
    BY <1>1, <2>1, <2>2 DEF QuietInv, Members
<1>4. CASE StartMetadata
  <2>1. \A key \in MetadataRequired : Required(key)
    BY <1>3, <1>4, RightMetadata DEF StartMetadata, Required
  <2> QED
    BY <1>3, <1>4, <2>1 DEF StartMetadata, Error
<1>5. CASE MetadataMember
  <2>1. at \in DOMAIN Members /\ kind = "metadata"
    BY <1>5 DEF MetadataMember
  <2>2. IF KnownMeta(m_) THEN OptionalMetaOk(m_) ELSE IsVendor(m_)
    BY <1>3, <2>1, RightMetadata DEF m_
  <2> QED
    BY <1>3, <1>5, <2>2 DEF MetadataMember, Error
<1>6. CASE BucketMember
  <2>1. at \in DOMAIN Members /\ kind = "buckets"
    BY <1>6 DEF BucketMember
  <2>2. BucketOk(m_)
    BY <1>3, <2>1, RightBucket DEF m_
  <2> QED
    BY <1>3, <1>6, <2>2 DEF BucketMember, Error
<1>7. CASE EndBucket
  <2>1. at > Len(Members) /\ kind = "buckets" /\ More
    BY <1>7 DEF EndBucket
  <2>2. found = KeysBefore(Members, at) \cap BucketRequired
    BY <1>2, <2>1 DEF FoundInv
  <2>3. found = BucketRequired
    BY <1>2, <1>3, <2>1, <2>2, AllKeys, RightBucket
  <2> QED
    BY <1>3, <1>7, <2>3 DEF EndBucket, Error
<1>8. CASE LabelMember
  <2>1. at + 1 \in DOMAIN Members /\ kind = "label"
    BY <1>2, <1>8 DEF LabelMember
  <2>2. LabelOk(Members[at + 1])
    BY <1>3, <2>1, RightLabel
  <2>3. Members[at + 1].key = "BlockSize" => BlockSizeOk(Members[at + 1])
    BY <2>2 DEF LabelOk
  <2> QED
    BY <1>3, <1>8, <2>2, <2>3 DEF LabelMember, Error
<1>9. CASE EndLabel
  <2>1. at = Len(Members) /\ kind = "label" /\ More
    BY <1>9 DEF EndLabel
  <2>2. found = KeysBefore(Members, at + 1) \cap LabelRequired
    BY <1>2, <2>1 DEF FoundInv
  <2>3. found = LabelRequired
    BY <1>2, <1>3, <2>1, <2>2, AllKeys, RightLabel
  <2> QED
    BY <1>3, <1>9, <2>3 DEF EndLabel, Error
<1>10. CASE Vol1Field
  <2>1. at + 1 \in DOMAIN Members /\ kind = "VOL1"
    BY <1>2, <1>10 DEF Vol1Field
  <2>2. Members[at + 1].wrong = {}
    BY <1>3, <2>1, RightVol1
  <2>3. ~LoopOver(Members[at + 1])
    BY <2>2 DEF LoopOver
  <2> QED
    BY <1>3, <1>10, <2>2, <2>3 DEF Vol1Field, Error
<1>11. CASE EndMetadata \/ StartBucket \/ EndVol1
  BY <1>3, <1>11 DEF EndMetadata, StartBucket, EndVol1
<1> QED
  BY <1>1, <1>4, <1>5, <1>6, <1>7, <1>8, <1>9, <1>10, <1>11 DEF Next, CheckName

-----------------------------------------------------------------------------
(* What is returned *)

LEMMA ReturnStep == ASSUME TypeOK, ReturnInv, Next PROVE ReturnInv'
<1>1. ret' = "NG" => said'
  <2> USE DEF ReturnInv
  <2>1. CASE LabelMember
    BY <2>1 DEF LabelMember, Error
  <2>2. CASE StartMetadata \/ MetadataMember
    BY <2>2 DEF StartMetadata, MetadataMember, Error
  <2>3. CASE BucketMember \/ EndBucket \/ EndLabel
    BY <2>3 DEF BucketMember, EndBucket, EndLabel, Error
  <2>4. CASE Vol1Field \/ CheckName
    BY <2>4 DEF Vol1Field, CheckName, Error
  <2>5. CASE EndMetadata \/ StartBucket \/ EndVol1
    BY <2>5 DEF EndMetadata, StartBucket, EndVol1
  <2> QED
    BY <2>1, <2>2, <2>3, <2>4, <2>5 DEF Next
<1>2. block_size' >= MIN_BLOCKSIZE_IN_LABEL
  <2>1. CASE LabelMember
    BY <2>1 DEF LabelMember, ReturnInv, BlockSizeOk
  <2>2. CASE ~LabelMember
    <3>1. block_size' = block_size
      BY <2>2 DEF Next, StartMetadata, MetadataMember, EndMetadata, StartBucket, BucketMember, EndBucket,
                  EndLabel, Vol1Field, EndVol1, CheckName
    <3> QED
      BY <3>1 DEF ReturnInv
  <2> QED
    BY <2>1, <2>2
<1>3. ASSUME kind' # "name", said', ret' = "OK"
      PROVE  kind' = "label" /\ \E i \in DOMAIN objects'[1] :
               objects'[1][i].key = "BlockSize" /\ ~BlockSizeOk(objects'[1][i])
  <2>1. kind # "name" /\ kind' = kind /\ objects' = objects
    BY <1>3 DEF Next, StartMetadata, MetadataMember, EndMetadata, StartBucket, BucketMember, EndBucket,
                LabelMember, EndLabel, Vol1Field, EndVol1, CheckName
  <2>2. CASE said /\ ret = "OK"
    BY <2>1, <2>2 DEF ReturnInv
  <2>3. CASE ~(said /\ ret = "OK")
    <3>1. LabelMember
      <4>1. ~(StartMetadata \/ MetadataMember \/ BucketMember)
        BY <1>3, <2>3 DEF StartMetadata, MetadataMember, BucketMember, Error, TypeOK
      <4>2. ~(EndBucket \/ EndLabel \/ Vol1Field)
        BY <1>3, <2>3 DEF EndBucket, EndLabel, Vol1Field, Error, TypeOK
      <4>3. ~(EndMetadata \/ StartBucket \/ EndVol1)
        BY <1>3, <2>3 DEF EndMetadata, StartBucket, EndVol1
      <4> QED
        BY <2>1, <4>1, <4>2, <4>3 DEF Next, CheckName
    <3>2. kind = "label" /\ Members = objects[1] /\ at + 1 \in DOMAIN Members
      <4>1. kind = "label" /\ More /\ at < Len(Members)
        BY <3>1 DEF LabelMember
      <4>2. Len(objects) = 1 /\ objnum \in 1..Len(objects) /\ at \in Nat /\ Members \in Seq(Member)
        BY <2>1, <4>1, StepPlaces DEF TypeOK
      <4> QED
        BY <4>1, <4>2 DEF Members
    <3>3. Members[at + 1].key = "BlockSize" /\ ~BlockSizeOk(Members[at + 1])
      BY <1>3, <2>3, <3>1 DEF LabelMember, Error, TypeOK
    <3> QED
      BY <2>1, <3>2, <3>3
  <2> QED
    BY <2>2, <2>3
<1> QED
  BY <1>1, <1>2, <1>3 DEF ReturnInv

-----------------------------------------------------------------------------
(* Wrong documents *)

\* The members that the second loop over metadata does not reach.
LEMMA UnreadBehind ==
  ASSUME NEW S, NEW o \in Seq(S), NEW n \in DOMAIN o, KnownMeta(o[n]),
         NEW i \in DOMAIN o \ Unread(o)
  PROVE  i <= n
BY DEF Unread

\* A member that is wrong is said to be so, and what is said stays said.
LEMMA SaidStays == ASSUME TypeOK, Next, said PROVE said'
<1>1. CASE StartMetadata \/ MetadataMember
  BY <1>1 DEF StartMetadata, MetadataMember, Error
<1>2. CASE BucketMember \/ EndBucket
  BY <1>2 DEF BucketMember, EndBucket, Error
<1>3. CASE LabelMember
  BY <1>3 DEF LabelMember, Error
<1>4. CASE EndLabel \/ Vol1Field \/ CheckName
  BY <1>4 DEF EndLabel, Vol1Field, CheckName, Error
<1>5. CASE EndMetadata \/ StartBucket \/ EndVol1
  BY <1>5 DEF EndMetadata, StartBucket, EndVol1
<1> QED
  BY <1>1, <1>2, <1>3, <1>4, <1>5 DEF Next

\* Within an object: the members that have been looked at.
LEMMA MetadataSaid ==
  ASSUME TypeOK, SaidInv, Next, kind = "metadata", objnum' = objnum
  PROVE  /\ ~(MetadataRequired \subseteq Keys(Members)) => said'
         /\ \A i \in DOMAIN Members : Members[i].key \in MetadataRequired /\ ~RequiredMetaOk(Members[i]) => said'
         /\ \A i \in DOMAIN Members \ Unread(Members) :
              i < at' /\ ~(IF KnownMeta(Members[i]) THEN OptionalMetaOk(Members[i]) ELSE IsVendor(Members[i])) => said'
<1>1. /\ IsDocument(objects) /\ More /\ objnum \in 1..Len(objects)
      /\ Members \in Seq(Member) /\ Len(Members) \in Nat /\ at \in Nat
  BY StepPlaces
<1>2. said => said'
  BY SaidStays
<1>3. CASE StartMetadata
  <2>1. (\E key \in MetadataRequired : ~Required(key)) => said'
    BY <1>3 DEF StartMetadata, Error
  <2>2. at' = 1
    BY <1>3 DEF StartMetadata
  <2>3. ~(MetadataRequired \subseteq Keys(Members)) => \E key \in MetadataRequired : ~Required(key)
    BY DEF Required, Keys
  <2>4. ASSUME NEW i \in DOMAIN Members, Members[i].key \in MetadataRequired, ~RequiredMetaOk(Members[i])
        PROVE  ~Required(Members[i].key)
    <3>1. \A k, j \in DOMAIN Members : Members[k].key = Members[j].key => k = j
      <4>1. objnum \in DOMAIN objects
        BY <1>1 DEF IsDocument
      <4> QED
        BY <4>1 DEF TypeOK, Members
    <3> QED
      BY <2>4, <3>1 DEF Required
  <2>5. \A i \in DOMAIN Members : ~(i < 1)
    BY <1>1
  <2> QED
    BY <2>1, <2>2, <2>3, <2>4, <2>5
<1>4. CASE MetadataMember
  <2>1. at \in DOMAIN Members /\ at > 0
    BY <1>1, <1>4 DEF MetadataMember
  <2>2. /\ ~(MetadataRequired \subseteq Keys(Members)) => said
        /\ \A i \in DOMAIN Members : Members[i].key \in MetadataRequired /\ ~RequiredMetaOk(Members[i]) => said
        /\ \A i \in DOMAIN Members \ Unread(Members) :
             i < at /\ ~(IF KnownMeta(Members[i]) THEN OptionalMetaOk(Members[i]) ELSE IsVendor(Members[i])) => said
    BY <1>1, <2>1 DEF SaidInv
  <2>3. ~(IF KnownMeta(m_) THEN OptionalMetaOk(m_) ELSE IsVendor(m_)) => said'
    BY <1>4 DEF MetadataMember, Error
  <2>4. ASSUME NEW i \in DOMAIN Members \ Unread(Members), i < at'
        PROVE  i < at \/ i = at
    <3>1. CASE KnownMeta(m_)
      BY <1>1, <2>1, <3>1, UnreadBehind DEF m_
    <3>2. CASE ~KnownMeta(m_)
      <4>1. at' = at + 1
        BY <1>4, <3>2 DEF MetadataMember
      <4> QED
        BY <1>1, <2>4, <4>1
    <3> QED
      BY <3>1, <3>2
  <2> QED
    BY <1>2, <2>2, <2>3, <2>4 DEF m_
<1>5. CASE EndMetadata
  BY <1>1, <1>5 DEF EndMetadata
<1> QED
  BY <1>3, <1>4, <1>5 DEF Next, StartBucket, BucketMember, EndBucket, LabelMember, EndLabel, Vol1Field, EndVol1, CheckName

LEMMA BucketSaid ==
  ASSUME TypeOK, SaidInv, Next, kind = "buckets", objnum' = objnum,
         NEW i \in DOMAIN Members, i < at', ~BucketOk(Members[i])
  PROVE  said'
<1>1. More /\ Members \in Seq(Member) /\ at \in Nat
  BY StepPlaces
<1>2. i < at => said'
  BY <1>1, SaidStays DEF SaidInv
<1>3. CASE StartBucket
  BY <1>1, <1>3 DEF StartBucket
<1>4. CASE BucketMember
  <2>1. at' = at + 1 /\ (~BucketOk(m_) => said')
    BY <1>4 DEF BucketMember, Error
  <2> QED
    BY <1>1, <1>2, <2>1 DEF m_
<1>5. CASE EndBucket
  BY <1>5, StepPlaces DEF EndBucket
<1> QED
  BY <1>3, <1>4, <1>5 DEF Next, StartMetadata, MetadataMember, EndMetadata, LabelMember, EndLabel, Vol1Field, EndVol1, CheckName

LEMMA LabelSaid ==
  ASSUME TypeOK, SaidInv, Next, kind = "label", objnum' = objnum,
         NEW i \in DOMAIN Members, i <= at', ~LabelOk(Members[i])
  PROVE  said'
<1>1. More /\ Members \in Seq(Member) /\ at \in Nat
  BY StepPlaces
<1>2. i <= at => said'
  BY <1>1, SaidStays DEF SaidInv
<1>3. CASE LabelMember
  <2>1. at' = at + 1
    BY <1>3 DEF LabelMember
  <2>2. ASSUME i = at + 1 PROVE said'
    <3>1. CASE Members[i].key = "BlockSize"
      <4>1. ~BlockSizeOk(Members[i])
        BY <3>1 DEF LabelOk
      <4> QED
        BY <1>3, <2>2, <3>1, <4>1 DEF LabelMember
    <3>2. CASE Members[i].key # "BlockSize"
      BY <1>3, <2>2, <3>2 DEF LabelMember, Error
    <3> QED
      BY <3>1, <3>2
  <2> QED
    BY <1>1, <1>2, <2>1, <2>2
<1>4. CASE EndLabel
  BY <1>4, StepPlaces DEF EndLabel
<1> QED
  BY <1>3, <1>4 DEF Next, StartMetadata, MetadataMember, EndMetadata, StartBucket, BucketMember, EndBucket, Vol1Field, EndVol1, CheckName

LEMMA Vol1Said ==
  ASSUME TypeOK, SaidInv, ReturnInv, Next, kind = "VOL1", objnum' = objnum,
         NEW i \in DOMAIN Members, i <= at', Members[i].wrong # {}
  PROVE  said'
<1>1. More /\ Members \in Seq(Member) /\ at \in Nat
  BY StepPlaces
<1>2. said => said'
  BY SaidStays
<1>3. i <= at => said'
  BY <1>1, <1>2 DEF SaidInv
<1>4. CASE Vol1Field
  <2>1. at' = at + 1
    BY <1>4 DEF Vol1Field
  <2>2. ASSUME i = at + 1 PROVE said'
    <3>1. CASE ret = "NG"
      BY <1>2, <3>1 DEF ReturnInv
    <3>2. CASE ret # "NG"
      BY <1>4, <2>2, <3>2 DEF Vol1Field, Error, LoopOver
    <3> QED
      BY <3>1, <3>2
  <2> QED
    BY <1>1, <1>3, <2>1, <2>2
<1>5. CASE EndVol1
  BY <1>5, StepPlaces DEF EndVol1
<1> QED
  BY <1>4, <1>5 DEF Next, StartMetadata, MetadataMember, EndMetadata, StartBucket, BucketMember, EndBucket, LabelMember, EndLabel, CheckName

\* At the end of an object that is wrong it has been said.
LEMMA ObjectSaid ==
  ASSUME TypeOK, FoundInv, SaidInv, Next, kind # "name", objnum' = objnum + 1, ~SeenRight(kind, Members)
  PROVE  said'
<1>1. /\ More /\ Members \in Seq(Member) /\ Len(Members) \in Nat /\ at \in Nat /\ objnum \in Nat
  BY StepPlaces
<1>2. said => said'
  BY SaidStays
<1>3. EndMetadata \/ EndBucket \/ EndLabel \/ EndVol1
  <2>1. objnum' # objnum
    BY <1>1
  <2>2. ~StartMetadata /\ ~StartBucket /\ ~BucketMember
    BY <2>1 DEF StartMetadata, StartBucket, BucketMember
  <2>3. ~MetadataMember /\ ~LabelMember /\ ~Vol1Field
    BY <2>1 DEF MetadataMember, LabelMember, Vol1Field
  <2> QED
    BY <2>2, <2>3 DEF Next, CheckName
<1>4. CASE EndMetadata
  <2>1. kind = "metadata" /\ at > Len(Members)
    BY <1>4 DEF EndMetadata
  <2>2. at > 0 /\ \A i \in DOMAIN Members : i < at
    BY <1>1, <2>1
  <2> QED
    BY <1>1, <1>2, <2>1, <2>2 DEF SaidInv, SeenRight
<1>5. CASE EndBucket
  <2>1. kind = "buckets" /\ at > Len(Members) /\ (found # BucketRequired => said')
    BY <1>5 DEF EndBucket, Error
  <2>2. at > 0 /\ \A i \in DOMAIN Members : i < at
    BY <1>1, <2>1
  <2>3. found = Keys(Members) \cap BucketRequired
    BY <1>1, <2>1, <2>2, AllKeys DEF FoundInv
  <2>4. ~(BucketRequired \subseteq Keys(Members)) \/ \E i \in DOMAIN Members : ~BucketOk(Members[i])
    BY <2>1, RightBucket, SeenOthers
  <2> QED
    BY <1>1, <1>2, <2>1, <2>2, <2>3, <2>4 DEF SaidInv
<1>6. CASE EndLabel
  <2>1. kind = "label" /\ at = Len(Members) /\ (found # LabelRequired => said')
    BY <1>6 DEF EndLabel, Error
  <2>2. \A i \in DOMAIN Members : i <= at
    BY <1>1, <2>1
  <2>3. found = Keys(Members) \cap LabelRequired
    BY <1>1, <2>1, AllKeys DEF FoundInv
  <2>4. ~(LabelRequired \subseteq Keys(Members)) \/ \E i \in DOMAIN Members : ~LabelOk(Members[i])
    BY <2>1, RightLabel, SeenOthers
  <2> QED
    BY <1>1, <1>2, <2>1, <2>2, <2>3, <2>4 DEF SaidInv
<1>7. CASE EndVol1
  <2>1. kind = "VOL1" /\ at = Len(Members)
    BY <1>7 DEF EndVol1
  <2>2. \A i \in DOMAIN Members : i <= at
    BY <1>1, <2>1
  <2>3. \E i \in DOMAIN Members : Members[i].wrong # {}
    BY <2>1, RightVol1, SeenOthers
  <2> QED
    BY <1>1, <1>2, <2>1, <2>2, <2>3 DEF SaidInv
<1> QED
  BY <1>3, <1>4, <1>5, <1>6, <1>7

LEMMA SaidStep == ASSUME TypeOK, FoundInv, SaidInv, ReturnInv, Next PROVE SaidInv'
<1>1. CASE kind = "name"
  <2>1. kind' = "name"
    BY <1>1 DEF Next, StartMetadata, MetadataMember, EndMetadata, StartBucket, BucketMember, EndBucket,
                LabelMember, EndLabel, Vol1Field, EndVol1, CheckName
  <2> QED
    BY <2>1 DEF SaidInv
<1>2. CASE kind # "name"
  <2>1. /\ kind' = kind /\ objects' = objects /\ IsDocument(objects) /\ objnum \in 1..Len(objects)
        /\ \/ objnum' = objnum /\ Members' = Members
           \/ objnum' = objnum + 1 /\ at' = 0
    BY <1>2, StepPlaces
  <2>2. said => said'
    BY SaidStays
  <2>3. ASSUME NEW n \in DOMAIN objects, n < objnum', ~SeenRight(kind, objects[n])
        PROVE  said'
    <3>1. CASE n < objnum
      BY <1>2, <2>2, <2>3, <3>1 DEF SaidInv
    <3>2. CASE n = objnum /\ objnum' = objnum + 1
      BY <1>2, <2>3, <3>2, ObjectSaid DEF Members
    <3>3. n \in Nat
      BY <2>1 DEF IsDocument
    <3> QED
      BY <2>1, <2>3, <3>1, <3>2, <3>3
  <2>4. CASE objnum' = objnum
    <3>1. Members' = Members
      BY <2>1, <2>4 DEF Members
    <3>2. kind = "metadata" =>
            /\ ~(MetadataRequired \subseteq Keys(Members)) => said'
            /\ \A i \in DOMAIN Members : Members[i].key \in MetadataRequired /\ ~RequiredMetaOk(Members[i]) => said'
            /\ \A i \in DOMAIN Members \ Unread(Members) :
                 i < at' /\ ~(IF KnownMeta(Members[i]) THEN OptionalMetaOk(Members[i]) ELSE IsVendor(Members[i])) => said'
      BY <2>4, MetadataSaid
    <3>3. kind = "buckets" => \A i \in DOMAIN Members : i < at' /\ ~BucketOk(Members[i]) => said'
      BY <2>4, BucketSaid
    <3>4. kind = "label" => \A i \in DOMAIN Members : i <= at' /\ ~LabelOk(Members[i]) => said'
      BY <2>4, LabelSaid
    <3>5. kind = "VOL1" => \A i \in DOMAIN Members : i <= at' /\ Members[i].wrong # {} => said'
      BY <2>4, Vol1Said
    <3> QED
      BY <2>1, <2>3, <3>1, <3>2, <3>3, <3>4, <3>5 DEF SaidInv
  <2>5. CASE objnum' = objnum + 1 /\ at' = 0
    <3>1. ASSUME More' PROVE \A i \in DOMAIN Members' : i > 0
      <4>1. objnum' \in 1..Len(objects)
        BY <2>1, <2>5, <3>1 DEF More, IsDocument
      <4>2. Members' \in Seq(Member)
        BY <2>1, <4>1 DEF Members, IsDocument
      <4> QED
        BY <4>2
    <3>2. More' => \A i \in DOMAIN Members' : ~(i <= at') /\ ~(i < at')
      <4>1. ASSUME More', NEW i \in DOMAIN Members' PROVE i \in Nat
        <5>1. objnum' \in 1..Len(objects)
          BY <2>1, <2>5, <4>1 DEF More, IsDocument
        <5>2. Members' \in Seq(Member)
          BY <2>1, <5>1 DEF Members, IsDocument
        <5> QED
          BY <4>1, <5>2
      <4> QED
        BY <2>5, <3>1, <4>1
    <3> QED
      BY <2>1, <2>3, <2>5, <3>2 DEF SaidInv
  <2> QED
    BY <2>1, <2>4, <2>5
<1> QED
  BY <1>1, <1>2

-----------------------------------------------------------------------------
(* Documents *)

LEMMA InitDoc == Init => DocInv
<1> SUFFICES ASSUME Init PROVE DocInv
  OBVIOUS
<1>1. TypeOK
  BY InitType
<1>2. objnum = 1 /\ at = 0 /\ found = {} /\ said = FALSE /\ ret = "OK"
  BY DEF Init
<1>3. block_size >= MIN_BLOCKSIZE_IN_LABEL
  BY BlockSizeAssumption DEF Init
<1>4. (kind # "name" /\ More) => Members \in Seq(Member)
  BY <1>1, <1>2 DEF TypeOK, More, Members, IsDocument
<1>5. FoundInv
  BY <1>2, <1>4, NoKeysBefore DEF FoundInv
<1>6. SaidInv
  <2>1. kind # "name" => \A n \in DOMAIN objects : ~(n < objnum)
    BY <1>1, <1>2 DEF TypeOK, IsDocument
  <2>2. (kind # "name" /\ More) => \A i \in DOMAIN Members : ~(i <= at) /\ ~(i < at)
    BY <1>2, <1>4
  <2> QED
    BY <1>2, <2>1, <2>2 DEF SaidInv
<1> QED
  BY <1>1, <1>2, <1>3, <1>5, <1>6 DEF DocInv, QuietInv, ReturnInv

LEMMA StepDoc == DocInv /\ [Next]_vars => DocInv'
<1> SUFFICES ASSUME DocInv, [Next]_vars PROVE DocInv'
  OBVIOUS
<1> USE DEF DocInv
<1>1. CASE Next
  BY <1>1, StepType, FoundStep, QuietStep, SaidStep, ReturnStep
<1>2. CASE UNCHANGED vars
  <2> USE <1>2 DEF vars
  <2>1. TypeOK'
    BY DEF TypeOK, More, Members
  <2>2. FoundInv'
    BY DEF FoundInv, More, Members
  <2>3. QuietInv' /\ ReturnInv'
    BY DEF QuietInv, ReturnInv
  <2>4. SaidInv'
    BY DEF SaidInv, More, Members
  <2> QED
    BY <2>1, <2>2, <2>3, <2>4
<1> QED
  BY <1>1, <1>2

LEMMA DocInvAlways == Spec => []DocInv
BY InitDoc, StepDoc, PTL DEF Spec

\* Metadata, bucket lists and labels that are what the format asks for, whatever the
\* order of their members and whatever else stands between them, pass without a word.
THEOREM RightDocumentsPass == Spec => []RightPasses
<1>1. DocInv => RightPasses
  BY DEF DocInv, QuietInv, RightPasses, Done
<1> QED
  BY <1>1, DocInvAlways, PTL

\* Of a document in which anything is wrong that the checks look at something is said;
\* what is said is returned, but for a block size; and the block size in use is always
\* one that a label may have.
THEOREM WrongDocumentsSaid == Spec => []WrongIsSaid
<1>1. DocInv => WrongIsSaid
  <2> SUFFICES ASSUME DocInv, Done PROVE
        /\ (\E n \in DOMAIN objects : ~SeenRight(kind, objects[n])) => said
        /\ (said /\ ret = "OK") => \E i \in DOMAIN objects[1] : objects[1][i].key = "BlockSize" /\ ~BlockSizeOk(objects[1][i])
        /\ block_size >= MIN_BLOCKSIZE_IN_LABEL
    BY DEF WrongIsSaid
  <2>1. kind # "name" /\ \A n \in DOMAIN objects : n < objnum
    <3>1. kind # "name" /\ ~(objnum <= Len(objects))
      BY DEF Done, More
    <3>2. IsDocument(objects) /\ objnum \in Nat
      BY <3>1 DEF DocInv, TypeOK, IsDocument
    <3> QED
      BY <3>1, <3>2 DEF IsDocument
  <2> QED
    BY <2>1 DEF DocInv, SaidInv, ReturnInv
<1> QED
  BY <1>1, DocInvAlways, PTL

-----------------------------------------------------------------------------
(* The parts of a name between its periods *)

IsName(name) == name \in Seq(STRING)

LEMMA LabelFields ==
  ASSUME NEW name, IsName(name)
  PROVE  /\ Len(name) \in Nat
         /\ \A p \in Labels_(name) :
              /\ p = <<p[1], p[2]>> /\ p[1] \in 1..(Len(name) + 1) /\ p[2] \in 0..Len(name) /\ p[1] <= p[2] + 1
              /\ \A k \in p[1]..p[2] : name[k] # "."
              /\ p[1] = 1 \/ name[p[1] - 1] = "."
              /\ p[2] = Len(name) \/ name[p[2] + 1] = "."
         /\ \A i \in 1..(Len(name) + 1), j \in 0..Len(name) :
              /\ i <= j + 1 /\ \A k \in i..j : name[k] # "."
              /\ i = 1 \/ name[i - 1] = "."
              /\ j = Len(name) \/ name[j + 1] = "."
              => <<i, j>> \in Labels_(name)
BY DEF IsName, Labels_, IsPart

\* A non-empty set of natural numbers has a least element.
LEMMA LeastOf ==
  ASSUME NEW S \in SUBSET Nat, S # {}
  PROVE  \E n \in S : \A m \in S : n <= m
<1> DEFINE Less == OpToRel(<, Nat)
<1>1. PICK n \in S : \A m \in S : ~ (<<m, n>> \in Less)
  <2>1. IsWellFoundedOn(Less, Nat)
    BY NatLessThanWellFounded
  <2> HIDE DEF Less
  <2> QED
    BY <2>1, WFMin
<1>2. \A m \in S : ~ (m < n)
  BY <1>1 DEF OpToRel
<1> QED
  BY <1>2

\* Every place begins what is left of a label: there is a next period or the end.
LEMMA EndOfLabel ==
  ASSUME NEW name, IsName(name), NEW i \in 1..(Len(name) + 1)
  PROVE  \E j \in 0..Len(name) :
           i <= j + 1 /\ (\A k \in i..j : name[k] # ".") /\ (j = Len(name) \/ name[j + 1] = ".")
<1>1. Len(name) \in Nat
  BY DEF IsName
<1> DEFINE Ends(j) == j + 1 >= i /\ j <= Len(name) /\ (j = Len(name) \/ name[j + 1] = ".")
           S == {j \in Nat : Ends(j)}
<1>2. Len(name) \in S
  BY <1>1
<1>3. PICK j \in S : \A k \in S : j <= k
  <2>1. S \subseteq Nat /\ S # {}
    BY <1>2
  <2> HIDE DEF S
  <2> QED
    BY <2>1, LeastOf
<1>4. j \in 0..Len(name) /\ i <= j + 1 /\ (j = Len(name) \/ name[j + 1] = ".")
  BY <1>1, <1>3
<1>5. ASSUME NEW k \in i..j, name[k] = "." PROVE FALSE
  <2>1. k - 1 \in S
    BY <1>1, <1>4, <1>5
  <2>2. k \in Int /\ k <= j /\ j \in Int
    BY <1>4, <1>5
  <2> HIDE DEF S
  <2>3. j <= k - 1
    BY <1>3, <2>1
  <2> QED
    BY <2>2, <2>3
<1> QED
  BY <1>4, <1>5

\* And it ends what has begun behind the period before it.
LEMMA StartOfLabel ==
  ASSUME NEW name, IsName(name), NEW j \in 0..Len(name)
  PROVE  \E i \in 1..(Len(name) + 1) :
           i <= j + 1 /\ (\A k \in i..j : name[k] # ".") /\ (i = 1 \/ name[i - 1] = ".")
<1>1. Len(name) \in Nat
  BY DEF IsName
<1> DEFINE S == {d \in Nat : d <= j /\ (d = j \/ name[j - d] = ".")}
<1>2. j \in S
  BY <1>1
<1>3. PICK d \in S : \A k \in S : d <= k
  <2>1. S \subseteq Nat /\ S # {}
    BY <1>2
  <2> HIDE DEF S
  <2> QED
    BY <2>1, LeastOf
<1>4. j + 1 - d \in 1..(Len(name) + 1) /\ j + 1 - d <= j + 1 /\ (j + 1 - d = 1 \/ name[(j + 1 - d) - 1] = ".")
  <2>1. (j + 1 - d) - 1 = j - d
    BY <1>3
  <2> QED
    BY <1>1, <1>3, <2>1
<1>5. ASSUME NEW k \in (j + 1 - d)..j, name[k] = "." PROVE FALSE
  <2>1. j - (j - k) = k
    BY <1>5
  <2>2. j - k \in S
    BY <1>1, <1>3, <1>5, <2>1
  <2>3. k \in Int /\ k >= j + 1 - d /\ j \in Int /\ d \in Int
    BY <1>3, <1>5
  <2> HIDE DEF S
  <2>4. d <= j - k
    BY <1>3, <2>2
  <2> QED
    BY <2>3, <2>4
<1> QED
  BY <1>4, <1>5

\* So a place behind a period, or the first, begins a label, and one before a period,
\* or the last, ends one.
LEMMA LabelFrom ==
  ASSUME NEW name, IsName(name), NEW i \in 1..(Len(name) + 1), i = 1 \/ name[i - 1] = "."
  PROVE  \E j \in 0..Len(name) : <<i, j>> \in Labels_(name)
BY EndOfLabel, LabelFields

LEMMA LabelUpTo ==
  ASSUME NEW name, IsName(name), NEW j \in 0..Len(name), j = Len(name) \/ name[j + 1] = "."
  PROVE  \E i \in 1..(Len(name) + 1) : <<i, j>> \in Labels_(name)
BY StartOfLabel, LabelFields

\* Every character but a period is in a label.
LEMMA LabelAround ==
  ASSUME NEW name, IsName(name), NEW k \in 1..Len(name), name[k] # "."
  PROVE  \E p \in Labels_(name) : k \in p[1]..p[2]
<1>1. Len(name) \in Nat
  BY DEF IsName
<1>2. PICK i \in 1..(Len(name) + 1) :
        i <= k + 1 /\ (\A n \in i..k : name[n] # ".") /\ (i = 1 \/ name[i - 1] = ".")
  BY <1>1, StartOfLabel
<1>3. PICK j \in 0..Len(name) :
        k <= j + 1 /\ (\A n \in k..j : name[n] # ".") /\ (j = Len(name) \/ name[j + 1] = ".")
  BY <1>1, EndOfLabel
<1>4. i <= k
  <2>1. ~(i = k + 1)
    <3>1. ASSUME i = k + 1 PROVE FALSE
      <4>1. i - 1 = k /\ i # 1
        BY <3>1
      <4> QED
        BY <1>2, <4>1
    <3> QED
      BY <3>1
  <2> QED
    BY <1>2, <2>1
<1>5. k <= j
  <2>1. ASSUME k = j + 1 PROVE FALSE
    BY <1>1, <1>3, <2>1
  <2> QED
    BY <1>3, <2>1
<1>6. \A n \in i..j : name[n] # "."
  BY <1>2, <1>3
<1>7. <<i, j>> \in Labels_(name)
  BY <1>2, <1>3, <1>4, <1>5, <1>6, LabelFields
<1> QED
  BY <1>4, <1>5, <1>7

\* Labels do not overlap, and a period is between two of them.
LEMMA LabelsApart ==
  ASSUME NEW name, IsName(name), NEW p \in Labels_(name), NEW q \in Labels_(name)
  PROVE  /\ p[1] = q[1] => p = q
         /\ p[1] < q[1] => p[2] + 2 <= q[1]
<1>1. /\ Len(name) \in Nat
      /\ p = <<p[1], p[2]>> /\ p[1] \in 1..(Len(name) + 1) /\ p[2] \in 0..Len(name) /\ p[1] <= p[2] + 1
      /\ q = <<q[1], q[2]>> /\ q[1] \in 1..(Len(name) + 1) /\ q[2] \in 0..Len(name) /\ q[1] <= q[2] + 1
      /\ \A k \in p[1]..p[2] : name[k] # "."
      /\ \A k \in q[1]..q[2] : name[k] # "."
      /\ q[1] = 1 \/ name[q[1] - 1] = "."
      /\ p[2] = Len(name) \/ name[p[2] + 1] = "."
      /\ q[2] = Len(name) \/ name[q[2] + 1] = "."
  BY LabelFields
<1>2. ASSUME p[1] = q[1] PROVE p = q
  <2>1. ~(p[2] < q[2])
    BY <1>1, <1>2
  <2>2. ~(q[2] < p[2])
    BY <1>1, <1>2
  <2>3. p[2] = q[2]
    BY <1>1, <2>1, <2>2
  <2> QED
    BY <1>1, <1>2, <2>3
<1>3. ASSUME p[1] < q[1] PROVE p[2] + 2 <= q[1]
  <2>1. q[1] - 1 \in Int /\ name[q[1] - 1] = "." /\ q[1] - 1 >= p[1]
    BY <1>1, <1>3
  <2>2. q[1] - 1 > p[2]
    BY <1>1, <2>1
  <2> QED
    BY <1>1, <2>2
<1> QED
  BY <1>2, <1>3

\* The octets of strtok are the labels, when none is empty.
LEMMA OctetsAreLabels ==
  ASSUME NEW name, IsName(name), \A p \in Labels_(name) : p[1] <= p[2]
  PROVE  Octets(name) = Labels_(name)
BY DEF Octets, Labels_, IsName

-----------------------------------------------------------------------------
(* Accepted names *)

LEMMA AcceptedLegal ==
  ASSUME NEW name, IsName(name), check_bucket_name(name), NEW p \in Labels_(name)
  PROVE  LegalLabel(name, p)
<1>1. /\ Len(name) \in Nat
      /\ p[1] \in 1..(Len(name) + 1) /\ p[2] \in 0..Len(name) /\ p[1] <= p[2] + 1
      /\ \A k \in p[1]..p[2] : name[k] # "."
      /\ p[1] = 1 \/ name[p[1] - 1] = "."
      /\ p[2] = Len(name) \/ name[p[2] + 1] = "."
  BY LabelFields
<1>2. /\ Len(name) >= 3 /\ Lower(name[1]) /\ Lower(name[Len(name)])
      /\ \A i \in 1..Len(name) : Lower(name[i]) \/ name[i] \in {"-", "."}
  BY <1>1 DEF check_bucket_name, BUCKETNAME_MIN_SIZE, IsName
<1>3. \A i \in 1..(Len(name) - 1) :
        /\ ~(name[i] = "." /\ name[i + 1] = ".")
        /\ ~(name[i] = "." /\ name[i + 1] = "-")
        /\ ~(name[i] = "-" /\ name[i + 1] = ".")
  BY DEF check_bucket_name, Has
<1>4. ~Lower(".") /\ ~Lower("-")
  BY DEF Lower
<1>5. p[1] <= p[2]
  <2>1. ASSUME p[1] = p[2] + 1 PROVE FALSE
    <3>1. CASE p[1] = 1
      <4>1. p[2] = 0 /\ name[p[2] + 1] = "."
        BY <1>1, <1>2, <2>1, <3>1
      <4>2. name[1] = "."
        BY <4>1
      <4> QED
        BY <1>2, <1>4, <4>2
    <3>2. CASE p[1] # 1
      <4>1. name[p[2]] = "." /\ p[2] >= 1
        <5>1. p[1] - 1 = p[2]
          BY <1>1, <2>1
        <5> QED
          BY <1>1, <3>2, <5>1
      <4>2. p[2] = Len(name)
        BY <1>1, <1>3, <4>1
      <4> QED
        BY <1>2, <1>4, <4>1, <4>2
    <3> QED
      BY <3>1, <3>2
  <2> QED
    BY <1>1, <2>1
<1>6. Lower(name[p[1]])
  <2>1. CASE p[1] = 1
    BY <1>2, <2>1
  <2>2. CASE p[1] # 1
    <3>1. p[1] - 1 \in 1..(Len(name) - 1) /\ name[p[1] - 1] = "." /\ (p[1] - 1) + 1 = p[1] /\ p[1] \in 1..Len(name)
      BY <1>1, <1>5, <2>2
    <3>2. name[p[1]] # "-" /\ name[p[1]] # "."
      BY <1>3, <3>1
    <3> QED
      BY <1>2, <3>1, <3>2
  <2> QED
    BY <2>1, <2>2
<1>7. Lower(name[p[2]])
  <2>1. CASE p[2] = Len(name)
    BY <1>2, <2>1
  <2>2. CASE p[2] # Len(name)
    <3>1. p[2] \in 1..(Len(name) - 1) /\ name[p[2] + 1] = "." /\ p[2] \in 1..Len(name)
      BY <1>1, <1>5, <2>2
    <3>2. name[p[2]] # "-" /\ name[p[2]] # "."
      BY <1>3, <3>1
    <3> QED
      BY <1>2, <3>1, <3>2
  <2> QED
    BY <2>1, <2>2
<1>8. \A i \in p[1]..p[2] : Lower(name[i]) \/ name[i] = "-"
  BY <1>1, <1>2
<1> QED
  BY <1>5, <1>6, <1>7, <1>8 DEF LegalLabel

LEMMA AcceptedNoAddress ==
  ASSUME NEW name, IsName(name), check_bucket_name(name)
  PROVE  ~IsAddress(name)
<1> SUFFICES ASSUME IsAddress(name) PROVE FALSE
  OBVIOUS
<1>1. Octets(name) = Labels_(name)
  <2>1. \A p \in Labels_(name) : p[1] <= p[2]
    BY AcceptedLegal DEF LegalLabel
  <2> QED
    BY <2>1, OctetsAreLabels
<1>2. Cardinality(Octets(name)) \in {3, 4} /\ \A p \in Octets(name) : IsOctet(name, p)
  BY <1>1 DEF IsAddress
<1>3. is_ip_address_format(name)
  BY <1>2 DEF is_ip_address_format
<1> QED
  BY <1>3 DEF check_bucket_name

-----------------------------------------------------------------------------
(* Refused names *)

\* Whatever check_bucket_name says of the characters is said of a label.
LEMMA LegalCharacters ==
  ASSUME NEW name, IsName(name), Len(name) \in BUCKETNAME_MIN_SIZE..BUCKETNAME_MAX_SIZE,
         \A p \in Labels_(name) : LegalLabel(name, p)
  PROVE  /\ Lower(name[1]) /\ Lower(name[Len(name)])
         /\ ~Has(name, ".", ".") /\ ~Has(name, ".", "-") /\ ~Has(name, "-", ".")
         /\ \A i \in DOMAIN name : Lower(name[i]) \/ name[i] \in {"-", "."}
<1>1. Len(name) \in Nat /\ Len(name) >= 3 /\ DOMAIN name = 1..Len(name)
  BY DEF IsName, BUCKETNAME_MIN_SIZE
<1>2. ASSUME NEW i \in 1..(Len(name) + 1), i = 1 \/ name[i - 1] = "."
      PROVE  Lower(name[i])
  <2>1. PICK j \in 0..Len(name) : <<i, j>> \in Labels_(name)
    BY <1>2, LabelFrom
  <2> QED
    BY <2>1 DEF LegalLabel
<1>3. ASSUME NEW j \in 0..Len(name), j = Len(name) \/ name[j + 1] = "."
      PROVE  Lower(name[j])
  <2>1. PICK i \in 1..(Len(name) + 1) : <<i, j>> \in Labels_(name)
    BY <1>3, LabelUpTo
  <2> QED
    BY <2>1 DEF LegalLabel
<1>4. ~Lower(".") /\ ~Lower("-")
  BY DEF Lower
<1>5. ASSUME NEW i \in 1..(Len(name) - 1), name[i] = "."
      PROVE  name[i + 1] # "." /\ name[i + 1] # "-"
  <2>1. i + 1 \in 1..(Len(name) + 1) /\ (i + 1) - 1 = i
    BY <1>1
  <2>2. Lower(name[i + 1])
    BY <1>2, <1>5, <2>1
  <2> QED
    BY <1>4, <2>2
<1>6. ASSUME NEW i \in 1..(Len(name) - 1), name[i + 1] = "."
      PROVE  name[i] # "-"
  <2>1. i \in 0..Len(name)
    BY <1>1
  <2>2. Lower(name[i])
    BY <1>3, <1>6, <2>1
  <2> QED
    BY <1>4, <2>2
<1>7. ASSUME NEW i \in 1..Len(name)
      PROVE  Lower(name[i]) \/ name[i] \in {"-", "."}
  <2>1. CASE name[i] # "."
    <3>1. PICK p \in Labels_(name) : i \in p[1]..p[2]
      BY <2>1, LabelAround
    <3> QED
      BY <3>1 DEF LegalLabel
  <2> QED
    BY <2>1
<1>8. Lower(name[1]) /\ Lower(name[Len(name)])
  <2>1. 1 \in 1..(Len(name) + 1) /\ Len(name) \in 0..Len(name)
    BY <1>1
  <2>2. Lower(name[1])
    BY <1>2, <2>1
  <2>3. Lower(name[Len(name)])
    BY <1>3, <2>1
  <2> QED
    BY <2>2, <2>3
<1> QED
  BY <1>1, <1>5, <1>6, <1>7, <1>8 DEF Has

LEMMA PairCard ==
  ASSUME NEW a, NEW b
  PROVE  Cardinality({a, b}) \in {1, 2}
<1>1. IsFiniteSet({a}) /\ Cardinality({a}) = 1
  BY FS_Singleton
<1>2. Cardinality({a} \cup {b}) \in {1, 2}
  BY <1>1, FS_AddElement
<1>3. {a, b} = {a} \cup {b}
  OBVIOUS
<1> QED
  BY <1>2, <1>3

\* The first three octets of a name of three or four are its first three labels.
LEMMA FirstThree ==
  ASSUME NEW name, IsName(name), is_ip_address_format(name), \A p \in Labels_(name) : p[1] <= p[2]
  PROVE  LooksLikeAddress(name)
<1> DEFINE L == Labels_(name)
           Card(S) == Cardinality(S)
           Earlier(p) == {q \in L : q[1] < p[1]}
<1>1. Octets(name) = L
  BY OctetsAreLabels
<1>2. Card(L) \in {3, 4} /\ \A p \in L : Card(Earlier(p)) < 3 => IsOctet(name, p)
  BY <1>1 DEF is_ip_address_format
<1>3. /\ Len(name) \in Nat
      /\ \A p \in L : p[1] \in 1..(Len(name) + 1) /\ p[2] \in 0..Len(name) /\ p[1] <= p[2]
                      /\ (p[2] = Len(name) \/ name[p[2] + 1] = ".")
  BY LabelFields
<1>4. \A p, q \in L : (p[1] = q[1] => p = q) /\ (p[1] < q[1] => p[2] + 2 <= q[1])
  BY LabelsApart
<1>5. ASSUME NEW p \in L, p[2] < Len(name)
      PROVE  \E q \in L : q[1] = p[2] + 2
  <2>1. p[2] + 2 \in 1..(Len(name) + 1) /\ name[(p[2] + 2) - 1] = "."
    <3>1. (p[2] + 2) - 1 = p[2] + 1
      BY <1>3
    <3> QED
      BY <1>3, <1>5, <3>1
  <2>2. PICK j \in 0..Len(name) : <<p[2] + 2, j>> \in L
    BY <2>1, LabelFrom
  <2> QED
    BY <2>2
<1>6. PICK p \in L : p[1] = 1
  <2>1. PICK j \in 0..Len(name) : <<1, j>> \in L
    BY <1>3, LabelFrom
  <2> QED
    BY <2>1
<1> HIDE DEF L
<1>7. p[2] < Len(name)
  <2>1. ASSUME p[2] = Len(name) PROVE FALSE
    <3>1. L = {p}
      BY <1>3, <1>4, <1>6, <2>1
    <3>2. Card(L) = 1
      BY <3>1, FS_Singleton
    <3> QED
      BY <1>2, <3>2
  <2> QED
    BY <1>3, <2>1
<1>8. PICK q \in L : q[1] = p[2] + 2
  BY <1>5, <1>7
<1>9. q[2] < Len(name)
  <2>1. ASSUME q[2] = Len(name) PROVE FALSE
    <3>1. ASSUME NEW x \in L PROVE x = p \/ x = q
      BY <1>3, <1>4, <1>6, <1>8, <2>1
    <3>2. L = {p, q}
      BY <3>1
    <3>3. Card(L) \in {1, 2}
      BY <3>2, PairCard
    <3> QED
      BY <1>2, <3>3
  <2> QED
    BY <1>3, <2>1
<1>10. PICK r \in L : r[1] = q[2] + 2
  BY <1>5, <1>9
<1>11. Card(Earlier(p)) = 0
  <2>1. Earlier(p) = {}
    BY <1>3, <1>6
  <2> QED
    BY <2>1, FS_EmptySet
<1>12. p[1] < q[1] /\ \A x \in L : x[1] < q[1] => x = p
  <2>1. p[1] < q[1]
    BY <1>3, <1>6, <1>8
  <2>2. ASSUME NEW x \in L, x[1] < q[1] PROVE x = p
    <3>1. ~(p[1] < x[1]) /\ x[1] >= 1 /\ x[1] \in Int
      BY <1>3, <1>4, <1>8, <2>2
    <3> QED
      BY <1>4, <1>6, <3>1
  <2> QED
    BY <2>1, <2>2
<1>13. q[1] < r[1] /\ \A x \in L : x[1] < r[1] => x = p \/ x = q
  <2>1. q[1] < r[1]
    BY <1>3, <1>10
  <2>2. ASSUME NEW x \in L, x[1] < r[1] PROVE x = p \/ x = q
    <3>1. ~(q[1] < x[1]) /\ x[1] \in Int /\ q[1] \in Int
      BY <1>3, <1>4, <1>10, <2>2
    <3> QED
      BY <1>4, <1>12, <3>1
  <2> QED
    BY <2>1, <2>2
<1>14. Card(Earlier(q)) = 1
  <2>1. Earlier(q) = {p}
    BY <1>12
  <2> QED
    BY <2>1, FS_Singleton
<1>15. Card(Earlier(r)) \in {1, 2}
  <2>1. p[1] < r[1]
    BY <1>3, <1>12, <1>13
  <2>2. Earlier(r) = {p, q}
    BY <1>13, <2>1
  <2> QED
    BY <2>2, PairCard
<1>16. IsOctet(name, p) /\ IsOctet(name, q) /\ IsOctet(name, r)
  <2>1. Card(Earlier(p)) < 3 /\ Card(Earlier(q)) < 3 /\ Card(Earlier(r)) < 3
    <3> HIDE DEF Earlier, Card
    <3> QED
      BY <1>11, <1>14, <1>15
  <2> QED
    BY <1>2, <2>1
<1> QED
  BY <1>6, <1>8, <1>10, <1>16 DEF LooksLikeAddress, L

LEMMA RefusedNames ==
  ASSUME NEW name, IsName(name), ~check_bucket_name(name),
         \A p \in Labels_(name) : LegalLabel(name, p),
         Len(name) \in BUCKETNAME_MIN_SIZE..BUCKETNAME_MAX_SIZE
  PROVE  LooksLikeAddress(name)
<1>1. is_ip_address_format(name)
  BY LegalCharacters DEF check_bucket_name
<1>2. \A p \in Labels_(name) : p[1] <= p[2]
  BY DEF LegalLabel
<1> QED
  BY <1>1, <1>2, FirstThree

LEMMA NameInvAlways == Spec => []NameInv
<1>1. Init => NameInv
  BY DEF Init, NameInv
<1>2. NameInv /\ [Next]_vars => NameInv'
  <2> SUFFICES ASSUME NameInv, [Next]_vars, kind' = "name"
               PROVE  ret' = "OK" <=> (at' = 0 \/ check_bucket_name(objects'))
    BY DEF NameInv
  <2>1. CASE CheckName
    BY <2>1 DEF CheckName, Error, NameInv
  <2>2. CASE UNCHANGED vars
    BY <2>2 DEF vars, NameInv
  <2> QED
    BY <2>1, <2>2 DEF Next, StartMetadata, MetadataMember, EndMetadata, StartBucket, BucketMember, EndBucket,
           LabelMember, EndLabel, Vol1Field, EndVol1
<1> QED
  BY <1>1, <1>2, PTL DEF Spec

\* check_bucket_name accepts the names whose labels are legal and which are no address,
\* and refuses only those with another label or length or that start like an address,
\* for names of any length.
THEOREM NamesJudgedByLabels == Spec => []NamesByLabels
<1>1. DocInv /\ NameInv => NamesByLabels
  <2> SUFFICES ASSUME DocInv, NameInv, kind = "name", at = 1
               PROVE  /\ ret = "OK" => (\A p \in Labels_(objects) : LegalLabel(objects, p)) /\ ~IsAddress(objects)
                      /\ ret = "NG" => \/ \E p \in Labels_(objects) : ~LegalLabel(objects, p)
                                       \/ LooksLikeAddress(objects)
                                       \/ Len(objects) \notin BUCKETNAME_MIN_SIZE..BUCKETNAME_MAX_SIZE
    BY DEF NamesByLabels
  <2>1. IsName(objects) /\ (ret = "OK" <=> check_bucket_name(objects))
    BY DEF DocInv, TypeOK, NameInv, IsName
  <2>2. ret = "OK" => (\A p \in Labels_(objects) : LegalLabel(objects, p)) /\ ~IsAddress(objects)
    BY <2>1, AcceptedLegal, AcceptedNoAddress
  <2>3. ret = "NG" => \/ \E p \in Labels_(objects) : ~LegalLabel(objects, p)
                      \/ LooksLikeAddress(objects)
                      \/ Len(objects) \notin BUCKETNAME_MIN_SIZE..BUCKETNAME_MAX_SIZE
    BY <2>1, RefusedNames
  <2> QED
    BY <2>2, <2>3
<1> QED
  BY <1>1, DocInvAlways, NameInvAlways, PTL
=============================================================================
