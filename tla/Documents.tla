----------------------------- MODULE Documents ------------------------------
(***************************************************************************)
(* The documents of the reference partition as the format checks read      *)
(* them: the metadata of the objects of a PO, the buckets in an RCM, the   *)
(* OTF label (JSON, member by member in the order of the text), the fields *)
(* of the VOL1 label, and the names of buckets.                            *)
(*                                                                         *)
(* A document is a sequence of objects, an object a sequence of members    *)
(* with different keys.  The value of a member is of a type; it is a       *)
(* number, a text of digits with that value, or a text of that length;     *)
(* "wrong" has the places of the text at which another character belongs,  *)
(* and whether the one there is a hex digit.  In a label a key of the      *)
(* first layer is a member "first layer" in front of the members of its    *)
(* object, wrong when it is not LTOSLabel.  An element of the list of      *)
(* buckets that is not an object is one without members: neither is        *)
(* entered.                                                                *)
(***************************************************************************)
EXTENDS Integers, Sequences, SequencesExt, FiniteSets

CONSTANTS
  Metadatas, BucketLists, Labels, Vol1Labels,   \* documents
  Names,                                        \* names of buckets, by character classes
  IntRange,                                     \* how many values an int has
  MIN_BLOCKSIZE_IN_LABEL, DefaultBlockSize,
  BUCKETNAME_MAX_SIZE,                          \* 63
  MaxText                                       \* 1024: the longest Key and Creator

Member == [key : STRING, type : STRING, value : Int, wrong : SUBSET (Nat \X {"hex", "other"})]

\* An object in JSON has one member of a name, and a label is one sequence of members.
ASSUME DocumentsAssumption ==
  /\ Metadatas \cup BucketLists \cup Labels \cup Vol1Labels \subseteq Seq(Seq(Member))
  /\ \A d \in Metadatas : \A n \in DOMAIN d : \A i, j \in DOMAIN d[n] : d[n][i].key = d[n][j].key => i = j
  /\ \A d \in Labels : Len(d) = 1
  /\ Names \subseteq Seq(STRING)

\* The block size without a label, 1048576, is one that a label may have.
ASSUME BlockSizeAssumption == DefaultBlockSize >= MIN_BLOCKSIZE_IN_LABEL

UTC_LENGTH == 27
UUID_SIZE  == 36
BUCKETNAME_MIN_SIZE == 3

VARIABLES
  kind,        \* what is checked
  objects,     \* the objects of the document
  objnum,      \* the object and
  at,          \*   the member that come next
  found,       \* the flags of the required members
  block_size,  \* the block size in use
  said,        \* an error has been said
  ret          \* what the function will return

vars == <<kind, objects, objnum, at, found, block_size, said, ret>>

Kinds == {"metadata", "buckets", "label", "VOL1", "name"}

-----------------------------------------------------------------------------
(* Texts *)

check_utc_format(m) == m.value = UTC_LENGTH /\ m.wrong = {}

\* The version is at 14, the variant at 19.  A hex digit passes where a hyphen belongs,
\* and what is behind the 36 characters is not looked at.
check_uuid_format(m) ==
  /\ m.value >= UUID_SIZE
  /\ \A w \in m.wrong : w[1] \notin {14, 19} /\ (w[1] < UUID_SIZE => w[2] = "hex")

\* atoi keeps the lower bits.
atoi(n) == LET low == n % IntRange IN IF 2 * low < IntRange THEN low ELSE low - IntRange

\* Names: sequences of "a" (a lower-case letter), "1", "9" (digits), "A", "." and "-".
Lower(c) == c \in {"a", "1", "9"}
Digits == {"1", "9"}
Has(name, c, d) == \E i \in 1..(Len(name) - 1) : name[i] = c /\ name[i + 1] = d

\* strtok: the parts between runs of periods.
IsPart(name, i, j) ==
  /\ \A k \in i..j : name[k] # "."
  /\ i = 1 \/ name[i - 1] = "."
  /\ j = Len(name) \/ name[j + 1] = "."
Octets(name) == {p \in (1..Len(name)) \X (1..Len(name)) : p[1] <= p[2] /\ IsPart(name, p[1], p[2])}
OctetValue(name, p) == FoldLeft(LAMBDA n, c : 10 * n + (IF c = "9" THEN 9 ELSE 1), 0, SubSeq(name, p[1], p[2]))
IsOctet(name, p) ==
  /\ p[2] - p[1] < 3 /\ \A i \in p[1]..p[2] : name[i] \in Digits
  /\ OctetValue(name, p) <= 255

\* The first three octets have to be numbers; a fourth is neither looked at nor needed.
is_ip_address_format(name) ==
  LET octets == Octets(name)
      Before(p) == Cardinality({q \in octets : q[1] < p[1]})
  IN  /\ Cardinality(octets) \in {3, 4}
      /\ \A p \in octets : Before(p) < 3 => IsOctet(name, p)

\* Mutant: a hyphen behind a period is not looked for.
check_bucket_nameOneSide(name) ==
  /\ Len(name) \in BUCKETNAME_MIN_SIZE..BUCKETNAME_MAX_SIZE
  /\ Lower(name[1]) /\ Lower(name[Len(name)])
  /\ ~Has(name, ".", ".") /\ ~Has(name, "-", ".")
  /\ \A i \in DOMAIN name : Lower(name[i]) \/ name[i] \in {"-", "."}
  /\ ~is_ip_address_format(name)

check_bucket_name(name) ==
  /\ Len(name) \in BUCKETNAME_MIN_SIZE..BUCKETNAME_MAX_SIZE
  /\ Lower(name[1]) /\ Lower(name[Len(name)])
  /\ ~Has(name, ".", ".") /\ ~Has(name, ".", "-") /\ ~Has(name, "-", ".")
  /\ \A i \in DOMAIN name : Lower(name[i]) \/ name[i] \in {"-", "."}
  /\ ~is_ip_address_format(name)

-----------------------------------------------------------------------------
(* The checks of a member: each says whether it has something to say *)

MetadataRequired == {"MetadataVersion", "Key", "Size", "LastModifiedTime"}
MetadataTexts    == {"ContentEncoding", "ContentType", "ContentMd5", "ContentLanguage", "CreationTime",
                     "ServerSideCompression", "ServerSideEncryption", "ServerSideEncryptionKeyId",
                     "ServerSideEncryptionCustomer", "Version"}
IsVendor(m) == m.key = "Vendor"

RequiredMetaOk(m) ==
  CASE m.key = "MetadataVersion" -> m.type = "int" /\ m.value = 1
    [] m.key = "Key"             -> m.value <= MaxText
    [] m.key = "Size"            -> m.type = "int" /\ m.value >= 0
    [] OTHER                     -> check_utc_format(m)

\* A value that is an object is of the type of its members: "string" if all are.
OptionalMetaOk(m) ==
  CASE m.key = "IsDeleted" -> m.type = "boolean"
    [] m.key \in MetadataTexts \cup {"UserMetadata"} -> m.type = "string"
    [] OTHER -> TRUE

\* Mutant: a member that is known does not end the loop, it is said to be unusable.
KnownMetaOptional(m) == m.key \in MetadataTexts \cup {"IsDeleted", "UserMetadata"}

KnownMeta(m) == m.key \in MetadataTexts \cup MetadataRequired \cup {"IsDeleted", "UserMetadata"}

BucketRequired == {"BucketID", "BucketName"}
BucketOk(m) ==
  CASE m.key = "BucketID"   -> check_uuid_format(m)
    [] m.key = "BucketName" -> m.wrong = {}
    [] OTHER                -> IsVendor(m)

LabelRequired == {"Version", "FormatTime", "VolumeUuid", "Creator"}
\* Whatever is written in digits passes, quoted or not; a sign is no digit.
BlockSizeOk(m) == m.wrong = {} /\ atoi(m.value) >= MIN_BLOCKSIZE_IN_LABEL
LabelOk(m) ==
  CASE m.key = "Version"     -> m.wrong = {}
    [] m.key = "FormatTime"  -> check_utc_format(m)
    [] m.key = "VolumeUuid"  -> check_uuid_format(m)
    [] m.key = "Creator"     -> m.value <= MaxText
    [] m.key = "Compression" -> m.type = "boolean"
    [] m.key = "BlockSize"   -> BlockSizeOk(m)
    [] m.key = "first layer" -> m.wrong = {}
    [] OTHER                 -> IsVendor(m) /\ m.wrong = {}

-----------------------------------------------------------------------------

Init ==
  /\ \/ kind = "metadata"    /\ objects \in Metadatas
     \/ kind = "buckets" /\ objects \in BucketLists
     \/ kind = "label"       /\ objects \in Labels
     \/ kind = "VOL1"        /\ objects \in Vol1Labels
     \/ kind = "name"        /\ objects \in Names
  /\ objnum = 1 /\ at = 0 /\ found = {}
  /\ block_size = DefaultBlockSize /\ said = FALSE /\ ret = "OK"

More == objnum <= Len(objects)
Members == objects[objnum]
m_ == Members[at]

Error(condition) ==
  /\ said' = (said \/ condition)
  /\ ret' = IF condition THEN "NG" ELSE ret

\* cpof_only_meta: first the required members, wherever they are.
Required(key) == \E i \in DOMAIN Members : Members[i].key = key /\ RequiredMetaOk(Members[i])

StartMetadata ==
  /\ kind = "metadata" /\ More /\ at = 0
  /\ Error(\E key \in MetadataRequired : ~Required(key))
  /\ at' = 1
  /\ UNCHANGED <<kind, objects, objnum, found, block_size>>

\* Then member by member, up to the first whose key is known.
MetadataMember ==
  /\ kind = "metadata" /\ More /\ at \in DOMAIN Members
  /\ Error(IF KnownMeta(m_) THEN ~OptionalMetaOk(m_) ELSE ~IsVendor(m_))
  /\ at' = IF KnownMeta(m_) THEN Len(Members) + 1 ELSE at + 1
  /\ UNCHANGED <<kind, objects, objnum, found, block_size>>

EndMetadata ==
  /\ kind = "metadata" /\ More /\ at > Len(Members)
  /\ objnum' = objnum + 1 /\ at' = 0
  /\ UNCHANGED <<kind, objects, found, block_size, said, ret>>

\* Mutant: the flags of the bucket before are kept.
NoBucketFlags == found

NoFlags == {}

\* clf_rcm_bucket_list, for each element of an array.
StartBucket ==
  /\ kind = "buckets" /\ More /\ at = 0
  /\ found' = NoFlags /\ at' = 1
  /\ UNCHANGED <<kind, objects, objnum, block_size, said, ret>>

BucketMember ==
  /\ kind = "buckets" /\ More /\ at \in DOMAIN Members
  /\ Error(~BucketOk(m_))
  /\ found' = found \cup ({m_.key} \cap BucketRequired)
  /\ at' = at + 1
  /\ UNCHANGED <<kind, objects, objnum, block_size>>

EndBucket ==
  /\ kind = "buckets" /\ More /\ at > Len(Members)
  /\ Error(found # BucketRequired)
  /\ objnum' = objnum + 1 /\ at' = 0
  /\ UNCHANGED <<kind, objects, found, block_size>>

\* clf_ltos_label: every key of the first layer and every member of its object.  What check_block_size returns is dropped.
LabelMember ==
  /\ kind = "label" /\ More /\ at < Len(Members)
  /\ LET m == Members[at + 1]
     IN  /\ IF m.key = "BlockSize" THEN said' = (said \/ ~BlockSizeOk(m)) /\ UNCHANGED ret
            ELSE Error(~LabelOk(m))
         /\ found' = found \cup ({m.key} \cap LabelRequired)
         /\ block_size' = IF m.key = "BlockSize" /\ BlockSizeOk(m) THEN atoi(m.value) ELSE block_size
  /\ at' = at + 1
  /\ UNCHANGED <<kind, objects, objnum>>

EndLabel ==
  /\ kind = "label" /\ More /\ at = Len(Members)
  /\ Error(found # LabelRequired)
  /\ objnum' = objnum + 1 /\ at' = 0
  /\ UNCHANGED <<kind, objects, found, block_size>>

\* clf_vol1_label: field by field.  Of the volume and the owner identifier one
\* character is looked at when something has been said before, else all up to the
\* first that is wrong.
LoopOver(m) == IF ret = "NG" THEN \E w \in m.wrong : w[1] = 0 ELSE m.wrong # {}

Vol1Field ==
  /\ kind = "VOL1" /\ More /\ at < Len(Members)
  /\ LET m == Members[at + 1]
     IN  Error(IF m.key \in {"volume_identifier", "owner_identifier"} THEN LoopOver(m) ELSE m.wrong # {})
  /\ at' = at + 1
  /\ UNCHANGED <<kind, objects, objnum, found, block_size>>

EndVol1 ==
  /\ kind = "VOL1" /\ More /\ at = Len(Members)
  /\ objnum' = objnum + 1 /\ at' = 0
  /\ UNCHANGED <<kind, objects, found, block_size, said, ret>>

CheckName ==
  /\ kind = "name" /\ at = 0
  /\ Error(~check_bucket_name(objects))
  /\ at' = 1
  /\ UNCHANGED <<kind, objects, objnum, found, block_size>>

Next ==
  \/ StartMetadata \/ MetadataMember \/ EndMetadata
  \/ StartBucket \/ BucketMember \/ EndBucket
  \/ LabelMember \/ EndLabel \/ Vol1Field \/ EndVol1 \/ CheckName

Spec == Init /\ [][Next]_vars

-----------------------------------------------------------------------------
(* Properties *)

\* What the format asks of an object of each kind, whatever the order of its members.
Keys(o) == {o[i].key : i \in DOMAIN o}
RightObject(k, o) ==
  CASE k = "metadata" ->
         /\ MetadataRequired \subseteq Keys(o)
         /\ \A i \in DOMAIN o :
              IF o[i].key \in MetadataRequired THEN RequiredMetaOk(o[i])
              ELSE IsVendor(o[i]) \/ (KnownMeta(o[i]) /\ OptionalMetaOk(o[i]))
    [] k = "buckets"  -> BucketRequired \subseteq Keys(o) /\ \A i \in DOMAIN o : BucketOk(o[i])
    [] k = "label"    -> LabelRequired \subseteq Keys(o) /\ \A i \in DOMAIN o : LabelOk(o[i])
    [] OTHER          -> \A i \in DOMAIN o : o[i].wrong = {}

Done == ~More /\ kind # "name"

\* Nothing is said of a right document, and it is returned that it is right.
RightPasses == (Done /\ \A n \in DOMAIN objects : RightObject(kind, objects[n])) => ~said /\ ret = "OK"

\* Of a wrong one something is said: the required members, the fields of a label and
\* the buckets are all looked at.  Only of the other members of metadata those behind
\* the first with a known key are not.  What is said is also returned, but for a wrong
\* block size, which is not used either.
Unread(o) ==
  LET known == {i \in DOMAIN o : KnownMeta(o[i])}
  IN  {i \in DOMAIN o : \E j \in known : j < i}
SeenRight(k, o) ==
  IF k = "metadata"
  THEN /\ MetadataRequired \subseteq Keys(o)
       /\ \A i \in DOMAIN o : o[i].key \in MetadataRequired => RequiredMetaOk(o[i])
       /\ \A i \in DOMAIN o \ Unread(o) : IF KnownMeta(o[i]) THEN OptionalMetaOk(o[i]) ELSE IsVendor(o[i])
  ELSE RightObject(k, o)

WrongIsSaid ==
  Done => /\ (\E n \in DOMAIN objects : ~SeenRight(kind, objects[n])) => said
          /\ (said /\ ret = "OK") => \E i \in DOMAIN objects[1] : objects[1][i].key = "BlockSize" /\ ~BlockSizeOk(objects[1][i])
          /\ block_size >= MIN_BLOCKSIZE_IN_LABEL

\* The names that are accepted are those whose labels, what is between the periods,
\* are lower-case letters and digits with hyphens only inside, and no address.  A
\* name that is refused has another label or length, or starts with three octets.
Labels_(name) ==
  {p \in (1..(Len(name) + 1)) \X (0..Len(name)) : p[1] <= p[2] + 1 /\ IsPart(name, p[1], p[2])}
LegalLabel(name, p) ==
  /\ p[1] <= p[2]
  /\ Lower(name[p[1]]) /\ Lower(name[p[2]])
  /\ \A i \in p[1]..p[2] : Lower(name[i]) \/ name[i] = "-"
IsAddress(name) == Cardinality(Labels_(name)) = 4 /\ \A p \in Labels_(name) : IsOctet(name, p)
LooksLikeAddress(name) ==
  \E p, q, r \in Labels_(name) :
    /\ p[1] = 1 /\ q[1] = p[2] + 2 /\ r[1] = q[2] + 2
    /\ IsOctet(name, p) /\ IsOctet(name, q) /\ IsOctet(name, r)

NamesByLabels ==
  (kind = "name" /\ at = 1) =>
    /\ ret = "OK" => (\A p \in Labels_(objects) : LegalLabel(objects, p)) /\ ~IsAddress(objects)
    /\ ret = "NG" => \/ \E p \in Labels_(objects) : ~LegalLabel(objects, p)
                     \/ LooksLikeAddress(objects)
                     \/ Len(objects) \notin BUCKETNAME_MIN_SIZE..BUCKETNAME_MAX_SIZE
=============================================================================
