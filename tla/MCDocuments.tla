----------------------------- MODULE MCDocuments ----------------------------
(***************************************************************************)
(* Documents that are right but for one thing: a required member left out  *)
(* or wrong, members before, between and behind the required ones, and two *)
(* objects in a document.                                                  *)
(***************************************************************************)
EXTENDS Documents

Is(key, type, value, wrong) == [key |-> key, type |-> type, value |-> value, wrong |-> wrong]
Other == {<<0, "other">>}

\* The document o with one member left out or exchanged for a wrong one.
Spoilt(o, wrong) ==
  {o} \cup {SubSeq(o, 1, i - 1) \o SubSeq(o, i + 1, Len(o)) : i \in DOMAIN o}
    \cup {[o EXCEPT ![i] = w] : i \in DOMAIN o, w \in wrong}
\* The documents with the members of a set put in in front, in the middle and behind.
With(docs, extra) ==
  docs \cup UNION {{SubSeq(o, 1, i) \o <<e>> \o SubSeq(o, i + 1, Len(o)) : i \in {0, Len(o) \div 2, Len(o)}, e \in extra}
                     : o \in docs}
Distinct(docs) == {o \in docs : Cardinality({o[i].key : i \in DOMAIN o}) = Len(o)}

Utc  == Is("LastModifiedTime", "string", UTC_LENGTH, {})
Meta == <<Is("MetadataVersion", "int", 1, {}), Is("Key", "string", 3, {}), Is("Size", "int", 0, {}), Utc>>
WrongMeta ==
  {Is("MetadataVersion", "int", 2, {}), Is("MetadataVersion", "string", 1, {}), Is("Key", "string", MaxText + 1, {}),
   Is("Size", "int", -1, {}), Is("LastModifiedTime", "string", UTC_LENGTH, {<<4, "hex">>}),
   Is("LastModifiedTime", "string", UTC_LENGTH - 1, {})}
ExtraMeta ==
  {Is("IsDeleted", type, 0, {}) : type \in {"boolean", "int"}}
    \cup {Is("UserMetadata", type, 0, {}) : type \in {"string", "int"}}
    \cup {Is("ContentType", type, 0, {}) : type \in {"string", "int"}}
    \cup {Is("Vendor", "string", 1, {}), Is("unknown", "string", 1, {})}
OneMeta == Distinct(With(With(Distinct(Spoilt(Meta, WrongMeta)), ExtraMeta), ExtraMeta))
AllMetadatas == {<<o>> : o \in OneMeta} \cup {<<Meta, o>> : o \in Distinct(Spoilt(Meta, WrongMeta))}

Uuid(wrong) == Is("BucketID", "string", UUID_SIZE, wrong)
Buckets ==
  {<< >>} \cup Distinct(With(Spoilt(<<Uuid({}), Is("BucketName", "string", 3, {})>>,
      {Uuid({<<14, "hex">>}), Uuid({<<8, "hex">>}), Uuid({<<8, "other">>}), Uuid({<<19, "hex">>}),
       Is("BucketID", "string", 20, {<<20, "other">>}), Is("BucketName", "string", 3, Other)}),
    {Is("Vendor", "string", 1, {}), Is("unknown", "string", 1, {})}))
AllBucketLists == {<< >>} \cup {<<b>> : b \in Buckets} \cup {<<b, c>> : b, c \in Buckets}

Label ==
  <<Is("Version", "string", 5, {}), Is("FormatTime", "string", UTC_LENGTH, {}),
    Is("VolumeUuid", "string", UUID_SIZE, {}), Is("Creator", "string", 8, {})>>
WrongLabel ==
  {Is("Version", "string", 5, Other), Is("FormatTime", "string", UTC_LENGTH, {<<10, "other">>}),
   Is("VolumeUuid", "string", UUID_SIZE + 1, {}), Is("VolumeUuid", "string", UUID_SIZE, {<<0, "other">>}),
   Is("Creator", "string", MaxText + 1, {})}
ExtraLabel ==
  {Is("Compression", type, 1, {}) : type \in {"boolean", "int"}}
    \cup {Is("BlockSize", "int", n, {}) : n \in {0, 4, 5, 20, 40}} \cup {Is("BlockSize", "string", 8, wrong) : wrong \in {{}, Other}}
    \cup {Is("BlockSize", "int", 4 - IntRange, Other)}
    \cup {Is("Vendor", "string", 1, wrong) : wrong \in {{}, Other}} \cup {Is("unknown", "string", 1, {})}
FirstLayer(wrong) == Is("first layer", "object", 1, wrong)
AllLabels ==
  {<<(<<FirstLayer({})>> \o o)>> : o \in Distinct(With(With(Distinct(Spoilt(Label, WrongLabel)), ExtraLabel), ExtraLabel))}
    \cup {<<(<<FirstLayer(w1)>> \o SubSeq(Label, 1, n) \o <<FirstLayer(w2)>> \o SubSeq(Label, n + 1, 4))>> :
           n \in 0..4, w1, w2 \in {{}, Other}}

Vol1Fields ==
  <<"label_identifier", "label_number", "volume_identifier", "volume_accessibility", "reserved",
    "implementation_identifier", "owner_identifier", "reserved", "label_standard_version">>
AllVol1Labels ==
  {<<[i \in DOMAIN Vol1Fields |-> Is(Vol1Fields[i], "string", 1, w[i])]>> :
     w \in {v \in [DOMAIN Vol1Fields -> {{}, {<<0, "other">>}, {<<3, "other">>}}] :
              Cardinality({i \in DOMAIN v : v[i] # {}}) <= 2}}

AllNames ==
  UNION {[1..n -> {"a", "1", "A", ".", "-"}] : n \in 0..5} \cup UNION {[1..n -> {"a", "9", "."}] : n \in 6..8}
=============================================================================
