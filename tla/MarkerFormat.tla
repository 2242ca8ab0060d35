---------------------------- MODULE MarkerFormat ----------------------------
(***************************************************************************)
(* The format checks of the reference partition: the last and the first    *)
(* reference commit marker (RCM), then every partial reference (PR) with   *)
(* the OCM infos, PO infos and metadata in it, before the markers of the   *)
(* data partition are walked with the addresses that MarkerAddress gets    *)
(* out of them.                                                            *)
(*                                                                         *)
(* One word of one of the files may be wrong.  Each check of the program   *)
(* is a step over a buffer with a position of its own.  The program goes   *)
(* on after it has said that something is wrong, over whatever the wrong   *)
(* word then makes of the rest; here the checks end with the first step    *)
(* that says something, and the walk needs checks that said nothing.       *)
(***************************************************************************)
EXTENDS MarkerAddress

CONSTANTS
  HeapWords,        \* what may be behind a buffer
  LTOS_BLOCK_SIZE,  \* the block size the program was compiled with, in words
  MAX_PO_SIZE,      \* the longest PO,
  META_MAX_SIZE     \*   and the longest metadata of an object, in words

VARIABLES
  first_rcm,          \* the first reference commit marker
  damage,             \* the file and the word that is wrong, or << >>
  heap,               \* what a read behind the buffer returns
  check,              \* the check that comes next: function, PR, OCM and PO
  buffer,             \* what it reads
  current_position,   \* and from where
  num_of_marker,      \* the number in the header read last
  said                \* what has been said to be wrong

formatVars == <<first_rcm, damage, heap, check, buffer, current_position, num_of_marker, said>>
vars == <<addressVars, formatVars>>

\* A wrong word: one off, or none.
Wrong(file, i) ==
  {[file EXCEPT ![i] = v] : v \in {w \in {file[i] + 1, file[i] - 1, 0} : w >= 0 /\ w # file[i]}}

\* The words of metadata and of the list of buckets are documents, checked elsewhere.
Words(file) == {i \in DOMAIN file : file[i] < 10000}
WordsOfRcm  == {i \in DOMAIN ReferenceCommitMarker(tape) :
                  i <= Len(ReferenceCommitMarker(tape)) - Len(BucketList)}

Init ==
  /\ InitAddress
  /\ heap \in HeapWords
  /\ \E sound_rcm \in {ReferenceCommitMarker(tape)} :
     \E sound_prs \in {[p \in DOMAIN tape |-> PartialReference(tape, p)]} :
       \/ damage = << >> /\ files = sound_prs /\ last_rcm = sound_rcm
          /\ first_rcm = ReferenceCommitMarker(<< >>)
       \/ \E i \in WordsOfRcm :
            /\ damage = <<"last", i>> /\ files = sound_prs
            /\ last_rcm \in Wrong(sound_rcm, i)
            /\ first_rcm = ReferenceCommitMarker(<< >>)
       \/ \E i \in 1..(Len(ReferenceCommitMarker(<< >>)) - Len(BucketList)) :
            /\ damage = <<"first", i>> /\ files = sound_prs /\ last_rcm = sound_rcm
            /\ first_rcm \in Wrong(ReferenceCommitMarker(<< >>), i)
       \/ \E p \in DOMAIN tape : \E i \in Words(sound_prs[p]) :
            /\ damage = <<p, i>> /\ last_rcm = sound_rcm
            /\ \E f \in Wrong(sound_prs[p], i) : files = [sound_prs EXCEPT ![p] = f]
            /\ first_rcm = ReferenceCommitMarker(<< >>)
  /\ check = <<"last RCM">> /\ buffer = last_rcm /\ current_position = 0
  /\ num_of_marker = 0 /\ said = {}

\* r64 at an offset of the buffer.
Read(at) == IF at < Len(buffer) THEN buffer[at + 1] ELSE heap
ReadWords(at, n) == [i \in 1..n |-> Read(at + i - 1)]

\* A step of the checks: the errors that apply are said.
Say(errors) == said' = said \cup errors
If(condition, error) == {e \in {error} : condition}

check_uuid_format(at) == Read(at) = Version

HeaderSize(type) == CASE type = "RCM" -> RCM_HEADER_SIZE [] type = "PR" -> PR_HEADER_SIZE
                      [] OTHER -> OCM_HEADER_SIZE
DirSize(type) == CASE type = "RCM" -> 1 [] type = "PR" -> PR_DIR_SIZE [] OTHER -> OCM_DIR_SIZE

-----------------------------------------------------------------------------
(* clf_header and clf_directory *)

\* The header's words; those of an RCM or a PR are behind an identifier.
HeaderAt(type)    == current_position + IF type \in {"OCM", "PO"} THEN 0 ELSE IDENTIFIER_SIZE
Number_of(type)   == Read(HeaderAt(type) + (IF type = "RCM" THEN 3 ELSE 2))
IdErrors(at) ==
  If(~check_uuid_format(at), "system id") \cup If(~check_uuid_format(at + 2), "pool id")
    \cup If(ReadWords(at + 4, 2) = Zeros(2) \/ ~check_uuid_format(at + 4), "pool group id")

HeaderErrors(type) ==
  LET at == HeaderAt(type)
  IN  If(type # "OCM" /\ ReadWords(0, IDENTIFIER_SIZE) # Identifier[type], "identifier")
      \cup If(Read(at) # HeaderSize(type), "directory offset")
      \cup If(Read(at + 1) # Read(at) + Number_of(type) * DirSize(type), "data offset")
      \cup IF type = "RCM" THEN IdErrors(at + 4) ELSE {}

clf_header(type) ==
  /\ num_of_marker' = Number_of(type)
  /\ current_position' = HeaderAt(type)
       + IF type = "RCM" THEN RCM_HEADER_SIZE + Read(HeaderAt(type)) - RCM_HEADER_SIZE ELSE HeaderSize(type)
  /\ Say(HeaderErrors(type))

\* The entries of a directory: a length, not in an RCM, and a distance in blocks,
\* which must fall by more than the length in blocks of LTOS_BLOCK_SIZE, whatever the
\* block size of the tape.
EntryLength(type, i) == IF type = "RCM" THEN 0 ELSE Read(current_position + DirSize(type) * (i - 1))
EntryBlock(type, i)  == Read(current_position + DirSize(type) * i - 1)
Lengths(type)        == [i \in 1..num_of_marker |-> EntryLength(type, i)]

\* Mutant: the differences are taken the other way round.
DirectoryErrorsAscending(type) ==
  If(\E i \in 1..(num_of_marker - 1) : EntryBlock(type, i) >= EntryBlock(type, i + 1), "block offset")

DirectoryErrors(type) ==
  LET Falls(i) == EntryBlock(type, i) - EntryBlock(type, i + 1)
  IN  If(\E i \in 1..(num_of_marker - 1) : Falls(i) <= 0, "block offset")
      \cup If(\E i \in 1..(num_of_marker - 1) : Falls(i) >= 0 /\ Falls(i) * LTOS_BLOCK_SIZE <= EntryLength(type, i),
              "overlap")

AfterDirectory(type) == current_position + DirSize(type) * num_of_marker

\* clf_read_file and clf_check_read_data: a short read ends the run.
ReadFile(p, from, n) == buffer' = SubSeq(files[p + 1], from + 1, Min({from + n, Len(files[p + 1])}))
ShortRead(p, from, n) == If(from + n > Len(files[p + 1]), "short read")

-----------------------------------------------------------------------------
(* Reference commit markers *)

Nothing == said = {}

RcmHeader(which) ==
  /\ Nothing /\ check = <<which>>
  /\ clf_header("RCM")
  /\ check' = <<"RCM directory", which>>
  /\ UNCHANGED <<addressVars, first_rcm, damage, heap, buffer>>

\* What is read next: the other RCM, the header of a PR, or the walk.
ReadPrHeader(p) ==
  IF p < pr_num
  THEN /\ check' = <<"PR header", p>>
       /\ ReadFile(p, 0, IDENTIFIER_SIZE + PR_HEADER_SIZE)
  ELSE check' = <<"walk">> /\ buffer' = << >>

\* check_num_of_pr, check_data_length_of_bucket_list.
RcmErrors(which) ==
  If(which = "first RCM" /\ num_of_marker # 0, "number of PRs")
    \cup If(Read(IDENTIFIER_SIZE + 2) # Len(buffer) - AfterDirectory("RCM"), "data length")

RcmDirectory(which) ==
  /\ Nothing /\ check = <<"RCM directory", which>>
  /\ Say(DirectoryErrors("RCM") \cup RcmErrors(which))
  /\ IF which = "last RCM" THEN check' = <<"first RCM">> /\ buffer' = first_rcm ELSE ReadPrHeader(0)
  /\ current_position' = 0
  /\ UNCHANGED <<addressVars, first_rcm, damage, heap, num_of_marker>>

-----------------------------------------------------------------------------
(* check_partial_reference: each read of the file goes on where the last ended *)

PrHeader(p) ==
  /\ Nothing /\ check = <<"PR header", p>>
  /\ LET at   == IDENTIFIER_SIZE + PR_HEADER_SIZE
         size == PR_DIR_SIZE * Number_of("PR")
     IN  /\ num_of_marker' = Number_of("PR")
         /\ ReadFile(p, at, size)
         /\ Say(HeaderErrors("PR") \cup ShortRead(p, at, size))
  /\ current_position' = 0
  /\ check' = <<"PR directory", p>>
  /\ UNCHANGED <<addressVars, first_rcm, damage, heap>>

\* The file behind the directory, cut by the lengths in it.
OcmInfoStart(p, j) ==
  IDENTIFIER_SIZE + PR_HEADER_SIZE + PR_DIR_SIZE * part_of_ocm_num(p) + Sum([i \in 1..j |-> OcmInfoLength(p, i - 1)])
ReadOcmInfo(p, j, errors) ==
  IF j < part_of_ocm_num(p)
  THEN /\ check' = <<"OCM info", p, j>>
       /\ ReadFile(p, OcmInfoStart(p, j), OcmInfoLength(p, j))
       /\ Say(errors \cup ShortRead(p, OcmInfoStart(p, j), OcmInfoLength(p, j)))
  ELSE ReadPrHeader(p + 1) /\ Say(errors)

PrDirectory(p) ==
  /\ Nothing /\ check = <<"PR directory", p>>
  /\ ReadOcmInfo(p, 0, DirectoryErrors("PR"))
  /\ current_position' = 0
  /\ UNCHANGED <<addressVars, first_rcm, damage, heap, num_of_marker>>

OcmHeader(p, j) ==
  /\ Nothing /\ check = <<"OCM info", p, j>>
  /\ clf_header("OCM")
  /\ check' = <<"OCM directory", p, j>>
  /\ UNCHANGED <<addressVars, first_rcm, damage, heap, buffer>>

OcmLength ==
  If(Len(buffer) # AfterDirectory("OCM") + Sum(Lengths("OCM")), "OCM info length")

\* What comes when all PO infos up to k have been checked.
NextPoInfo(p, j, k, errors) ==
  IF k < part_of_po_num(p, j)
  THEN check' = <<"PO header", p, j, k>> /\ Say(errors) /\ UNCHANGED buffer
  ELSE ReadOcmInfo(p, j + 1, errors)

OcmDirectory(p, j) ==
  /\ Nothing /\ check = <<"OCM directory", p, j>>
  /\ NextPoInfo(p, j, 0, DirectoryErrors("OCM") \cup OcmLength)
  /\ current_position' = IF num_of_marker = 0 THEN 0 ELSE AfterDirectory("OCM")
  /\ UNCHANGED <<addressVars, first_rcm, damage, heap, num_of_marker>>

-----------------------------------------------------------------------------
(* clf_packed_objects_info *)

\* cpof_po_header says the first that applies.  The system id is taken from behind
\* the header, where the id of the first object is.
PoHeaderErrors ==
  LET at == current_position
  IN  If(Read(at) # PO_HEADER_SIZE, "directory offset")
      \cup If(Read(at + 1) # PO_DIR_SIZE * (Number_of("PO") + 1) + PO_HEADER_SIZE, "data offset")
      \cup If(Number_of("PO") = 0, "number of objects")
      \cup If(~check_uuid_format(at + 3), "pack id") \cup If(~check_uuid_format(at + 5), "bucket id")
      \cup If(~check_uuid_format(at + PO_HEADER_SIZE), "system id")

PoHeader(p, j, k) ==
  /\ Nothing /\ check = <<"PO header", p, j, k>>
  /\ num_of_marker' = Number_of("PO")
  /\ current_position' = current_position + PO_HEADER_SIZE
  /\ Say(PoHeaderErrors)
  /\ check' = <<"object directory", p, j, k>>
  /\ UNCHANGED <<addressVars, first_rcm, damage, heap, buffer>>

\* Entry m of the object directory, the last one for m = num_of_marker + 1.
Entry(m)      == current_position + PO_DIR_SIZE * (m - 1)
MetaOffset_(m) == Read(Entry(m) + OBJECT_ID_SIZE)
DataOffset_(m) == Read(Entry(m) + OBJECT_ID_SIZE + 1)
EntryErrors(m) ==
  If(~check_uuid_format(Entry(m)), "object id")
    \cup If(DataOffset_(m) <= MetaOffset_(m), "offsets of an object")
    \cup If(MetaOffset_(m + 1) < DataOffset_(m) \/ MetaOffset_(m + 1) <= MetaOffset_(m), "next metadata")
    \cup If(DataOffset_(m + 1) < DataOffset_(m), "next data")
LastEntryErrors(m) ==
  If(ReadWords(Entry(m), OBJECT_ID_SIZE) # Zeros(OBJECT_ID_SIZE), "last object id")
    \cup If(MetaOffset_(m) # DataOffset_(m), "last offsets")
    \cup If(MAX_PO_SIZE < DataOffset_(m), "size of PO")

\* po_header_length, and the directory with the metadata that it says there are.
ActualSize ==
  PO_HEADER_SIZE + PO_DIR_SIZE * (num_of_marker + 1)
    + Sum([m \in 1..num_of_marker |-> DataOffset_(m) - MetaOffset_(m)])

\* Mutant: the metadata that are there are not compared with the length of the PO info.
SizeIgnored(poid_length) == {}

SizeErrors(poid_length) == If(ActualSize # poid_length, "size of PO info")

ObjectDirectoryCheck(p, j, k) ==
  /\ Nothing /\ check = <<"object directory", p, j, k>>
  /\ Say(UNION {EntryErrors(m) : m \in 1..num_of_marker} \cup LastEntryErrors(num_of_marker + 1)
         \cup IF \E m \in 1..num_of_marker : DataOffset_(m) < MetaOffset_(m) THEN {"size of PO info"}
              ELSE SizeErrors(PoInfoLength(p, j, k)))
  /\ current_position' = current_position + PO_DIR_SIZE * (num_of_marker + 1)
  /\ check' = <<"only meta", p, j, k>>
  /\ UNCHANGED <<addressVars, first_rcm, damage, heap, buffer, num_of_marker>>

\* The text of metadata: a document from its first word to its last; what is behind
\* it is not looked at.
IsDocument(text) ==
  /\ text # << >> /\ text[1] % 10 = 1
  /\ LET n == text[1] \div 10 % 10
     IN  Len(text) >= n /\ \A i \in 1..n : text[i] = text[1] + i - 1

\* cpof_only_meta takes the lengths from the directory.
MetaLength(m) ==
  Read(current_position - PO_DIR_SIZE * (num_of_marker + 1 - m) - 1)
    - Read(current_position - PO_DIR_SIZE * (num_of_marker + 1 - m) - 2)
MetaLengths(n) == Sum([m \in 1..n |-> MetaLength(m)])
MetaText(m)    == ReadWords(current_position + MetaLengths(m - 1), MetaLength(m))

OnlyMeta(p, j, k) ==
  /\ Nothing /\ check = <<"only meta", p, j, k>>
  /\ NextPoInfo(p, j, k + 1,
       If(\E m \in 1..num_of_marker : MetaLength(m) > META_MAX_SIZE \/ ~IsDocument(MetaText(m)), "metadata"))
  /\ current_position' =
       IF k + 1 < part_of_po_num(p, j) THEN current_position + MetaLengths(num_of_marker) ELSE 0
  /\ UNCHANGED <<addressVars, first_rcm, damage, heap, num_of_marker>>

-----------------------------------------------------------------------------

\* The markers of the data partition are walked with sound files.
Walk ==
  /\ Nothing /\ check = <<"walk">> /\ damage = << >>
  /\ CheckMarker
  /\ UNCHANGED formatVars

Next ==
  \/ \E which \in {"last RCM", "first RCM"} : RcmHeader(which) \/ RcmDirectory(which)
  \/ \E p \in 0..(Len(tape) - 1) :
       \/ PrHeader(p) \/ PrDirectory(p)
       \/ \E j \in 0..(Len(tape[p + 1]) - 1) :
            \/ OcmHeader(p, j) \/ OcmDirectory(p, j)
            \/ \E k \in 0..(Len(tape[p + 1][j + 1]) - 1) :
                 PoHeader(p, j, k) \/ ObjectDirectoryCheck(p, j, k) \/ OnlyMeta(p, j, k)
  \/ Walk

Spec == Init /\ [][Next]_vars

-----------------------------------------------------------------------------
(* Properties *)

Done == check = <<"walk">> /\ Nothing /\ met = << >>

\* Nothing is said of a tape on which nothing is wrong: the checks accept what the
\* format allows, whatever the numbers and lengths.
RightPasses == damage = << >> => Nothing

\* On a sound tape every marker is looked for where it is.
SoundTapeFound == (Done /\ damage = << >>) => AddressesRight

\* A word that is wrong and of which the checks say nothing is one that the numbers
\* of the markers, their places in the files and their lengths do not come from.
SilentMeansContents == Done => CountsRight /\ ContentsRight /\ LastObjectRight

\* The walk comes to the markers in the order of the tape.
WalkInTapeOrder == (check = <<"walk">> /\ damage = << >>) => InTapeOrder
=============================================================================
