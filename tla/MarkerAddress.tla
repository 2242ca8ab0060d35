--------------------------- MODULE MarkerAddress ----------------------------
(***************************************************************************)
(* Where the markers of a tape are: computed out of directories nested in  *)
(* the partial references (PR), each of whose block numbers counts back    *)
(* from the next higher marker, and merged into one walk.                  *)
(*                                                                         *)
(* The unit is a word of eight bytes: every field of a directory has one   *)
(* or two, so files are sequences of words.  A tape is given by its shape, *)
(* PRs of OCMs of POs of objects [meta, data], the two lengths in words.   *)
(* The first half of the module lays a shape out on a tape and in files, as *)
(* the format has it; the second half is the program reading the files.    *)
(***************************************************************************)
EXTENDS Integers, Sequences, SequencesExt, FiniteSetsExt

CONSTANTS
  BlockSize,    \* block_size in words
  FirstBlock,   \* the block behind the labels
  Shapes        \* the tapes

IDENTIFIER_SIZE == 4
PO_HEADER_SIZE  == 9
PO_DIR_SIZE     == 4
OBJECT_ID_SIZE  == 2
OCM_HEADER_SIZE == 3
OCM_DIR_SIZE    == 2
PR_HEADER_SIZE  == 3
PR_DIR_SIZE     == 2
RCM_HEADER_SIZE == 10

MarkerTypes == {"PR", "OCM", "PO", "META"}

ASSUME AddressAssumption == BlockSize \in Nat \ {0} /\ FirstBlock \in Nat

VARIABLES
  tape,      \* the shape of the tape
  files,     \* the PRs as read from the reference partition
  last_rcm,  \* the last reference commit marker
  cnt,       \* pr_cnt, ocm_cnt, po_cnt and meta_cnt
  met        \* the markers checked so far, in order: <<type, number>>

addressVars == <<tape, files, last_rcm, cnt, met>>

Sum(s) == FoldLeft(+, 0, s)
Zeros(n) == [i \in 1..n |-> 0]
Blocks(words) == (words + BlockSize - 1) \div BlockSize

-----------------------------------------------------------------------------
(* The layout of a shape.  A path leads to a marker: <<pr>>, <<pr, ocm>>, .. *)

Extend(paths, lengths) ==
  FlattenSeq([i \in DOMAIN paths |-> [k \in 1..lengths[i] |-> Append(paths[i], k)]])
OcmPathsOf(t, prs) == Extend(prs, [i \in DOMAIN prs |-> Len(t[prs[i][1]])])
PoPathsOf(t, ocms) == Extend(ocms, [i \in DOMAIN ocms |-> Len(t[ocms[i][1]][ocms[i][2]])])
MetaPathsOf(t, pos) ==
  Extend(pos, [i \in DOMAIN pos |-> Len(t[pos[i][1]][pos[i][2]][pos[i][3]])])

PrPaths(t)   == [p \in DOMAIN t |-> <<p>>]
OcmPaths(t)  == OcmPathsOf(t, PrPaths(t))
PoPaths(t)   == PoPathsOf(t, OcmPaths(t))
MetaPaths(t) == MetaPathsOf(t, PoPaths(t))
Paths(t, type) ==
  CASE type = "PR"  -> PrPaths(t)
    [] type = "OCM" -> OcmPaths(t)
    [] type = "PO"  -> PoPaths(t)
    [] OTHER        -> MetaPaths(t)

\* A word that tells objects and POs apart; a UUID, whose first word has the
\* version; the words of an object's metadata, <<its tag, how many, which>>.
Version == 4
Tag(path)  == 100 + FoldLeft(LAMBDA n, i : 10 * n + i, 0, path)
Uuid(path) == <<Version, Tag(path)>>
Metadata(path, n) == [i \in 1..n |-> (Tag(path) * 10 + n) * 10 + i]
Identifier == [RCM |-> <<11, 12, 13, 14>>, PR |-> <<21, 22, 23, 24>>]

MetaWords(po) == Sum([m \in DOMAIN po |-> po[m].meta])
DataWords(po) == Sum([m \in DOMAIN po |-> po[m].data])
PoData(po)    == PO_HEADER_SIZE + PO_DIR_SIZE * (Len(po) + 1)

\* Behind the PO identifier: where metadata m and its data begin.
MetaAt(po, m) == PoData(po) + Sum([i \in 1..(m - 1) |-> po[i].meta + po[i].data])
DataAt(po, m) == MetaAt(po, m) + po[m].meta

\* PO info: header with the ids of pack, bucket and system, directory with a last
\* entry for the end, and the metadata.
PoInfoOf(po, path) ==
  <<PO_HEADER_SIZE, PoData(po), Len(po)>> \o Uuid(path) \o Uuid(<<1>>) \o Uuid(<<2>>)
    \o FlattenSeq([m \in DOMAIN po |-> Uuid(Append(path, m)) \o <<MetaAt(po, m), DataAt(po, m)>>])
    \o <<0, 0, MetaAt(po, Len(po) + 1), MetaAt(po, Len(po) + 1)>>
    \o FlattenSeq([m \in DOMAIN po |-> Metadata(Append(path, m), po[m].meta)])
PoInfo(t, path) == PoInfoOf(t[path[1]][path[2]][path[3]], path)
PoBlocks(po) == Blocks(IDENTIFIER_SIZE + PoData(po) + MetaWords(po) + DataWords(po))

\* The first blocks of the markers.  A group of POs and its OCM are followed by a
\* file mark each, and so is a PR.
OcmInfoWords(ocm) ==
  OCM_HEADER_SIZE + Sum([k \in DOMAIN ocm |-> OCM_DIR_SIZE + PoData(ocm[k]) + MetaWords(ocm[k])])
GroupBlocks(ocm) == Sum([k \in DOMAIN ocm |-> PoBlocks(ocm[k])]) + 1
OcmBlocks(ocm)   == GroupBlocks(ocm) + Blocks(IDENTIFIER_SIZE + OcmInfoWords(ocm)) + 1
OcmsBlocks(pr)   == Sum([j \in DOMAIN pr |-> OcmBlocks(pr[j])])
PrWords(pr) ==
  IDENTIFIER_SIZE + PR_HEADER_SIZE + Sum([j \in DOMAIN pr |-> PR_DIR_SIZE + OcmInfoWords(pr[j])])
PrBlocks(pr)     == OcmsBlocks(pr) + Blocks(PrWords(pr)) + 1

PrBegins(t, p)     == FirstBlock + Sum([q \in 1..(p - 1) |-> PrBlocks(t[q])])
PrBlock(t, p)      == PrBegins(t, p) + OcmsBlocks(t[p])
OcmBegins(t, p, j) == PrBegins(t, p) + Sum([i \in 1..(j - 1) |-> OcmBlocks(t[p][i])])
OcmBlock(t, p, j)  == OcmBegins(t, p, j) + GroupBlocks(t[p][j])
PoBlock(t, p, j, k) == OcmBegins(t, p, j) + Sum([i \in 1..(k - 1) |-> PoBlocks(t[p][j][i])])
RcmBlock(t)        == PrBegins(t, Len(t) + 1)

InPo(block, at) == <<block + at \div BlockSize, at % BlockSize>>

\* The block of a marker and the word in it at which it is looked for.
TapePosition(t, type, path) ==
  CASE type = "PR"  -> <<PrBlock(t, path[1]), 0>>
    [] type = "OCM" -> <<OcmBlock(t, path[1], path[2]), IDENTIFIER_SIZE>>
    [] type = "PO"  -> <<PoBlock(t, path[1], path[2], path[3]), IDENTIFIER_SIZE>>
    [] OTHER        -> InPo(PoBlock(t, path[1], path[2], path[3]),
                            IDENTIFIER_SIZE + MetaAt(t[path[1]][path[2]][path[3]], path[4]))

\* OCM info and PR: a directory of lengths and distances, then what is in it.
Directory(infos, distances) ==
  FlattenSeq([i \in DOMAIN infos |-> <<Len(infos[i]), distances[i]>>]) \o FlattenSeq(infos)

OcmInfo(t, p, j) ==
  <<OCM_HEADER_SIZE, OCM_HEADER_SIZE + OCM_DIR_SIZE * Len(t[p][j]), Len(t[p][j])>>
    \o Directory([k \in DOMAIN t[p][j] |-> PoInfo(t, <<p, j, k>>)],
                 [k \in DOMAIN t[p][j] |-> OcmBlock(t, p, j) - PoBlock(t, p, j, k)])
PartialReference(t, p) ==
  Identifier["PR"]
    \o <<PR_HEADER_SIZE, PR_HEADER_SIZE + PR_DIR_SIZE * Len(t[p]), Len(t[p])>>
    \o Directory([j \in DOMAIN t[p] |-> OcmInfo(t, p, j)],
                 [j \in DOMAIN t[p] |-> PrBlock(t, p) - OcmBlock(t, p, j)])

\* RCM: the lengths, the ids of system, pool and pool group, the distances of the
\* PRs, and the list of buckets (a JSON document, two words of it here).
BucketList == <<1, 2>>
ReferenceCommitMarker(t) ==
  Identifier["RCM"] \o <<RCM_HEADER_SIZE, RCM_HEADER_SIZE + Len(t), Len(BucketList), Len(t)>>
    \o Uuid(<<2>>) \o Uuid(<<3>>) \o Uuid(<<4>>)
    \o [p \in DOMAIN t |-> RcmBlock(t) - PrBlock(t, p)] \o BucketList

-----------------------------------------------------------------------------
(* Reading the files: PRs, OCMs and POs are counted from 0 *)

pr_num == last_rcm[IDENTIFIER_SIZE + 4]
dp_rcm_block_number == RcmBlock(tape)

\* read_marker_file and r64.
Word(p, at) == files[p + 1][at + 1]

\* PR: header and OCM directory.
part_of_ocm_num(p)    == Word(p, IDENTIFIER_SIZE + 2)
OcmInfoLength(p, j)   == Word(p, IDENTIFIER_SIZE + PR_HEADER_SIZE + PR_DIR_SIZE * j)
ocm_block_offset(p, j) == Word(p, IDENTIFIER_SIZE + PR_HEADER_SIZE + PR_DIR_SIZE * j + 1)

offset_to_taget_ocm_info(p, j) ==
  IDENTIFIER_SIZE + Word(p, IDENTIFIER_SIZE + 1) + Sum([i \in 1..j |-> OcmInfoLength(p, i - 1)])

\* OCM info: header and PO directory.
part_of_po_num(p, j) == Word(p, offset_to_taget_ocm_info(p, j) + 2)
PoDirectory(p, j, k) == offset_to_taget_ocm_info(p, j) + OCM_HEADER_SIZE + OCM_DIR_SIZE * k
PoInfoLength(p, j, k) == Word(p, PoDirectory(p, j, k))
po_block_offset(p, j, k) == Word(p, PoDirectory(p, j, k) + 1)
offset_to_taget_po_info(p, j, k) ==
  offset_to_taget_ocm_info(p, j) + Word(p, offset_to_taget_ocm_info(p, j) + 1)
    + Sum([i \in 1..k |-> PoInfoLength(p, j, i - 1)])

\* PO info: header and object directory.
po_h_data_offset(p, j, k) == Word(p, offset_to_taget_po_info(p, j, k) + 1)
part_of_meta_num(p, j, k) == Word(p, offset_to_taget_po_info(p, j, k) + 2)
ObjectDirectory(p, j, k, m) == offset_to_taget_po_info(p, j, k) + PO_HEADER_SIZE + PO_DIR_SIZE * m
meta_block_offset(p, j, k, m) == Word(p, ObjectDirectory(p, j, k, m) + OBJECT_ID_SIZE)
obj_block_offset(p, j, k, m)  == Word(p, ObjectDirectory(p, j, k, m) + OBJECT_ID_SIZE + 1)

\* get_ocm_po_meta_num and get_meta_num_in_ocm_info, for the first n PRs.
PosInPr(p)       == Sum([j \in 1..part_of_ocm_num(p) |-> part_of_po_num(p, j - 1)])
MetasInOcm(p, j) == Sum([k \in 1..part_of_po_num(p, j) |-> part_of_meta_num(p, j, k - 1)])
MetasInPr(p)     == Sum([j \in 1..part_of_ocm_num(p) |-> MetasInOcm(p, j - 1)])

OcmsBefore(n)  == Sum([p \in 1..n |-> part_of_ocm_num(p - 1)])
PosBefore(n)   == Sum([p \in 1..n |-> PosInPr(p - 1)])
MetasBefore(n) == Sum([p \in 1..n |-> MetasInPr(p - 1)])

get_ocm_po_meta_num(n) ==
  [OCM |-> OcmsBefore(n), PO |-> PosBefore(n), META |-> MetasBefore(n)]

\* current_num_of_ocm, current_num_of_po, current_num_of_meta: what the loops of
\* get_address_of_marker have counted when they come to a PR, an OCM, a PO.
current_num_of_ocm(p)   == OcmsBefore(p)
current_num_of_po(p, j) == PosBefore(p) + Sum([i \in 1..j |-> part_of_po_num(p, i - 1)])
current_num_of_meta(p, j, k) ==
  MetasBefore(p) + Sum([i \in 1..j |-> MetasInOcm(p, i - 1)])
    + Sum([i \in 1..k |-> part_of_meta_num(p, j, i - 1)])

Ocms  == UNION {{<<p, j>> : j \in 0..(part_of_ocm_num(p) - 1)} : p \in 0..(pr_num - 1)}
Pos   == UNION {{Append(o, k) : k \in 0..(part_of_po_num(o[1], o[2]) - 1)} : o \in Ocms}
Metas == UNION {{Append(o, m) : m \in 0..(part_of_meta_num(o[1], o[2], o[3]) - 1)} : o \in Pos}

get_address_of_pr(n) == dp_rcm_block_number - last_rcm[IDENTIFIER_SIZE + RCM_HEADER_SIZE + n]

OcmAddress(p, j) == get_address_of_pr(p + 1) - ocm_block_offset(p, j)

\* Mutant: a PO is counted back from the PR instead of from its OCM.
PoAddressFromPr(p, j, k) == get_address_of_pr(p + 1) - po_block_offset(p, j, k)

PoAddress(p, j, k) == OcmAddress(p, j) - po_block_offset(p, j, k)

OcmAt(p, j) ==
  [block |-> OcmAddress(p, j), offset |-> IDENTIFIER_SIZE, pr_file_num |-> p,
   pr_file_offset |-> offset_to_taget_ocm_info(p, j), marker_len |-> OcmInfoLength(p, j)]

PoAt(p, j, k) ==
  [block |-> PoAddress(p, j, k), offset |-> IDENTIFIER_SIZE, pr_file_num |-> p,
   pr_file_offset |-> offset_to_taget_po_info(p, j, k), marker_len |-> po_h_data_offset(p, j, k)]

\* get_target_marker_offset for metadata: the lengths of those before.
MetaOffset(p, j, k, m) ==
  offset_to_taget_po_info(p, j, k) + po_h_data_offset(p, j, k)
    + Sum([i \in 1..m |-> obj_block_offset(p, j, k, i - 1) - meta_block_offset(p, j, k, i - 1)])

MetaIn(p, j, k, m, meta) ==
  [block |-> InPo(PoAddress(p, j, k), IDENTIFIER_SIZE + meta)[1],
   offset |-> InPo(PoAddress(p, j, k), IDENTIFIER_SIZE + meta)[2],
   pr_file_num |-> p, pr_file_offset |-> MetaOffset(p, j, k, m),
   marker_len |-> obj_block_offset(p, j, k, m) - meta]

\* The loops stop where they have counted n.
OcmOf(o)     == OcmAt(o[1], o[2])
PoOf(o)      == PoAt(o[1], o[2], o[3])
MetaOf(o)    == MetaIn(o[1], o[2], o[3], o[4], meta_block_offset(o[1], o[2], o[3], o[4]))
AddressOfOcm(n)  == OcmOf(CHOOSE o \in Ocms : current_num_of_ocm(o[1]) + o[2] = n - 1)
AddressOfPo(n)   == PoOf(CHOOSE o \in Pos : current_num_of_po(o[1], o[2]) + o[3] = n - 1)
AddressOfMeta(n) ==
  MetaOf(CHOOSE o \in Metas : current_num_of_meta(o[1], o[2], o[3]) + o[4] = n - 1)

get_address_of_marker(type, n) ==
  CASE type = "OCM" -> AddressOfOcm(n)
    [] type = "PO"  -> AddressOfPo(n)
    [] OTHER        -> AddressOfMeta(n)

LastMetaAt(a) == Word(a.pr_file_num, a.pr_file_offset + a.marker_len - PO_DIR_SIZE - 2)

\* last_data_offset, last_meta_data_offset, num_of_meta of the PO at a.
get_last_data_offset(a) ==
  [last_data_offset |-> Word(a.pr_file_num, a.pr_file_offset + a.marker_len - 1),
   last_meta_data_offset |-> LastMetaAt(a),
   num_of_meta |-> Word(a.pr_file_num, a.pr_file_offset + 2)]

-----------------------------------------------------------------------------
(* The walk over all markers *)

Number(type) == IF type = "PR" THEN pr_num ELSE get_ocm_po_meta_num(pr_num)[type]

Beyond == RcmBlock(tape) + 1   \* above every address, as ULONG_MAX is
NextBlock(type) ==
  CASE cnt[type] > Number(type) -> Beyond
    [] type = "PR"              -> get_address_of_pr(cnt[type])
    [] OTHER                    -> get_address_of_marker(type, cnt[type]).block

InitAddress ==
  /\ tape \in Shapes
  /\ cnt = [type \in MarkerTypes |-> 1]
  /\ met = << >>

MoreMarkers == \E type \in MarkerTypes : cnt[type] <= Number(type)

\* Mutant: a PO and its first object in one block, and the object comes first.
get_next_markerObjectFirst(pr, ocm, po, meta) ==
  IF pr < ocm /\ pr < po /\ pr < meta THEN "PR"
  ELSE IF ocm < po /\ ocm < meta THEN "OCM" ELSE IF po < meta THEN "PO" ELSE "META"

get_next_marker(pr, ocm, po, meta) ==
  IF pr < ocm /\ pr < po /\ pr < meta THEN "PR"
  ELSE IF ocm < po /\ ocm < meta THEN "OCM" ELSE IF po <= meta THEN "PO" ELSE "META"

CheckMarker ==
  /\ MoreMarkers
  /\ \E type \in {get_next_marker(NextBlock("PR"), NextBlock("OCM"), NextBlock("PO"), NextBlock("META"))} :
       /\ met' = Append(met, <<type, cnt[type]>>)
       /\ cnt' = [cnt EXCEPT ![type] = @ + 1]
  /\ UNCHANGED <<tape, files, last_rcm>>

-----------------------------------------------------------------------------
(* Properties of the files and of the walk *)

\* The walk starts with the numbers of markers that are on the tape.
CountsRight ==
  /\ pr_num = Len(tape)
  /\ get_ocm_po_meta_num(pr_num) =
       [OCM |-> Len(OcmPaths(tape)), PO |-> Len(PoPaths(tape)), META |-> Len(MetaPaths(tape))]

\* Every marker is looked for in the block, and at the word in it, where it is.
LookedForAt(a) == <<a.block, a.offset>>
AddressesRight ==
  /\ \A p \in DOMAIN tape : get_address_of_pr(p) = PrBlock(tape, p)
  /\ \A type \in MarkerTypes \ {"PR"} : \A paths \in {Paths(tape, type)} : \A n \in DOMAIN paths :
       LookedForAt(get_address_of_marker(type, n)) = TapePosition(tape, type, paths[n])

\* What is compared with it is its own part of the right file, and as long: all of
\* an OCM info, header and directory of a PO, the metadata of an object.
PartOfFile(type, path) ==
  CASE type = "OCM" -> OcmInfo(tape, path[1], path[2])
    [] type = "PO"  -> SubSeq(PoInfo(tape, path), 1, PoData(tape[path[1]][path[2]][path[3]]))
    [] OTHER        -> Metadata(path, tape[path[1]][path[2]][path[3]][path[4]].meta)
IsPartOfFile(a, sound, type, path) ==
  /\ a.pr_file_num = path[1] - 1
  /\ a.pr_file_offset + a.marker_len <= Len(sound)
  /\ SubSeq(sound, a.pr_file_offset + 1, a.pr_file_offset + a.marker_len) = PartOfFile(type, path)
ContentsRight ==
  \E sound \in {[p \in DOMAIN tape |-> PartialReference(tape, p)]} :
    \A type \in MarkerTypes \ {"PR"} : \A paths \in {Paths(tape, type)} : \A n \in DOMAIN paths :
      IsPartOfFile(get_address_of_marker(type, n), sound[paths[n][1]], type, paths[n])

\* What the check of the padding relies on, for every PO: the end of its data, the
\* last metadata, and the number of its objects.
EndOf(po) ==
  [last_data_offset |-> MetaAt(po, Len(po) + 1), last_meta_data_offset |-> MetaAt(po, Len(po)),
   num_of_meta |-> Len(po)]
LastObjectRight ==
  \A paths \in {PoPaths(tape)} : \A n \in DOMAIN paths :
    get_last_data_offset(AddressOfPo(n)) = EndOf(tape[paths[n][1]][paths[n][2]][paths[n][3]])

\* The walk comes to the markers in the order of the tape: what has been checked
\* lies before what has not, and at its end everything has been checked.
Markers == UNION {{<<type, n>> : n \in DOMAIN Paths(tape, type)} : type \in MarkerTypes}
Checked == {met[i] : i \in DOMAIN met}
PlaceOf(a) == TapePosition(tape, a[1], Paths(tape, a[1])[a[2]])
Earlier(p, q) == p[1] < q[1] \/ (p[1] = q[1] /\ p[2] < q[2])

InTapeOrder ==
  /\ Checked \subseteq Markers
  /\ \E place \in {[a \in Markers |-> PlaceOf(a)]} :
       \A a \in Checked : \A b \in Markers \ Checked : Earlier(place[a], place[b])
  /\ ~MoreMarkers => Checked = Markers
=============================================================================
