# OTFormat Object Reader: a TLA+ verification development

The Object Reader (`src/src/*.c`, built with `OBJ_READER`) is a command-line
program that reads tapes written in OTFormat. It dumps every object of a tape to
a directory (`--full-dump`), goes on with an interrupted dump (`--resume-dump`),
lists the objects (`--list`), and reads single objects through a list. The same
sources built without `OBJ_READER` are the format checker.

This directory holds its specification in TLA+: twelve modules that model the reader
(`SaveDirs`, `ObjectDump`, `ObjectCopy`, `HistoryLog`, `ListFiles`, `ObjectRead`,
`MarkerAddress`, `MarkerFormat`, `MarkerFiles`, `CommandLine` with `DumpProgress`,
`Documents`), two abstract specifications (`DumpPromise`, `HistoryStore`), MC modules
and configurations for TLC, and eight modules of proofs for TLAPS. Each module is
checked with `tlc -config MCX_y.cfg MCX.tla`, each module of proofs with
`tlapm X_proofs.tla`.

The program is one sequential process. What makes it hard is time and failure:
a dump of a tape takes hours, is interrupted and started again, and each run
rebuilds what it must know from files the earlier runs left at whatever point
they were stopped; and the tape drive's position is a piece of state that every
step moves and only some steps set.

## 1. Inventory

### The tape

A tape has a reference partition (the index) and a data partition. The data
partition holds, in block order: a VOL1 label, an OTF label and the first
reference commit marker (RCM); then groups of packed objects (POs), each a PO
header with its objects' metadata and data; after a group of POs an object commit
marker (OCM) between two file marks; after some OCMs a partial reference (PR)
and a file mark; at the end the last RCM. The reference partition holds copies of
the PRs, which index all the OCMs, POs and objects.

### The components

| component | source | state it keeps | operations |
|---|---|---|---|
| Walk over the markers | `check_integriy.c` 1664-1867 | the number of the next PR, OCM, PO and object; `first_locate_flag`; the mode; the bucket name of the last PO | start in three modes, check the next marker, finish |
| Objects on disk | `check_integriy.c` 484-590, `ltos_format_checker_util.c` 596-635, 1211-1238 | `.meta` and `.data` files | skip, make directories, write metadata, append data |
| Save directories | `ltos_format_checker_util.c` 453-589 | per bucket: directory, subdirectory, objects in it | rebuild from disk, add, count one more |
| History | `ltos_format_checker_util.c` 75-86, 223-445 | `history.log`: per tape four keys; the time of the last write | write, read; create, remove, rename |
| Lists of objects | `check_integriy.c` 989-1041, `ltos_format_checker_util.c` 96-128, `object_reader_util.c` 492-524 | `<bucket>_NNNN.lst` | append an entry, open the next file, close the JSON of all |
| Reading objects | `object_reader.c` 528-659, `object_reader_util.c` 228-382, `check_integriy.c` 1703-1719 | the chosen entries of the list | look up by key or id, read one object or one PO |
| Marker addresses | `check_integriy.c` 1059-1576 | none: computed from the marker files | counts and addresses of PR, OCM, PO and objects |
| Marker files | `check_integriy.c` 68-156, 270-347, `object_reader.c` 401-414, 471-478, `ltos_format_checker_util.c` 1108-1159 | `reference_partition/`, its backup, a cached open file | write from tape, read, back up, restore |
| Tape positions | `scsi_util.c`, `scsi/*`, `check_integriy.c` 182-263 | the drive's partition and block | locate, read, space, check file marks, find the last RCM |
| Format checks | `check_label.c`, `check_marker_*.c`, `check_medium_auxiliary_memory.c` | none | reject what is not OTFormat |
| Command line, drive and disk space | `object_reader.c` 95-399, `object_reader_util.c` 447-485, `output_level.c` | options; the verbosity | parse, reject conflicts, open the drive, exit on a system error |

How they interact: `main` opens the drive, restores or writes the marker files
and calls `check_integrity`. The walk asks the marker addresses which marker is
next, checks it where the tape stands (only objects are located), and at a PO
takes the bucket's name and writes the history; at an object it asks the save
directories where to put it and writes its files, or its list entry. A system
error anywhere calls `exit(1)`: all state in memory is lost, the disk stays.

### What is hard, and what must hold

- **Stop and restart.** A run can stop between any two writes: between `.meta` and
  `.data`, between two keys of the history, between the removal of `history.log`
  and the renaming of its replacement, in the middle of a list, of a backup or of a
  `.pack`. The promises: a recorded resume point is never past an object that is not
  saved; a half-written object of a dump is written again; what is called complete
  is whole (`ResumePointSaved`, `NoStaleSkip`, `CompleteDumpSaved`, `ListsWhole`,
  `WholeUnlessTorn`, `FilesWhole`).
- **State rebuilt after a restart.** The counters of the save directories are
  rebuilt from directory names only. Nothing may be stored twice in one place, no
  subdirectory may exceed its limit, a bucket may not be called full early
  (`SubdirCapacity`, `DroppedOnlyWhenFull`).
- **State that outlives its use.** Flags, static variables, a cached handle, files of
  another tape, a restored backup and the history of an older dump are used later on
  as if they were of now (`SearchFinds`, `WrongIsSaid`, `NoFalseAlarm`,
  `WrongMarkersReported`, `NoGap`).
- **Order.** The four kinds of markers are merged by address; a PO and its first
  object may share a block. The walk meets them in tape order, and every object is
  filed under its own PO's bucket (`WalkInTapeOrder`, `OwnBucket`).
- **Position.** Markers other than objects are read where the tape stands
  (`HeadInStep`, `HeadAtFirst`, `HeadAfterObject`).
- **Nested lengths and numbers.** Directories in directories in directories, each
  with numbers and offsets relative to another one, are read by format checks and by
  the computation of addresses, with different code (`SoundTapeFound`,
  `SilentMeansContents`, `RightPasses`).
- **Options, time and space.** A dump's options set flags in any order; the interval
  of the history, the time POs take and a disk that fills up meet
  (`DoesWhatWasAsked`, `SavedFresh`, `PlaceSavedWhenShort`).
- **Ending.** The walk ends when four counters have all passed their totals; the
  drive's tries are bounded (`WalkEnds`, `RunsEnd`).

`PROJECT.json` lists these hazards, each at its line, with the properties that
watch it.

## 2. Plan

1. `SaveDirs`: the save directories. *Done.*
2. `ObjectDump`, `DumpPromise`: the walk in its three modes over a constant tape,
   the files, one tape's history, stops and restarts; the promise of a dump as an
   abstract specification. All safety properties and the refinement proved. *Done.*
3. `ObjectCopy`: metadata and data of an object cut out of blocks, for any length and
   place; the zero padding at the end of a PO. All properties proved. *Done.*
4. `HistoryLog`, `HistoryStore`: the text of `history.log` with the sections of several
   tapes, the reads that rewrite it; a table as the abstract specification. All
   properties and the refinement proved. *Done.*
5. `ListFiles`: the list files, their rollover with the directory number, stale
   files, and the search through `_0001`, `_0002`, ... Both properties proved. *Done.*
6. `ObjectRead`: objects and POs read one by one, twice and after a stop. Both
   properties proved. *Done.*
7. `MarkerAddress`: numbers, addresses and lengths out of nested directories, and the
   merge of the four kinds, against a layout from the format. *Done.*
8. `MarkerFormat`: the format checks of the reference partition over files with a
   wrong word, composed with 7. *Done.*
9. `MarkerFiles`: the backup, the restore, the cached file, the barcode, the place of
   the tape, the last RCM, file marks and failed reads. All properties proved. *Done.*
10. `CommandLine`, `DumpProgress`: options, drive, disk space, and over several runs
    the interval of the history. All safety invariants proved. *Done.*
11. `Documents`: the JSON documents, the VOL1 label and bucket names. All properties
    proved. *Done.*

Left: the comparisons of the labels with the cartridge memory, and the format
checker's `main`, a straight sequence of the checks in 8, 9 and 11. The addresses of 7
and 8 stay with TLC (section 6).

How the modules are composed: `ObjectDump` and `ListFiles` extend `SaveDirs`;
`MarkerFormat` extends `MarkerAddress`, `DumpProgress` extends `CommandLine`;
`ObjectDump` implements `DumpPromise` and `HistoryLog` implements `HistoryStore`.
Where two modules meet without sharing state, the one states what the other takes
for granted: `ObjectDump` reads an object's blocks to the last, which is
`HeadAfterObject` of `ObjectCopy`; it reads markers at the addresses of its constant
tape in their order, which is `SoundTapeFound` and `WalkInTapeOrder`; it starts with
the tape at the first marker, which is `HeadAtFirst` of `MarkerFiles`; it saves the
history at some POs, `DumpProgress` says at which; its section of `history.log` is
that of `HistoryStore`; `ObjectRead` takes any selection, `ListFiles` has the search.

## 3. Modules

A definition whose comment begins with *Mutant:* is not part of the model: it is a
variant of the definition after it with a plausible mistake, with which the property
it is meant for fails.

### SaveDirs

One bucket's record is `[counter, dir, sub]` as in `BucketInfo4ObjReader`;
`MaxSave` stands for `OBJ_READER_MAX_SAVE_NUM`. `add_bucket_info`,
`update_bucket_info` and `initialize_bucket_info` are the C functions as
operators; the linked list of records is a function from bucket names, and a
bucket not in the list is `NoInfo`. `Full` is `dir_max_limit_flag`.

### ObjectDump

The tape is a constant: for each kind of marker the sequence of its first blocks
(`Address`), the bucket of each PO (`PoBucket`) and the last block of each
object's data (`DataEnd`).

On disk: `hist` is the four keys in this tape's section of `history.log` and
`ini` says whether the file exists; `subs`, `metaFiles`, `whole` are the
directories, the `.meta` files and those whose `.data` file is complete; `backup`
is the copy of `reference_partition` a finished dump leaves. In memory: the
variables of `check_integrity` under names close to the source's (`cnt` for
`pr_cnt`...`meta_cnt`, `locate` for `first_locate_flag`, `bucket` for
`bucket_name_for_obj_r`, `info` for `bucket_info_4_obj_reader`, `head` for the
drive's position).

Each iteration of the loop is an action for its kind of marker (`WalkPr`,
`WalkOcm`, `WalkPo`, and for an object one of `ListObject`, `DropObject`,
`SkipObject`, `BeginObject`, or `DieOnObject` when no bucket name has been read).
What an interruption can cut in two is cut into actions: a history is written by
`CreateHistory`, and `RemoveHistory` and `RenameHistory` for each key; an object
by `MakeDirs`, `WriteMeta` and `WriteData` for each block. `Stop` loses the
memory and keeps the disk; it stands for a signal, a power cut and each
`exit(1)` of `output_accdg_to_vl`, a full disk included. `StartFullDump`,
`StartResumeDump` and `StartOutputList` are `main` and `check_integrity` up to
the loop; `MaxRuns` bounds them.

Abstractions: a PO header, an OCM and a PR take one block and an object's
metadata is inside one block, so the head moves as on a tape of small markers;
object keys and ids are unique; directories are made by a user whom their mode
does not stop (`mkdir` gets mode 0 from an empty `stat`); the checks of labels
and contents, which only report, are left to `MarkerFormat` and `Documents`. A
`.meta` file counts from the moment it is opened. The empty bucket name, given to an
unknown bucket id, has directories of its own that a restart's scan cannot see, and
its objects are excluded from `NoStaleSkip`: `Settled` accepts any file of such an
object. `mixed` is an observer: a resume has started from keys of two different
writes.

### DumpPromise

What the operator relies on, in three variables: the saved objects only grow, the
recorded point is never past an unsaved object, and "complete" is said only when
all are saved. `ObjectDump!KeepsPromise` is the refinement, with `Saved`,
`hist["META"]` and `backup`.

### ObjectCopy

One pass of `check_diff_btwn_file_and_tape` over an object: `ReadBlock` until the
metadata have been read, `TakeMeta`, `WriteFirst` for the data that share a block
with the metadata, `CopyBlock` for each further block, `EndObject` with the check
of the padding. A byte is its position from the beginning of the object's first
block, so `meta` and `data` say where each byte written came from, and copying a
wrong place, too much or too little shows. `offset` is the code's `uint64_t`:
when metadata go on into a second block it wraps below zero, and `Minus` makes it
right again. `tape_data` is not a variable: it is the block read last, `nread - 1`.
What follows a PO in its block is taken to be zero, as the format wants it.

### HistoryLog, HistoryStore

`history.log` and `history.log_temp` are sequences of lines with an identity.
`WholeScan` is the loop of `read_or_write_ini` over the lines, a recursive function
with `ScanLine` as its step:
`ScanOutside` and `ScanInside` are its outer and its inner `while`, `added` is
`add_flag`, `AtEnd` what is written at the end of the file. The steps are those a
stop can tell apart: create, open the copy, write it, remove, rename. The barcode
of a section is always eight characters long, so the code's comparison of
prefixes is equality. A read that finds its key returns with its copy open
(`leaked`); the text in it is flushed by `Exit` into the file with that identity,
whatever its name has become. The four counts of a write are one number, the
number of the write.

`HistoryStore` is what the dump takes the file for: one number per tape and key,
of which a run changes one at a time, its own, to what it means to write; `Lose`
is allowed between `remove` and `rename` only. `IsAStore` is the refinement.

### ListFiles

A list file is a sequence of lines: the opening of the JSON text, the numbers of
objects, the closing. A run with `--list` is `StartList`, `DeleteList` for each list
(`delete_files_in_directory`), `BeginWalk`, `ListEntry` for each object, `EndWalk`,
`CompleteList` for each list that `comlete_list_files` finds, and `Finish`. An entry
goes to the open file when `SameList` holds (`mk_fp_flag` stays 0) and opens the list
of its directory number otherwise; a bucket that is `Full` gets none. `Stop` keeps
any beginning of the open file from `kept` on: what is behind may have been in a
buffer.

The search in a list is a recursive function over its lines, with `ReadLine` as its
step: `ReadEntry` with `KeyFlag` and `OidFlag`, which outlive an entry as the code's
flags do, and `ReadClosing`, which chooses the latest version. `ListsSearched` is `0001`, `0002`, ... up to the first
file that is missing. `MainDir` and `WalkDir` are the names `main` and the walk have
for the tape; `SavedDirs` is what dumps have left. The text of an entry's fields is
abstracted to the record `[bucket, key, id, sec, frac]`.

### ObjectRead

`files` and `packs` are only appended to. A run takes a selection and a level
(`Start`); at level 0 each chosen object is skipped when its file exists
(`SkipObject`) or gets `WriteMeta`, `WriteFirst` and `WriteBlock`s, then
`NextObject`; at level 1 the PO of the first is measured (`SizePack`), skipped
(`SkipPack`) or written block by block (`WritePack`). `Located` is where the program
moves the tape for a list's entry, which has the block and the offset;
`last_data_offset` and `po_size` read the last directory entry of a PO, which may lie
in two blocks. Skipping by `.data` alone cannot happen (`DataAfterMeta` in the
proofs), so it has no action. `torn` (files a stopped run was writing) and `said`
(what runs called complete) are observers.

### MarkerAddress, MarkerFormat

The unit is the word of eight bytes, of which every field of a directory has one or
two. The first half of `MarkerAddress` lays a shape (PRs of OCMs of
POs of objects with two lengths) out as the format has it: the blocks of the tape, and
the words of the PR files and of both RCMs. It is not the code's, and so it is the
reference for the second half, the program reading those words:
`get_ocm_po_meta_num`, `get_address_of_pr`, `get_address_of_marker` with one operator
for each level of directory, `get_last_data_offset`, and the walk over what they
return (`get_next_marker`, `CheckMarker`).

`MarkerFormat` runs the format checks over the files before that walk. One word of one
file may be wrong (one more, one less, or zero). Each check is a step over `buffer`
with `current_position`: `RcmHeader`, `RcmDirectory`, `PrHeader`, `PrDirectory`,
`OcmHeader`, `OcmDirectory`, `PoHeader`, `ObjectDirectoryCheck`, `OnlyMeta`. `said` is
what has been found; the checks end with the first step that finds something, although
the code goes on and says more, and the walk goes on only over files that passed. A
read behind a buffer returns a word of `HeapWords`. The block size is that of the label but
for the check of overlaps in a directory, which has the one compiled in, `LTOS_BLOCK_SIZE`. The checks whose result the code
drops say nothing here either (`SizeIgnored`, `AfterDirectory`).

### MarkerFiles

A partition is a sequence of markers with a file mark behind each (`Items`, `Item`), and
`head` is the partition, the marker and the number of its blocks that are behind the
head. A run is at the step `at`, a part of the run and a number: the parts are the copy of
a backup (`restore`), the labels (`labels`, `again`), the question whether they are in order
(`formatted`), the partial references read without writing (`temp`) and written (`prs`),
the last RCM (`rcm`), the data partition (`data`) and the backup (`save`). `Steps` gives the steps of each part,
as many as the last RCM numbers PRs where a part reads them, and `PartAfter` what follows
it (`EnterPart`). The steps restore a file of the backup
(`Restore`), empty the directory (`Clear`), move the tape (`Move`), read a block or
the mark behind a marker (`ReadBlock`, `ReadMark`), fail to (`FailRead`), find nothing
behind the last file mark, as behind a restored `RCM_1` of a longer tape
(`ReadNothing`), check the format (`Formatted`), compare with the data partition
(`Diff`, `FailDiff`), walk (`Walk`) and back up (`Save`). `alt` is the
handle of `read_marker_file`, found again by its name. The formats of the files are one
predicate, `WellFormed`, as the checks do not know which tape, and not which PR, a file
is from; a file of the labels or a PR that is too short to be looked at (`TooShort`) ends
the program. A tape has a barcode of its own or none (`"null"`). `Order` is the order in which
`cp` finds the files, any order.

### CommandLine, DumpProgress

Each turn of `getopt` is an action: `Flags`, `Bucket`, `Key`, `Level`, `ObjectId`,
`Help`, `Interval`, `SavePath`; then `EndOfOptions` with `check_arguments`,
`CheckSpace`, the drive's tries (`NotReady`, `OpenDrive`), `ReadReference` and `DoJob`.
`opt` is `main`'s locals, `history_interval` and `obj_save_path` are the statics, which
have other values. `typed`, the letters typed so far, is an observer: `Asked` says from it what
the operator asks for, whatever flags the program has made of the letters. An object id is
empty, `latest`, `all`, one that only begins with `all`, or another. Paths are the one
given with `-s`, the working directory, and the empty one; a disk has a number of GiB.

`DumpProgress` replaces `DoJob` for a dump by its POs: `Begin`, and for each PO
`output_history` and `DumpObjects`, in which time passes and the disk fills up, or
`LargeObject`, which gives up. Time is kept as ages: `lap` and `since`. `Again` is the
next run, after any stop. `reached`, `own` and `short` are observers.

### Documents

A document is a sequence of objects, an object a sequence of members in the order of
the text; a member is a key, a type, a length or number, and the places of its text at
which a wrong character stands. Each turn of a loop over members is an action
(`MetadataMember`, `BucketMember`, `LabelMember`, `Vol1Field`), with the code's flags
for required members (`found`) and its result (`ret`) beside what it says (`said`). The
key of the first layer of a label is a member like the others. A block size is any text
of digits, quoted or not; `atoi` is not followed beyond its range.
Names of buckets are sequences of character classes, checked by `check_bucket_name`
and `is_ip_address_format`; `LegalLabel` and `IsAddress` are what they should accept.

## 4. Runs

| run | module | shows | states |
|---|---|---|---|
| `dump_and_resume` | `MCObjectDump`, full and resume, no `-i`, 3 runs | `ResumePointSaved`, `CompleteDumpSaved`, `ResumeGoesForward`, the refinement `KeepsPromise`, `WalkEnds` | 68,526 |
| `all_modes_files` | `MCObjectDump`, all modes, `-i`, 3 runs | `TypeOK`, `NoStaleSkip`, `SubdirCapacity`, `DroppedOnlyWhenFull`, `OwnBucket`, `HeadInStep` | 790,127 |
| `object_copy` | `MCObjectCopy`, metadata up to two blocks | `TypeOK`, `ObjectWhole`, `HeadAfterObject`, `RefusedOnlyAligned` | 12,032 |
| `history_log` | `MCHistoryLog`, two tapes, 3 runs, 3 writes | `OneLinePerKey`, `ReadsOwnSection`, `FlushKeepsHistory`, the refinement `IsAStore` | 35,554 |
| `list_files` | `MCListFiles`, 2 runs, after no dump and two kinds of dumps | `ListsWhole`, `SearchFinds` | 708 |
| `object_read` | `MCObjectRead`, 2 runs | `NothingTwice`, `WholeUnlessTorn` | 12,645 |
| `marker_addresses` | `MCMarkerFormat`, sound files and one wrong word | `RightPasses`, `SoundTapeFound`, `SilentMeansContents`, `WalkInTapeOrder` | 161,064 |
| `marker_files` | `MCMarkerFiles`, two tapes, 3 runs, one failed read | `HeadAtFirst`, `FilesWhole`, `WrongMarkersReported`, `NoFalseAlarm` | 771,386 |
| `dump_progress` | `MCDumpProgress`, 2 runs, all options | `TypeOKDump`, `DoesWhatWasAsked`, `PlaceSavedWhenShort`, `SavedFresh`, `NoGap`, `RunsEnd` | 2,963,977 |
| `documents` | `MCDocuments`, documents with one thing wrong | `RightPasses`, `WrongIsSaid`, `NamesByLabels` | 144,021 |
| `torn_resume` | `MCObjectDump`, full and resume, 2 runs | a counterexample to `ResumeKnowsBucket` | |
| `aligned_end` | `MCObjectCopy`, metadata up to a block | a counterexample to `PaddingAccepted` | |

### Bounds, and why they are enough

- *The walk.* A tape of 23 blocks: six objects in four POs of two buckets, three OCMs
  and two PRs, with a PO and its object in one block, two objects in one block, an
  object over two blocks and a PO group of one. `MaxSave = 2` (the code has 1000) gives
  a bucket 2 x 2 subdirectories of two objects: with four objects in a bucket the first
  run fills two subdirectories, the second rolls over to the next directory and the
  third meets the full bucket, so every branch of `update_bucket_info` is taken. Three
  runs are enough for a stop in a resume of an interrupted run. The history is at most
  one write behind its predecessor, and the tape has POs enough for the first, a later
  and the last write to be torn. Without `-i` the interval is 0 and the history is
  written at every PO; with `IntervalGiven` it is written at some POs, a
  nondeterministic choice, and the runs include both.
- *Copies.* With blocks of four bytes, metadata up to two blocks and data up to three,
  an object begins and ends at every place of a block, and metadata fit, fill, cross
  and exceed their block. `Word = 256` is far above all lengths, as 2^64 is.
- *The history file.* Three runs with three writes over two tapes leave sections with
  some keys missing in the middle of the file and at its end, which a later read
  completes; that is when an open copy becomes `history.log` and `FlushKeepsHistory`
  matters.
- *Lists.* Eight objects in two buckets; with `MaxSave = 2` a list has four entries, so
  bucket `b1` needs a second, and after a dump it begins in the middle of one. Of the
  five versions of one key, two pairs are of the same second, one of them with
  different fractions. `MCListFiles` has TLC evaluate `BucketsFit`, an assumption of the
  proofs, on this tape, as `MCObjectDump` has it evaluate `InFormat`.
- *Single objects.* Blocks of 8 bytes, an identifier of 3, a header of 6 and entries of
  4: the last entry of the three POs is over two blocks, inside one, and ends with one.
  Metadata end with a block, are over two, are followed by none, one or two blocks of
  data. Two runs are a stop and a retry; the proofs are for any number.
- *Markers.* Blocks of 24 words; up to two PRs, three OCMs in one, POs of one to three
  objects, an object without data, metadata and POs at their longest
  (`META_MAX_SIZE`, `MAX_PO_SIZE`). Every word of every file is wrong by one in both
  directions and zero, once. The heap word is 3, a plausible number, since an
  implausible one is found.
- *Marker files.* Two tapes, one with three PRs, of one and of two blocks, and one
  with a single PR; three runs let one tape's files be left, the other's be backed up,
  and the first come back. `cp` goes through the labels, then the PRs. With two
  failed reads (2.1 million states) the properties hold as well; the second is why `HeadAtFirst` has its exception: an empty `RCM_0` equals one that
  cannot be read.
- *Dump progress.* Three POs, POs of 0 to 2 seconds, limits of the interval 2 and 3 with
  1 to 4 typed, 2 GiB required, 16 values of an `uint32_t`. With three runs (9.8 million
  states) the properties hold as well.
- *Documents.* One thing wrong (left out, of another type, at and over each limit, a
  wrong character), every optional member in front, in the middle and behind, and two
  objects; names of up to five characters over `a`, `1`, `A`, `.` and `-`, and of six
  to eight over `a`, `9` and `.`, with 7 the longest allowed.

Deadlock is not checked: when the runs allowed by `MaxRuns` are over, the object is
copied or the documents are checked, nothing is left to do.

### Fairness

`FairSpec` of `ObjectDump` has `WF_vars(Walk)`: a process that runs goes on running.
`SpecDump` has `WF_vars(pc # "options" /\ RunStep)`: behind its options every step is
the program's own, and one of them is always enabled until it ends. Nothing is assumed
of the options, which the operator types, of starting, or of stopping. Under it
`WalkEnds` says that a walk that is not stopped ends, and `RunsEnd` that a run whose
options have been read ends.

## 5. Known divergences

What the model checker found the code to do otherwise than its documentation,
messages or comments say (`README.md` is the repository's, line numbers without a file
are of the file named before). Each has a configuration; the first two are runs of section 4.
`tlc -config <cfg> <module>` shows the counterexample (with `-continue` where a
configuration names more than one property; TLC names one property for each state, so
`SelectedHasKey`, which fails in the same state as `LatestIsLatest`, has to be checked
without it).

Dumps:

- *A torn history kills the resume* (`torn_resume`, `ResumeKnowsBucket`). The four keys
  are four rewrites of the file (`ltos_format_checker_util.c:385-388`). Stopped after
  the third, the PO is the new one and the object number the old one: the first marker
  of the resume is an object, no PO has been read, and `strcmp` gets a null bucket name.
  Nothing is lost by it (`ResumePointSaved` holds, since the object number is written
  last), but the tape cannot be resumed any more.
- *A torn history files objects under the wrong bucket* (`MCObjectDump_misfile.cfg`,
  `FiledByBucket`). Stopped after the OCM number has been written and before the PO
  number, the resume passes over an OCM. The next PO is then read at the file mark in
  front of that OCM; the read fails with error messages (the reader goes on after
  errors), the bucket name stays that of the PO before, and the objects are saved
  under it.
- *A list loses the resume point* (`MCObjectDump_listresume.cfg`, `ResumePointSaved`).
  `check_integrity` calls `output_history` at every PO in list mode too
  (`check_integriy.c:1843`), although `README.md:82` gives the history to full and
  resume dumps. A dump stopped early, a list and a resume dump end with "Resume dump is
  complete." and objects missing.
- *A removed history* (`MCHistoryLog_lost.cfg`, `StopKeepsHistory`). A stop between
  `remove` and `rename` in `read_or_write_ini` leaves `history.log_temp` only, which the
  next write truncates: the resume points of all tapes are gone.
- *A stale history* (`MCDumpProgress_disks.cfg`, `NoGapEver`). A full dump neither
  removes nor rewrites the history of its tape before its first save: interrupted
  earlier, `--resume-dump` starts where an older dump had been and leaves out the POs
  before that (`check_integriy.c:1790`); `README.md:67` says "Resume to read all objects
  from a point when interrupted during Full dump."
- *A packed object without padding* (`aligned_end`, `PaddingAccepted`). When the last
  object ends with its block, `padding_size` is a whole block and the object's own data
  are compared with zeros. Full dumps and lists exit with a system error; resume dumps
  skip the check.
- *Long metadata* (`MCObjectCopy_longmeta.cfg`, `LongMetaWhole`). The metadata are
  copied from the block read last, so of metadata longer than a block, which
  `META_MAX_SIZE` allows, the first block is lost.

Lists and single objects:

- *The key of one entry, the id of another* (`MCListFiles_searches.cfg`,
  `SelectedHasKey`). The two flags are cleared only when both are set, so the key of one
  entry and the id of a later one select the later one (`object_reader_util.c:291`);
  `object_reader_util.c:224` calls the result "Structure of each object which has the
  Object key."
- *The latest of one second* (`MCListFiles_searches.cfg`, `LatestIsLatest`).
  `compare_time_string` drops the fraction (`ltos_format_checker_util.c:1282`), and of
  two versions written in one second the first counts as the latest.
- *Several latest* (`MCListFiles_searches.cfg`, `OneLatest`). The choice is made at the
  closing bracket (`object_reader_util.c:260`), which an interrupted list does not have:
  all versions are read. `README.md:91` says `"latest" : Output ONLY the latest version
  object.`
- *Long lists* (`MCListFiles_searches.cfg`, `ListSize`). A list is closed when the
  directory number changes, which is after a thousand subdirectories
  (`check_integriy.c:1000`); `README.md:132` says "each file has 1000 objects data".
- *Lists that are not found* (`ListedIsFound`). After a dump that filled the first
  directory the first list has a higher number than `0001`, where the search begins and
  ends (`MCListFiles_afterdump.cfg`, `object_reader.c:530`; `README.md:61` reads objects
  by what is "acquired from a list above"). When the cartridge memory has no barcode,
  lists are written below one directory and searched below `null`
  (`MCListFiles_barcode.cfg`, `object_reader.c:396`; `README.md:164`: "When a cartridge
  memory is not accessible, OTFormat Reader identifies a tape with the first six digit
  of a barcode label.").
- *A torn object is taken for whole* (`MCObjectRead_torn.cfg`, `CompleteMeansRead`). What
  exists is skipped (`check_integriy.c:534`), also when a stopped run wrote only a part
  of it; the run prints "All of the processes are complete." (`object_reader.c:650`).

Marker files:

- *A backup cut short is restored* (`MCMarkerFiles_stopped.cfg`, `FormattedIsAccepted`).
  Whether there is a backup is told by `OTFLabel` alone (`object_reader.c:402`); one
  interrupted behind it makes every later run exit with "This tape is not formatted in
  OTFormat."; `README.md:67` is about resuming.
- *A file of another tape stays* (`MCMarkerFiles_stopped.cfg`, `ForeignReported`).
  Restored files are copied over `reference_partition/`, which is not emptied
  (`object_reader.c:410`); `README.md:122` calls the backup "Same data as
  reference_partition above."
- *Tapes without a barcode share a backup* (`MCMarkerFiles_barcode.cfg`,
  `WalkOwnMarkers`, `object_reader.c:396`): the next one is walked with the files of the
  one before; `README.md:164` as above.
- *A failed read is the end of a marker* (`MCMarkerFiles_fault.cfg`, `WalkOwnMarkers`) if
  the block before the head is a file mark (`check_integriy.c:303`), so the file is
  empty; the message for it, line 304, is "Failed to read the reference partition."

Options and disks:

- *A long interval* (`MCDumpProgress_options.cfg`, `IntervalTyped`). `atoi` drops the
  upper bits before the limits are checked: `-i 4294967356` is 60 seconds
  (`object_reader.c:161`); line 171 says "Interval must be %d seconds or less."
- *A save path that is made* (`MCDumpProgress_options.cfg`, `SaveDirUsable`) gets the mode
  of the `stat` that has just failed, which is 0 (`object_reader.c:457`); `README.md:94`:
  "Specify a full path where data will be stored."
- *No default interval* (`MCDumpProgress_options.cfg`, `IntervalOfDump`). The default goes
  into a local; without `-i` the static is 0 (`object_reader.c:256`: "default = 3600
  sec").
- *Ignored options* (`MCDumpProgress_ignored.cfg`, `EveryOptionCounts`). `-O latest` and
  `-O all` set no flag of their own (`object_reader.c:341-351`): alone beside a dump they
  pass and nothing is done for them; line 228 says "when -b, -L, -o or -O is specified,
  is_output_object will be "true"." `DoesWhatWasAsked` excepts this case (`OnlyWhich`)
  and no other.
- *A disk that fills up* (`MCDumpProgress_short.cfg`, `DumpStopsWhenShort`). It is looked
  at only while the interval has not passed (`ltos_format_checker_util.c:369`): never
  without `-i`, nor with POs that take longer. `README.md:79` has `-F` to "Avoid to check
  a disk space during either Full or Resume dump."
- *Another disk* (`MCDumpProgress_disks.cfg`, `IntervalStopsWhenShort`). `obj_save_path`
  is set by `-s` only, so without it `df` gets no path and the last file system it lists
  counts; `README.md:95`: "Default is the application path."

Format checks, without a configuration. These are in the model as the code has them and
`SilentMeansContents`, `WrongIsSaid` and `NamesByLabels` leave room for them:
`check_dir_offset_of_header`, `check_integrity_of_dir_offset`, `check_block_offset` and
`check_offset_diff` report, but their callers drop the result
(`check_marker_common.c:194`, `205`, `369-370`); the system id in a PO header is never
checked, as the first object's id is read in its place (`check_marker_l1_po.c:118`); the
check of optional metadata ends with the first known key (lines 559-587 there); an error
in `BlockSize` is said and not returned; bucket names such as `1.2.3` are refused as IP
addresses; a hexadecimal digit is accepted in the place of a UUID's hyphen.

## 6. Proofs

The lemmas about the rollover of `SaveDirs` are at the head of `ObjectDump_proofs`: the
record keeps its type, an update either counts in the current subdirectory or opens a
later one, and what a restart finds is the last subdirectory in use, marked full. Those
about a restart are repeated in `ListFiles_proofs`, as the two extend different machines.

`ObjectDump_proofs`, for every tape that satisfies `TapeAssumption`, every
`MaxSave > 0` and any number of runs:

| theorem | statement | argument |
|---|---|---|
| `TypeCorrect` | `Spec => []TypeOK` | inductive with `TypeInv`, which adds what the middle steps of an object need |
| `RestartsAreFresh` | `Spec => []NoStaleSkip` | `SlotInv`: every file is in a subdirectory that exists, and no subdirectory is later than the one in memory; a file in the next place to write would need a later one |
| `ResumeLosesNothing` | `[]ResumePointSaved` | `SaveInv`: everything behind `cnt` and behind `hist` is settled |
| `CompleteMeansSaved` | `[]CompleteDumpSaved` | `SaveInv` at the end of the walk |
| `DumpKeepsPromise` | `Spec => KeepsPromise` | each action maps to `SaveObject`, `RecordPoint`, `CompleteDump` or a stutter |
| `DroppedWhenFull` | `Spec => []DroppedOnlyWhenFull` | `HeldInv`: a bucket counted full has the subdirectory `MaxSave/MaxSave` in use; any other has its current subdirectory |
| `FiledInOwnBucket` | `Spec => []OwnBucket` | `StepInv`: unless `mixed`, the walk has met the markers in the order of the tape, the bucket name is that of the last PO met, and files are under the buckets of their POs |
| `HeadStaysInStep` | `Spec => []HeadInStep` | part of `StepInv`: the head is at the next marker, and inside an object at the block that is read next |
| `ResumeOnlyForward` | `Spec => ResumeGoesForward` | `GoesInv`: a resume dump has read a history that is there, and its walk is not behind it |
| `SubdirsKeepCapacity` | `Spec => []SubdirCapacity` | `CountInv`: the files of the current subdirectory, with the one being written, are at most the counter; a restart marks the last subdirectory full, so nothing is added to what it cannot count |

`ResumeLosesNothing`, `CompleteMeansSaved` and `DumpKeepsPromise` assume
`"output_list" \notin Modes`: the first counterexample of a list (section 5) shows that
they fail otherwise. `NoStaleSkip` is needed by `SaveInv`: an object may be skipped only
if its file is whole, and the proof is that it is never skipped.

`FiledInOwnBucket` and `HeadStaysInStep` assume `InFormat`, the layout of the format: POs
in front of their objects, groups of markers without gaps, file marks behind OCMs and
PRs. TLC evaluates it on the tape of the runs. It includes that the bucket id of each PO
is known: under an unknown one the bucket has the empty name, a later run finds the
file of such an object and skips it, reading nothing, and the head is no longer where
the next marker is. That is also why `ResumeOnlyForward` needs no such hypothesis and
these two do: they are about the tape, it is about the history.

`ObjectCopy_proofs`, for every block size and every set of objects whose length is below
2^64:

| theorem | statement | argument |
|---|---|---|
| `CopyTypeCorrect` | `Spec => []TypeOK` | for metadata of any length; `PlaceInv` bounds `readed` when metadata are taken |
| `ObjectIsWhole` | `[]ObjectWhole` | `CopyInv`: the files hold the runs of bytes behind each other, and the end of what is written is in the block read last (or at its end, when more is to come); `BytesConcat` prolongs a run |
| `TapeAfterObject` | `[]HeadAfterObject` | `CopyInv` with nothing left to write |
| `OnlyAlignedRefused` | `Spec => []RefusedOnlyAligned` | `EndInv`: `offset` is the place behind the data written so far, or that place and a wrap; the padding is then refused only if the end is a multiple of the block size |

`ObjectWhole` and `HeadAfterObject` are about metadata up to a block (`Short`).
`RemainedPlace` is the arithmetic: what `block_size - offset` gives after `offset` has
wrapped is the room behind the metadata in the second block.

`ObjectRead_proofs`, for every tape, block size and number of runs:

| theorem | statement | argument |
|---|---|---|
| `AppendedOnce` | `Spec => []NothingTwice` | `ObjectInv` and `PackInv`: a file that no run is writing exists or is empty; what is written and `left` make up the whole (`LeftInv`) |
| `CompleteUnlessTorn` | `Spec => []WholeUnlessTorn` | the same; the objects of `chosen` that are not in `todo` are whole or torn (`ChosenInv`) |

`LocatedWhereFound` is that block and offset of a list lead back to the object,
`SizeFound` that the last entry is found whether it is in one block or two.

`DumpProgress_proofs`, for every limit, interval, duration and number of runs:

| theorem | statement | argument |
|---|---|---|
| `DumpTypeCorrect` | `[]TypeOKDump` | part of `IInv`, which also says that a static interval is 0 or within the limits |
| `JobsAsAsked` | `[]DoesWhatWasAsked` | `OptionsInv`: the program's flags are those of the letters typed, `-O latest` and `-O all` aside; `JobInv`: what has been done is what the flags say, up to `pc` |
| `ShortDiskIsSaved` | `[]PlaceSavedWhenShort` | `StaticsInv`: with `-s` the history looks at the disk that `main` looked at, and without `-i` its interval is 0; so before a PO's objects are dumped either its place is saved or the disk has just been found large enough |
| `HistoryIsFresh` | `[]SavedFresh` | `TimeInv`: `since <= lap`; before a PO's objects are dumped, `history = po` or `lap < history_interval` |
| `NoPoLeftOut` | `[]NoGap` | `GapInv`: a history of the last full dump is at most one PO ahead of `reached` |

(All for `SpecDump`; `DumpInvariant` is `SpecDump => []IInv`.)

`HistoryLog_proofs`, for any tapes, runs, writes and stops, and files of any length:

| theorem | statement | argument |
|---|---|---|
| `LogHolds` | `Spec => []LogInv` | `FilesInv`: which of the two files exist at which step; `TextInv`: their texts have every tape and key once, and a copy is the file with one number changed; `LeakInv`: an open copy is a beginning of the file it may be flushed into; `GotInv`: the keys a resume has read so far are the file's |
| `OneLineEach` | `[]OneLinePerKey` | `TextInv` |
| `ReadsItsTape` | `[]ReadsOwnSection` | `GotInv` |
| `FlushHarmless` | `FlushKeepsHistory` | `LeakInv`: flushing a beginning of a file changes nothing (`BeginningWhole`); `HarmlessGrown` keeps this when a read adds a key to the file |
| `KeepsATable` | `Spec => IsAStore` | `RemoveIni` puts one number, a stop between `remove` and `rename` loses all, every other step keeps the table |

`WholeScanAt` is the lemma under all of them: what the scan has made of the first n lines.
`CopyIsGood` follows: from a text with every tape and key once the scan makes another one,
equal but for the number it was to write. `NewIdFresh` says that there is always an identity
left for a new file.

`Documents_proofs`, for documents with any number of objects and members in any order, and
names of any length:

| theorem | statement | argument |
|---|---|---|
| `RightDocumentsPass` | `[]RightPasses` | `QuietInv`: of a right document nothing has been said up to the member looked at |
| `WrongDocumentsSaid` | `[]WrongIsSaid` | `FoundInv`: the flags are those of the required members of this object that have been met; `SaidInv`: what has been looked at and is wrong has been said; `ReturnInv`: and is returned, but for the block size |
| `NamesJudgedByLabels` | `[]NamesByLabels` | the loops of `check_bucket_name` and of `is_ip_address_format` taken apart into labels and octets; `NameInv`: theirs is the result |

`ListFiles_proofs`, for any tape, any save directories, any number of runs and stops, and
any requests:

| theorem | statement | argument |
|---|---|---|
| `ListsAreWhole` | `[]ListsWhole` | `ListInv`: during the walk every list is an opening with entries in the order of the tape (`Begun`), every object met stands in its `Target`, and the record of a bucket is the place of its last object (`Filled`) |
| `SearchIsRight` | `[]SearchFinds` | from `ListInv` at the end of a run: the lists of a bucket have the numbers from 1 on without a gap (`ListsAre`) and follow the tape (`NumOrder`); what the search has found after n of them is what was asked for among their objects (`SearchAll`, `SearchLatest`, `SearchId`) |

`UpdateFilled` and `NumberOfPlace` tie the rollover to arithmetic: the n-th place of a
bucket, counted through subdirectories and directories, is in the directory that
`ListNumber` gives by dividing twice. Both theorems assume `SameTape`, that `main` and the
walk have the same name for the tape: the case of a cartridge memory without a
barcode in section 5 (`MCListFiles_barcode.cfg`) shows what happens otherwise. `SearchIsRight` assumes
`BucketsFit`, that no bucket has more than `MaxSave` to the third objects (10^9 in the
code): what has no place in a directory is in no list.

`MarkerFiles_proofs`, for any tapes with any number of PRs of any size, any barcodes, any
order in which `cp` finds the files, and any number of runs, stops and failed reads:

| theorem | statement | argument |
|---|---|---|
| `HeadsAreAtFirst` | `Spec => []HeadAtFirst` | `HeadInv`: where the tape is at every step, on each partition, after reads that failed and those that did not |
| `WholeFiles` | `Spec => []FilesWhole` | `ExactInv`: without a failed read the files written so far are the tape's, one after the other; `BackupInv`: a backup that is being made has the files `cp` has come to, any other is empty or the files of one tape |
| `WrongMarkersAreReported` | `Spec => []WrongMarkersReported` | `SourceInv`: as long as no error is said, the files are those of one tape; once `RCM_1` has been compared with the data partition, of the one in the drive |
| `NoFalseAlarms` | `Spec => []NoFalseAlarm` | `ExactInv` with `AltInv` and `HeadInv`: what the checks and comparisons find is then what is on the tape |

The inductive invariant `IInv` has ten parts, which need each other: what is written next
depends on where the tape is, where the tape goes depends on the number of PRs in the last
RCM, and that is in a file. `RefInv` says which files of `reference_partition/` are there
at which step, whole or half-written, and `MarksInv` how many file marks have been counted;
`PartInv` that the step is one of its part. The first conjunct of `HeadAtFirst` is about
runs that read the labels or whose backup was restored after no failed read, the second
excepts two failed reads after an error has been said, as the property does. The only
assumptions are those on the constants (`PrAssumption`, `OrderAssumption`,
`BarcodeAssumption`): PRs have different names, every tape has one or more, of one or more blocks,
`Order` has every file. TLC was asked about each part before it was proved.
The proof that a step keeps `IInv` is sorted by what a step does rather than
by action (`StepKinds`): it reads a block into a file, ends a file, moves the tape, restores,
compares, or changes nothing that a part speaks of.

The scans of `HistoryLog` and `ListFiles` are written as recursive functions. That such a
function exists and obeys its equation (`Recursion`), and what holds for its values
(`HoldsThroughout`), is proved from the least number at which it would fail
(`LeastNatural`); no induction rule is needed.

Model-checked only:

- `WalkEnds` and `RunsEnd`: liveness, with `ENABLED` in the fairness.
- `RightPasses`, `SoundTapeFound`, `SilentMeansContents` and `WalkInTapeOrder` of
  `MarkerFormat`: addresses are sums over directories in directories in directories, and
  the layout that is their reference is a concatenation of concatenations. Each fold
  would need lemmas of the kind above for each level.

## 7. Not modelled

- The comparisons of labels with the cartridge memory, which only warn, and the format of
  the cartridge memory (`check_medium_auxiliary_memory.c`); the names of pool groups.
- Code under `OBSOLETE`, `FORMAT_031` and `NO_TAPE`, which is not built.
- The format checker's `main`: a straight sequence of checks that are modelled.
- SCSI command blocks, sense data and positions as bytes; the text that `lsscsi` and `df`
  print. What they mean is in `MarkerFiles` and `CommandLine`.
- Utilities without state (byte order, strings, the JSON parser): what they return is part
  of the definitions that use them.
- Logging, apart from the exits at system errors and whether an error was said.
- `cp` failing for want of `reference_partition/`, and two programs on one save path.
