----------------------------- MODULE ObjectDump -----------------------------
(***************************************************************************)
(* Full dump, resume dump and list: the walk over the markers of the data  *)
(* partition (check_integrity), the files it leaves under the save path,   *)
(* and history.log, from which an interrupted dump is resumed.             *)
(*                                                                         *)
(* One process runs at a time.  It can be stopped anywhere (a signal, a    *)
(* power cut, an exit(1) on a system error): memory is lost and the disk   *)
(* stays as it is.  The tape is a constant; a marker is known by its type  *)
(* and its index, from 1, among the markers of that type.                  *)
(***************************************************************************)
EXTENDS SaveDirs, Sequences, FiniteSets

CONSTANTS
  Buckets,        \* bucket names in the tape's bucket list
  NoName,         \* the empty name get_bucket_name gives to an unknown id
  Null,           \* bucket_name_for_obj_r before any PO has been read
  FirstData,      \* the block after the first RCM, where the data begins
  LastRcm,        \* the first block of the last RCM, where the data ends
  Address,        \* marker type -> sequence of first blocks of its markers
  PoBucket,       \* bucket of each PO
  DataEnd,        \* last block of the data of each object
  Modes,          \* the modes the operator runs, a subset of AllModes
  IntervalGiven,  \* whether -i is given (history.log is then not written
                  \* at every PO)
  MaxRuns         \* bound: how many times the program is started

DumpModes   == {"full_dump", "resume_dump"}
AllModes    == DumpModes \union {"output_list"}
MarkerTypes == {"PR", "OCM", "PO", "META"}
Names       == Buckets \union {NoName}
Object      == DOMAIN DataEnd

ASSUME NamesAssumption == NoName \notin Buckets /\ Null \notin Names
ASSUME ModesAssumption == Modes \subseteq AllModes /\ IntervalGiven \in BOOLEAN
ASSUME RunsAssumption  == MaxRuns \in Nat
ASSUME TapeAssumption  ==
  /\ FirstData \in Nat /\ LastRcm \in Nat
  /\ DataEnd \in Seq(Nat)
  /\ PoBucket \in Seq(Names)
  /\ Address \in [MarkerTypes -> Seq(1..(LastRcm - 1))]
  /\ Len(Address["META"]) = Len(DataEnd)
  /\ Len(Address["PO"]) = Len(PoBucket)
  /\ \A m \in Object : Address["META"][m] <= DataEnd[m]

VARIABLES
  \* On disk.
  hist,       \* the four keys of the tape's section in history.log, 0 if absent
  ini,        \* "none", "file", or "temp": only history.log_temp exists
  subs,       \* <<bucket, dir, sub>>: the subdirectories that exist
  metaFiles,  \* <<object, bucket, dir, sub>>: the .meta files that exist
  whole,      \* those of metaFiles whose .data file is complete
  backup,     \* reference_partition is backed up under the save path
  \* In memory.
  pc,         \* what the process is doing; "down" when there is none
  mode,       \* obj_r_mode
  cnt,        \* pr_cnt, ocm_cnt, po_cnt, meta_cnt: the next marker of each type
  locate,     \* first_locate_flag
  head,       \* block at which the tape is positioned
  bucket,     \* bucket_name_for_obj_r
  info,       \* bucket_info_4_obj_reader
  field,      \* which of the keys of history.log is being written
  \* Observers.
  runs,       \* how many times the program has been started
  mixed,      \* a resume has started from a history of two different writes
  dropped     \* <<object, bucket>> not written because the bucket was full

disk     == <<hist, ini, subs, metaFiles, whole, backup>>
memory   == <<pc, mode, cnt, locate, head, bucket, info, field>>
observed == <<runs, mixed, dropped>>
vars     == <<disk, memory, observed>>

-----------------------------------------------------------------------------
(* The tape *)

Number(t) == Len(Address[t])

\* get_address_of_pr and get_address_of_marker; past the last marker they leave
\* ULONG_MAX, for which any block above all addresses will do.
NoAddress == LastRcm

AddressOf(t, n) == IF n \in 1..Number(t) THEN Address[t][n] ELSE NoAddress

\* The file marks: around each OCM and after each PR.
FileMarks ==
  {Address["PR"][i] + 1 : i \in 1..Number("PR")}
    \union UNION {{Address["OCM"][i] - 1, Address["OCM"][i] + 1} : i \in 1..Number("OCM")}

\* SPACE to just after the next file mark; READ, which the code undoes with a
\* LOCATE when it meets a file mark.
AfterMark(h) == LET next == {f \in FileMarks : h <= f}
                IN  IF next = {} THEN h ELSE Min(next) + 1

ReadBlock(h) == IF h \in FileMarks THEN h ELSE h + 1

\* The order of the markers on a tape.  A PO and the first of its objects may
\* share a block, and so may objects.
Precedes(t, i, u, j) ==
  \/ Address[t][i] < Address[u][j]
  \/ /\ Address[t][i] = Address[u][j]
     /\ <<t, u>> = <<"PO", "META">> \/ (t = u /\ i < j)

\* The block behind an OCM, a PR or an object, and the file mark after it.
EndOf(t, i) == IF t = "META" THEN DataEnd[i] + 1 ELSE Address[t][i] + 2

\* A tape as the format lays it out: the data begin with a PO; objects lie in
\* POs, one behind the other; groups of POs, OCMs and PRs follow each other
\* without gaps; the last PR ends the data.
InFormat ==
  /\ \A t \in MarkerTypes : \A i, j \in 1..Number(t) :
       i < j => IF t = "META" THEN DataEnd[i] <= Address[t][j] ELSE Address[t][i] < Address[t][j]
  /\ \A t, u \in MarkerTypes : \A i \in 1..Number(t), j \in 1..Number(u) :
       Address[t][i] = Address[u][j] => t = u \/ {t, u} = {"PO", "META"}
  /\ \A t \in MarkerTypes : \A i \in 1..Number(t) : Address[t][i] \notin FileMarks
  /\ \A m \in Object :
       /\ \A f \in FileMarks : ~(Address["META"][m] <= f /\ f <= DataEnd[m])
       /\ \A t \in MarkerTypes \ {"META"} : \A i \in 1..Number(t) :
            ~(Address["META"][m] < Address[t][i] /\ Address[t][i] <= DataEnd[m])
       /\ \E p \in 1..Number("PO") : Address["PO"][p] <= Address["META"][m]
  /\ \A p \in 1..Number("PO") :
       IF p = 1 THEN Address["PO"][p] = FirstData
       ELSE \E t \in MarkerTypes \ {"PO"} : \E i \in 1..Number(t) : Address["PO"][p] = EndOf(t, i)
  /\ \A o \in 1..Number("OCM") :
       \E m \in Object : Address["OCM"][o] = EndOf("META", m) + 1
  /\ \A r \in 1..Number("PR") :
       \E o \in 1..Number("OCM") : Address["PR"][r] = EndOf("OCM", o)
  /\ Number("PR") > 0 =>
       \A t \in MarkerTypes : \A i \in 1..Number(t) : Address[t][i] <= Address["PR"][Number("PR")]
  /\ \A p \in 1..Number("PO") : PoBucket[p] # NoName

Counts      == [MarkerTypes -> Nat]
FirstCounts == [t \in MarkerTypes |-> 1]

\* Mutant: the loop ends with the last PO.
MoreMarkersPo(c) == c["PO"] <= Number("PO")

\* The condition of the walk's loop.
MoreMarkers(c) == \E t \in MarkerTypes : c[t] <= Number(t)

\* Mutant: an object that shares its first block with its PO comes first.
get_next_markerStrict(c) ==
  LET pr   == AddressOf("PR", c["PR"])
      ocm  == AddressOf("OCM", c["OCM"])
      po   == AddressOf("PO", c["PO"])
      meta == AddressOf("META", c["META"])
  IN  IF pr < ocm /\ pr < po /\ pr < meta THEN "PR"
      ELSE IF ocm < po /\ ocm < meta THEN "OCM"
      ELSE IF po < meta THEN "PO"
      ELSE "META"

get_next_marker(c) ==
  LET pr   == AddressOf("PR", c["PR"])
      ocm  == AddressOf("OCM", c["OCM"])
      po   == AddressOf("PO", c["PO"])
      meta == AddressOf("META", c["META"])
  IN  IF pr < ocm /\ pr < po /\ pr < meta THEN "PR"
      ELSE IF ocm < po /\ ocm < meta THEN "OCM"
      ELSE IF po <= meta THEN "PO"
      ELSE "META"

\* bucket_name_for_obj_r after reading at block h what is taken for a PO: a
\* file mark leaves it, and anything but a PO has no known bucket id.
BucketRead(h) ==
  IF h \in FileMarks THEN bucket
  ELSE IF \E p \in 1..Number("PO") : Address["PO"][p] = h
  THEN PoBucket[CHOOSE p \in 1..Number("PO") : Address["PO"][p] = h]
  ELSE NoName

-----------------------------------------------------------------------------
(* history.log *)

\* The order in which output_history writes the keys; "META" is the key
\* "Object number".
HistoryKeys     == <<"PR", "OCM", "PO", "META">>
NoHistory       == [t \in MarkerTypes |-> 0]

\* Mutant: the object number is that of the next object.
HistoryEntryNext(k) == IF k = "META" THEN cnt[k] + 1 ELSE cnt[k]

HistoryEntry(k) == cnt[k]

\* An absent key reads as 0, and get_address_of_marker exits on marker 0.
Complete(h) == \A t \in MarkerTypes : h[t] # 0

\* Mutants: the object number is taken for that of the last saved object; the
\* history is not used.
get_historyPast  == [hist EXCEPT !["META"] = @ + 1]
get_historyStart == FirstCounts

get_history == hist

\* Mutant: a walk that starts further on reads on from the first data block.
first_locate_flagBackup(c) == backup

\* first_locate_flag before the walk.
first_locate_flag(c) == backup \/ c # FirstCounts

\* The counts output_history has when it is called at PO p.
CountsAt(p) == [t \in MarkerTypes |->
                  1 + Cardinality({i \in 1..Number(t) :
                                     \/ Address[t][i] < Address["PO"][p]
                                     \/ t = "PO" /\ i < p})]

OneWrite(h) == \E p \in 1..Number("PO") : h = CountsAt(p)

-----------------------------------------------------------------------------
(* Starting and stopping the program *)

Idle ==
  /\ pc = "down" /\ mode = "none" /\ cnt = FirstCounts /\ locate = FALSE
  /\ head = 0 /\ bucket = Null /\ info = [b \in Names |-> NoInfo] /\ field = 1

GoDown ==
  /\ pc' = "down" /\ mode' = "none" /\ cnt' = FirstCounts /\ locate' = FALSE
  /\ head' = 0 /\ bucket' = Null /\ info' = [b \in Names |-> NoInfo] /\ field' = 1

Init ==
  /\ hist = NoHistory /\ ini = "none" /\ subs = {} /\ metaFiles = {}
  /\ whole = {} /\ backup = FALSE
  /\ Idle
  /\ runs = 0 /\ mixed = FALSE /\ dropped = {}

\* The directory of the empty name is not found by the scan of save_path.
StartInfo == [b \in Names |-> IF b = NoName THEN NoInfo
                              ELSE initialize_bucket_info(b, subs)]

\* check_integrity up to its loop.  With the backup the checks before the walk
\* end at the last RCM, otherwise after the first one.
Start(m, c) ==
  /\ pc = "down" /\ m \in Modes /\ runs < MaxRuns
  /\ pc' = "walk" /\ mode' = m /\ cnt' = c
  /\ locate' = first_locate_flag(c)
  /\ head' = (IF backup THEN LastRcm ELSE FirstData)
  /\ bucket' = Null /\ info' = StartInfo /\ field' = 1
  /\ runs' = runs + 1
  /\ UNCHANGED <<disk, dropped>>

StartFullDump   == Start("full_dump", FirstCounts) /\ UNCHANGED mixed
StartOutputList == Start("output_list", FirstCounts) /\ UNCHANGED mixed

\* Without history.log resume exits with "There is no history file".
StartResumeDump ==
  /\ ini = "file"
  /\ Start("resume_dump", get_history)
  /\ mixed' = (mixed \/ (Complete(hist) /\ ~OneWrite(hist)))

\* The program is stopped.  Reading a history with absent keys rewrites the
\* file, so the stop may come between its remove and its rename.
Stop ==
  /\ pc # "down"
  /\ GoDown
  /\ ini' \in {ini} \union (IF mode = "resume_dump" /\ ~Complete(hist)
                            THEN {"temp"} ELSE {})
  /\ UNCHANGED <<hist, subs, metaFiles, whole, backup, observed>>

\* get_address_of_marker, called for the next object: marker 0 is not after the
\* markers already counted, a system error.
ExitOnMarkerZero ==
  /\ pc = "walk" /\ ~Complete(cnt)
  /\ GoDown
  /\ UNCHANGED <<disk, observed>>

-----------------------------------------------------------------------------
(* The walk *)

Next_is(t) == pc = "walk" /\ Complete(cnt) /\ MoreMarkers(cnt) /\ get_next_marker(cnt) = t

\* Mutant: objects are not counted.
PassedNotMeta(t) == cnt' = IF t = "META" THEN cnt ELSE [cnt EXCEPT ![t] = @ + 1]

Passed(t) == cnt' = [cnt EXCEPT ![t] = @ + 1]

\* The head when marker t is checked: the first marker of a walk that does not
\* begin at the start of the data is located.
HeadAt(t) == IF locate THEN Address[t][cnt[t]] ELSE head

\* check_pr_integrity; after the last PR the head moves to the last RCM.
WalkPr ==
  /\ Next_is("PR")
  /\ head' = IF cnt["PR"] = Number("PR") THEN LastRcm ELSE AfterMark(HeadAt("PR"))
  /\ locate' = FALSE
  /\ Passed("PR")
  /\ UNCHANGED <<disk, pc, mode, bucket, info, field, observed>>

WalkOcm ==
  /\ Next_is("OCM")
  /\ head' = AfterMark(ReadBlock(AfterMark(HeadAt("OCM"))))
  /\ locate' = FALSE
  /\ Passed("OCM")
  /\ UNCHANGED <<disk, pc, mode, bucket, info, field, observed>>

\* A PO: read its bucket, then output_history.  Without -i history_interval is
\* 0 and history.log is written at every PO.
WalkPo ==
  /\ Next_is("PO")
  /\ LET h == HeadAt("PO")
     IN  /\ head' = ReadBlock(h)
         /\ bucket' = BucketRead(h)
         /\ info' = IF h \in FileMarks THEN info
                    ELSE [info EXCEPT ![BucketRead(h)] = add_bucket_info(@)]
  /\ locate' = FALSE
  /\ \/ pc' = "history" /\ field' = 1 /\ UNCHANGED cnt
     \/ IntervalGiven /\ Passed("PO") /\ UNCHANGED <<pc, field>>
  /\ UNCHANGED <<disk, mode, observed>>

\* read_or_write_ini creates an empty history.log when there is none.
CreateHistory ==
  /\ pc = "history" /\ ini # "file"
  /\ ini' = "file" /\ hist' = NoHistory
  /\ UNCHANGED <<subs, metaFiles, whole, backup, memory, observed>>

\* The temporary file holds the new value when history.log is removed.
RemoveHistory ==
  /\ pc = "history" /\ ini = "file"
  /\ hist' = [hist EXCEPT ![HistoryKeys[field]] = HistoryEntry(HistoryKeys[field])]
  /\ ini' = "temp" /\ pc' = "rename"
  /\ UNCHANGED <<subs, metaFiles, whole, backup, mode, cnt, locate, head, bucket,
                 info, field, observed>>

\* After the last key the walk goes on (or, if the disk is full, exits: Stop).
RenameHistory ==
  /\ pc = "rename"
  /\ ini' = "file"
  /\ IF field < Len(HistoryKeys)
     THEN pc' = "history" /\ field' = field + 1 /\ UNCHANGED cnt
     ELSE pc' = "walk" /\ field' = 1 /\ Passed("PO")
  /\ UNCHANGED <<hist, subs, metaFiles, whole, backup, mode, locate, head, bucket,
                 info, observed>>

-----------------------------------------------------------------------------
(* An object *)

\* strcmp with bucket_name_for_obj_r == NULL: the program dies.
DieOnObject ==
  /\ Next_is("META") /\ bucket = Null
  /\ GoDown
  /\ UNCHANGED <<disk, observed>>

\* get_bucket_info_4_obj_reader and where the object is to be put.
NextInfo      == update_bucket_info(info[bucket])
FileIn(i)     == <<cnt["META"], bucket, i.dir, i.sub>>
ObjectFile    == FileIn(info[bucket])
FirstBlock    == Address["META"][cnt["META"]]
LastBlock     == DataEnd[cnt["META"]]
TakeObject    == Next_is("META") /\ bucket # Null
                 /\ info' = [info EXCEPT ![bucket] = NextInfo] /\ locate' = FALSE

\* The object's blocks are read and nothing is written.
ListObject ==
  /\ TakeObject /\ mode = "output_list"
  /\ head' = LastBlock + 1
  /\ Passed("META")
  /\ UNCHANGED <<disk, pc, mode, bucket, field, observed>>

DropObject ==
  /\ TakeObject /\ mode \in DumpModes /\ Full(NextInfo)
  /\ head' = LastBlock + 1
  /\ Passed("META")
  /\ dropped' = dropped \union {<<cnt["META"], bucket>>}
  /\ UNCHANGED <<disk, pc, mode, bucket, field, runs, mixed>>

\* Its .meta file exists: the rest of the object is not read.
SkipObject ==
  /\ TakeObject /\ mode \in DumpModes /\ ~Full(NextInfo)
  /\ FileIn(NextInfo) \in metaFiles
  /\ head' = FirstBlock + 1
  /\ Passed("META")
  /\ UNCHANGED <<disk, pc, mode, bucket, field, observed>>

BeginObject ==
  /\ TakeObject /\ mode \in DumpModes /\ ~Full(NextInfo)
  /\ FileIn(NextInfo) \notin metaFiles
  /\ head' = FirstBlock + 1
  /\ pc' = "mkdir"
  /\ UNCHANGED <<disk, mode, cnt, bucket, field, observed>>

MakeDirs ==
  /\ pc = "mkdir"
  /\ subs' = subs \union {<<bucket, info[bucket].dir, info[bucket].sub>>}
  /\ pc' = "meta"
  /\ UNCHANGED <<hist, ini, metaFiles, whole, backup, mode, cnt, locate, head,
                 bucket, info, field, observed>>

WriteMeta ==
  /\ pc = "meta"
  /\ metaFiles' = metaFiles \union {ObjectFile}
  /\ pc' = "data"
  /\ UNCHANGED <<hist, ini, subs, whole, backup, mode, cnt, locate, head, bucket,
                 info, field, observed>>

\* One block is appended to the .data file, and the next one, if any, is read.
WriteData ==
  /\ pc = "data"
  /\ IF head <= LastBlock
     THEN /\ head' = head + 1
          /\ UNCHANGED <<whole, cnt, pc>>
     ELSE /\ whole' = whole \union {ObjectFile}
          /\ pc' = "walk"
          /\ Passed("META")
          /\ UNCHANGED head
  /\ UNCHANGED <<hist, ini, subs, metaFiles, backup, mode, locate, bucket, info,
                 field, observed>>

\* The loop ends.  A dump backs reference_partition up.
Finish ==
  /\ pc = "walk" /\ Complete(cnt) /\ ~MoreMarkers(cnt)
  /\ backup' = (backup \/ mode \in DumpModes)
  /\ GoDown
  /\ UNCHANGED <<hist, ini, subs, metaFiles, whole, observed>>

-----------------------------------------------------------------------------
Walk ==
  \/ ExitOnMarkerZero \/ WalkPr \/ WalkOcm \/ WalkPo
  \/ CreateHistory \/ RemoveHistory \/ RenameHistory
  \/ DieOnObject \/ ListObject \/ DropObject \/ SkipObject \/ BeginObject
  \/ MakeDirs \/ WriteMeta \/ WriteData
  \/ Finish

Next ==
  \/ StartFullDump \/ StartResumeDump \/ StartOutputList
  \/ Stop
  \/ Walk

Spec     == Init /\ [][Next]_vars
FairSpec == Spec /\ WF_vars(Walk)

-----------------------------------------------------------------------------
(* Properties *)

Slots == Names \X DirNumber \X DirNumber
Files == Object \X Names \X DirNumber \X DirNumber

\* The state keeps its shape: in particular no counter and no directory number
\* leaves its range when a bucket rolls over from one directory to the next.
TypeOK ==
  /\ hist \in Counts /\ ini \in {"none", "file", "temp"}
  /\ subs \subseteq Slots /\ metaFiles \subseteq Files /\ whole \subseteq metaFiles
  /\ backup \in BOOLEAN
  /\ pc \in {"down", "walk", "history", "rename", "mkdir", "meta", "data"}
  /\ mode \in AllModes \union {"none"} /\ (pc = "down" <=> mode = "none")
  /\ cnt \in Counts /\ locate \in BOOLEAN /\ head \in Nat
  /\ bucket \in Names \union {Null}
  /\ info \in [Names -> BucketInfo] /\ field \in 1..Len(HistoryKeys)
  /\ runs \in Nat /\ mixed \in BOOLEAN /\ dropped \subseteq Object \X Names

\* What a dump owes each object: a complete copy under the save path; or the
\* message that its bucket is full; or, for a PO whose bucket id is unknown, a
\* file under the empty name (see SkipObject: that file may be incomplete).
Settled(m) ==
  \/ \E f \in whole : f[1] = m
  \/ \E f \in metaFiles : f[1] = m /\ f[2] = NoName
  \/ \E b \in Names : <<m, b>> \in dropped

\* Whatever the interruptions, and even between the four rewrites of
\* history.log, the point a resume dump would start from (get_history) is never
\* past an object that has not been saved.
ResumePointSaved == \A m \in Object : m < hist["META"] => Settled(m)

\* When a full or a resume dump reaches the end of its walk, every object of
\* the tape has been saved, by this run or by those it resumed.
CompleteDumpSaved ==
  pc = "walk" /\ mode \in DumpModes /\ Complete(cnt) /\ ~MoreMarkers(cnt)
    => \A m \in Object : Settled(m)

\* A dump never finds the file of an object of a known bucket already there
\* (which it would leave as it is, complete or not): after every restart the
\* rebuilt bucket information leads to a subdirectory nobody has written in.
NoStaleSkip ==
  Next_is("META") /\ bucket \in Buckets /\ mode \in DumpModes /\ ~Full(NextInfo)
    => FileIn(NextInfo) \notin metaFiles

\* An object is dropped only when the last subdirectory of the last directory
\* of its bucket is in use.
DroppedOnlyWhenFull ==
  \A d \in dropped : <<d[2], MaxSave, MaxSave>> \in subs

\* A subdirectory never gets more than MaxSave objects, however many runs, in
\* whatever state they were interrupted, have added to it.
SubdirCapacity ==
  \A b \in Buckets, d \in DirNumber, s \in DirNumber :
    Cardinality({f \in metaFiles : <<f[2], f[3], f[4]>> = <<b, d, s>>}) <= MaxSave

PoOf(m) == Max({p \in 1..Number("PO") : Address["PO"][p] <= Address["META"][m]})

\* Every object is filed under the bucket of the PO it is packed in.
FiledByBucket == \A f \in metaFiles : f[2] = PoBucket[PoOf(f[1])]

\* So it is unless a resume has started from keys of two different writes, in all
\* the orders in which markers can follow each other.
OwnBucket == ~mixed => FiledByBucket

\* Only objects are located; every other marker is read where the last one left
\* the head.  Unless a resume started from keys of two different writes, the
\* head is then at the marker (or at the file mark before it, for an OCM).
HeadInStep ==
  ~mixed /\ pc = "walk" /\ Complete(cnt) /\ MoreMarkers(cnt) /\ ~locate =>
    LET t == get_next_marker(cnt)
    IN  CASE t \in {"PR", "PO"} -> head = Address[t][cnt[t]]
          [] t = "OCM"          -> AfterMark(head) = Address[t][cnt[t]]
          [] OTHER              -> TRUE

\* A resume dump goes on from the recorded point: it writes no object that is
\* before the point history.log held when it was started, and it never moves
\* that point back.
ResumeGoesForward ==
  [][mode = "resume_dump" =>
       /\ hist'["META"] >= hist["META"]
       /\ metaFiles' # metaFiles => cnt["META"] >= hist["META"]]_vars

\* The walk of a resume dump never dies for want of a bucket name: when it meets
\* an object it has read a PO before.
ResumeKnowsBucket == ~(mode = "resume_dump" /\ Next_is("META") /\ bucket = Null)

\* A walk that is not interrupted comes to its end.
WalkEnds == pc # "down" ~> pc = "down"

\* The walk, its files and history.log keep the promise of DumpPromise.
Saved == {m \in Object : Settled(m)}

Promised == INSTANCE DumpPromise
              WITH saved <- Saved, point <- hist["META"], complete <- backup

KeepsPromise == Promised!Promise
=============================================================================
