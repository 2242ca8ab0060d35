---------------------------- MODULE MarkerFiles -----------------------------
(***************************************************************************)
(* The marker files: what a run reads from the reference partition of a    *)
(* tape into reference_partition/, how it compares them with the data      *)
(* partition before the walk, and how a dump backs them up and later runs  *)
(* restore them.                                                           *)
(*                                                                         *)
(* A partition is a sequence of markers, each with a file mark behind it.  *)
(* A run is a list of parts, each a list of steps; which parts it has is   *)
(* fixed when it starts, and the number of its partial references (PR) is  *)
(* the one of the last reference commit marker (RCM_1).                    *)
(***************************************************************************)
EXTENDS Naturals, Sequences, FiniteSets

CONSTANTS
  Tapes,
  PrBlocks,    \* tape -> the blocks of each of its PRs
  PrNames,     \* "PR_0", "PR_1", ...
  Order,       \* the names of the files in the order cp finds them
  Barcodes,    \* what the cartridge memories may say: functions from Tapes to
               \* the directory of the backup ("null" when one is not readable)
  MaxRuns,     \* bound on the runs of the program
  MaxFaults    \* bound on the reads that fail without a file mark

Modes  == {"dump", "list", "read"}
Labels == {"VOL1Label", "OTFLabel", "RCM_0", "RCM_1"}
PrNumbers(t) == 1..Len(PrBlocks[t])
Names(t)  == Labels \cup {PrNames[n] : n \in PrNumbers(t)}
FileNames == Labels \cup {PrNames[n] : n \in DOMAIN PrNames}

ASSUME PrAssumption ==
  /\ PrNames \in Seq(STRING)
  /\ \A n \in DOMAIN PrNames :
       /\ PrNames[n] \notin Labels \cup {"PO", "OCM", "none"}
       /\ \A m \in DOMAIN PrNames : PrNames[m] = PrNames[n] => m = n
  /\ \A t \in Tapes : PrBlocks[t] \in Seq(Nat \ {0}) /\ Len(PrBlocks[t]) \in 1..Len(PrNames)
ASSUME OrderAssumption ==
  Order \in Seq(FileNames) /\ \A name \in FileNames : \E n \in DOMAIN Order : Order[n] = name
ASSUME BarcodeAssumption == \A b \in Barcodes : DOMAIN b = Tapes

VARIABLES
  tape,      \* the tape in the drive
  barcode,   \* barcode_id of main, per tape
  mode,      \* what the run is for
  flag,      \* marker_file_flg: the files were restored
  at,        \* the step the run is at: [part, n], part "off" if no program runs
  head,      \* where the tape is: [part, item, done], behind block done of a marker
  fm_num,    \* fileNumber at the end of the data, when it was last read
  pr_num,    \* number of PRs, when it was last read
  ref,       \* reference_partition/: name -> blocks
  backup,    \* <save_path>/<barcode>/reference_partition/, per barcode
  alt,       \* the file read_marker_file has open: [name, text]
  alarm,     \* the run has reported an error
  walked,    \* "no", "own" or "foreign": the files with which it walked
  refused,   \* the last run exited with a system error
  faults,    \* reads that have failed
  cut,       \* a backup was interrupted
  runs

vars == <<tape, barcode, mode, flag, at, head, fm_num, pr_num, ref, backup, alt, alarm, walked,
          refused, faults, cut, runs>>

NoFile == [name |-> "none", text |-> << >>]
Off    == [part |-> "off", n |-> 1]

-----------------------------------------------------------------------------
(* A tape and its motion *)

Block(t, name, i) == [tape |-> t, name |-> name, part |-> i]
Size(t, name) ==
  IF \E n \in PrNumbers(t) : PrNames[n] = name
  THEN PrBlocks[t][CHOOSE n \in PrNumbers(t) : PrNames[n] = name] ELSE 1
Marker(t, name) == [i \in 1..Size(t, name) |-> Block(t, name, i)]

\* The markers of a partition, and so its file marks.
Items(t, part) == (IF part = "ref" THEN 1 ELSE 3) * Len(PrBlocks[t]) + 4

\* The data of a PR are a PO and its OCM here.
Item(t, part, n) ==
  CASE n = 1 -> "VOL1Label" [] n = 2 -> "OTFLabel" [] n = 3 -> "RCM_0"
    [] n = Items(t, part) -> "RCM_1"
    [] OTHER -> IF part = "ref" THEN PrNames[n - 3]
                ELSE <<"PO", "OCM", PrNames[(n - 1) \div 3]>>[((n - 1) % 3) + 1]

Here  == Marker(tape, Item(tape, head.part, head.item))
AtEnd == head.item > Items(tape, head.part)
AtMark == ~AtEnd /\ head.done = Len(Here)

Front(part, item) == [part |-> part, item |-> item, done |-> 0]

\* SPACE: behind the next file mark, in front of the last but one.
AfterMark == Front(head.part, head.item + 1)

\* move_to_last_rcm: to the end of the data, two file marks back, one forward.
LastRcm(part) == Front(part, Items(tape, part))

\* check_fm_next_to_marker(END, ON): is the block behind us a file mark?
Accepted == head.done = 0 /\ head.item > 1

-----------------------------------------------------------------------------
(* Files *)

Text(name) == IF name \in DOMAIN ref THEN ref[name] ELSE << >>
With(files, name, text) ==
  [f \in DOMAIN files \cup {name} |-> IF f = name THEN text ELSE files[f]]
Own(t) == [name \in Names(t) |-> Marker(t, name)]

\* open_file keeps the file last opened, and finds it by its name.
Opened(name) == IF alt.name = name THEN alt ELSE [name |-> name, text |-> Text(name)]

\* get_pr_num: nothing is read from an empty file.
PrNumber(file) == IF file.text = << >> THEN 0 ELSE Len(PrBlocks[file.text[1].tape])

\* Mutant: the format of the files is not checked.
WellFormedAlways(name, text) == TRUE

\* The format checks do not know which PR a PR is.
WellFormed(name, text) ==
  \E t \in Tapes :
    IF name \in Labels THEN text = Marker(t, name)
    ELSE \E n \in PrNumbers(t) : text = Marker(t, PrNames[n])

-----------------------------------------------------------------------------
(* The steps of a run *)

Copies(op) == [n \in DOMAIN Order |-> <<op, Order[n]>>]
PrSteps(op) == [n \in 1..pr_num |-> <<op, PrNames[n]>>]

\* Mutant: the last RCM is read after the labels at the beginning.
LabelStepsRcmLast ==
  <<<<"clear", "none">>, <<"begin", "ref">>, <<"write", "VOL1Label">>, <<"write", "OTFLabel">>,
    <<"write", "RCM_0">>, <<"last", "ref">>, <<"write", "RCM_1">>>>

check_reference_partition_lable ==
  <<<<"clear", "none">>, <<"begin", "ref">>, <<"mark", "none">>, <<"write", "OTFLabel">>,
    <<"last", "ref">>, <<"write", "RCM_1">>,
    <<"begin", "ref">>, <<"write", "VOL1Label">>, <<"skim", "OTFLabel">>, <<"write", "RCM_0">>>>

DataSteps ==
  IF flag THEN <<<<"numbers", "none">>, <<"last", "data">>, <<"diff", "RCM_1">>, <<"walk", "none">>>>
  ELSE <<<<"numbers", "none">>, <<"last", "data">>, <<"diff", "RCM_1">>,
         <<"begin", "data">>, <<"diff", "VOL1Label">>, <<"diff", "OTFLabel">>, <<"diff", "RCM_0">>,
         <<"count", "data">>, <<"walk", "none">>>>

Steps(part) ==
  CASE part = "restore"   -> Copies("restore")
    [] part = "labels"    -> check_reference_partition_lable
    [] part = "formatted" -> <<<<"formatted", "none">>>>
    [] part = "temp"      -> PrSteps("temp")
    [] part = "again"     -> check_reference_partition_lable
    [] part = "prs"       -> PrSteps("write")
    [] part = "rcm"       -> <<<<"rcm", "none">>, <<"count", "ref">>>>
    [] part = "data"      -> DataSteps
    [] part = "save"      -> Copies("save")
    [] OTHER              -> << >>

\* check_integrity reads everything again, unless the files were restored.
PartAfter(part) ==
  CASE part = "restore"   -> "labels"
    [] part = "labels"    -> "formatted"
    [] part = "formatted" -> "temp"
    [] part = "temp"      -> IF mode = "read" THEN "off" ELSE IF flag THEN "data" ELSE "again"
    [] part = "again"     -> "prs"
    [] part = "prs"       -> "rcm"
    [] part = "rcm"       -> "data"
    [] part = "data" /\ mode = "dump" /\ ~flag -> "save"
    [] OTHER              -> "off"

Running    == at.part # "off"
InPart     == Running /\ at.n <= Len(Steps(at.part))
Step       == Steps(at.part)[at.n]
Doing(ops) == InPart /\ Step[1] \in ops
Arg        == Step[2]
Exit       == at' = Off /\ refused' = TRUE
Goes       == at' = [at EXCEPT !.n = @ + 1] /\ UNCHANGED refused

-----------------------------------------------------------------------------
Init ==
  /\ tape \in Tapes /\ barcode \in Barcodes /\ mode = "read" /\ flag = FALSE /\ at = Off
  /\ head = Front("ref", 1) /\ fm_num = 0 /\ pr_num = 0
  /\ ref = << >> /\ backup = [d \in {barcode[t] : t \in Tapes} |-> << >>] /\ alt = NoFile
  /\ alarm = FALSE /\ walked = "no" /\ refused = FALSE /\ faults = 0 /\ cut = FALSE /\ runs = 0

Files(t) == backup[barcode[t]]

\* A tape is put into the drive and the program is started.
Start ==
  /\ ~Running /\ runs < MaxRuns
  /\ tape' \in Tapes /\ mode' \in Modes
  /\ flag' = ("OTFLabel" \in DOMAIN Files(tape'))
  /\ at' = [part |-> IF flag' THEN "restore" ELSE "labels", n |-> 1]
  /\ head' = Front("ref", 1) /\ fm_num' = 0 /\ pr_num' = 0 /\ alt' = NoFile
  /\ alarm' = FALSE /\ walked' = "no" /\ refused' = FALSE /\ runs' = runs + 1
  /\ UNCHANGED <<barcode, ref, backup, faults, cut>>

EnterPart ==
  /\ Running /\ ~InPart
  /\ at' = [part |-> PartAfter(at.part), n |-> 1]
  /\ UNCHANGED <<tape, barcode, mode, flag, head, fm_num, pr_num, ref, backup, alt, alarm, walked,
                 refused, faults, cut, runs>>

\* cp_dir from the backup, one file.
Restore ==
  /\ Doing({"restore"}) /\ Goes
  /\ ref' = IF Arg \in DOMAIN Files(tape) THEN With(ref, Arg, Files(tape)[Arg]) ELSE ref
  /\ UNCHANGED <<tape, barcode, mode, flag, head, fm_num, pr_num, backup, alt, alarm, walked,
                 faults, cut, runs>>

\* Mutant: PRs are not deleted.
ClearedLabels ==
  IF flag THEN ref ELSE [name \in DOMAIN ref \ Labels |-> ref[name]]

\* initialize_marker_files
Cleared == IF flag THEN ref ELSE << >>

Clear ==
  /\ Doing({"clear"}) /\ Goes
  /\ ref' = Cleared
  /\ UNCHANGED <<tape, barcode, mode, flag, head, fm_num, pr_num, backup, alt, alarm, walked,
                 faults, cut, runs>>

\* Motion without reading: to the beginning of a partition, behind a file mark,
\* to the last RCM, where the file marks of the partition have been counted.
Move ==
  /\ Doing({"begin", "mark", "last"}) /\ Goes
  /\ CASE Step[1] = "begin" -> head' = Front(Arg, 1) /\ UNCHANGED fm_num
       [] Step[1] = "mark"  -> head' = AfterMark /\ UNCHANGED fm_num
       [] OTHER             -> head' = LastRcm(Arg) /\ fm_num' = Items(tape, Arg)
  /\ UNCHANGED <<tape, barcode, mode, flag, pr_num, ref, backup, alt, alarm, walked, faults, cut,
                 runs>>

\* write_markers_to_file reads a marker, whether it writes it (write) or not.
WriteSteps == {"write", "skim", "temp"}

Appended(blocks) ==
  IF Step[1] = "temp" THEN ref
  ELSE With(ref, Arg, Text(Arg) \o (IF flag \/ Step[1] = "skim" THEN << >> ELSE blocks))

ReadBlock ==
  /\ Doing(WriteSteps) /\ ~AtEnd /\ ~AtMark
  /\ ref' = Appended(<<Here[head.done + 1]>>)
  /\ head' = [head EXCEPT !.done = @ + 1]
  /\ UNCHANGED <<tape, barcode, mode, flag, at, fm_num, pr_num, backup, alt, alarm, walked, refused,
                 faults, cut, runs>>

\* clf_check_read_data: the check of VOL1 or of a PR exits when it finds nothing to
\* read.  (A file that is not empty is whole where they are checked.)
TooShort ==
  Step[1] = "write" /\ Arg \notin {"OTFLabel", "RCM_0", "RCM_1"} /\ Text(Arg) = << >>

\* The end of a file, with the head then at place, and the check of its format.
EndFile(place) ==
  /\ head' = place
  /\ ref' = Appended(<< >>)
  /\ IF TooShort THEN Exit /\ UNCHANGED alarm
     ELSE Goes /\ alarm' = (alarm \/ (Step[1] # "temp" /\ ~WellFormed(Arg, Text(Arg))))
  /\ IF Arg = "RCM_1" THEN alt' = Opened(Arg) /\ pr_num' = PrNumber(alt') ELSE UNCHANGED <<alt, pr_num>>
  /\ UNCHANGED <<tape, barcode, mode, flag, fm_num, backup, walked, cut, runs>>

ReadMark ==
  /\ Doing(WriteSteps) /\ AtMark
  /\ EndFile(AfterMark)
  /\ UNCHANGED faults

\* Behind the last file mark there is nothing to read: a marker without blocks.
\* (A restored RCM_1 may number more PRs than the tape in the drive has.)
ReadNothing ==
  /\ Doing(WriteSteps) /\ AtEnd
  /\ EndFile(head)
  /\ UNCHANGED faults

Refuse ==
  /\ Exit
  /\ UNCHANGED <<tape, barcode, mode, flag, head, fm_num, pr_num, ref, backup, alt, alarm, walked,
                 cut, runs>>

\* A read fails, and the tape is where it was: the end of the file, if there is a
\* file mark behind the head.  (Had it moved, the program would have exited.)
FailRead ==
  /\ Doing(WriteSteps) /\ faults < MaxFaults /\ ~AtEnd /\ ~AtMark
  /\ faults' = faults + 1
  /\ IF Accepted THEN EndFile(head) ELSE Refuse

\* Main goes on only with labels in order.
Formatted ==
  /\ Doing({"formatted"})
  /\ IF alarm THEN Exit ELSE Goes
  /\ UNCHANGED <<tape, barcode, mode, flag, head, fm_num, pr_num, ref, backup, alt, alarm, walked,
                 faults, cut, runs>>

\* Behind the last PR that counts is the last RCM.
RcmBehindPrs ==
  /\ Doing({"rcm"}) /\ Goes
  /\ IF pr_num > 0 THEN alarm' = (alarm \/ head # LastRcm("ref")) /\ head' = LastRcm("ref")
     ELSE UNCHANGED <<alarm, head>>
  /\ UNCHANGED <<tape, barcode, mode, flag, fm_num, pr_num, ref, backup, alt, walked, faults, cut, runs>>

\* get_pr_num and get_ocm_po_meta_num, which needs the files of all PRs.
Numbers ==
  /\ Doing({"numbers"})
  /\ LET file == Opened("RCM_1")
         num  == PrNumber(file)
     IN  /\ pr_num' = num
         /\ alt' = IF num = 0 THEN file ELSE [name |-> PrNames[num], text |-> Text(PrNames[num])]
         /\ IF \A n \in 1..num : PrNames[n] \in DOMAIN ref THEN Goes ELSE Exit
  /\ UNCHANGED <<tape, barcode, mode, flag, head, fm_num, ref, backup, alarm, walked, faults, cut, runs>>

\* Mutant: an OCM counts for one file mark.
FmNumOne(prs, ocms) == prs + ocms + 4

FmNum(prs, ocms) == prs + 2 * ocms + 4

\* check_fm_num; a PR of the data partition is behind a file mark after its OCM.
CountMarks ==
  /\ Doing({"count"}) /\ Goes
  /\ LET ocms == IF Arg = "ref" THEN 0
                 ELSE Cardinality({n \in 1..pr_num : Text(PrNames[n]) # << >>})
     IN  alarm' = (alarm \/ fm_num # FmNum(pr_num, ocms))
  /\ UNCHANGED <<tape, barcode, mode, flag, head, fm_num, pr_num, ref, backup, alt, walked, faults, cut,
                 runs>>

\* check_diff_btwn_file_and_tape and check_fm_next_to_marker(END, OFF): the text on
\* tape is the file's or not.  RCM_0 has to be the same.
Compare(text, place) ==
  /\ alt' = Opened(Arg)
  /\ alarm' = (alarm \/ alt'.text # text)
  /\ head' = place
  /\ IF Arg \notin DOMAIN ref \/ (Arg = "RCM_0" /\ alt'.text # text) THEN Exit ELSE Goes
  /\ UNCHANGED <<tape, barcode, mode, flag, fm_num, pr_num, ref, backup, walked, cut, runs>>

Diff ==
  /\ Doing({"diff"})
  /\ Compare(SubSeq(Here, head.done + 1, Len(Here)), AfterMark)
  /\ UNCHANGED faults

\* A read fails: taken for the end of a marker without blocks, or not accepted.
FailDiff ==
  /\ Doing({"diff"}) /\ faults < MaxFaults
  /\ faults' = faults + 1
  /\ IF Accepted THEN Compare(<< >>, head) ELSE Refuse

\* The walk compares the PRs, too.
Walk ==
  /\ Doing({"walk"}) /\ Goes
  /\ alarm' = (alarm \/ \E n \in 1..pr_num : Text(PrNames[n]) # Marker(tape, PrNames[n]))
  /\ walked' = IF \A name \in Names(tape) : Text(name) = Marker(tape, name) THEN "own" ELSE "foreign"
  /\ UNCHANGED <<tape, barcode, mode, flag, head, fm_num, pr_num, ref, backup, alt, faults, cut, runs>>

BackupOf == barcode[tape]

\* cp_dir to the backup, one file.
Save ==
  /\ Doing({"save"}) /\ Goes
  /\ backup' = IF Arg \in DOMAIN ref THEN [backup EXCEPT ![BackupOf] = With(@, Arg, ref[Arg])] ELSE backup
  /\ UNCHANGED <<tape, barcode, mode, flag, head, fm_num, pr_num, ref, alt, alarm, walked, faults, cut,
                 runs>>

\* The program is stopped, and with it cp: of the file being written or copied any
\* beginning has been.
Stop ==
  /\ Running /\ at' = Off
  /\ cut' = (cut \/ (Doing({"save"}) /\ \E n \in at.n..Len(Order) : Order[n] \in DOMAIN ref))
  /\ CASE Doing({"save"}) /\ Arg \in DOMAIN ref ->
            /\ UNCHANGED ref
            /\ \E n \in 0..Len(ref[Arg]) :
                 backup' = [backup EXCEPT ![BackupOf] = With(@, Arg, SubSeq(ref[Arg], 1, n))]
       [] Doing({"restore"}) /\ Arg \in DOMAIN Files(tape) ->
            /\ UNCHANGED backup
            /\ \E n \in 0..Len(Files(tape)[Arg]) :
                 ref' = With(ref, Arg, SubSeq(Files(tape)[Arg], 1, n))
       [] Doing({"write"}) /\ ~flag /\ Arg \in DOMAIN ref ->
            /\ UNCHANGED backup
            /\ \E n \in 0..Len(ref[Arg]) : ref' = With(ref, Arg, SubSeq(ref[Arg], 1, n))
       [] OTHER -> UNCHANGED <<ref, backup>>
  /\ UNCHANGED <<tape, barcode, mode, flag, head, fm_num, pr_num, alt, alarm, walked, refused,
                 faults, runs>>

Next ==
  \/ Start \/ EnterPart \/ Restore \/ Clear \/ Move \/ ReadBlock \/ ReadMark \/ ReadNothing
  \/ FailRead \/ Formatted \/ RcmBehindPrs \/ Numbers \/ CountMarks \/ Diff \/ FailDiff \/ Walk
  \/ Save \/ Stop

Spec == Init /\ [][Next]_vars

-----------------------------------------------------------------------------
(* Properties *)

\* Where the tape is read without being located, its head is where that is right.
\* When the labels are in order it is at the first PR, whether or not the files
\* were restored (a failed read shows in the files, unless they were), and a walk
\* that does not locate its first marker starts in front of it, or two reads have
\* failed (of RCM_0, in both partitions) and an error has been reported.
HeadAtFirst ==
  /\ at = [part |-> "formatted", n |-> 2] /\ (flag => faults = 0) => head = Front("ref", 4)
  /\ Doing({"walk"}) /\ ~flag /\ (faults <= 1 \/ ~alarm) => head = Front("data", 4)

\* A walk with other files than those of the tape has been reported, if no backup
\* was interrupted.
WrongMarkersReported == walked = "foreign" /\ ~cut => alarm

\* A walk with other files than those of the tape has been reported.
ForeignReported == walked = "foreign" => alarm

\* A backup is not what is on the tape: it is that of another tape, of a run with a
\* failed read, or of one that was stopped.
Restored == flag /\ Files(tape) # Own(tape)

\* No error is reported and no tape is refused without a reason.
NoFalseAlarm ==
  /\ alarm => faults > 0 \/ Restored
  /\ refused => faults > 0 \/ cut

\* A backup that is not being made is empty or has all files of one tape with that
\* barcode, if none was interrupted.
BackupWhole ==
  ~cut /\ ~Doing({"save"}) =>
    \A d \in DOMAIN backup :
      backup[d] = << >> \/ \E t \in Tapes : barcode[t] = d /\ backup[d] = Own(t)

\* If all reads have succeeded, a walk with files it has just read has exactly the
\* files of the tape, whatever other tapes and stopped runs have left, and so has
\* a backup.
FilesWhole ==
  faults = 0 => (Doing({"walk"}) /\ ~flag => ref = Own(tape)) /\ BackupWhole

\* Every tape that was written in the format can be read.
FormattedIsAccepted == ~refused

\* The walk has the files of the tape.
WalkOwnMarkers == walked # "foreign"
=============================================================================
