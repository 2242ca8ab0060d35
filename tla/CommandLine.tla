---------------------------- MODULE CommandLine -----------------------------
(***************************************************************************)
(* What main does around the job: the options, one per turn of getopt_long,*)
(* the check of their combination, the disk space, the drive, and which job*)
(* it then does.  Every error before the job is a system error, which exits.*)
(* The reference partition is modelled in MarkerFiles, the jobs in         *)
(* ObjectDump, ListFiles and ObjectRead: here they succeed or fail.        *)
(***************************************************************************)
EXTENDS Integers, FiniteSets

CONSTANTS
  Letters,               \* the options that are used
  IntervalArgs,          \* the numbers typed behind -i
  MIN_HISTORY_INTERVAL, MAX_HISTORY_INTERVAL,
  UINT_MAX,              \* the largest uint32_t
  MIN_REQUIRED,          \* MIN_REQUIRED_DISK_SPACE_GiB
  Spaces                 \* free space: functions of the paths below

Paths == {"empty", "cwd", "given"}  \* df takes the empty path for all file systems
ASSUME IntervalAssumption ==
  /\ IntervalArgs \subseteq Nat /\ UINT_MAX \in Nat
  /\ MIN_HISTORY_INTERVAL \in Nat /\ MAX_HISTORY_INTERVAL \in MIN_HISTORY_INTERVAL..UINT_MAX
ASSUME SpaceAssumption == MIN_REQUIRED \in Nat /\ \A s \in Spaces : s \in [Paths -> Nat]

VARIABLES
  pc,                \* "options", ..., the job, or how the run ended
  opt,               \* the locals of main
  history_interval,  \* static, of the history
  obj_save_path,     \* static, where the history looks for disk space
  dir,               \* the directory behind -s: "there", "missing" or "no_mode"
  space,             \* free space, per path
  tur,               \* tests of the drive that have failed
  did,               \* the jobs that the run has done
  typed              \* observer, read by no guard: the letters of the options typed

commandVars == <<pc, opt, history_interval, obj_save_path, dir, space, tur, did, typed>>

Jobs  == {"full_dump", "resume_dump", "output_list", "output_objects"}
Ended == {"done", "help", "failed", "no_device", "no_space"}
TurLimit == 4
Dump == {"full_dump", "resume_dump"}

Defaults == [bucket_name |-> FALSE, object_key |-> FALSE, object_id |-> "latest",
             structure_level |-> 0, drive |-> FALSE, list |-> FALSE, object |-> FALSE,
             full |-> FALSE, resume |-> FALSE, force |-> FALSE, save_path |-> "empty"]

Init ==
  /\ pc = "options" /\ opt = Defaults
  /\ history_interval = 0 /\ obj_save_path = "empty"
  /\ dir \in {"there", "missing"} /\ space \in Spaces
  /\ tur = 0 /\ did = {} /\ typed = {}

-----------------------------------------------------------------------------
(* The options *)

Reading(letter) == pc = "options" /\ letter \in Letters /\ typed' = typed \cup {letter}
Statics == <<history_interval, obj_save_path>>
Environment == <<dir, space, tur, did>>
Ends(how) == pc' = how /\ UNCHANGED <<opt, Statics, Environment>>
With(new) == opt' = new /\ UNCHANGED <<pc, Statics, Environment>>

\* -d, -f, -F, -l and -r
Flag(letter, new) == Reading(letter) /\ With(new)
Flags ==
  \/ Flag("d", [opt EXCEPT !.drive = TRUE]) \/ Flag("f", [opt EXCEPT !.full = TRUE])
  \/ Flag("F", [opt EXCEPT !.force = TRUE]) \/ Flag("l", [opt EXCEPT !.list = TRUE])
  \/ Flag("r", [opt EXCEPT !.resume = TRUE])

Bucket ==
  /\ Reading("b")
  /\ \/ With([opt EXCEPT !.bucket_name = TRUE, !.object = TRUE])
     \/ Ends("failed")        \* too short, or check_bucket_name
\* The key may be empty.
Key ==
  /\ Reading("o")
  /\ \E key \in BOOLEAN : With([opt EXCEPT !.object_key = key, !.object = TRUE])
\* Mutant: the level does not say that objects are wanted.
LevelAlone ==
  /\ Reading("L")
  /\ \/ \E l \in 0..1 : With([opt EXCEPT !.structure_level = l])
     \/ Ends("failed")

Level ==
  /\ Reading("L")
  /\ \/ \E l \in 0..1 : With([opt EXCEPT !.structure_level = l, !.object = TRUE])
     \/ Ends("failed")
\* The ids that begin with "all" are told apart for the sake of check_arguments.
ObjectId ==
  /\ Reading("O")
  /\ \/ \E id \in {"latest", "all"} : With([opt EXCEPT !.object_id = id])
     \/ \E id \in {"specific", "begins_all"} :
          With([opt EXCEPT !.object_id = id, !.object = TRUE])
Help == Reading("h") /\ Ends("help")

\* check_interval: atoi into a uint32_t.
ToUint32(n) == n % (UINT_MAX + 1)
\* Mutant: the upper limit is not checked.
InRangeBelow(interval) == interval >= MIN_HISTORY_INTERVAL

InRange(interval) == interval \in MIN_HISTORY_INTERVAL..MAX_HISTORY_INTERVAL
Interval ==
  /\ Reading("i")
  /\ \/ Ends("failed")        \* not digits
     \/ \E n \in IntervalArgs :
          IF InRange(ToUint32(n))
          THEN history_interval' = ToUint32(n) /\ UNCHANGED <<pc, opt, obj_save_path, Environment>>
          ELSE Ends("failed")

\* Mutant: the history is not told of the path.
SavePathOfMain ==
  /\ Reading("s")
  /\ opt' = [opt EXCEPT !.save_path = "given"]
  /\ UNCHANGED <<pc, Statics, Environment>>

SavePath ==
  /\ Reading("s")
  /\ opt' = [opt EXCEPT !.save_path = "given"] /\ obj_save_path' = "given"
  /\ UNCHANGED <<pc, history_interval, Environment>>

-----------------------------------------------------------------------------
(* Step #1: check_arguments *)

Collides ==
  \/ opt.structure_level = 1 /\ opt.object_id \in {"all", "begins_all"}
  \/ opt.list /\ (opt.resume \/ opt.full)
  \/ opt.object /\ (opt.resume \/ opt.full)
  \/ opt.resume /\ opt.full

check_arguments ==
  /\ opt.drive
  /\ opt.list \/ opt.resume \/ opt.full \/ opt.object
  /\ opt.object => opt.bucket_name /\ opt.object_key
  /\ ~Collides

EndOfOptions ==
  /\ pc = "options"
  /\ \/ /\ opt' = [opt EXCEPT !.save_path = IF @ = "empty" THEN "cwd" ELSE @]
        /\ pc' = IF check_arguments THEN "space" ELSE "failed"
        /\ UNCHANGED <<Statics, Environment>>
     \/ opt.save_path = "empty" /\ Ends("failed")     \* getcwd

-----------------------------------------------------------------------------
(* Steps #2 and #3: disk space and drive *)

\* df says nothing about a path that is not there.
Free(path) == IF path = "given" /\ dir = "missing" THEN 0 ELSE space[path]
check_disk_space(path, data_size) ==
  opt.force \/ (Free(path) > 0 /\ Free(path) >= MIN_REQUIRED + data_size)

CheckSpace ==
  /\ pc = "space"
  /\ \/ Ends("failed")        \* the files in TEMP_PATH cannot be deleted
     \/ Ends(IF check_disk_space(opt.save_path, 0) THEN "drive" ELSE "failed")

\* Mutant: the tries are counted anew.
NotReadyAgain ==
  /\ pc = "drive"
  /\ tur' = (tur + 1) % TurLimit
  /\ UNCHANGED <<pc, opt, Statics, dir, space, did>>

NotReady ==
  /\ pc = "drive"
  /\ tur' = tur + 1
  /\ pc' = IF tur' = TurLimit THEN "no_device" ELSE pc
  /\ UNCHANGED <<opt, Statics, dir, space, did>>
OpenDrive ==
  /\ pc = "drive"
  /\ \/ tur = 0 /\ Ends("no_device")      \* ls or open fails
     \/ Ends("failed")                    \* cartridge memory
     \/ Ends("tape")

-----------------------------------------------------------------------------
(* Steps #5 to #18: the job *)

AfterList == IF opt.object_key /\ opt.bucket_name THEN "output_objects" ELSE "done"

Job ==
  IF opt.full THEN "full_dump" ELSE IF opt.resume THEN "resume_dump"
  ELSE IF opt.list THEN "output_list" ELSE "output_objects"

\* mkdir gets the mode from the stat that has failed.
ReadReference ==
  /\ pc = "tape"
  /\ \/ Ends("failed")
     \/ /\ pc' = Job
        /\ dir' = IF Job \in Dump /\ dir = "missing" /\ opt.save_path = "given" THEN "no_mode" ELSE dir
        /\ UNCHANGED <<opt, Statics, space, tur, did>>

DoJob ==
  /\ pc \in Jobs /\ UNCHANGED typed
  /\ \/ Ends("failed")
     \/ /\ did' = did \cup {pc}
        /\ pc' = IF pc = "output_list" THEN AfterList ELSE "done"
        /\ UNCHANGED <<opt, Statics, dir, space, tur>>

Option == Flags \/ Bucket \/ Key \/ Level \/ ObjectId \/ Help \/ Interval \/ SavePath
Startup ==
  \/ Option
  \/ (EndOfOptions \/ CheckSpace \/ NotReady \/ OpenDrive \/ ReadReference) /\ UNCHANGED typed
-----------------------------------------------------------------------------
(* Properties *)

TypeOK ==
  /\ pc \in {"options", "space", "drive", "tape"} \cup Jobs \cup Ended
  /\ opt \in [bucket_name : BOOLEAN, object_key : BOOLEAN,
              object_id : {"latest", "all", "specific", "begins_all"},
              structure_level : 0..1, drive : BOOLEAN, list : BOOLEAN, object : BOOLEAN,
              full : BOOLEAN, resume : BOOLEAN, force : BOOLEAN, save_path : Paths]
  /\ history_interval \in {0} \cup MIN_HISTORY_INTERVAL..MAX_HISTORY_INTERVAL
  /\ obj_save_path \in {"empty", "given"}
  /\ dir \in {"there", "missing", "no_mode"} /\ space \in [Paths -> Nat]
  /\ tur \in 0..TurLimit /\ did \subseteq Jobs /\ typed \subseteq Letters

\* The jobs that the letters typed ask for; "when -b, -L, -o or -O is specified,
\* is_output_object will be "true"", says check_arguments.
ObjectLetters == {"b", "L", "o", "O"}
Asked ==
  (IF "f" \in typed THEN {"full_dump"} ELSE {}) \cup (IF "r" \in typed THEN {"resume_dump"} ELSE {})
  \cup (IF "l" \in typed THEN {"output_list"} ELSE {})
  \cup (IF typed \cap ObjectLetters # {} THEN {"output_objects"} ELSE {})

\* Of these letters, -O latest and -O all do not count when they stand alone.
OnlyWhich == typed \cap ObjectLetters = {"O"} /\ opt.object_id \in {"latest", "all"}

\* A run that ends well has done the jobs its options ask for, all of them and no
\* other, in whatever order they were typed: each letter sets what check_arguments
\* looks at, which lets through only what main dispatches in full.
DoesWhatWasAsked ==
  pc = "done" => /\ did # {}
                 /\ did = IF OnlyWhich THEN Asked \ {"output_objects"} ELSE Asked

\* No option typed is ignored by a run that ends well.
EveryOptionCounts == pc = "done" => did = Asked

\* Behind the options every run comes to an end, unless it is stopped: whether or
\* not the drive ever gets ready, and however the disk fills up.
RunsEnd == pc = "space" ~> pc \in Ended \cup {"options"}

\* An interval that is taken is the number that was typed.
IntervalTyped == history_interval \in {0} \cup IntervalArgs

\* A dump saves its history at an interval that -i could have set.
IntervalOfDump == pc \in Dump => InRange(history_interval)

\* A dump saves into a directory that can be written.
SaveDirUsable == pc \in Dump => dir # "no_mode"
=============================================================================
