------------------------- MODULE DumpProgress_proofs -------------------------
(***************************************************************************)
(* Theorems about DumpProgress, for every set of options and intervals,    *)
(* every number of POs and of runs, POs of any duration and disks that fill *)
(* up at any time: which job is done on which disk, how old the history may *)
(* get, and that a dump resumed with what belongs to it leaves out no PO.   *)
(***************************************************************************)
EXTENDS DumpProgress, TLAPS

OptionsType ==
  [bucket_name : BOOLEAN, object_key : BOOLEAN, object_id : {"latest", "all", "specific", "begins_all"},
   structure_level : 0..1, drive : BOOLEAN, list : BOOLEAN, object : BOOLEAN,
   full : BOOLEAN, resume : BOOLEAN, force : BOOLEAN, save_path : Paths]

\* TypeOK of CommandLine, with a name for the type of the options.
TypeInv ==
  /\ pc \in {"options", "space", "drive", "tape"} \cup Jobs \cup Ended
  /\ opt \in OptionsType
  /\ history_interval \in {0} \cup MIN_HISTORY_INTERVAL..MAX_HISTORY_INTERVAL
  /\ obj_save_path \in {"empty", "given"}
  /\ dir \in {"there", "missing", "no_mode"} /\ space \in [Paths -> Nat]
  /\ tur \in 0..TurLimit /\ did \subseteq Jobs /\ typed \subseteq Letters

-----------------------------------------------------------------------------
(* The command line *)

\* What the letters typed have set; an option that fails sets nothing.
OptionsInv ==
  /\ opt.full <=> "f" \in typed
  /\ opt.resume <=> "r" \in typed
  /\ opt.list <=> "l" \in typed
  /\ opt.bucket_name => "b" \in typed
  /\ opt.object_key => "o" \in typed
  /\ "b" \in typed \/ "L" \in typed \/ "o" \in typed => opt.object \/ pc = "failed"
  /\ opt.object => \E letter \in ObjectLetters : letter \in typed
  /\ opt.object_id \notin {"latest", "all"} => opt.object

\* The history looks where -s says, and saves every PO without -i.
StaticsInv ==
  /\ "s" \in typed => opt.save_path = "given" /\ obj_save_path = "given"
  /\ "i" \notin typed => history_interval = 0

\* The jobs that the options of main ask for.
Wanted ==
  (IF opt.full THEN {"full_dump"} ELSE {}) \cup (IF opt.resume THEN {"resume_dump"} ELSE {})
  \cup (IF opt.list THEN {"output_list"} ELSE {})
  \cup (IF opt.object THEN {"output_objects"} ELSE {})

\* Before the job nothing is done; the job is the first of those asked for, and all of
\* them have been let through.
JobInv ==
  /\ pc \in {"space", "drive", "tape", "done"} \cup Jobs => check_arguments
  /\ pc \in {"options", "space", "drive", "tape"} => did = {}
  /\ pc \in Dump \cup {"output_list"} => pc = Job /\ did = {}
  /\ pc = "output_objects" => opt.object /\ did = Wanted \ {"output_objects"}
  /\ pc = "done" => did = Wanted /\ did # {}

DriveInv ==
  /\ pc \in {"options", "space"} => tur = 0
  /\ pc = "drive" => tur < TurLimit

CommandInv == TypeInv /\ OptionsInv /\ StaticsInv /\ JobInv /\ DriveInv

\* A turn of getopt_long.
LEMMA OptionStep ==
  ASSUME CommandInv, pc = "options", pc' \in {"options", "failed", "help"},
         opt' \in OptionsType, OptionsInv', StaticsInv', typed' \subseteq Letters, UNCHANGED Environment,
         history_interval' \in {0} \cup MIN_HISTORY_INTERVAL..MAX_HISTORY_INTERVAL,
         obj_save_path' \in {"empty", "given"}
  PROVE  CommandInv'
<1>1. TypeInv'
  BY DEF CommandInv, TypeInv, Jobs, Ended, Environment
<1>2. JobInv' /\ DriveInv'
  BY DEF CommandInv, JobInv, DriveInv, Jobs, Dump, Environment
<1> QED
  BY <1>1, <1>2 DEF CommandInv

LEMMA OptionsHold == CommandInv /\ Option => CommandInv'
<1> SUFFICES ASSUME CommandInv, Option PROVE CommandInv'
  OBVIOUS
<1>1. /\ opt \in OptionsType /\ OptionsInv /\ StaticsInv /\ typed \subseteq Letters
      /\ obj_save_path \in {"empty", "given"}
      /\ history_interval \in {0} \cup MIN_HISTORY_INTERVAL..MAX_HISTORY_INTERVAL
  BY DEF CommandInv, TypeInv
<1>2. /\ pc = "options" /\ pc' \in {"options", "failed", "help"} /\ UNCHANGED Environment
      /\ typed' \subseteq Letters
  BY <1>1 DEF Option, Flags, Flag, Bucket, Key, Level, ObjectId, Help, Interval, SavePath, Reading,
              With, Ends, Environment
<1>3. opt' \in OptionsType /\ OptionsInv'
  <2>1. CASE Flags
    <3>1. PICK letter \in {"d", "f", "F", "l", "r"} :
            /\ typed' = typed \cup {letter}
            /\ opt' = CASE letter = "d" -> [opt EXCEPT !.drive = TRUE]
                        [] letter = "f" -> [opt EXCEPT !.full = TRUE]
                        [] letter = "F" -> [opt EXCEPT !.force = TRUE]
                        [] letter = "l" -> [opt EXCEPT !.list = TRUE]
                        [] letter = "r" -> [opt EXCEPT !.resume = TRUE]
      BY <2>1 DEF Flags, Flag, Reading, With
    <3>2. CASE letter \in {"d", "F"}
      BY <1>1, <1>2, <3>1, <3>2 DEF OptionsInv, OptionsType, ObjectLetters
    <3>3. CASE letter = "f"
      BY <1>1, <1>2, <3>1, <3>3 DEF OptionsInv, OptionsType, ObjectLetters
    <3>4. CASE letter = "l"
      BY <1>1, <1>2, <3>1, <3>4 DEF OptionsInv, OptionsType, ObjectLetters
    <3>5. CASE letter = "r"
      BY <1>1, <1>2, <3>1, <3>5 DEF OptionsInv, OptionsType, ObjectLetters
    <3> QED
      BY <3>2, <3>3, <3>4, <3>5
  <2>2. CASE Bucket
    <3>1. typed' = typed \cup {"b"} /\ pc' \in {"options", "failed"}
      BY <1>2, <2>2 DEF Bucket, Reading, With, Ends
    <3>2. CASE opt' = [opt EXCEPT !.bucket_name = TRUE, !.object = TRUE]
      BY <1>1, <1>2, <3>1, <3>2 DEF OptionsInv, OptionsType, ObjectLetters
    <3>3. CASE opt' = opt /\ pc' = "failed"
      BY <1>1, <1>2, <3>1, <3>3 DEF OptionsInv, OptionsType, ObjectLetters
    <3> QED
      BY <2>2, <3>2, <3>3 DEF Bucket, With, Ends
  <2>3. CASE Key
    <3>1. PICK key \in BOOLEAN : opt' = [opt EXCEPT !.object_key = key, !.object = TRUE]
      BY <2>3 DEF Key, With
    <3>2. typed' = typed \cup {"o"}
      BY <2>3 DEF Key, Reading
    <3> QED
      BY <1>1, <1>2, <3>1, <3>2 DEF OptionsInv, OptionsType, ObjectLetters
  <2>4. CASE Level
    BY <1>1, <1>2, <2>4 DEF Level, Reading, With, Ends, OptionsInv, OptionsType, ObjectLetters
  <2>5. CASE ObjectId
    BY <1>1, <1>2, <2>5 DEF ObjectId, Reading, With, OptionsInv, OptionsType, ObjectLetters
  <2>6. CASE Help \/ Interval
    BY <1>1, <1>2, <2>6 DEF Help, Interval, Reading, Ends, OptionsInv, ObjectLetters
  <2>7. CASE SavePath
    BY <1>1, <1>2, <2>7 DEF SavePath, Reading, OptionsInv, OptionsType, Paths, ObjectLetters
  <2> QED
    BY <2>1, <2>2, <2>3, <2>4, <2>5, <2>6, <2>7 DEF Option
<1>4. /\ history_interval' \in {0} \cup MIN_HISTORY_INTERVAL..MAX_HISTORY_INTERVAL
      /\ obj_save_path' \in {"empty", "given"} /\ StaticsInv'
  <2>1. CASE Interval
    BY <1>1, <2>1 DEF Interval, Reading, Ends, Statics, InRange, StaticsInv
  <2>2. CASE SavePath
    BY <1>1, <2>2 DEF SavePath, Reading, StaticsInv, OptionsType
  <2>3. CASE Option /\ ~Interval /\ ~SavePath
    <3>1. /\ UNCHANGED <<history_interval, obj_save_path>> /\ typed \subseteq typed'
          /\ "s" \in typed' => "s" \in typed
      BY <2>3 DEF Option, Flags, Flag, Bucket, Key, Level, ObjectId, Help, Reading, With, Ends, Statics
    <3>2. opt'.save_path = opt.save_path
      BY <1>1, <2>3 DEF Option, Flags, Flag, Bucket, Key, Level, ObjectId, Help, With, Ends, OptionsType
    <3> QED
      BY <1>1, <3>1, <3>2 DEF StaticsInv
  <2> QED
    BY <2>1, <2>2, <2>3
<1> QED
  BY <1>2, <1>3, <1>4, OptionStep

LEMMA EndOfOptionsHolds == CommandInv /\ EndOfOptions /\ UNCHANGED typed => CommandInv'
<1> SUFFICES ASSUME CommandInv, EndOfOptions, UNCHANGED typed PROVE CommandInv'
  OBVIOUS
<1>1. pc = "options" /\ pc' \in {"space", "failed"} /\ UNCHANGED <<Statics, Environment>>
  BY DEF EndOfOptions, Ends
<1>2. opt \in OptionsType /\ OptionsInv /\ StaticsInv
  BY DEF CommandInv, TypeInv
<1>3. opt' \in OptionsType /\ OptionsInv' /\ StaticsInv'
  BY <1>1, <1>2 DEF EndOfOptions, Ends, OptionsInv, StaticsInv, Statics, OptionsType, Paths
<1>4. pc' = "space" => check_arguments'
  <2>1. ASSUME pc' = "space"
        PROVE  check_arguments /\ opt' = [opt EXCEPT !.save_path = IF @ = "empty" THEN "cwd" ELSE @]
    BY <2>1 DEF EndOfOptions, Ends
  <2> QED
    BY <1>2, <2>1 DEF check_arguments, Collides, OptionsType
<1>5. TypeInv'
  BY <1>1, <1>3 DEF CommandInv, TypeInv, Jobs, Ended, Environment, Statics
<1>6. JobInv' /\ DriveInv'
  BY <1>1, <1>4 DEF CommandInv, JobInv, DriveInv, Jobs, Dump, Environment
<1> QED
  BY <1>3, <1>5, <1>6 DEF CommandInv

\* A step behind the options.
LEMMA SameOptions ==
  ASSUME UNCHANGED <<opt, typed, Statics>>
  PROVE  /\ OptionsInv /\ (pc # "failed" \/ pc' = pc) => OptionsInv'
         /\ StaticsInv' = StaticsInv
         /\ check_arguments' = check_arguments /\ Job' = Job /\ Wanted' = Wanted
BY DEF OptionsInv, StaticsInv, Statics, check_arguments, Collides, Job, Wanted

LEMMA DriveHolds ==
  CommandInv /\ (CheckSpace \/ NotReady \/ OpenDrive) /\ UNCHANGED typed => CommandInv'
<1> SUFFICES ASSUME CommandInv, CheckSpace \/ NotReady \/ OpenDrive, UNCHANGED typed
             PROVE  CommandInv'
  OBVIOUS
<1>1. /\ pc \in {"space", "drive"} /\ pc' \in {"drive", "tape", "failed", "no_device"}
      /\ UNCHANGED <<opt, typed, Statics, dir, space, did>>
      /\ pc' = "tape" => pc = "drive"
      /\ pc' = "drive" => tur' < TurLimit
      /\ tur' \in 0..TurLimit
  <2>1. tur \in 0..4 /\ (pc = "space" => tur = 0) /\ (pc = "drive" => tur < 4)
    BY DEF CommandInv, TypeInv, DriveInv, TurLimit
  <2>2. CASE CheckSpace
    BY <2>1, <2>2 DEF CheckSpace, Ends, Environment, Statics, TurLimit
  <2>3. CASE NotReady
    BY <2>1, <2>3 DEF NotReady, Statics, TurLimit
  <2>4. CASE OpenDrive
    BY <2>1, <2>4 DEF OpenDrive, Ends, Environment, Statics, TurLimit
  <2> QED
    BY <2>2, <2>3, <2>4
<1>2. check_arguments /\ did = {}
  BY <1>1 DEF CommandInv, JobInv
<1>3. check_arguments' /\ OptionsInv' /\ StaticsInv' /\ did' = {}
  BY <1>1, <1>2, SameOptions DEF CommandInv
<1>4. TypeInv'
  BY <1>1 DEF CommandInv, TypeInv, Jobs, Ended, Statics
<1>5. JobInv' /\ DriveInv'
  BY <1>1, <1>3 DEF JobInv, DriveInv, Jobs, Dump
<1> QED
  BY <1>3, <1>4, <1>5 DEF CommandInv

LEMMA ReadReferenceHolds == CommandInv /\ ReadReference /\ UNCHANGED typed => CommandInv'
<1> SUFFICES ASSUME CommandInv, ReadReference, UNCHANGED typed PROVE CommandInv'
  OBVIOUS
<1>1. /\ pc = "tape" /\ UNCHANGED <<opt, typed, Statics, space, tur, did>>
      /\ pc' = "failed" \/ pc' = Job
      /\ dir' \in {"there", "missing", "no_mode"}
  BY DEF CommandInv, TypeInv, ReadReference, Ends, Environment
<1>2. check_arguments /\ did = {} /\ Job \in Jobs
  BY <1>1 DEF CommandInv, JobInv, Job, Jobs
<1>3. check_arguments' /\ OptionsInv' /\ StaticsInv' /\ did' = {} /\ Job' = Job /\ Wanted' = Wanted
  BY <1>1, <1>2, SameOptions DEF CommandInv
<1>4. TypeInv'
  BY <1>1, <1>2 DEF CommandInv, TypeInv, Jobs, Ended, Statics
<1>5. pc' = "output_objects" => opt.object /\ Wanted \ {"output_objects"} = {}
  <2>1. ASSUME pc' = "output_objects" PROVE ~opt.full /\ ~opt.resume /\ ~opt.list
    BY <1>1, <2>1 DEF Job
  <2> QED
    BY <1>2, <2>1 DEF check_arguments, Wanted
<1>6. pc' \in {"failed"} \cup Jobs
  BY <1>1, <1>2
<1>7. JobInv'
  BY <1>1, <1>3, <1>5, <1>6 DEF JobInv, Jobs, Dump
<1>8. DriveInv'
  BY <1>6 DEF DriveInv, Jobs
<1> QED
  BY <1>3, <1>4, <1>7, <1>8 DEF CommandInv

\* A job that ends.
LEMMA JobDone ==
  ASSUME CommandInv, pc \in Jobs, did' = did \cup {pc}, UNCHANGED <<opt, typed, Statics, dir, tur>>,
         pc' = IF pc = "output_list" THEN AfterList ELSE "done",
         space' \in [Paths -> Nat]
  PROVE  CommandInv'
<1>1. check_arguments /\ OptionsInv /\ StaticsInv /\ pc # "failed"
  BY DEF CommandInv, JobInv, Jobs
<1>2. check_arguments' /\ OptionsInv' /\ StaticsInv' /\ Wanted' = Wanted /\ Job' = Job
  BY <1>1, SameOptions
<1>3. pc' \in {"done", "output_objects"}
  BY DEF AfterList
<1>4. did \subseteq Jobs
  BY DEF CommandInv, TypeInv
<1>5. TypeInv'
  BY <1>3, <1>4 DEF CommandInv, TypeInv, Jobs, Ended, Statics
<1>6. CASE pc \in Dump
  <2>1. pc = Job /\ did' = {pc} /\ pc' = "done"
    BY <1>6 DEF CommandInv, JobInv, Dump
  <2>2. Wanted = {pc}
    BY <1>1, <1>6, <2>1 DEF check_arguments, Collides, Wanted, Job, Dump
  <2>3. JobInv' /\ DriveInv'
    BY <1>2, <2>1, <2>2 DEF JobInv, DriveInv, Jobs, Dump
  <2> QED
    BY <1>2, <1>5, <2>3 DEF CommandInv
<1>7. CASE pc = "output_list"
  <2>1. pc = Job /\ did' = {"output_list"} /\ pc' = AfterList
    BY <1>7 DEF CommandInv, JobInv
  <2>2. opt.list /\ ~opt.full /\ ~opt.resume
    BY <1>7, <2>1 DEF Job
  <2>3. pc' = "done" => Wanted = {"output_list"}
    BY <1>1, <2>1, <2>2 DEF AfterList, check_arguments, Wanted
  <2>4. pc' = "output_objects" => opt.object
    BY <1>1, <2>1 DEF AfterList, check_arguments, OptionsInv
  <2>5. Wanted \ {"output_objects"} = {"output_list"}
    BY <2>2 DEF Wanted
  <2>6. JobInv'
    BY <1>2, <1>3, <2>1, <2>3, <2>4, <2>5 DEF JobInv, Jobs, Dump
  <2>7. DriveInv'
    BY <1>3 DEF DriveInv
  <2> QED
    BY <1>2, <1>5, <2>6, <2>7 DEF CommandInv
<1>8. CASE pc = "output_objects"
  <2>1. did' = Wanted /\ Wanted # {} /\ pc' = "done"
    <3>1. opt.object /\ did = Wanted \ {"output_objects"} /\ pc' = "done"
      BY <1>8 DEF CommandInv, JobInv
    <3>2. "output_objects" \in Wanted
      BY <3>1 DEF Wanted
    <3> QED
      BY <1>8, <3>1, <3>2
  <2>2. JobInv' /\ DriveInv'
    BY <1>2, <2>1 DEF JobInv, DriveInv, Jobs, Dump
  <2> QED
    BY <1>2, <1>5, <2>2 DEF CommandInv
<1> QED
  BY <1>6, <1>7, <1>8 DEF Jobs, Dump

\* A run that fails in its job.
LEMMA JobFailed ==
  ASSUME CommandInv, pc \in Jobs, pc' \in {"failed", "no_space"},
         UNCHANGED <<opt, typed, Statics, Environment>>
  PROVE  CommandInv'
<1>1. OptionsInv' /\ StaticsInv'
  BY SameOptions DEF CommandInv, Jobs
<1>2. TypeInv'
  BY DEF CommandInv, TypeInv, Jobs, Ended, Statics, Environment
<1>3. JobInv' /\ DriveInv'
  BY DEF JobInv, DriveInv, Jobs, Dump
<1> QED
  BY <1>1, <1>2, <1>3 DEF CommandInv

LEMMA DoJobHolds == CommandInv /\ DoJob => CommandInv'
<1> SUFFICES ASSUME CommandInv, DoJob PROVE CommandInv'
  OBVIOUS
<1>1. CASE Ends("failed")
  BY <1>1, JobFailed DEF DoJob, Ends
<1>2. CASE ~Ends("failed")
  <2>1. space' \in [Paths -> Nat]
    BY <1>2 DEF DoJob, CommandInv, TypeInv
  <2> QED
    BY <1>2, <2>1, JobDone DEF DoJob
<1> QED
  BY <1>1, <1>2

\* The same job goes on.
LEMMA SameJob ==
  ASSUME CommandInv, pc \in Jobs, UNCHANGED <<pc, opt, typed, Statics, dir, tur, did>>, space' \in [Paths -> Nat]
  PROVE  CommandInv'
<1>1. /\ OptionsInv /\ (pc # "failed" \/ pc' = pc) => OptionsInv'
      /\ StaticsInv' = StaticsInv /\ check_arguments' = check_arguments
      /\ Job' = Job /\ Wanted' = Wanted
  BY SameOptions
<1>2. TypeInv'
  BY DEF CommandInv, TypeInv, Statics
<1>3. JobInv' /\ DriveInv'
  BY <1>1 DEF CommandInv, JobInv, DriveInv, Jobs
<1> QED
  BY <1>1, <1>2, <1>3 DEF CommandInv

LEMMA StartupHolds == CommandInv /\ Startup => CommandInv'
BY OptionsHold, EndOfOptionsHolds, DriveHolds, ReadReferenceHolds DEF Startup

-----------------------------------------------------------------------------
(* The dump *)

InDump == pc \in Dump /\ step # "begin"

\* Where the dump is.
PlaceInv ==
  /\ step \in {"begin", "dump", "history"} /\ po \in 0..NumPos
  /\ history \in 0..NumPos /\ reached \in 0..NumPos /\ own \in BOOLEAN
  /\ short \in 0..NumPos /\ runs \in 1..MaxRuns
  /\ pc \in {"options", "space", "drive", "tape"} => step = "begin"
  /\ step = "begin" => short = 0
  /\ InDump => po >= 1 /\ short < po

\* What is older than the history is no older than the lap.
TimeInv ==
  /\ lap \in Nat /\ since \in Nat /\ since <= lap
  /\ Dumping("dump") => history = po \/ lap < history_interval
  /\ pc = "no_space" => history = po

\* A dump that is the last full dump, or goes back to it, has dumped all before the PO
\* it does, and so does what it saves.
GapInv ==
  /\ own => history <= reached + 1
  /\ InDump /\ (own \/ pc = "full_dump") => po <= reached + 1

IInv == CommandInv /\ PlaceInv /\ TimeInv /\ GapInv /\ PlaceSavedWhenShort

LEMMA IntervalIsNat == IInv => history_interval \in Nat
<1> SUFFICES ASSUME IInv PROVE history_interval \in Nat
  OBVIOUS
<1>1. history_interval = 0 \/ history_interval \in MIN_HISTORY_INTERVAL..MAX_HISTORY_INTERVAL
  BY DEF IInv, CommandInv, TypeInv
<1>2. MIN_HISTORY_INTERVAL \in Nat /\ MAX_HISTORY_INTERVAL \in Int
  BY IntervalAssumption
<1> QED
  BY <1>1, <1>2

\* The counters and ages are numbers.
LEMMA NumbersOfDump ==
  IInv => /\ po \in 0..NumPos /\ history \in 0..NumPos /\ reached \in 0..NumPos /\ short \in 0..NumPos
          /\ own \in BOOLEAN /\ runs \in 1..MaxRuns
          /\ lap \in Nat /\ since \in Nat /\ since <= lap
BY DEF IInv, PlaceInv, TimeInv

LEMMA NumPosType == NumPos \in Nat \ {0} /\ MaxRuns \in Nat \ {0}
BY DumpAssumption

LEMMA InitHolds == InitDump => IInv
<1> SUFFICES ASSUME InitDump PROVE IInv
  OBVIOUS
<1>1. TypeInv
  <2>1. Defaults \in OptionsType
    BY DEF Defaults, OptionsType, Paths
  <2>2. space \in [Paths -> Nat]
    BY SpaceAssumption DEF InitDump, Init
  <2>3. 0 \in 0..TurLimit
    BY DEF TurLimit
  <2> QED
    BY <2>1, <2>2, <2>3 DEF InitDump, Init, TypeInv
<1>2. OptionsInv /\ StaticsInv
  BY DEF InitDump, Init, OptionsInv, StaticsInv, Defaults
<1>3. JobInv /\ DriveInv
  BY DEF InitDump, Init, JobInv, DriveInv, Jobs, Dump
<1>4. PlaceInv /\ TimeInv /\ GapInv /\ PlaceSavedWhenShort
  <2>1. /\ pc = "options" /\ step = "begin" /\ po = 0 /\ lap = 0 /\ since = 0
        /\ history = 0 /\ reached = 0 /\ own = FALSE /\ short = 0 /\ runs = 1
    BY DEF InitDump, Init
  <2>2. 0 \in 0..NumPos /\ 1 \in 1..MaxRuns
    BY NumPosType
  <2>3. ~InDump /\ ~Dumping("dump") /\ pc # "no_space"
    BY <2>1 DEF InDump, Dumping, Dump
  <2>4. PlaceInv
    BY <2>1, <2>2, <2>3 DEF PlaceInv
  <2> QED
    BY <2>1, <2>3, <2>4 DEF TimeInv, GapInv, PlaceSavedWhenShort
<1> QED
  BY <1>1, <1>2, <1>3, <1>4 DEF IInv, CommandInv

\* A step outside of a dump.
LEMMA OutsideHolds ==
  ASSUME IInv, Startup \/ (pc \notin Dump /\ DoJob), UNCHANGED progress
  PROVE  IInv'
<1>1. CommandInv'
  BY StartupHolds, DoJobHolds DEF IInv
<1>2. /\ pc \notin Dump /\ pc' # "no_space"
      /\ pc' \in Dump => pc = "tape"
      /\ pc' \in {"options", "space", "drive", "tape"} => pc \in {"options", "space", "drive", "tape"}
  BY DEF Startup, Option, Flags, Flag, Bucket, Key, Level, ObjectId, Help, Interval, SavePath, Reading, With, Ends,
         EndOfOptions, CheckSpace, NotReady, OpenDrive, ReadReference, DoJob, AfterList, Dump, Jobs, Job
<1>3. UNCHANGED <<step, po, lap, since, history, reached, own, short, runs>>
  BY DEF progress
<1>4. PlaceInv'
  BY <1>2, <1>3 DEF IInv, PlaceInv, InDump
<1>5. TimeInv' /\ GapInv' /\ PlaceSavedWhenShort'
  BY <1>2, <1>3 DEF IInv, PlaceInv, TimeInv, GapInv, PlaceSavedWhenShort, InDump, Dumping
<1> QED
  BY <1>1, <1>4, <1>5 DEF IInv

LEMMA BeginHolds == IInv /\ Begin => IInv'
<1> SUFFICES ASSUME IInv, Begin PROVE IInv'
  OBVIOUS
<1>1. /\ pc \in Dump /\ step = "begin" /\ UNCHANGED <<opt, typed, Statics, Environment, clock, history, short, runs>>
  BY DEF Begin, Dumping
<1>2. CASE pc = "resume_dump" /\ history = 0
  <2>1. pc' = "failed" /\ UNCHANGED <<step, po, reached, own>>
    BY <1>2 DEF Begin
  <2>2. CommandInv'
    BY <1>1, <2>1, JobFailed DEF IInv, Jobs, Dump
  <2>3. PlaceInv' /\ TimeInv' /\ GapInv' /\ PlaceSavedWhenShort'
    BY <1>1, <2>1 DEF IInv, PlaceInv, TimeInv, GapInv, PlaceSavedWhenShort, InDump, Dumping, Dump, clock
  <2> QED
    BY <2>2, <2>3 DEF IInv
<1>3. CASE ~(pc = "resume_dump" /\ history = 0)
  <2>1. /\ po' = IF pc = "full_dump" THEN 1 ELSE history
        /\ reached' = IF pc = "full_dump" THEN 0 ELSE reached
        /\ own' = IF pc = "full_dump" THEN FALSE ELSE own
        /\ step' = "history" /\ pc' = pc
    BY <1>3 DEF Begin
  <2>2. CommandInv'
    <3>1. space' \in [Paths -> Nat]
      BY <1>1 DEF IInv, CommandInv, TypeInv, Environment
    <3> QED
      BY <1>1, <2>1, <3>1, SameJob DEF IInv, Jobs, Dump, Environment
  <2>3. PlaceInv'
    <3>1. pc # "full_dump" => history \in 1..NumPos
      BY <1>1, <1>3 DEF IInv, PlaceInv, Dump
    <3>2. short = 0 /\ UNCHANGED <<history, short, runs>>
      BY <1>1 DEF IInv, PlaceInv
    <3>3. po' \in 1..NumPos /\ reached' \in 0..NumPos
      BY <2>1, <3>1, NumPosType, NumbersOfDump
    <3>4. own' \in BOOLEAN
      <4>1. own \in BOOLEAN
        BY NumbersOfDump
      <4> QED
        BY <2>1, <4>1
    <3>5. step' = "history" /\ pc' \in Dump
      BY <1>1, <2>1
    <3> QED
      BY <3>2, <3>3, <3>5, <3>4, NumbersOfDump, NumPosType DEF PlaceInv, InDump, Dump
  <2>4. TimeInv'
    BY <1>1, <2>1 DEF IInv, TimeInv, Dumping, Dump, clock
  <2>5. GapInv' /\ PlaceSavedWhenShort'
    BY <1>1, <1>3, <2>1 DEF IInv, PlaceInv, GapInv, PlaceSavedWhenShort, InDump, Dumping, Dump
  <2> QED
    BY <2>2, <2>3, <2>4, <2>5 DEF IInv
<1> QED
  BY <1>2, <1>3

LEMMA HistoryHolds == IInv /\ output_history => IInv'
<1> SUFFICES ASSUME IInv, output_history PROVE IInv'
  OBVIOUS
<1> DEFINE enough == check_disk_space(obj_save_path, 0)
<1>1. /\ pc \in Dump /\ step = "history" /\ UNCHANGED <<opt, typed, Statics, Environment, po, reached, short, runs>>
      /\ lap' = IF history_interval < lap THEN 0 ELSE lap
      /\ IF lap < history_interval /\ enough
         THEN UNCHANGED <<history, since, own>>
         ELSE history' = po /\ since' = 0 /\ own' = (own \/ pc = "full_dump")
      /\ IF lap < history_interval /\ ~enough
         THEN pc' = "no_space" /\ step' = step
         ELSE step' = "dump" /\ pc' = pc
  BY DEF output_history, Dumping, MustSave, PoSaved, Lap
<1> HIDE DEF enough
<1>2. history_interval \in Nat /\ history_interval' = history_interval
  BY <1>1, IntervalIsNat DEF Statics
<1>3. CommandInv'
  <2>1. space' \in [Paths -> Nat]
    BY <1>1 DEF IInv, CommandInv, TypeInv, Environment
  <2>2. CASE pc' = "no_space"
    BY <1>1, <2>2, JobFailed DEF IInv, Jobs, Dump
  <2>3. CASE pc' # "no_space"
    BY <1>1, <2>1, <2>3, SameJob DEF IInv, Jobs, Dump, Environment
  <2> QED
    BY <2>2, <2>3
<1>4. InDump /\ po \in 1..NumPos
  BY <1>1, NumPosType, NumbersOfDump DEF IInv, PlaceInv, InDump
<1>5. PlaceInv'
  BY <1>1, <1>4 DEF IInv, PlaceInv, InDump, Dump
<1>6. TimeInv'
  <2>1. lap \in Nat /\ since \in Nat /\ since <= lap
    BY NumbersOfDump
  <2>2. lap' \in Nat /\ since' \in Nat /\ since' <= lap'
    BY <1>1, <1>2, <2>1
  <2>3. Dumping("dump")' => history' = po' \/ lap' < history_interval'
    BY <1>1, <1>2, <2>1 DEF Dumping
  <2>4. pc' = "no_space" => history' = po'
    BY <1>1 DEF Dump
  <2> QED
    BY <2>2, <2>3, <2>4 DEF TimeInv
<1>7. GapInv'
  BY <1>1, <1>4 DEF IInv, GapInv, InDump, Dump
<1>8. PlaceSavedWhenShort'
  <2> SUFFICES ASSUME Dumping("dump")', ~opt.force, "s" \in typed \/ "i" \notin typed
               PROVE  history' = po \/ space[opt.save_path] >= MIN_REQUIRED
    BY <1>1 DEF PlaceSavedWhenShort, Environment
  <2>1. CASE lap < history_interval
    <3>1. enough
      BY <1>1, <2>1 DEF Dumping
    <3>2. "s" \in typed
      BY <1>2, <2>1, NumbersOfDump DEF IInv, CommandInv, StaticsInv
    <3>3. opt.save_path = "given" /\ obj_save_path = "given"
      BY <3>2 DEF IInv, CommandInv, StaticsInv
    <3>4. space["given"] \in Nat /\ MIN_REQUIRED \in Nat
      BY SpaceAssumption DEF IInv, CommandInv, TypeInv, Paths
    <3> QED
      BY <3>1, <3>3, <3>4 DEF enough, check_disk_space, Free
  <2>2. CASE ~(lap < history_interval)
    BY <1>1, <2>2
  <2> QED
    BY <2>1, <2>2
<1> QED
  BY <1>3, <1>5, <1>6, <1>7, <1>8 DEF IInv

LEMMA DumpObjectsHolds == IInv /\ DumpObjects => IInv'
<1> SUFFICES ASSUME IInv, DumpObjects PROVE IInv'
  OBVIOUS
<1>1. /\ pc \in Dump /\ step = "dump" /\ UNCHANGED <<opt, typed, Statics, dir, tur, history, own, runs>>
      /\ reached' = IF po = reached + 1 THEN po ELSE reached
      /\ short' \in {short, short + 1}
      /\ IF po = NumPos
         THEN pc' = "done" /\ did' = did \cup {pc} /\ UNCHANGED <<po, step>>
         ELSE po' = po + 1 /\ step' = "history" /\ UNCHANGED <<pc, did>>
  BY DEF DumpObjects, Dumping, NextPo
<1>2. PICK time \in 0..MaxPoTime, free \in 0..space[opt.save_path] :
        /\ lap' = lap + time /\ since' = since + time
        /\ space' = [space EXCEPT ![opt.save_path] = free]
  BY DEF DumpObjects
<1>3. space' \in [Paths -> Nat]
  <2>1. space \in [Paths -> Nat] /\ opt.save_path \in Paths
    BY DEF IInv, CommandInv, TypeInv, OptionsType
  <2>2. free \in Nat
    BY <2>1
  <2> QED
    BY <1>2, <2>1, <2>2
<1>4. CommandInv'
  <2>1. CASE po = NumPos
    BY <1>1, <1>3, <2>1, JobDone DEF IInv, Jobs, Dump
  <2>2. CASE po # NumPos
    BY <1>1, <1>3, <2>2, SameJob DEF IInv, Jobs, Dump
  <2> QED
    BY <2>1, <2>2
<1>5. InDump /\ po \in 1..NumPos /\ short \in 0..(po - 1) /\ reached \in 0..NumPos /\ NumPos \in Nat
  BY <1>1, NumPosType DEF IInv, PlaceInv, InDump
<1>6. PlaceInv'
  BY <1>1, <1>5 DEF IInv, PlaceInv, InDump, Dump
<1>7. TimeInv'
  <2>1. time \in Nat /\ lap \in Nat /\ since \in Nat /\ since <= lap
    BY DumpAssumption, NumbersOfDump
  <2>2. lap' \in Nat /\ since' \in Nat /\ since' <= lap'
    BY <1>2, <2>1
  <2> QED
    BY <1>1, <2>2 DEF TimeInv, Dumping, Dump
<1>8. PlaceSavedWhenShort'
  BY <1>1 DEF PlaceSavedWhenShort, Dumping, Dump
<1>9. GapInv'
  <2>1. own \/ pc = "full_dump" => po <= reached + 1
    BY <1>5 DEF IInv, GapInv
  <2> QED
    BY <1>1, <1>5, <2>1 DEF IInv, PlaceInv, GapInv, InDump, Dump
<1> QED
  BY <1>4, <1>6, <1>7, <1>8, <1>9 DEF IInv

LEMMA LargeObjectHolds == IInv /\ LargeObject => IInv'
<1> SUFFICES ASSUME IInv, LargeObject PROVE IInv'
  OBVIOUS
<1>1. pc \in Dump /\ step = "dump" /\ pc' = "failed" /\ UNCHANGED <<opt, typed, Statics, Environment, progress>>
  BY DEF LargeObject, Dumping
<1>2. CommandInv'
  BY <1>1, JobFailed DEF IInv, Jobs, Dump
<1>3. PlaceInv' /\ TimeInv' /\ GapInv' /\ PlaceSavedWhenShort'
  BY <1>1 DEF IInv, PlaceInv, TimeInv, GapInv, PlaceSavedWhenShort, InDump, Dumping, Dump, progress
<1> QED
  BY <1>2, <1>3 DEF IInv

LEMMA AgainHolds == IInv /\ Again => IInv'
<1> SUFFICES ASSUME IInv, Again PROVE IInv'
  OBVIOUS
<1>1. /\ runs < MaxRuns /\ runs' = runs + 1 /\ pc' = "options" /\ opt' = Defaults
      /\ history_interval' = 0 /\ obj_save_path' = "empty" /\ space' \in Spaces
      /\ tur' = 0 /\ did' = {} /\ typed' = {}
      /\ step' = "begin" /\ po' = 0 /\ lap' = 0 /\ since' = 0 /\ short' = 0
      /\ UNCHANGED <<dir, history, reached, own>>
  BY DEF Again
<1>2. TypeInv'
  <2>1. Defaults \in OptionsType
    BY DEF Defaults, OptionsType, Paths
  <2>2. space' \in [Paths -> Nat]
    BY <1>1, SpaceAssumption
  <2>3. 0 \in 0..TurLimit
    BY DEF TurLimit
  <2> QED
    BY <1>1, <2>1, <2>2, <2>3 DEF IInv, CommandInv, TypeInv
<1>3. OptionsInv' /\ StaticsInv'
  BY <1>1 DEF OptionsInv, StaticsInv, Defaults
<1>4. JobInv' /\ DriveInv'
  BY <1>1 DEF JobInv, DriveInv, Jobs, Dump
<1>5. PlaceInv'
  <2>1. runs' \in 1..MaxRuns /\ 0 \in 0..NumPos
    BY <1>1, NumPosType, NumbersOfDump
  <2> QED
    BY <1>1, <2>1, NumbersOfDump DEF PlaceInv, InDump, Dump
<1>6. TimeInv' /\ GapInv' /\ PlaceSavedWhenShort'
  <2>1. own => history <= reached + 1
    BY DEF IInv, GapInv
  <2> QED
    BY <1>1, <2>1 DEF TimeInv, GapInv, PlaceSavedWhenShort, InDump, Dumping, Dump
<1> QED
  BY <1>2, <1>3, <1>4, <1>5, <1>6 DEF IInv, CommandInv

LEMMA StepHolds == IInv /\ [NextDump]_vars => IInv'
<1> SUFFICES ASSUME IInv, [NextDump]_vars PROVE IInv'
  OBVIOUS
<1>1. CASE (Startup \/ (pc \notin Dump /\ DoJob)) /\ UNCHANGED progress
  BY <1>1, OutsideHolds
<1>2. CASE UNCHANGED vars
  <2>1. UNCHANGED <<pc, opt, history_interval, obj_save_path, dir, space, tur, did, typed>>
    BY <1>2 DEF vars, commandVars
  <2>2. UNCHANGED <<step, po, lap, since, history, reached, own, short, runs>>
    BY <1>2 DEF vars, progress
  <2>3. CommandInv'
    BY <2>1, SameOptions DEF IInv, CommandInv, TypeInv, JobInv, DriveInv, Statics
  <2>4. PlaceInv' /\ TimeInv' /\ GapInv' /\ PlaceSavedWhenShort'
    BY <2>1, <2>2 DEF IInv, PlaceInv, TimeInv, GapInv, PlaceSavedWhenShort, InDump, Dumping
  <2> QED
    BY <2>3, <2>4 DEF IInv
<1> QED
  BY <1>1, <1>2, BeginHolds, HistoryHolds, DumpObjectsHolds, LargeObjectHolds, AgainHolds
  DEF NextDump, RunStep

THEOREM DumpInvariant == SpecDump => []IInv
<1> QED
  BY InitHolds, StepHolds, PTL DEF SpecDump

-----------------------------------------------------------------------------
(* What follows from it *)

\* Options, statics and counters keep their types; the interval a run takes over is
\* one of those check_interval lets through.
THEOREM DumpTypeCorrect == SpecDump => []TypeOKDump
<1>1. IInv => TypeOKDump
  BY DEF IInv, CommandInv, PlaceInv, TimeInv, TypeOKDump, TypeOK, TypeInv, OptionsType
<1> QED
  BY <1>1, DumpInvariant, PTL

\* Whatever the options and their order, a run that ends well has done all the jobs that
\* the letters typed ask for and no other; only -O latest and -O all, standing alone, do
\* not count (the options, check_arguments and the dispatch in main).
THEOREM JobsAsAsked == SpecDump => []DoesWhatWasAsked
<1>1. IInv => DoesWhatWasAsked
  <2> SUFFICES ASSUME IInv, pc = "done"
               PROVE  /\ did # {}
                      /\ did = IF OnlyWhich THEN Asked \ {"output_objects"} ELSE Asked
    BY DEF DoesWhatWasAsked
  <2>1. did = Wanted /\ did # {} /\ check_arguments /\ OptionsInv
    BY DEF IInv, CommandInv, JobInv
  <2>2. CASE opt.object
    <3>1. "b" \in typed
      BY <2>1, <2>2 DEF check_arguments, OptionsInv
    <3>2. typed \cap ObjectLetters # {} /\ ~OnlyWhich
      BY <3>1 DEF ObjectLetters, OnlyWhich
    <3> QED
      BY <2>1, <2>2, <3>2 DEF OptionsInv, Wanted, Asked
  <2>3. CASE ~opt.object
    <3>1. typed \cap ObjectLetters \subseteq {"O"} /\ opt.object_id \in {"latest", "all"}
      BY <2>1, <2>3 DEF OptionsInv, ObjectLetters
    <3>2. typed \cap ObjectLetters = {} \/ OnlyWhich
      BY <3>1 DEF OnlyWhich
    <3>3. Wanted = Asked \ {"output_objects"}
      BY <2>1, <2>3 DEF OptionsInv, Wanted, Asked
    <3>4. typed \cap ObjectLetters = {} => Wanted = Asked
      BY <2>1, <2>3 DEF OptionsInv, Wanted, Asked
    <3> QED
      BY <2>1, <3>2, <3>3, <3>4
  <2> QED
    BY <2>2, <2>3
<1> QED
  BY <1>1, DumpInvariant, PTL

\* However fast the disk fills up, objects are begun on a short one only at the PO that
\* the next run comes back to, if the history looks at the disk of the objects or saves
\* every PO (-s, set_obj_save_path, get_interval, output_history).
THEOREM ShortDiskIsSaved == SpecDump => []PlaceSavedWhenShort
<1>1. IInv => PlaceSavedWhenShort
  BY DEF IInv
<1> QED
  BY <1>1, DumpInvariant, PTL

\* While objects are dumped the history is at their PO, or younger than the interval,
\* however long POs take; a dump that stops for want of space has saved its place.
THEOREM HistoryIsFresh == SpecDump => []SavedFresh
<1>1. IInv => SavedFresh
  <2> SUFFICES ASSUME IInv PROVE SavedFresh
    OBVIOUS
  <2>1. history_interval \in Nat
    BY IntervalIsNat
  <2>2. lap \in Nat /\ since \in Nat /\ since <= lap
    BY NumbersOfDump
  <2>3. lap < history_interval => since < history_interval
    BY <2>1, <2>2
  <2> QED
    BY <2>3 DEF IInv, TimeInv, SavedFresh
<1> QED
  BY <1>1, DumpInvariant, PTL

\* However often dumps are interrupted and resumed, one that goes back to the last
\* full dump leaves out no PO.
THEOREM NoPoLeftOut == SpecDump => []NoGap
<1>1. IInv => NoGap
  BY DEF IInv, GapInv, NoGap, Dumping, InDump
<1> QED
  BY <1>1, DumpInvariant, PTL
=============================================================================
