---------------------------- MODULE DumpProgress ----------------------------
(***************************************************************************)
(* The history of a dump: what a full or a resumed dump saves between the  *)
(* marker of a packed object (PO) and its objects, when it saves it, when  *)
(* it gives up for want of disk space, and where the next run resumes.     *)
(* CommandLine gives the run its options; the saving of an entry is one    *)
(* step here, HistoryStore has its writes one by one.                      *)
(*                                                                         *)
(* Time is kept as ages: lap is time(NULL) - lap_start, since is the time  *)
(* since the history was saved or the run began.                           *)
(***************************************************************************)
EXTENDS CommandLine

CONSTANTS
  NumPos,     \* the POs of the tape
  MaxPoTime,  \* bound on the seconds a PO takes
  Large,      \* sizes of objects of at least LARGE_OBJ_SIZE, in GiB
  MaxRuns     \* bound on the runs of the program

ASSUME DumpAssumption ==
  NumPos \in Nat \ {0} /\ MaxPoTime \in Nat /\ Large \subseteq Nat /\ MaxRuns \in Nat \ {0}

VARIABLES
  step,      \* in a dump: "begin", "dump" or "history"
  po,        \* po_cnt
  lap, since,
  history,   \* PO of the tape in history.log; 0 without an entry
  reached,   \* POs dumped without a gap since the last full dump began
  own,       \* history comes from that dump, or from one resumed with it
  short,     \* POs dumped while the disk they are saved on was short
  runs

clock == <<lap, since>>
progress == <<step, po, lap, since, history, reached, own, short, runs>>
vars == <<commandVars, progress>>

InitDump ==
  /\ Init
  /\ step = "begin" /\ po = 0 /\ lap = 0 /\ since = 0
  /\ history = 0 /\ reached = 0 /\ own = FALSE /\ short = 0 /\ runs = 1

Dumping(s) == pc \in Dump /\ step = s

\* check_integrity: a resumed dump starts with the PO that was saved.
Begin ==
  /\ Dumping("begin")
  /\ IF pc = "resume_dump" /\ history = 0
     THEN pc' = "failed" /\ UNCHANGED <<step, po, reached, own>>
     ELSE /\ po' = IF pc = "full_dump" THEN 1 ELSE history
          /\ IF pc = "full_dump" THEN reached' = 0 /\ own' = FALSE ELSE UNCHANGED <<reached, own>>
          /\ step' = "history"
          /\ UNCHANGED pc
  /\ UNCHANGED <<opt, typed, Statics, Environment, clock, history, short, runs>>

\* Mutant: every call starts a new lap.
LapAlways(interval) == 0

\* get_interval: a lap ends when it has been longer than the interval.
Lap(interval) == IF history_interval < interval THEN 0 ELSE interval

\* Mutant: the PO that comes next is saved.
PoNext == po + 1

PoSaved == po

\* Within the interval only a disk that has filled up saves the history.
MustSave(interval) ==
  ~(interval < history_interval /\ check_disk_space(obj_save_path, 0))

\* Between the marker of a PO and its objects.
output_history ==
  /\ Dumping("history")
  /\ lap' = Lap(lap)
  /\ IF MustSave(lap) THEN history' = PoSaved /\ since' = 0 /\ own' = (own \/ pc = "full_dump")
     ELSE UNCHANGED <<history, since, own>>
  /\ IF lap < history_interval /\ ~check_disk_space(obj_save_path, 0)
     THEN pc' = "no_space" /\ UNCHANGED step
     ELSE step' = "dump" /\ UNCHANGED pc
  /\ UNCHANGED <<opt, typed, Statics, Environment, po, reached, short, runs>>

NextPo ==
  IF po = NumPos
  THEN pc' = "done" /\ did' = did \cup {pc} /\ UNCHANGED <<po, step>>
  ELSE po' = po + 1 /\ step' = "history" /\ UNCHANGED <<pc, did>>

\* The objects of a PO are saved, each large one if the disk has room for it.
DumpObjects ==
  /\ Dumping("dump")
  /\ \E time \in 0..MaxPoTime, free \in 0..space[opt.save_path] :
       /\ lap' = lap + time /\ since' = since + time
       /\ space' = [space EXCEPT ![opt.save_path] = free]
  /\ reached' = IF po = reached + 1 THEN po ELSE reached
  /\ short' = IF space[opt.save_path] < MIN_REQUIRED THEN short + 1 ELSE short
  /\ NextPo
  /\ UNCHANGED <<opt, typed, Statics, dir, tur, history, own, runs>>

LargeObject ==
  /\ Dumping("dump")
  /\ \E size \in Large : ~check_disk_space(opt.save_path, size)
  /\ pc' = "failed"
  /\ UNCHANGED <<opt, typed, Statics, Environment, progress>>

\* A run that has ended, or is stopped anywhere, is followed by another,
\* which may find more space.
Again ==
  /\ runs < MaxRuns /\ runs' = runs + 1
  /\ pc' = "options" /\ opt' = Defaults /\ history_interval' = 0 /\ obj_save_path' = "empty"
  /\ space' \in Spaces
  /\ tur' = 0 /\ did' = {} /\ typed' = {}
  /\ step' = "begin" /\ po' = 0 /\ lap' = 0 /\ since' = 0 /\ short' = 0
  /\ UNCHANGED <<dir, history, reached, own>>

RunStep ==
  \/ (Startup \/ (pc \notin Dump /\ DoJob)) /\ UNCHANGED progress
  \/ Begin \/ output_history \/ DumpObjects \/ LargeObject
NextDump == RunStep \/ Again

SpecDump == InitDump /\ [][NextDump]_vars /\ WF_vars(pc # "options" /\ RunStep)

-----------------------------------------------------------------------------
(* Properties *)

\* A step of a dump is in a dump, and a PO it is at, saves or has dumped is one of
\* the tape.
TypeOKDump ==
  /\ TypeOK
  /\ step \in {"begin", "dump", "history"} /\ po \in 0..NumPos
  /\ lap \in Nat /\ since \in Nat
  /\ history \in 0..NumPos /\ reached \in 0..NumPos /\ own \in BOOLEAN
  /\ short \in 0..NumPos /\ runs \in 1..MaxRuns

\* What a dump loses when it is stopped within a PO is younger than the interval:
\* that PO was saved, or another one or the start of the run is no older.  A dump
\* that gives up for want of space has saved where it is.
SavedFresh ==
  /\ Dumping("dump") => history = po \/ since < history_interval
  /\ pc = "no_space" => history = po

\* Objects are begun on a disk that has become short only at the PO of the history,
\* where the next run comes back to.  With -i but without -s the history looks at
\* another disk.
PlaceSavedWhenShort ==
  Dumping("dump") /\ ~opt.force /\ ("s" \in typed \/ "i" \notin typed)
    => history = po \/ space[opt.save_path] >= MIN_REQUIRED

\* A dump that is resumed with what the last full dump, or a dump resumed with that,
\* has saved misses no PO: all before the one it does have been dumped since then.
NoGap == Dumping("dump") /\ own => po <= reached + 1

\* A dump that is resumed misses no PO of the last full dump.
NoGapEver == Dumping("dump") => po <= reached + 1

\* Without -F no PO is dumped on a disk without the required space.
DumpStopsWhenShort == opt.force \/ short = 0

\* So it is at least with -i, while the POs are quick.
IntervalStopsWhenShort == history_interval > 0 => DumpStopsWhenShort
=============================================================================
