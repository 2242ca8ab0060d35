------------------------------ MODULE SaveDirs ------------------------------
(***************************************************************************)
(* Where a dump puts the objects of one bucket.                            *)
(*                                                                         *)
(* Under <save_path>/<bucket>/ the reader makes directories 0001..1000,    *)
(* each with subdirectories 0001..1000, and puts at most 1000 objects in a *)
(* subdirectory.  For every bucket it keeps in memory how many objects it  *)
(* has put in the current subdirectory and which subdirectory that is;     *)
(* that record is rebuilt from the directories on disk when the program    *)
(* starts.  MaxSave is OBJ_READER_MAX_SAVE_NUM (1000).                     *)
(***************************************************************************)
EXTENDS Naturals, FiniteSetsExt

CONSTANT MaxSave

ASSUME MaxSaveAssumption == MaxSave \in Nat \ {0}

\* The names a directory or a subdirectory can have on disk.
DirNumber == 1..MaxSave

\* struct BucketInfo4ObjReader without its name and link.  A bucket that is
\* not in the list is NoInfo; MaxSave + 1 is the directory number the code
\* uses for "this bucket is full", and nothing is stored under it.
BucketInfo == [counter : 0..MaxSave, dir : 0..(MaxSave + 1), sub : 0..MaxSave]

NoInfo == [counter |-> 0, dir |-> 0, sub |-> 0]

\* A bucket met for the first time starts in 0001/0001 with nothing saved.
FirstInfo == [counter |-> 0, dir |-> 1, sub |-> 1]

add_bucket_info(info) == IF info = NoInfo THEN FirstInfo ELSE info

(***************************************************************************)
(* One more object: count it in the current subdirectory, or open the next *)
(* one when MaxSave objects have been counted there.                       *)
(***************************************************************************)
\* Mutant: one object too many.
SubdirHasRoomInclusive(info) == info.counter <= MaxSave

SubdirHasRoom(info) == info.counter < MaxSave
DirHasRoom(info)    == info.sub < MaxSave
BucketHasRoom(info) == info.dir < MaxSave

\* Mutant: a full bucket's directory number is not pinned to MaxSave + 1.
update_bucket_infoUnpinned(info) ==
  CASE SubdirHasRoom(info) ->
         [info EXCEPT !.counter = @ + 1]
    [] ~SubdirHasRoom(info) /\ DirHasRoom(info) ->
         [counter |-> 1, dir |-> info.dir, sub |-> info.sub + 1]
    [] ~SubdirHasRoom(info) /\ ~DirHasRoom(info) /\ BucketHasRoom(info) ->
         [counter |-> 1, dir |-> info.dir + 1, sub |-> 1]
    [] OTHER ->
         [counter |-> MaxSave, dir |-> info.dir + 1, sub |-> MaxSave]

update_bucket_info(info) ==
  CASE SubdirHasRoom(info) ->
         [info EXCEPT !.counter = @ + 1]
    [] ~SubdirHasRoom(info) /\ DirHasRoom(info) ->
         [counter |-> 1, dir |-> info.dir, sub |-> info.sub + 1]
    [] ~SubdirHasRoom(info) /\ ~DirHasRoom(info) /\ BucketHasRoom(info) ->
         [counter |-> 1, dir |-> info.dir + 1, sub |-> 1]
    [] OTHER ->
         [counter |-> MaxSave, dir |-> MaxSave + 1, sub |-> MaxSave]

\* Mutant: the last directory is not used.
FullEarly(info) == info.dir >= MaxSave

\* check_diff_btwn_file_and_tape's dir_max_limit_flag: nothing is written.
Full(info) == info.dir > MaxSave

(***************************************************************************)
(* What start-up finds for bucket b on disk, where subs is the set of      *)
(* <<bucket, dir, sub>> that exist: the highest directory that has a       *)
(* subdirectory, and the highest subdirectory in it.  The counter is set   *)
(* to MaxSave so that the next object opens a new subdirectory.            *)
(***************************************************************************)
UsedDirs(b, subs) == {d \in DirNumber : \E s \in DirNumber : <<b, d, s>> \in subs}

UsedSubs(b, d, subs) == {s \in DirNumber : <<b, d, s>> \in subs}

\* Mutant: the next object goes to the subdirectory found.
initialize_bucket_infoReuse(b, subs) ==
  IF UsedDirs(b, subs) = {}
  THEN NoInfo
  ELSE LET d == Max(UsedDirs(b, subs))
       IN  [counter |-> 0, dir |-> d, sub |-> Max(UsedSubs(b, d, subs))]

initialize_bucket_info(b, subs) ==
  IF UsedDirs(b, subs) = {}
  THEN NoInfo
  ELSE LET d == Max(UsedDirs(b, subs))
       IN  [counter |-> MaxSave, dir |-> d, sub |-> Max(UsedSubs(b, d, subs))]

\* The order in which subdirectories are opened.
Before(d1, s1, d2, s2) == d1 < d2 \/ (d1 = d2 /\ s1 < s2)
=============================================================================
