----------------------------- MODULE ListFiles ------------------------------
(***************************************************************************)
(* The lists of objects: <save_path>/<tape>/<bucket>_NNNN.lst, made by a   *)
(* run with --list, and the search in them for the object to be read.      *)
(*                                                                         *)
(* A line of a list is the opening of the JSON text, the entry of one      *)
(* object (its number on the tape), or the closing that completes the file.*)
(* An entry after another one brings the comma between them.               *)
(***************************************************************************)
EXTENDS SaveDirs, Sequences, SequencesExt, Functions

CONSTANTS
  Entries,    \* the objects of the tape in the order of the walk, each a record
              \* [bucket, key, id, sec, frac]: last_modified is sec and frac
  SavedDirs,  \* what dumps may have left: sets of <<bucket, dir, sub>>
  MainDir,    \* barcode_id in main: from the cartridge memory
  WalkDir,    \* barcode_id in the walk: from the VOL1 label and the drive
  Requests,   \* [bucket, key, id] an operator may ask for
  MaxRuns     \* bound on the runs with --list

Objects == DOMAIN Entries
Buckets == {Entries[m].bucket : m \in Objects}
None    == << >>
Opening == 0                      \* { "ObjectList":[ {
Closing == Len(Entries) + 1       \* ] }

ASSUME EntriesAssumption ==
  /\ Entries \in Seq(Range(Entries))
  /\ \A m \in Objects : Entries[m].sec \in Nat
  /\ \A m, n \in Objects : m # n => Entries[m].id # Entries[n].id
ASSUME SavedDirsAssumption ==
  \A s \in SavedDirs : s \subseteq Buckets \X DirNumber \X DirNumber

VARIABLES
  lists,    \* the list files: name -> sequence of lines
  subs,     \* the subdirectories left by dumps
  pc,       \* "off", "delete", "walk" or "complete"
  info,     \* bucket_info_4_obj_reader
  next,     \* the object the walk comes to
  fp_list,  \* name of the open list, or None
  kept,     \* lines it had when it was opened: what is behind may be in a buffer
  pre,      \* <<pre_bucket_name_for_obj_r, pre_savepath_dir_number>>, or None
  todo,     \* lists to be completed
  finished, \* the last run with --list went to its end
  runs

vars == <<lists, subs, pc, info, next, fp_list, kept, pre, todo, finished, runs>>

Name(dir, bucket, n) == <<dir, bucket, n>>
ListsIn(dir) == {f \in DOMAIN lists : f[1] = dir}
Text(f) == IF f \in DOMAIN lists THEN lists[f] ELSE << >>
SetText(f, text) == [g \in DOMAIN lists \cup {f} |-> IF g = f THEN text ELSE lists[g]]

-----------------------------------------------------------------------------
(* A run with --list *)

Init ==
  /\ lists = << >> /\ subs \in SavedDirs /\ pc = "off"
  /\ info = [b \in Buckets |-> NoInfo] /\ next = 1 /\ fp_list = None /\ kept = 0
  /\ pre = None /\ todo = {} /\ finished = FALSE /\ runs = 0

StartList ==
  /\ pc = "off" /\ runs < MaxRuns
  /\ pc' = "delete" /\ finished' = FALSE /\ runs' = runs + 1
  /\ UNCHANGED <<lists, subs, info, next, fp_list, kept, pre, todo>>

\* delete_files_in_directory(list_dir, ".lst"), one file of main's directory.
DeleteList ==
  /\ pc = "delete"
  /\ \E f \in ListsIn(MainDir) : lists' = Restrict(lists, DOMAIN lists \ {f})
  /\ UNCHANGED <<subs, pc, info, next, fp_list, kept, pre, todo, finished, runs>>

\* Mutant: the lists of the run before are not deleted.
MayBeginAtOnce == TRUE

MayBegin == ListsIn(MainDir) = {}

\* check_integrity up to its loop.
BeginWalk ==
  /\ pc = "delete" /\ MayBegin
  /\ pc' = "walk" /\ next' = 1 /\ fp_list' = None /\ kept' = 0 /\ pre' = None
  /\ info' = [b \in Buckets |-> initialize_bucket_info(b, subs)]
  /\ UNCHANGED <<lists, subs, todo, finished, runs>>

\* mk_fp_flag = 0: the list of the object before.
SameList(bucket, dir) == pre = <<bucket, dir>>

\* add_key_value_pairs_to_array_in_json_file
Added(newList, m) == IF newList THEN <<Opening, m>> ELSE <<m>>

\* An object is met, and its directory counted as a dump would.
ListEntry ==
  /\ pc = "walk" /\ next \in Objects
  /\ LET b    == Entries[next].bucket
         i    == update_bucket_info(add_bucket_info(info[b]))
         f    == Name(WalkDir, b, i.dir)
         same == SameList(b, i.dir)
         into == IF same THEN fp_list ELSE f
         new  == ~same /\ f \notin DOMAIN lists
     IN  /\ info' = [info EXCEPT ![b] = i]
         /\ pre' = <<b, i.dir>>
         /\ fp_list' = IF Full(i) THEN None ELSE into
         /\ kept' = IF same THEN kept ELSE Len(Text(f))
         /\ lists' = IF Full(i) THEN lists
                     ELSE SetText(into, Text(into) \o Added(new, next))
  /\ next' = next + 1
  /\ UNCHANGED <<subs, pc, todo, finished, runs>>

\* The end of check_integrity.
EndWalk ==
  /\ pc = "walk" /\ next \notin Objects
  /\ pc' = "complete" /\ fp_list' = None /\ todo' = ListsIn(MainDir)
  /\ UNCHANGED <<lists, subs, info, next, kept, pre, finished, runs>>

\* comlete_list_files, one file.
CompleteList ==
  /\ pc = "complete"
  /\ \E f \in todo :
       /\ lists' = SetText(f, Append(lists[f], Closing))
       /\ todo' = todo \ {f}
  /\ UNCHANGED <<subs, pc, info, next, fp_list, kept, pre, finished, runs>>

Finish ==
  /\ pc = "complete" /\ todo = {}
  /\ pc' = "off" /\ finished' = TRUE
  /\ UNCHANGED <<lists, subs, info, next, fp_list, kept, pre, todo, runs>>

\* The program is stopped: of the open list any beginning has been written.
Stop ==
  /\ pc # "off"
  /\ pc' = "off" /\ fp_list' = None /\ todo' = {}
  /\ IF fp_list = None THEN lists' = lists
     ELSE \E n \in kept..Len(lists[fp_list]) :
            lists' = SetText(fp_list, SubSeq(lists[fp_list], 1, n))
  /\ UNCHANGED <<subs, info, next, kept, pre, finished, runs>>

Next ==
  \/ StartList \/ DeleteList \/ BeginWalk \/ ListEntry \/ EndWalk
  \/ CompleteList \/ Finish \/ Stop

Spec == Init /\ [][Next]_vars

-----------------------------------------------------------------------------
(* get_object_info_in_list *)

AnyId == {"all", "latest"}

\* compare_time_string: strptime stops at the point, fractions do not count.
Older(m, n) == Entries[m].sec < Entries[n].sec

\* Mutant: the comparison is with the first entry, not with the latest so far.
LatestLast(ms) ==
  LET latest[n \in 0..(Len(ms) - 1)] ==
        IF n = 0 THEN ms[1] ELSE IF Older(ms[1], ms[n + 1]) THEN ms[n + 1] ELSE latest[n - 1]
  IN  latest[Len(ms) - 1]

Latest(ms) ==
  LET latest[n \in 0..(Len(ms) - 1)] ==
        IF n = 0 THEN ms[1] ELSE IF Older(latest[n - 1], ms[n + 1]) THEN ms[n + 1] ELSE latest[n - 1]
  IN  latest[Len(ms) - 1]

\* add_object_list_key_flag and add_object_list_oid_flag, set for entry m or
\* left from an entry before.
KeyFlag(s, m, r) == s.key \/ Entries[m].key = r.key
OidFlag(s, m, r) == s.oid \/ r.id \in AnyId \/ Entries[m].id = r.id

ReadEntry(s, m, r) ==
  IF KeyFlag(s, m, r) /\ OidFlag(s, m, r)
  THEN [s EXCEPT !.objects = Append(@, m), !.key = FALSE, !.oid = FALSE,
                 !.stop = r.id \notin AnyId]
  ELSE [s EXCEPT !.key = KeyFlag(s, m, r), !.oid = OidFlag(s, m, r)]

ReadClosing(s, r) ==
  [s EXCEPT !.stop = TRUE,
            !.objects = IF @ # << >> /\ r.id = "latest" THEN <<Latest(@)>> ELSE @]

ReadLine(s, line, r) ==
  CASE s.stop -> s
    [] ~s.stop /\ ~s.inside -> [s EXCEPT !.inside = line = Opening]
    [] ~s.stop /\ s.inside /\ line = Closing -> ReadClosing(s, r)
    [] ~s.stop /\ s.inside /\ line \in Objects -> ReadEntry(s, line, r)
    [] OTHER -> s

BeforeReading(objects) ==
  [objects |-> objects, inside |-> FALSE, key |-> FALSE, oid |-> FALSE, stop |-> FALSE]

get_object_info_in_list(r, text, objects) ==
  LET read[n \in 0..Len(text)] ==
        IF n = 0 THEN BeforeReading(objects) ELSE ReadLine(read[n - 1], text[n], r)
  IN  read[Len(text)].objects

\* main looks into 0001, 0002, ... up to the first that is missing.
ListsSearched(bucket) ==
  Max({n \in 0..MaxSave : \A i \in 1..n : Name(MainDir, bucket, i) \in DOMAIN lists})

\* The objects main goes on to read; with none it exits.
Search(r) ==
  LET found[n \in 0..ListsSearched(r.bucket)] ==
        IF n = 0 THEN << >>
        ELSE get_object_info_in_list(r, lists[Name(MainDir, r.bucket, n)], found[n - 1])
  IN  found[ListsSearched(r.bucket)]

-----------------------------------------------------------------------------
(* Properties *)

\* An opening, entries in the order of the tape, a closing.
WellFormed(text) ==
  /\ Len(text) >= 3 /\ text[1] = Opening /\ text[Len(text)] = Closing
  /\ \A i \in 2..(Len(text) - 1) : text[i] \in Objects
  /\ \A i \in 2..(Len(text) - 2) : text[i] < text[i + 1]

\* Where a dump would put the objects of a bucket: the subdirectory in use when
\* the program was started, counted through all directories; the number of an
\* object in its bucket; the directory that follows from both.
RoundUp(a, b) == (a + b - 1) \div b
LastSlot(b, dirs) == Max({0} \cup {(s[2] - 1) * MaxSave + s[3] : s \in {t \in dirs : t[1] = b}})
Rank(m) == Cardinality({n \in 1..m : Entries[n].bucket = Entries[m].bucket})
ListNumber(m, dirs) ==
  RoundUp(LastSlot(Entries[m].bucket, dirs) + RoundUp(Rank(m), MaxSave), MaxSave)

InList(m, text) == \E i \in DOMAIN text : text[i] = m

\* Every object stands in one list, that of its bucket and of the directory a dump
\* made now would put it in; the objects such a dump would drop stand in none.
ListedOnce ==
  \A m \in Objects :
    {f \in DOMAIN lists : InList(m, lists[f])} =
      IF ListNumber(m, subs) <= MaxSave
      THEN {Name(WalkDir, Entries[m].bucket, ListNumber(m, subs))} ELSE {}

\* After a run with --list that went to its end, every list file is a whole JSON
\* text and every object is listed where it belongs, whatever stopped runs have
\* left behind before it.
ListsWhole ==
  finished => (\A f \in DOMAIN lists : WellFormed(lists[f])) /\ ListedOnce

\* The text names the objects of a set in the order of the tape.
Enumerates(ms, S) ==
  /\ Range(ms) = S
  /\ \A i, j \in DOMAIN ms : i < j => ms[i] < ms[j]

Versions(r) == {m \in Objects : Entries[m].bucket = r.bucket /\ Entries[m].key = r.key}

\* Of several of the latest second the first.
LatestOf(S) == {m \in S : \A n \in S \ {m} : Older(n, m) \/ (~Older(m, n) /\ m < n)}

\* Then, when no dump has been made into this save path, the search through
\* 0001, 0002, ... finds what is asked for: all versions of a key in the order of
\* the tape, the first of those with the latest second, or the version with the
\* id, if it has the key.
SearchFinds ==
  finished /\ subs = {} => \A r \in Requests :
    CASE r.id = "all" -> Enumerates(Search(r), Versions(r))
      [] r.id = "latest" -> Enumerates(Search(r), LatestOf(Versions(r)))
      [] OTHER -> \A m \in Versions(r) : Entries[m].id = r.id => Search(r) = <<m>>

\* No bucket has more objects than its directories have room for.
BucketsFit ==
  \A b \in Buckets :
    Cardinality({m \in Objects : Entries[m].bucket = b}) <= MaxSave * MaxSave * MaxSave

\* The objects a search selects have the key that was asked for.
SelectedHasKey ==
  finished => \A r \in Requests :
    \A i \in DOMAIN Search(r) : Entries[Search(r)[i]].key = r.key

\* "latest" selects one object, whether or not the list was finished.
OneLatest ==
  pc = "off" => \A r \in Requests : r.id = "latest" => Len(Search(r)) <= 1

\* "latest" selects the version modified last.
Later(n, m) == Older(m, n) \/ (Entries[n].sec = Entries[m].sec /\ Entries[n].frac > Entries[m].frac)

LatestIsLatest ==
  finished => \A r \in Requests : r.id = "latest" =>
    \A i \in DOMAIN Search(r) : \A n \in Versions(r) : ~Later(n, Search(r)[i])

\* Every object in a list can be read with the bucket, key and id the list gives.
ListedIsFound ==
  finished => \A m \in Objects :
    (\E f \in DOMAIN lists : InList(m, lists[f])) =>
      Search([bucket |-> Entries[m].bucket, key |-> Entries[m].key, id |-> Entries[m].id]) = <<m>>

\* A list has the entries of at most MaxSave objects.
ListSize ==
  \A f \in DOMAIN lists : Cardinality({i \in DOMAIN lists[f] : lists[f][i] \in Objects}) <= MaxSave
=============================================================================
