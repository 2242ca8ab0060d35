----------------------------- MODULE HistoryLog -----------------------------
(***************************************************************************)
(* history.log, where a dump writes the point to resume from: a section    *)
(* for each tape with four keys (output_history, get_history), every one   *)
(* of them read or written by read_or_write_ini, which copies the whole    *)
(* file to history.log_temp, removes it and renames the copy.              *)
(*                                                                         *)
(* A line is a record; a number stands for itself and 0 for an empty       *)
(* value, which atol makes of it.  Files have identities, since a read     *)
(* that finds its key leaves its copy open, to be flushed when the program *)
(* exits.                                                                  *)
(***************************************************************************)
EXTENDS Naturals, Sequences, FiniteSetsExt, Functions

CONSTANTS
  Tapes,     \* barcodes
  MaxRuns,   \* bound on the runs of the program
  MaxWrites  \* bound on the histories written

\* "none" stands for a name that is not there.
ASSUME TapesAssumption == "none" \notin Tapes

KeyOrder == <<"PR", "OCM", "PO", "Object_number">>
Keys == Range(KeyOrder)

VARIABLES
  ini,     \* history.log: [id, text], or NoFile
  temp,    \* history.log_temp: the same
  leaked,  \* open copies with their unwritten text, the last opened first
  pc,      \* "off", "idle", "open", "scan", "remove" or "rename"
  tape,    \* barcode_id
  rw,      \* "read" or "write"
  todo,    \* keys of this output_history or get_history still to be done
  value,   \* the number of the write, for the four counts it writes; 0 in a read
  got,     \* what a get_history has read
  fresh,   \* got has just been read completely
  runs, writes

vars == <<ini, temp, leaked, pc, tape, rw, todo, value, got, fresh, runs, writes>>

NoFile == [id |-> 0, text |-> << >>]
Nothing == [k \in Keys |-> 0]

Section(t) == [section |-> t, key |-> "none", value |-> 0]
KeyLine(k, v) == [section |-> "none", key |-> k, value |-> v]
IsSection(line) == line.section # "none"

-----------------------------------------------------------------------------
(* read_or_write_ini *)

\* Before the first line: nothing copied, outside the section asked for, the key
\* not yet written (add_flag) and not found.
BeforeScan == [out |-> << >>, inside |-> FALSE, added |-> FALSE, found |-> FALSE, value |-> 0]

\* Mutant: any header is taken for that of the section asked for.
ScanOutsideAny(s, line) ==
  [s EXCEPT !.out = Append(@, line), !.inside = IsSection(line)]

\* A line outside the section asked for.
ScanOutside(s, line) ==
  [s EXCEPT !.out = Append(@, line), !.inside = line = Section(tape)]

\* Mutant: the header read behind the section asked for is not written back.
ScanInsideNoHeader(s, line) ==
  CASE IsSection(line) ->
         [s EXCEPT !.out = @ \o (IF s.added THEN << >> ELSE <<KeyLine(Head(todo), value)>>),
                   !.inside = FALSE, !.added = TRUE]
    [] line.key = Head(todo) /\ rw = "read" ->
         [s EXCEPT !.found = TRUE, !.value = line.value]
    [] line.key = Head(todo) /\ rw = "write" ->
         [s EXCEPT !.out = Append(@, KeyLine(Head(todo), value)), !.added = TRUE]
    [] OTHER -> [s EXCEPT !.out = Append(@, line)]

\* Mutant: add_flag is not set when the key is updated in place.
ScanInsideNoFlag(s, line) ==
  CASE IsSection(line) ->
         [s EXCEPT !.out = @ \o (IF s.added THEN << >> ELSE <<KeyLine(Head(todo), value)>>)
                             \o <<line>>,
                   !.inside = FALSE, !.added = TRUE]
    [] line.key = Head(todo) /\ rw = "read" ->
         [s EXCEPT !.found = TRUE, !.value = line.value]
    [] line.key = Head(todo) /\ rw = "write" ->
         [s EXCEPT !.out = Append(@, KeyLine(Head(todo), value))]
    [] OTHER -> [s EXCEPT !.out = Append(@, line)]

\* A line inside it: the next header ends the section, with the key if it was not
\* there; the key is read, or written in its place; other keys are copied.
ScanInside(s, line) ==
  CASE IsSection(line) ->
         [s EXCEPT !.out = @ \o (IF s.added THEN << >> ELSE <<KeyLine(Head(todo), value)>>)
                             \o <<line>>,
                   !.inside = FALSE, !.added = TRUE]
    [] line.key = Head(todo) /\ rw = "read" ->
         [s EXCEPT !.found = TRUE, !.value = line.value]
    [] line.key = Head(todo) /\ rw = "write" ->
         [s EXCEPT !.out = Append(@, KeyLine(Head(todo), value)), !.added = TRUE]
    [] OTHER -> [s EXCEPT !.out = Append(@, line)]

ScanLine(s, line) ==
  CASE s.found               -> s
    [] ~s.found /\ s.inside  -> ScanInside(s, line)
    [] ~s.found /\ ~s.inside -> ScanOutside(s, line)

\* The end of the file: the key, and if need be the section, are added.
AtEnd(s) ==
  CASE s.inside /\ ~s.added -> s.out \o <<KeyLine(Head(todo), value)>>
    [] ~s.inside /\ ~s.added /\ rw = "write" ->
         s.out \o <<Section(tape), KeyLine(Head(todo), value)>>
    [] OTHER -> s.out

\* The lines of history.log one after the other.
Scanned[n \in 0..Len(ini.text)] ==
  IF n = 0 THEN BeforeScan ELSE ScanLine(Scanned[n - 1], ini.text[n])

WholeScan == Scanned[Len(ini.text)]

-----------------------------------------------------------------------------
(* The steps of a run, as far as a stop can tell them apart *)

\* Mutant: the copy is always written to the same file.
NewIdSame == 1

\* An identity no file and no open stream has.
Used == {ini.id, temp.id} \cup {leaked[i].id : i \in 1..Len(leaked)}

NewId == CHOOSE id \in 1..(Len(leaked) + 3) : id \notin Used

Init ==
  /\ ini = NoFile /\ temp = NoFile /\ leaked = << >> /\ pc = "off"
  /\ tape \in Tapes /\ rw = "read" /\ todo = << >> /\ value = 0
  /\ got = Nothing /\ fresh = FALSE /\ runs = 0 /\ writes = 0

Start ==
  /\ pc = "off" /\ runs < MaxRuns
  /\ pc' = "idle" /\ tape' \in Tapes /\ runs' = runs + 1
  /\ UNCHANGED <<ini, temp, leaked, rw, todo, value, got, fresh, writes>>

\* A resume dump; without a history.log it exits.
get_history ==
  /\ pc = "off" /\ runs < MaxRuns /\ ini # NoFile
  /\ pc' = "open" /\ tape' \in Tapes /\ runs' = runs + 1
  /\ rw' = "read" /\ todo' = KeyOrder /\ value' = 0 /\ got' = Nothing
  /\ UNCHANGED <<ini, temp, leaked, fresh, writes>>

output_history ==
  /\ pc = "idle" /\ writes < MaxWrites
  /\ pc' = "open" /\ rw' = "write" /\ todo' = KeyOrder /\ value' = writes + 1
  /\ got' = Nothing /\ fresh' = FALSE /\ writes' = writes + 1
  /\ UNCHANGED <<ini, temp, leaked, tape, runs>>

CreateIni ==
  /\ pc = "open" /\ ini = NoFile
  /\ ini' = [id |-> NewId, text |-> << >>]
  /\ UNCHANGED <<temp, leaked, pc, tape, rw, todo, value, got, fresh, runs, writes>>

\* fopen truncates a history.log_temp that is still there.
OpenTemp ==
  /\ pc = "open" /\ ini # NoFile
  /\ temp' = [id |-> IF temp = NoFile THEN NewId ELSE temp.id, text |-> << >>]
  /\ pc' = "scan"
  /\ UNCHANGED <<ini, leaked, tape, rw, todo, value, got, fresh, runs, writes>>

\* On to the next of the four keys.
NextKey ==
  /\ todo' = Tail(todo)
  /\ pc' = IF Len(todo) = 1 THEN "idle" ELSE "open"
  /\ fresh' = (rw = "read" /\ Len(todo) = 1)

\* A read that finds its key returns with both files open.
FindKey ==
  /\ pc = "scan"
  /\ WholeScan.found
  /\ got' = [got EXCEPT ![Head(todo)] = WholeScan.value]
  /\ leaked' = <<[id |-> temp.id, text |-> WholeScan.out]>> \o leaked
  /\ NextKey
  /\ UNCHANGED <<ini, temp, tape, rw, value, runs, writes>>

\* Otherwise the copy is written to the end.
CopyFile ==
  /\ pc = "scan"
  /\ ~WholeScan.found
  /\ temp' = [temp EXCEPT !.text = AtEnd(WholeScan)]
  /\ pc' = "remove"
  /\ UNCHANGED <<ini, leaked, tape, rw, todo, value, got, fresh, runs, writes>>

RemoveIni ==
  /\ pc = "remove"
  /\ ini' = NoFile /\ pc' = "rename"
  /\ UNCHANGED <<temp, leaked, tape, rw, todo, value, got, fresh, runs, writes>>

RenameTemp ==
  /\ pc = "rename"
  /\ ini' = temp /\ temp' = NoFile
  /\ NextKey
  /\ UNCHANGED <<leaked, tape, rw, value, got, runs, writes>>

\* What a file holds when a stream with some text is flushed at its beginning.
Flushed(file, stream) ==
  IF file.id # stream.id THEN file
  ELSE [file EXCEPT !.text = stream.text \o SubSeq(@, Len(stream.text) + 1, Len(@))]

\* All open streams, the last opened first.
AfterFlush(file) ==
  LET f[n \in 0..Len(leaked)] == IF n = 0 THEN file ELSE Flushed(f[n - 1], leaked[n])
  IN  f[Len(leaked)]

\* The end of the program, exit(1) included, which never comes while a history is
\* being read or written.
Exit ==
  /\ pc = "idle" /\ pc' = "off"
  /\ ini' = AfterFlush(ini)
  /\ temp' = AfterFlush(temp)
  /\ leaked' = << >> /\ value' = 0 /\ got' = Nothing /\ fresh' = FALSE
  /\ UNCHANGED <<tape, rw, todo, runs, writes>>

\* A signal or a power cut, at any moment.
Stop ==
  /\ pc # "off" /\ pc' = "off"
  /\ leaked' = << >> /\ todo' = << >> /\ value' = 0 /\ got' = Nothing /\ fresh' = FALSE
  /\ UNCHANGED <<ini, temp, tape, rw, runs, writes>>

Next ==
  \/ Start \/ get_history \/ output_history \/ CreateIni \/ OpenTemp \/ FindKey
  \/ CopyFile \/ RemoveIni \/ RenameTemp \/ Exit \/ Stop

Spec == Init /\ [][Next]_vars

-----------------------------------------------------------------------------
(* Properties *)

\* The tape whose section a line is in: that of the last header up to it.
Owner(text, i) ==
  LET headers == {h \in 1..i : IsSection(text[h])}
  IN  IF headers = {} THEN "none" ELSE text[Max(headers)].section

\* The number a file gives for a key of a tape.
Number(text, t, k) ==
  LET at == {i \in 1..Len(text) : text[i].key = k /\ Owner(text, i) = t}
  IN  IF at = {} THEN 0 ELSE text[Min(at)].value

Table(text) == [t \in Tapes |-> [k \in Keys |-> Number(text, t, k)]]

\* A tape has one section and a key one line in it, in whatever file holds the
\* history, however often runs of several tapes were stopped in their writes.
OneLinePerKey ==
  \A text \in {ini.text, temp.text} :
    \A i \in 1..Len(text) : \A j \in 1..(i - 1) :
      text[i].key = text[j].key => Owner(text, i) # Owner(text, j)

\* A resume dump starts from what history.log says of its own tape, also when its
\* reads had to add keys and so rewrote the file.
ReadsOwnSection ==
  fresh => \A k \in Keys : got[k] = Number(ini.text, tape, k)

\* The copies that reads left open do not damage history.log when they are
\* flushed, although one of them may have become history.log.
FlushKeepsHistory ==
  [][pc = "idle" /\ pc' = "off" => ini' = ini]_vars

\* history.log is a table in which a run changes its own tape's numbers only, and
\* nothing but the moment between remove and rename can lose it.
Store == INSTANCE HistoryStore WITH
  store   <- Table(IF pc = "rename" THEN temp.text ELSE ini.text),
  asked   <- [key |-> IF todo = << >> THEN "none" ELSE Head(todo), value |-> value],
  exposed <- pc = "rename"

IsAStore == Store!StoreSpec

\* A run that is stopped loses no tape's resume point.
StopKeepsHistory ==
  [][pc # "off" /\ pc' = "off" =>
       Table(ini'.text) = Table(IF pc = "rename" THEN temp.text ELSE ini.text)]_vars
=============================================================================
