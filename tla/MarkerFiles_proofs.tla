------------------------- MODULE MarkerFiles_proofs -------------------------
(***************************************************************************)
(* The four invariants of MarkerFiles hold for any tapes with any number   *)
(* of PRs of any size, any barcodes, any order in which cp finds the files *)
(* and any number of runs and failed reads.                                *)
(***************************************************************************)
EXTENDS MarkerFiles, SequenceTheorems, FiniteSetTheorems, TLAPS

-----------------------------------------------------------------------------
(* The inductive invariant *)

Parts == {"off", "restore", "labels", "formatted", "temp", "again", "prs", "rcm", "data", "save"}
OurBlock == [tape : Tapes, name : FileNames, part : Nat]
IsFiles(f) ==
  /\ DOMAIN f \subseteq FileNames /\ f = [name \in DOMAIN f |-> f[name]]
  /\ \A name \in DOMAIN f : f[name] \in Seq(OurBlock)

TypeOK ==
  /\ tape \in Tapes /\ barcode \in Barcodes /\ mode \in Modes /\ flag \in BOOLEAN
  /\ at \in [part : Parts, n : Nat \ {0}]
  /\ head \in [part : {"ref", "data"}, item : Nat \ {0}, done : Nat]
  /\ fm_num \in Nat /\ pr_num \in 0..Len(PrNames)
  /\ IsFiles(ref)
  /\ DOMAIN backup = {barcode[t] : t \in Tapes} /\ \A d \in DOMAIN backup : IsFiles(backup[d])
  /\ alt \in [name : FileNames \cup {"none"}, text : Seq(OurBlock)]
  /\ alarm \in BOOLEAN /\ walked \in {"no", "own", "foreign"} /\ refused \in BOOLEAN
  /\ faults \in Nat /\ cut \in BOOLEAN /\ runs \in Nat

\* The part of a run agrees with what it is for, and the step is one of the part.
PartInv ==
  /\ at.n <= Len(Steps(at.part)) + 1
  /\ at.part = "restore" => flag
  /\ at.part \in {"again", "prs", "rcm", "save"} => ~flag
  /\ at.part = "save" => mode = "dump"
  /\ flag => "OTFLabel" \in DOMAIN Files(tape)

Pass == at.part \in {"labels", "again"}
InData(from) == at.part = "data" /\ at.n >= from

\* The step of check_reference_partition_lable that reads a label.
DoneAt == [l \in Labels |-> CASE l = "OTFLabel" -> 4 [] l = "RCM_1" -> 6 [] l = "VOL1Label" -> 8 [] OTHER -> 10]

\* The labels read in the last pass.
Checked ==
  CASE at.part \in {"off", "restore"} -> {}
    [] Pass -> {l \in Labels : at.n > DoneAt[l]}
    [] OTHER -> Labels

\* The PRs that have been written.
PrsWritten ==
  CASE at.part = "prs" -> 1..(at.n - 1)
    [] at.part \in {"rcm", "data", "save"} -> 1..pr_num
    [] OTHER -> {}

Written ==
  IF at = [part |-> "again", n |-> 1] THEN Labels ELSE Checked \cup {PrNames[k] : k \in PrsWritten}

Writing == Doing({"write"}) /\ head.done > 0
Begun   == Running /\ at # [part |-> "labels", n |-> 1]
FromTape(text, t) == \A i \in DOMAIN text : text[i].tape = t
LabelsOf(files, t) == \A l \in Labels : l \in DOMAIN files /\ FromTape(files[l], t)

\* What is in reference_partition/.
RefInv ==
  /\ at.part = "restore" =>
       \A k \in 1..(at.n - 1) :
         Order[k] \in DOMAIN Files(tape) =>
           Order[k] \in DOMAIN ref /\ ref[Order[k]] = Files(tape)[Order[k]]
  /\ flag /\ Running /\ at.part # "restore" =>
       \A f \in DOMAIN Files(tape) : f \in DOMAIN ref /\ ref[f] = Files(tape)[f]
  /\ ~flag /\ Begun =>
       /\ DOMAIN ref = Written \cup (IF Writing THEN {Arg} ELSE {})
       /\ \A f \in DOMAIN ref : FromTape(ref[f], tape)
       /\ Writing => /\ Len(ref[Arg]) = head.done
                     /\ \A i \in 1..head.done : ref[Arg][i] = Here[i]

\* The tape the files of the run are from.
Source(u) == IF flag THEN LabelsOf(Files(tape), u) ELSE u = tape
Numbered  == at.part \notin {"off", "restore"} /\ (at.part = "labels" => at.n > 6)
Before(n) == Numbered /\ at.part # "save" /\ ~InData(n)

SourceInv ==
  \A u \in Tapes : Running /\ Source(u) /\ ~alarm =>
    /\ \A l \in Checked : l \in DOMAIN ref /\ ref[l] = Marker(u, l)
    /\ Numbered => pr_num = Len(PrBlocks[u])
    /\ Before(2) => alt.text = Marker(u, "RCM_1")
    /\ InData(4) => u = tape

AltInv ==
  /\ at.part = "restore" \/ (at.part = "labels" /\ at.n <= 6) => alt = NoFile
  /\ Before(2) => alt.name = "RCM_1" /\ pr_num = PrNumber(alt)
  /\ InData(2) /\ ~InData(4) /\ pr_num > 0 => alt.name \notin Labels
  /\ InData(4) /\ ~InData(6) => alt.name = "RCM_1"
  /\ InData(6) /\ ~InData(7) => alt.name = "VOL1Label"
  /\ InData(7) /\ ~InData(8) => alt.name = "OTFLabel"

MarksInv ==
  /\ Before(3) => fm_num = Items(tape, "ref")
  /\ at.part = "labels" /\ at.n = 6 => fm_num = Items(tape, "ref")
  /\ InData(3) => fm_num = Items(tape, "data")

InRef(items) == head.part = "ref" /\ head.item \in items
BadRcm0 == Text("RCM_0") # Marker(tape, "RCM_0")

HeadInv ==
  /\ at.part \notin {"off", "data", "save"} => head.part = "ref"
  /\ Running /\ head.done > 0 => Doing(WriteSteps) /\ ~AtEnd /\ head.done <= Len(Here)
  /\ Pass =>
       /\ at.n = 3 => InRef({1})
       /\ at.n = 4 => InRef({2})
       /\ at.n = 6 => InRef({Items(tape, "ref")})
       /\ at.n = 8 => InRef({1})
       /\ at.n = 9 => InRef({2})
       /\ at.n = 10 => InRef(IF faults = 0 THEN {3} ELSE {2, 3})
       /\ at.n = 11 /\ (faults = 0 \/ (~flag /\ ~alarm)) => head = Front("ref", 4)
  /\ at.part = "formatted" =>
       /\ at.n = 2 => ~alarm
       /\ faults = 0 \/ (~flag /\ ~alarm) => head = Front("ref", 4)
  /\ at.part = "prs" /\ faults = 0 => InRef({at.n + 3})
  /\ at.part = "rcm" /\ at.n = 1 /\ faults = 0 => head = LastRcm("ref")
  /\ at.part = "data" =>
       /\ at.n = 3 => head = LastRcm("data")
       /\ ~flag => 
          /\ at.n = 5 => head = Front("data", 1)
          /\ at.n = 6 => head = Front("data", 2)
          /\ at.n = 7 => \/ head = Front("data", 3)
                         \/ /\ head = Front("data", 2) /\ alarm /\ faults > 0
                            /\ BadRcm0 => faults > 1
          /\ at.n \in {8, 9} /\ (faults <= 1 \/ ~alarm) => head = Front("data", 4)

\* All reads have succeeded, and restored files are a whole backup.
Exact(u) == faults = 0 /\ (IF flag THEN Files(tape) = Own(u) ELSE u = tape)

ExactInv ==
  \A u \in Tapes : Exact(u) =>
    /\ ~refused
    /\ u = tape => ~alarm
    /\ Running /\ ~InData(4) => ~alarm
    /\ ~flag /\ Begun => \A f \in Written : ref[f] = Marker(tape, f)

Saved ==
  LET files == Files(tape)
  IN  /\ DOMAIN files = {f \in DOMAIN ref : \E k \in 1..(at.n - 1) : Order[k] = f}
      /\ \A f \in DOMAIN files : files[f] = ref[f]

BackupInv == ~cut =>
  /\ at.part = "save" => Saved
  /\ ~flag /\ Running /\ at.part # "save" => DOMAIN Files(tape) = {}
  /\ \A d \in DOMAIN backup :
       \/ at.part = "save" /\ d = barcode[tape]
       \/ DOMAIN backup[d] = {}
       \/ /\ \E u \in Tapes : LabelsOf(backup[d], u)
          /\ faults = 0 => \E t \in Tapes : barcode[t] = d /\ backup[d] = Own(t)

IInv ==
  /\ TypeOK /\ PartInv /\ RefInv /\ SourceInv /\ AltInv /\ MarksInv /\ HeadInv /\ ExactInv
  /\ BackupInv /\ WrongMarkersReported

-----------------------------------------------------------------------------
(* Markers and their places *)

LEMMA PrFacts ==
  /\ Len(PrNames) \in Nat /\ DOMAIN PrNames = 1..Len(PrNames)
  /\ \A t \in Tapes : Len(PrBlocks[t]) \in 1..Len(PrNames)
  /\ \A n \in DOMAIN PrNames : PrNames[n] \in FileNames /\ PrNames[n] \notin Labels /\ PrNames[n] # "none"
  /\ \A m, n \in DOMAIN PrNames : PrNames[m] = PrNames[n] => m = n
  /\ \A t \in Tapes : PrNumbers(t) \subseteq DOMAIN PrNames
  /\ Labels \subseteq FileNames
<1>1. Len(PrNames) \in Nat /\ DOMAIN PrNames = 1..Len(PrNames)
  BY PrAssumption
<1>2. \A t \in Tapes : Len(PrBlocks[t]) \in 1..Len(PrNames)
  BY PrAssumption
<1>3. \A t \in Tapes : PrNumbers(t) \subseteq DOMAIN PrNames
  BY <1>1, <1>2 DEF PrNumbers
<1> QED
  BY <1>1, <1>2, <1>3, PrAssumption DEF FileNames

LEMMA LabelNames ==
  /\ \A l \in Labels : l \in {"VOL1Label", "OTFLabel", "RCM_0", "RCM_1"} /\ l # "none"
  /\ "VOL1Label" \in Labels /\ "OTFLabel" \in Labels /\ "RCM_0" \in Labels /\ "RCM_1" \in Labels
BY DEF Labels

\* A marker has blocks, of its tape, and a label has one.
LEMMA MarkerFacts ==
  ASSUME NEW t \in Tapes, NEW name
  PROVE  /\ Size(t, name) \in Nat \ {0} /\ (name \in Labels => Size(t, name) = 1)
         /\ Len(Marker(t, name)) = Size(t, name)
         /\ \A i \in 1..Size(t, name) : Marker(t, name)[i] = Block(t, name, i)
         /\ DOMAIN Marker(t, name) = 1..Size(t, name)
         /\ Marker(t, name) # << >>
         /\ Marker(t, name)[1] = Block(t, name, 1) /\ 1 \in DOMAIN Marker(t, name)
         /\ FromTape(Marker(t, name), t)
         /\ name \in FileNames => Marker(t, name) \in Seq(OurBlock)
<1>1. Size(t, name) \in Nat \ {0}
  <2>1. CASE \E n \in PrNumbers(t) : PrNames[n] = name
    <3>1. PrBlocks[t] \in Seq(Nat \ {0}) /\ Len(PrBlocks[t]) \in Nat
      BY PrAssumption
    <3>2. (CHOOSE n \in PrNumbers(t) : PrNames[n] = name) \in 1..Len(PrBlocks[t])
      BY <2>1 DEF PrNumbers
    <3>3. PrBlocks[t][CHOOSE n \in PrNumbers(t) : PrNames[n] = name] \in Nat \ {0}
      BY <3>1, <3>2, ElementOfSeq
    <3> QED
      BY <2>1, <3>3 DEF Size
  <2>2. CASE ~\E n \in PrNumbers(t) : PrNames[n] = name
    BY <2>2 DEF Size
  <2> QED
    BY <2>1, <2>2
<1>2. name \in Labels => Size(t, name) = 1
  BY PrFacts DEF Size
<1>3. /\ DOMAIN Marker(t, name) = 1..Size(t, name)
      /\ \A i \in 1..Size(t, name) : Marker(t, name)[i] = Block(t, name, i)
  BY DEF Marker
<1>4. Len(Marker(t, name)) = Size(t, name)
  BY <1>1 DEF Marker
<1>5. FromTape(Marker(t, name), t)
  BY <1>3 DEF FromTape, Block
<1>6. name \in FileNames => Marker(t, name) \in Seq(OurBlock)
  <2> HAVE name \in FileNames
  <2>1. \A i \in 1..Size(t, name) : Block(t, name, i) \in OurBlock
    BY <1>1 DEF Block, OurBlock
  <2> QED
    BY <1>1, <2>1 DEF Marker
<1>7. 1 \in 1..Size(t, name) /\ Len(<< >>) = 0
  BY <1>1
<1> QED
  BY <1>1, <1>2, <1>3, <1>4, <1>5, <1>6, <1>7

\* Markers with the same blocks are of the same tape and have the same name.
LEMMA MarkerOwn ==
  ASSUME NEW t \in Tapes, NEW u \in Tapes, NEW name, NEW other, Marker(t, name) = Marker(u, other)
  PROVE  t = u /\ name = other
<1>1. Block(t, name, 1) = Block(u, other, 1)
  BY MarkerFacts
<1> QED
  BY <1>1 DEF Block

LEMMA ItemFacts ==
  ASSUME NEW t \in Tapes
  PROVE  /\ \A part \in {"ref", "data"} :
              /\ Items(t, part) \in Nat /\ Items(t, part) >= 5
              /\ Item(t, part, 1) = "VOL1Label" /\ Item(t, part, 2) = "OTFLabel"
              /\ Item(t, part, 3) = "RCM_0" /\ Item(t, part, Items(t, part)) = "RCM_1"
         /\ Items(t, "ref") = Len(PrBlocks[t]) + 4 /\ Items(t, "data") = 3 * Len(PrBlocks[t]) + 4
         /\ \A n \in PrNumbers(t) : Item(t, "ref", n + 3) = PrNames[n]
         /\ \A n \in 1..Items(t, "ref") : Item(t, "ref", n) \in FileNames
<1>1. Len(PrBlocks[t]) \in Nat /\ Len(PrBlocks[t]) >= 1
  BY PrFacts
<1>2. Items(t, "ref") = Len(PrBlocks[t]) + 4 /\ Items(t, "data") = 3 * Len(PrBlocks[t]) + 4
  BY <1>1 DEF Items
<1>3. \A part \in {"ref", "data"} : Items(t, part) \in Nat /\ Items(t, part) >= 5
  BY <1>1, <1>2
<1>4. \A part \in {"ref", "data"} :
        /\ Item(t, part, 1) = "VOL1Label" /\ Item(t, part, 2) = "OTFLabel"
        /\ Item(t, part, 3) = "RCM_0" /\ Item(t, part, Items(t, part)) = "RCM_1"
  BY <1>3 DEF Item
<1>5. \A n \in PrNumbers(t) : Item(t, "ref", n + 3) = PrNames[n]
  <2> TAKE n \in PrNumbers(t)
  <2>1. n \in Nat /\ n >= 1 /\ n <= Len(PrBlocks[t])
    BY <1>1 DEF PrNumbers
  <2> DEFINE k == n + 3
  <2>2. k # 1 /\ k # 2 /\ k # 3 /\ k # Items(t, "ref") /\ k - 3 = n
    BY <1>1, <1>2, <2>1
  <2> HIDE DEF k
  <2>3. Item(t, "ref", k) = PrNames[k - 3]
    BY <2>2 DEF Item
  <2> QED
    BY <2>2, <2>3 DEF k
<1>6. \A n \in 1..Items(t, "ref") : Item(t, "ref", n) \in FileNames
  <2> TAKE n \in 1..Items(t, "ref")
  <2>1. CASE n \in {1, 2, 3, Items(t, "ref")}
    BY <1>4, <2>1, PrFacts, LabelNames
  <2>2. CASE n \notin {1, 2, 3, Items(t, "ref")}
    <3>1. n - 3 \in PrNumbers(t) /\ (n - 3) + 3 = n
      BY <1>1, <1>2, <2>2 DEF PrNumbers
    <3>2. Item(t, "ref", n) = PrNames[n - 3]
      BY <1>5, <3>1
    <3> QED
      BY <3>1, <3>2, PrFacts
  <2> QED
    BY <2>1, <2>2
<1> QED
  BY <1>2, <1>3, <1>4, <1>5, <1>6

-----------------------------------------------------------------------------
(* The steps of a run *)

LEMMA LabelSteps ==
  /\ Len(check_reference_partition_lable) = 10
  /\ check_reference_partition_lable[1] = <<"clear", "none">>
  /\ check_reference_partition_lable[2] = <<"begin", "ref">>
  /\ check_reference_partition_lable[3] = <<"mark", "none">>
  /\ check_reference_partition_lable[4] = <<"write", "OTFLabel">>
  /\ check_reference_partition_lable[5] = <<"last", "ref">>
  /\ check_reference_partition_lable[6] = <<"write", "RCM_1">>
  /\ check_reference_partition_lable[7] = <<"begin", "ref">>
  /\ check_reference_partition_lable[8] = <<"write", "VOL1Label">>
  /\ check_reference_partition_lable[9] = <<"skim", "OTFLabel">>
  /\ check_reference_partition_lable[10] = <<"write", "RCM_0">>
BY DEF check_reference_partition_lable

LEMMA DataStepsAre ==
  /\ flag => /\ Len(DataSteps) = 4
             /\ DataSteps[1] = <<"numbers", "none">> /\ DataSteps[2] = <<"last", "data">>
             /\ DataSteps[3] = <<"diff", "RCM_1">> /\ DataSteps[4] = <<"walk", "none">>
  /\ ~flag => /\ Len(DataSteps) = 9
              /\ DataSteps[1] = <<"numbers", "none">> /\ DataSteps[2] = <<"last", "data">>
              /\ DataSteps[3] = <<"diff", "RCM_1">> /\ DataSteps[4] = <<"begin", "data">>
              /\ DataSteps[5] = <<"diff", "VOL1Label">> /\ DataSteps[6] = <<"diff", "OTFLabel">>
              /\ DataSteps[7] = <<"diff", "RCM_0">> /\ DataSteps[8] = <<"count", "data">>
              /\ DataSteps[9] = <<"walk", "none">>
BY DEF DataSteps

\* The number of steps of a part.
LEMMA PartLengths ==
  ASSUME TypeOK
  PROVE  /\ at.part = "off" => Len(Steps(at.part)) = 0
         /\ at.part \in {"restore", "save"} => Len(Steps(at.part)) = Len(Order)
         /\ Pass => Len(Steps(at.part)) = 10
         /\ at.part = "formatted" => Len(Steps(at.part)) = 1
         /\ at.part \in {"temp", "prs"} => Len(Steps(at.part)) = pr_num
         /\ at.part = "rcm" => Len(Steps(at.part)) = 2
         /\ at.part = "data" => Len(Steps(at.part)) = IF flag THEN 4 ELSE 9
<1>1. Len(Order) \in Nat /\ DOMAIN Order = 1..Len(Order)
  BY OrderAssumption
<1>2. pr_num \in Nat
  BY PrFacts DEF TypeOK
<1>3. at.part \in {"restore", "save"} => Len(Steps(at.part)) = Len(Order)
  BY <1>1 DEF Steps, Copies
<1>4. at.part \in {"temp", "prs"} => Len(Steps(at.part)) = pr_num
  BY <1>2 DEF Steps, PrSteps
<1> QED
  BY <1>3, <1>4, LabelSteps, DataStepsAre DEF Steps, Pass

\* The step at each place of a part.
LEMMA StepTable ==
  ASSUME TypeOK, InPart
  PROVE  /\ at.part \in {"restore", "save"} =>
              at.n \in 1..Len(Order) /\ Step[1] = at.part /\ Arg = Order[at.n]
         /\ Pass => at.n \in 1..10 /\ Step = check_reference_partition_lable[at.n]
         /\ at.part = "formatted" => at.n = 1 /\ Step[1] = "formatted"
         /\ at.part = "temp" => at.n \in 1..pr_num /\ Step[1] = "temp" /\ Arg = PrNames[at.n]
         /\ at.part = "prs" => at.n \in 1..pr_num /\ Step[1] = "write" /\ Arg = PrNames[at.n]
         /\ at.part = "rcm" => /\ at.n \in 1..2
                               /\ at.n = 1 => Step[1] = "rcm"
                               /\ at.n = 2 => Step[1] = "count" /\ Arg = "ref"
         /\ at.part = "data" => at.n \in 1..(IF flag THEN 4 ELSE 9) /\ Step = DataSteps[at.n]
         /\ at.part # "off"
<1>1. at.n \in Nat /\ at.n >= 1 /\ at.n <= Len(Steps(at.part)) /\ at.part # "off"
  BY DEF TypeOK, InPart, Running
<1>2. DOMAIN Order = 1..Len(Order) /\ Len(Order) \in Nat /\ pr_num \in Nat
  BY OrderAssumption, PrFacts DEF TypeOK
<1>3. ASSUME at.part \in {"restore", "save"}
      PROVE  at.n \in 1..Len(Order) /\ Step[1] = at.part /\ Arg = Order[at.n]
  <2>1. at.n \in 1..Len(Order)
    BY <1>1, <1>2, <1>3, PartLengths
  <2>2. Steps(at.part) = Copies(at.part)
    BY <1>3 DEF Steps
  <2>3. Copies(at.part)[at.n] = <<at.part, Order[at.n]>>
    BY <1>2, <2>1 DEF Copies
  <2> QED
    BY <2>1, <2>2, <2>3 DEF Step, Arg
<1>4. ASSUME Pass
      PROVE  at.n \in 1..10 /\ Step = check_reference_partition_lable[at.n]
  <2>0. Len(Steps(at.part)) = 10
    BY <1>4, PartLengths
  <2>1. at.n \in 1..10
    BY <1>1, <2>0
  <2>2. Steps(at.part) = check_reference_partition_lable
    BY <1>4 DEF Steps, Pass
  <2> QED
    BY <2>1, <2>2 DEF Step
<1>5. ASSUME at.part = "formatted"
      PROVE  at.n = 1 /\ Step[1] = "formatted"
  <2>0. Len(Steps(at.part)) = 1
    BY <1>5, PartLengths
  <2>1. at.n = 1
    BY <1>1, <2>0
  <2>2. Steps(at.part) = <<<<"formatted", "none">>>>
    BY <1>5 DEF Steps
  <2> QED
    BY <2>1, <2>2 DEF Step
<1>6. ASSUME NEW op \in {"temp", "write"}, at.part = (IF op = "temp" THEN "temp" ELSE "prs")
      PROVE  at.n \in 1..pr_num /\ Step[1] = op /\ Arg = PrNames[at.n]
  <2>1. at.n \in 1..pr_num
    BY <1>1, <1>2, <1>6, PartLengths
  <2>2. Steps(at.part) = PrSteps(op)
    BY <1>6 DEF Steps
  <2>3. PrSteps(op)[at.n] = <<op, PrNames[at.n]>>
    BY <1>2, <2>1 DEF PrSteps
  <2> QED
    BY <2>1, <2>2, <2>3 DEF Step, Arg
<1>7. ASSUME at.part = "rcm"
      PROVE  /\ at.n \in 1..2
             /\ at.n = 1 => Step[1] = "rcm"
             /\ at.n = 2 => Step[1] = "count" /\ Arg = "ref"
  <2>0. Len(Steps(at.part)) = 2
    BY <1>7, PartLengths
  <2>1. at.n \in 1..2
    BY <1>1, <2>0
  <2>2. Steps(at.part) = <<<<"rcm", "none">>, <<"count", "ref">>>>
    BY <1>7 DEF Steps
  <2> QED
    BY <2>1, <2>2 DEF Step, Arg
<1>8. ASSUME at.part = "data"
      PROVE  at.n \in 1..(IF flag THEN 4 ELSE 9) /\ Step = DataSteps[at.n]
  <2>0. Len(Steps(at.part)) = (IF flag THEN 4 ELSE 9)
    BY <1>8, PartLengths
  <2>1. at.n \in 1..(IF flag THEN 4 ELSE 9)
    BY <1>1, <2>0
  <2>2. Steps(at.part) = DataSteps
    BY <1>8 DEF Steps
  <2> QED
    BY <2>1, <2>2 DEF Step
<1> QED
  BY <1>1, <1>3, <1>4, <1>5, <1>6, <1>7, <1>8

\* The step at each place of the two passes over the labels and of the comparison.
LEMMA PassTable ==
  ASSUME TypeOK, InPart, Pass
  PROVE  \/ at.n = 1  /\ Step[1] = "clear"
         \/ at.n = 2  /\ Step[1] = "begin" /\ Arg = "ref"
         \/ at.n = 3  /\ Step[1] = "mark"
         \/ at.n = 4  /\ Step[1] = "write" /\ Arg = "OTFLabel"
         \/ at.n = 5  /\ Step[1] = "last" /\ Arg = "ref"
         \/ at.n = 6  /\ Step[1] = "write" /\ Arg = "RCM_1"
         \/ at.n = 7  /\ Step[1] = "begin" /\ Arg = "ref"
         \/ at.n = 8  /\ Step[1] = "write" /\ Arg = "VOL1Label"
         \/ at.n = 9  /\ Step[1] = "skim" /\ Arg = "OTFLabel"
         \/ at.n = 10 /\ Step[1] = "write" /\ Arg = "RCM_0"
<1>1. at.n \in 1..10 /\ Step = check_reference_partition_lable[at.n]
  BY StepTable
<1>2. CASE at.n \in {1, 2, 3, 4, 5}
  BY <1>1, <1>2, LabelSteps DEF Arg
<1>3. CASE at.n \in {6, 7, 8, 9, 10}
  BY <1>1, <1>3, LabelSteps DEF Arg
<1> QED
  BY <1>1, <1>2, <1>3

LEMMA DataTable ==
  ASSUME TypeOK, InPart, at.part = "data"
  PROVE  \/ at.n = 1 /\ Step[1] = "numbers"
         \/ at.n = 2 /\ Step[1] = "last" /\ Arg = "data"
         \/ at.n = 3 /\ Step[1] = "diff" /\ Arg = "RCM_1"
         \/ at.n = 4 /\ flag /\ Step[1] = "walk"
         \/ ~flag /\ \/ at.n = 4 /\ Step[1] = "begin" /\ Arg = "data"
                     \/ at.n = 5 /\ Step[1] = "diff" /\ Arg = "VOL1Label"
                     \/ at.n = 6 /\ Step[1] = "diff" /\ Arg = "OTFLabel"
                     \/ at.n = 7 /\ Step[1] = "diff" /\ Arg = "RCM_0"
                     \/ at.n = 8 /\ Step[1] = "count" /\ Arg = "data"
                     \/ at.n = 9 /\ Step[1] = "walk"
<1>1. at.n \in 1..(IF flag THEN 4 ELSE 9) /\ Step = DataSteps[at.n] /\ flag \in BOOLEAN
  BY StepTable DEF TypeOK
<1>2. CASE flag
  <2>1. at.n \in {1, 2, 3, 4}
    BY <1>1, <1>2
  <2> QED
    BY <1>1, <1>2, <2>1, DataStepsAre DEF Arg
<1>3. CASE ~flag
  <2>1. at.n \in {1, 2, 3, 4, 5, 6, 7, 8, 9}
    BY <1>1, <1>3
  <2> QED
    BY <1>1, <1>3, <2>1, DataStepsAre DEF Arg
<1> QED
  BY <1>1, <1>2, <1>3

\* Where a marker is read.
LEMMA AtWrite ==
  ASSUME TypeOK, Doing(WriteSteps)
  PROVE  /\ InPart
         /\ \/ /\ Pass
               /\ \/ at.n = 4  /\ Step[1] = "write" /\ Arg = "OTFLabel"
                  \/ at.n = 6  /\ Step[1] = "write" /\ Arg = "RCM_1"
                  \/ at.n = 8  /\ Step[1] = "write" /\ Arg = "VOL1Label"
                  \/ at.n = 9  /\ Step[1] = "skim" /\ Arg = "OTFLabel"
                  \/ at.n = 10 /\ Step[1] = "write" /\ Arg = "RCM_0"
            \/ at.part = "prs" /\ at.n \in 1..pr_num /\ Step[1] = "write" /\ Arg = PrNames[at.n]
            \/ at.part = "temp" /\ at.n \in 1..pr_num /\ Step[1] = "temp" /\ Arg = PrNames[at.n]
<1>1. InPart /\ Step[1] \in {"write", "skim", "temp"}
  BY DEF Doing, WriteSteps
<1>2. CASE Pass
  BY <1>1, <1>2, PassTable
<1>3. CASE at.part = "data"
  BY <1>1, <1>3, DataTable
<1>4. CASE at.part \in {"restore", "save", "formatted", "temp", "prs"}
  BY <1>1, <1>4, StepTable
<1>5. CASE at.part = "rcm"
  BY <1>1, <1>5, StepTable
<1> QED
  BY <1>1, <1>2, <1>3, <1>4, <1>5, StepTable DEF TypeOK, Parts, Pass

\* Where the other steps are.
LEMMA AtOther ==
  ASSUME TypeOK, InPart
  PROVE  /\ Step[1] = "restore" => at.part = "restore"
         /\ Step[1] = "save" => at.part = "save"
         /\ Step[1] = "clear" => Pass /\ at.n = 1
         /\ Step[1] = "formatted" => at.part = "formatted" /\ at.n = 1
         /\ Step[1] = "rcm" => at.part = "rcm" /\ at.n = 1
         /\ Step[1] = "numbers" => at.part = "data" /\ at.n = 1
         /\ Step[1] = "walk" => at.part = "data" /\ at.n = (IF flag THEN 4 ELSE 9)
         /\ Step[1] = "count" => \/ at.part = "rcm" /\ at.n = 2 /\ Arg = "ref"
                                 \/ at.part = "data" /\ at.n = 8 /\ ~flag /\ Arg = "data"
         /\ Step[1] = "diff" => /\ at.part = "data"
                                /\ \/ at.n = 3 /\ Arg = "RCM_1"
                                   \/ ~flag /\ \/ at.n = 5 /\ Arg = "VOL1Label"
                                               \/ at.n = 6 /\ Arg = "OTFLabel"
                                               \/ at.n = 7 /\ Arg = "RCM_0"
         /\ Step[1] \in {"begin", "mark", "last"} =>
              \/ Pass /\ \/ at.n = 2 /\ Step[1] = "begin" /\ Arg = "ref"
                         \/ at.n = 3 /\ Step[1] = "mark"
                         \/ at.n = 5 /\ Step[1] = "last" /\ Arg = "ref"
                         \/ at.n = 7 /\ Step[1] = "begin" /\ Arg = "ref"
              \/ at.part = "data" /\ \/ at.n = 2 /\ Step[1] = "last" /\ Arg = "data"
                                     \/ at.n = 4 /\ ~flag /\ Step[1] = "begin" /\ Arg = "data"
<1>2. CASE Pass
  BY <1>2, PassTable DEF Pass
<1>3. CASE at.part = "data"
  BY <1>3, DataTable
<1>4. CASE at.part \in {"restore", "save", "formatted", "temp", "prs"}
  BY <1>4, StepTable
<1>5. CASE at.part = "rcm"
  BY <1>5, StepTable
<1> QED
  BY <1>2, <1>3, <1>4, <1>5, StepTable DEF TypeOK, Parts, Pass

-----------------------------------------------------------------------------
(* Going on without a change of the files *)

Onward ==
  /\ Running
  /\ \/ InPart /\ Step[1] \notin {"write", "clear", "restore", "save"} /\ at' = [at EXCEPT !.n = @ + 1]
     \/ ~InPart /\ at' = [part |-> PartAfter(at.part), n |-> 1]

LEMMA GoesAt ==
  ASSUME TypeOK, at' = [at EXCEPT !.n = @ + 1]
  PROVE  at' \in [part : Parts, n : Nat \ {0}] /\ at'.part = at.part /\ at'.n = at.n + 1
BY DEF TypeOK

\* The place of a run that has done a part.
LEMMA AtEndOfPart ==
  ASSUME TypeOK, PartInv, Running, ~InPart
  PROVE  \/ at.part \in {"restore", "save"} /\ at.n = Len(Order) + 1
         \/ Pass /\ at.n = 11
         \/ at.part = "formatted" /\ at.n = 2
         \/ at.part \in {"temp", "prs"} /\ at.n = pr_num + 1
         \/ at.part = "rcm" /\ at.n = 3
         \/ at.part = "data" /\ at.n = IF flag THEN 5 ELSE 10
<1>1. at.n \in Nat /\ pr_num \in Nat /\ Len(Order) \in Nat
  BY OrderAssumption, PrFacts DEF TypeOK
<1>2. ASSUME NEW k \in Nat, Len(Steps(at.part)) = k PROVE at.n = k + 1
  BY <1>1, <1>2 DEF PartInv, InPart
<1>3. CASE at.part \in {"restore", "save"}
  <2>1. Len(Steps(at.part)) = Len(Order)
    BY <1>3, PartLengths
  <2> QED
    BY <1>1, <1>2, <1>3, <2>1
<1>4. CASE Pass
  <2>1. Len(Steps(at.part)) = 10
    BY <1>4, PartLengths
  <2>2. at.n = 10 + 1
    BY <1>2, <2>1
  <2> QED
    BY <1>4, <2>2
<1>5. CASE at.part = "formatted"
  <2>1. Len(Steps(at.part)) = 1
    BY <1>5, PartLengths
  <2>2. at.n = 1 + 1
    BY <1>2, <2>1
  <2> QED
    BY <1>5, <2>2
<1>6. CASE at.part \in {"temp", "prs"}
  <2>1. Len(Steps(at.part)) = pr_num
    BY <1>6, PartLengths
  <2> QED
    BY <1>1, <1>2, <1>6, <2>1
<1>7. CASE at.part = "rcm"
  <2>1. Len(Steps(at.part)) = 2
    BY <1>7, PartLengths
  <2>2. at.n = 2 + 1
    BY <1>2, <2>1
  <2> QED
    BY <1>7, <2>2
<1>8. CASE at.part = "data"
  <2>1. Len(Steps(at.part)) = IF flag THEN 4 ELSE 9
    BY <1>8, PartLengths
  <2>2. at.n = (IF flag THEN 4 ELSE 9) + 1
    BY <1>2, <2>1
  <2> QED
    BY <1>8, <2>2
<1> QED
  BY <1>3, <1>4, <1>5, <1>6, <1>7, <1>8 DEF TypeOK, Parts, Pass, Running

LEMMA OnwardTable ==
  ASSUME TypeOK, PartInv, Onward
  PROVE  /\ at' \in [part : Parts, n : Nat \ {0}]
         /\ \/ at.part = "restore" /\ at.n = Len(Order) + 1 /\ at'.part = "labels" /\ at'.n = 1
            \/ Pass /\ at.n \in {2, 3, 5, 7, 9} /\ at'.part = at.part /\ at'.n = at.n + 1
            \/ at.part = "labels" /\ at.n = 11 /\ at'.part = "formatted" /\ at'.n = 1
            \/ at.part = "formatted" /\ at.n = 1 /\ at'.part = "formatted" /\ at'.n = 2
            \/ at.part = "formatted" /\ at.n = 2 /\ at'.part = "temp" /\ at'.n = 1
            \/ at.part = "temp" /\ at.n \in 1..pr_num /\ at'.part = "temp" /\ at'.n = at.n + 1
            \/ /\ at.part = "temp" /\ at.n = pr_num + 1 /\ at'.n = 1
               /\ at'.part = IF mode = "read" THEN "off" ELSE IF flag THEN "data" ELSE "again"
            \/ at.part = "again" /\ at.n = 11 /\ at'.part = "prs" /\ at'.n = 1
            \/ at.part = "prs" /\ at.n = pr_num + 1 /\ at'.part = "rcm" /\ at'.n = 1
            \/ at.part = "rcm" /\ at.n \in {1, 2} /\ at'.part = "rcm" /\ at'.n = at.n + 1
            \/ at.part = "rcm" /\ at.n = 3 /\ at'.part = "data" /\ at'.n = 1
            \/ /\ at.part = "data" /\ at.n \in 1..(IF flag THEN 4 ELSE 9)
               /\ at'.part = "data" /\ at'.n = at.n + 1
            \/ /\ at.part = "data" /\ at.n = (IF flag THEN 5 ELSE 10) /\ at'.n = 1
               /\ at'.part = IF mode = "dump" /\ ~flag THEN "save" ELSE "off"
            \/ at.part = "save" /\ at.n = Len(Order) + 1 /\ at'.part = "off" /\ at'.n = 1
<1>1. CASE InPart /\ Step[1] \notin {"write", "clear", "restore", "save"} /\ at' = [at EXCEPT !.n = @ + 1]
  <2>1. at' \in [part : Parts, n : Nat \ {0}] /\ at'.part = at.part /\ at'.n = at.n + 1
    BY <1>1, GoesAt
  <2>2. CASE Pass
    <3>1. at.n \in {2, 3, 5, 7, 9}
      BY <1>1, <2>2, PassTable
    <3> QED
      BY <2>1, <2>2, <3>1
  <2>3. at.part \notin {"restore", "save", "prs"}
    BY <1>1, StepTable
  <2>4. CASE at.part \in {"formatted", "temp", "rcm", "data"}
    BY <1>1, <2>1, <2>4, StepTable
  <2> QED
    BY <2>1, <2>2, <2>3, <2>4 DEF TypeOK, Parts, Pass, Onward, Running
<1>2. CASE ~InPart /\ at' = [part |-> PartAfter(at.part), n |-> 1]
  <2>1. at'.part = PartAfter(at.part) /\ at'.n = 1
    BY <1>2
  <2>2. at' \in [part : Parts, n : Nat \ {0}]
    BY <1>2 DEF PartAfter, Parts
  <2> QED
    BY <1>2, <2>1, <2>2, AtEndOfPart DEF PartAfter, Pass, Onward, PartInv
<1> QED
  BY <1>1, <1>2 DEF Onward

LEMMA CheckedAt ==
  /\ DoneAt \in [Labels -> {4, 6, 8, 10}]
  /\ at.part \in {"off", "restore"} => Checked = {}
  /\ Pass => Checked = {l \in Labels : at.n > DoneAt[l]}
  /\ at.part \notin {"off", "restore", "labels", "again"} => Checked = Labels
BY DEF DoneAt, Checked, Pass

LEMMA WrittenAt ==
  ASSUME TypeOK
  PROVE  /\ Pass /\ ~(at.part = "again" /\ at.n = 1) => Written = {l \in Labels : at.n > DoneAt[l]}
         /\ at.part = "again" /\ at.n = 1 => Written = Labels
         /\ at.part \in {"formatted", "temp"} => Written = Labels
         /\ at.part = "prs" => Written = Labels \cup {PrNames[k] : k \in 1..(at.n - 1)}
         /\ at.part \in {"rcm", "data", "save"} => Written = Labels \cup {PrNames[k] : k \in 1..pr_num}
<1>1. at = [part |-> at.part, n |-> at.n]
  BY DEF TypeOK
<1>2. at = [part |-> "again", n |-> 1] <=> at.part = "again" /\ at.n = 1
  BY <1>1
<1>3. at.part \notin {"prs", "rcm", "data", "save"} => {PrNames[k] : k \in PrsWritten} = {}
  BY DEF PrsWritten
<1>4. Pass /\ ~(at.part = "again" /\ at.n = 1) => Written = {l \in Labels : at.n > DoneAt[l]}
  BY <1>2, <1>3, CheckedAt DEF Written, Pass
<1>5. at.part = "again" /\ at.n = 1 => Written = Labels
  BY <1>2 DEF Written
<1>6. at.part \in {"formatted", "temp"} => Written = Labels
  BY <1>2, <1>3, CheckedAt DEF Written
<1>7. at.part = "prs" => Written = Labels \cup {PrNames[k] : k \in 1..(at.n - 1)}
  BY <1>2, CheckedAt DEF Written, PrsWritten
<1>8. at.part \in {"rcm", "data", "save"} => Written = Labels \cup {PrNames[k] : k \in 1..pr_num}
  BY <1>2, CheckedAt DEF Written, PrsWritten
<1> QED
  BY <1>4, <1>5, <1>6, <1>7, <1>8

LEMMA BegunAt ==
  ASSUME TypeOK
  PROVE  Begun <=> at.part # "off" /\ ~(at.part = "labels" /\ at.n = 1)
<1>1. at = [part |-> at.part, n |-> at.n]
  BY DEF TypeOK
<1> QED
  BY <1>1 DEF Begun, Running

LEMMA OnwardWritten ==
  ASSUME TypeOK, PartInv, TypeOK', Onward, flag' = flag, pr_num' = pr_num
  PROVE  /\ ~flag /\ Begun' => Begun /\ Written' = Written
         /\ Checked' \subseteq Checked
<1>1. /\ (TypeOK => (Begun <=> at.part # "off" /\ ~(at.part = "labels" /\ at.n = 1)))'
      /\ (TypeOK =>
           /\ Pass /\ ~(at.part = "again" /\ at.n = 1) => Written = {l \in Labels : at.n > DoneAt[l]}
           /\ at.part = "again" /\ at.n = 1 => Written = Labels
           /\ at.part \in {"formatted", "temp"} => Written = Labels
           /\ at.part = "prs" => Written = Labels \cup {PrNames[k] : k \in 1..(at.n - 1)}
           /\ at.part \in {"rcm", "data", "save"} => Written = Labels \cup {PrNames[k] : k \in 1..pr_num})'
      /\ (/\ at.part \in {"off", "restore"} => Checked = {}
          /\ Pass => Checked = {l \in Labels : at.n > DoneAt[l]}
          /\ at.part \notin {"off", "restore", "labels", "again"} => Checked = Labels)'
  BY BegunAt, WrittenAt, CheckedAt, PTL
<1>2. /\ Begun' <=> at'.part # "off" /\ ~(at'.part = "labels" /\ at'.n = 1)
      /\ Begun <=> at.part # "off" /\ ~(at.part = "labels" /\ at.n = 1)
  BY <1>1, BegunAt
<1>3. /\ at'.part \in {"labels", "again"} /\ ~(at'.part = "again" /\ at'.n = 1) => Written' = {l \in Labels : at'.n > DoneAt[l]}
      /\ at'.part = "again" /\ at'.n = 1 => Written' = Labels
      /\ at'.part \in {"formatted", "temp"} => Written' = Labels
      /\ at'.part = "prs" => Written' = Labels \cup {PrNames[k] : k \in 1..(at'.n - 1)}
      /\ at'.part \in {"rcm", "data", "save"} => Written' = Labels \cup {PrNames[k] : k \in 1..pr_num}
  BY <1>1 DEF Pass, DoneAt
<1>4. /\ at'.part \in {"off", "restore"} => Checked' = {}
      /\ at'.part \in {"labels", "again"} => Checked' = {l \in Labels : at'.n > DoneAt[l]}
      /\ at'.part \notin {"off", "restore", "labels", "again"} => Checked' = Labels
  BY <1>1 DEF Pass, DoneAt
<1>5. \A l \in Labels : DoneAt[l] \in {4, 6, 8, 10}
  BY CheckedAt
<1>6. pr_num \in Nat /\ at.n \in Nat
  BY PrFacts DEF TypeOK
<1>a. CASE at.part = "restore" /\ at'.part = "labels" /\ at'.n = 1
  <2>1. Checked' = {}
    BY <1>4, <1>5, <1>a
  <2> QED
    BY <1>2, <1>a, <2>1
<1>b. CASE Pass /\ at.n \in {2, 3, 5, 7, 9} /\ at'.part = at.part /\ at'.n = at.n + 1
  <2>1. \A l \in Labels : at'.n > DoneAt[l] <=> at.n > DoneAt[l]
    BY <1>5, <1>b
  <2>2. {l \in Labels : at'.n > DoneAt[l]} = {l \in Labels : at.n > DoneAt[l]}
    BY <2>1
  <2>3. at.n # 1 /\ at'.n # 1
    BY <1>b
  <2>4. Written' = Written
    BY <1>3, <1>b, <2>2, <2>3, WrittenAt DEF Pass
  <2>5. Checked' = Checked
    BY <1>4, <1>b, <2>2, CheckedAt DEF Pass
  <2> QED
    BY <1>2, <1>b, <2>3, <2>4, <2>5 DEF Pass
<1>c. CASE Pass /\ at.n = 11 /\ at'.part \in {"formatted", "prs"} /\ at'.n = 1
  <2>1. {l \in Labels : at.n > DoneAt[l]} = Labels
    BY <1>5, <1>c
  <2>2. Written = Labels /\ Checked = Labels
    BY <1>c, <2>1, WrittenAt, CheckedAt
  <2>3. {PrNames[k] : k \in 1..(at'.n - 1)} = {}
    BY <1>c
  <2>4. Written' = Labels /\ Checked' = Labels
    BY <1>3, <1>4, <1>c, <2>3
  <2> QED
    BY <1>2, <1>c, <2>2, <2>4 DEF Pass
<1>d. CASE at.part \in {"formatted", "temp"} /\ at'.part \in {"formatted", "temp", "again", "off"}
           /\ (at'.part = "again" => at'.n = 1)
  <2>1. Checked = Labels /\ Written = Labels
    BY <1>d, CheckedAt, WrittenAt
  <2>2. at'.part # "off" => Written' = Labels
    BY <1>3, <1>d
  <2>3. Checked' \subseteq Labels
    BY <1>4, <1>d
  <2> QED
    BY <1>2, <1>d, <2>1, <2>2, <2>3
<1>e. CASE at.part = "temp" /\ flag /\ at'.part = "data"
  BY <1>4, <1>e, CheckedAt
<1>f. CASE at.part = "prs" /\ at.n = pr_num + 1 /\ at'.part = "rcm" /\ at'.n = 1
  <2>1. at.n - 1 = pr_num
    BY <1>6, <1>f
  <2> QED
    BY <1>2, <1>3, <1>4, <1>f, <2>1, CheckedAt, WrittenAt
<1>g. CASE at.part \in {"rcm", "data", "save"} /\ at'.part \in {"rcm", "data", "save", "off"}
  <2>1. Checked = Labels /\ Checked' \subseteq Labels
    BY <1>4, <1>g, CheckedAt
  <2> QED
    BY <1>2, <1>3, <1>g, <2>1, WrittenAt
<1> QED
  BY <1>a, <1>b, <1>c, <1>d, <1>e, <1>f, <1>g, OnwardTable DEF Pass

-----------------------------------------------------------------------------
(* Files and what is read into them *)

LEMMA WithIsFiles ==
  ASSUME NEW files, IsFiles(files), NEW name \in FileNames, NEW text \in Seq(OurBlock)
  PROVE  IsFiles(With(files, name, text))
<1>1. /\ DOMAIN With(files, name, text) = DOMAIN files \cup {name}
      /\ \A f \in DOMAIN With(files, name, text) : With(files, name, text)[f] = IF f = name THEN text ELSE files[f]
  BY DEF With
<1>2. With(files, name, text) = [f \in DOMAIN With(files, name, text) |-> With(files, name, text)[f]]
  BY DEF With
<1> QED
  BY <1>1, <1>2 DEF IsFiles

\* Writing what a file has leaves it.
LEMMA WithSame ==
  ASSUME NEW files, IsFiles(files), NEW name \in DOMAIN files
  PROVE  With(files, name, files[name]) = files
<1>1. DOMAIN files \cup {name} = DOMAIN files
  OBVIOUS
<1>2. With(files, name, files[name]) = [f \in DOMAIN files |-> files[f]]
  BY <1>1 DEF With
<1> QED
  BY <1>2 DEF IsFiles

LEMMA EmptyText == << >> \in Seq(OurBlock)
OBVIOUS

LEMMA TextType ==
  ASSUME TypeOK, NEW name \in FileNames
  PROVE  /\ Text(name) \in Seq(OurBlock)
         /\ Opened(name) \in [name : FileNames \cup {"none"}, text : Seq(OurBlock)]
<1>1. Text(name) \in Seq(OurBlock)
  BY EmptyText DEF Text, TypeOK, IsFiles
<1> QED
  BY <1>1 DEF Opened, TypeOK

LEMMA OpenedAs ==
  ASSUME TypeOK, NEW name
  PROVE  /\ Opened(name).name = name
         /\ alt.name = name => Opened(name) = alt
         /\ alt.name # name => Opened(name).text = Text(name)
BY DEF Opened, TypeOK

LEMMA PrNumberType ==
  ASSUME NEW file, file.text \in Seq(OurBlock)
  PROVE  PrNumber(file) \in 0..Len(PrNames)
<1>1. CASE file.text = << >>
  BY <1>1, PrFacts DEF PrNumber
<1>2. CASE file.text # << >>
  <2>1. file.text[1] \in OurBlock
    BY <1>2
  <2>2. file.text[1].tape \in Tapes
    BY <2>1 DEF OurBlock
  <2> QED
    BY <1>2, <2>2, PrFacts DEF PrNumber
<1> QED
  BY <1>1, <1>2

LEMMA PrNumberOf ==
  ASSUME NEW file, NEW t \in Tapes, NEW name, file.text = Marker(t, name)
  PROVE  PrNumber(file) = Len(PrBlocks[t])
<1>1. file.text # << >> /\ file.text[1] = Block(t, name, 1)
  BY MarkerFacts
<1>2. file.text[1].tape = t
  BY <1>1 DEF Block
<1> QED
  BY <1>1, <1>2 DEF PrNumber

LEMMA WriteArg ==
  ASSUME TypeOK, Doing(WriteSteps)
  PROVE  Arg \in FileNames
<1>1. pr_num \in Nat /\ pr_num <= Len(PrNames) /\ Len(PrNames) \in Nat
  BY PrFacts DEF TypeOK
<1>2. \A n \in 1..pr_num : n \in DOMAIN PrNames
  BY <1>1, PrFacts
<1> QED
  BY <1>2, AtWrite, PrFacts, LabelNames

\* The marker at which a run reads.
LEMMA HereFacts ==
  ASSUME IInv, Doing(WriteSteps), ~AtEnd
  PROVE  /\ head.part = "ref" /\ head.item \in 1..Items(tape, "ref")
         /\ Here = Marker(tape, Item(tape, "ref", head.item))
         /\ Item(tape, "ref", head.item) \in FileNames
         /\ Here \in Seq(OurBlock) /\ Len(Here) \in Nat \ {0} /\ head.done \in 0..Len(Here)
         /\ \A i \in 1..Len(Here) : Here[i] = Block(tape, Item(tape, "ref", head.item), i)
<1>1. tape \in Tapes /\ head.item \in Nat \ {0} /\ head.done \in Nat
  BY DEF IInv, TypeOK
<1>2. head.part = "ref"
  BY AtWrite DEF IInv, HeadInv, Pass
<1>3. head.item \in 1..Items(tape, "ref")
  BY <1>1, <1>2, ItemFacts DEF AtEnd
<1>4. Here = Marker(tape, Item(tape, "ref", head.item)) /\ Item(tape, "ref", head.item) \in FileNames
  BY <1>1, <1>2, <1>3, ItemFacts DEF Here
<1>5. /\ Here \in Seq(OurBlock) /\ Len(Here) \in Nat \ {0}
      /\ \A i \in 1..Len(Here) : Here[i] = Block(tape, Item(tape, "ref", head.item), i)
  BY <1>1, <1>4, MarkerFacts
<1>6. head.done > 0 => head.done <= Len(Here)
  BY AtWrite DEF IInv, HeadInv, InPart
<1> QED
  BY <1>1, <1>2, <1>3, <1>4, <1>5, <1>6

\* After a marker, and at one that is not read, the head is in front of a marker.
LEMMA PlaceFacts ==
  ASSUME IInv
  PROVE  /\ AfterMark \in [part : {"ref", "data"}, item : Nat \ {0}, done : Nat]
         /\ AfterMark.done = 0 /\ AfterMark.part = head.part /\ AfterMark.item = head.item + 1
         /\ AtEnd => ~Running \/ head.done = 0
         /\ Accepted => head.done = 0
         /\ Running /\ ~Doing(WriteSteps) => head.done = 0
BY DEF IInv, TypeOK, HeadInv, AfterMark, Front, Accepted

-----------------------------------------------------------------------------
(* Types, parts and steps *)

LEMMA AppendedIs ==
  ASSUME IInv, Doing(WriteSteps), NEW blocks \in Seq(OurBlock)
  PROVE  /\ Text(Arg) \o blocks \in Seq(OurBlock) /\ Text(Arg) \o << >> = Text(Arg)
         /\ IsFiles(Appended(blocks))
         /\ Step[1] = "temp" => Appended(blocks) = ref
         /\ Step[1] # "temp" /\ (flag \/ Step[1] = "skim") => Appended(blocks) = With(ref, Arg, Text(Arg))
         /\ Step[1] # "temp" /\ ~flag /\ Step[1] # "skim" => Appended(blocks) = With(ref, Arg, Text(Arg) \o blocks)
<1>1. Arg \in FileNames /\ IsFiles(ref) /\ TypeOK
  BY WriteArg DEF IInv, TypeOK
<1>2. Text(Arg) \in Seq(OurBlock)
  BY <1>1, TextType
<1>3. Text(Arg) \o blocks \in Seq(OurBlock) /\ Text(Arg) \o << >> = Text(Arg)
  BY <1>2
<1>4. IsFiles(With(ref, Arg, Text(Arg) \o blocks)) /\ IsFiles(With(ref, Arg, Text(Arg)))
  BY <1>1, <1>2, <1>3, WithIsFiles
<1> QED
  BY <1>1, <1>3, <1>4 DEF Appended

LEMMA EndFileType ==
  ASSUME IInv, Doing(WriteSteps), NEW place \in [part : {"ref", "data"}, item : Nat \ {0}, done : Nat],
         EndFile(place), faults' \in Nat
  PROVE  TypeOK'
<1>1. TypeOK
  BY DEF IInv
<1>2. at' \in [part : Parts, n : Nat \ {0}] /\ refused' \in BOOLEAN
  <2>1. CASE TooShort
    BY <2>1 DEF EndFile, Exit, Off, Parts
  <2>2. CASE ~TooShort
    BY <1>1, <2>2, GoesAt DEF EndFile, Goes, TypeOK
  <2> QED
    BY <2>1, <2>2
<1>3. IsFiles(ref')
  BY EmptyText, AppendedIs DEF EndFile
<1>4. /\ alt' \in [name : FileNames \cup {"none"}, text : Seq(OurBlock)]
      /\ pr_num' \in 0..Len(PrNames)
  <2>1. CASE Arg = "RCM_1"
    <3>1. alt' = Opened(Arg) /\ pr_num' = PrNumber(alt')
      BY <2>1 DEF EndFile
    <3>2. alt' \in [name : FileNames \cup {"none"}, text : Seq(OurBlock)]
      BY <1>1, <3>1, WriteArg, TextType
    <3>3. alt'.text \in Seq(OurBlock)
      BY <3>2
    <3> QED
      BY <3>1, <3>2, <3>3, PrNumberType
  <2>2. CASE Arg # "RCM_1"
    BY <1>1, <2>2 DEF EndFile, TypeOK
  <2> QED
    BY <2>1, <2>2
<1>5. alarm' \in BOOLEAN
  BY <1>1 DEF EndFile, TypeOK
<1> QED
  BY <1>1, <1>2, <1>3, <1>4, <1>5 DEF EndFile, TypeOK

LEMMA CompareType ==
  ASSUME IInv, Doing({"diff"}), NEW text,
         NEW place \in [part : {"ref", "data"}, item : Nat \ {0}, done : Nat],
         Compare(text, place), faults' \in Nat
  PROVE  TypeOK'
<1>1. TypeOK /\ InPart /\ Step[1] = "diff"
  BY DEF IInv, Doing
<1>2. Arg \in FileNames
  BY <1>1, AtOther, PrFacts, LabelNames
<1>3. at' \in [part : Parts, n : Nat \ {0}] /\ refused' \in BOOLEAN
  <2>1. Exit \/ Goes
    BY DEF Compare
  <2>2. Exit => at' \in [part : Parts, n : Nat \ {0}] /\ refused' \in BOOLEAN
    BY DEF Exit, Off, Parts
  <2>3. Goes => at' \in [part : Parts, n : Nat \ {0}] /\ refused' \in BOOLEAN
    BY <1>1, GoesAt DEF Goes, TypeOK
  <2> QED
    BY <2>1, <2>2, <2>3
<1>4. alt' \in [name : FileNames \cup {"none"}, text : Seq(OurBlock)]
  BY <1>1, <1>2, TextType DEF Compare
<1>5. alarm' \in BOOLEAN
  BY <1>1 DEF Compare, TypeOK
<1> QED
  BY <1>1, <1>3, <1>4, <1>5 DEF Compare, TypeOK

LEMMA PrefixType ==
  ASSUME NEW s \in Seq(OurBlock), NEW n \in 0..Len(s)
  PROVE  SubSeq(s, 1, n) \in Seq(OurBlock) /\ \A i \in 1..n : SubSeq(s, 1, n)[i] = s[i] /\ Len(SubSeq(s, 1, n)) = n
OBVIOUS

LEMMA BackupType ==
  ASSUME TypeOK, NEW name \in FileNames, NEW text \in Seq(OurBlock),
         backup' = [backup EXCEPT ![BackupOf] = With(@, name, text)]
  PROVE  /\ DOMAIN backup' = DOMAIN backup /\ BackupOf \in DOMAIN backup
         /\ \A d \in DOMAIN backup' : IsFiles(backup'[d])
         /\ \A d \in DOMAIN backup : d # BackupOf => backup'[d] = backup[d]
         /\ backup'[BackupOf] = With(backup[BackupOf], name, text)
<1>1. BackupOf \in DOMAIN backup /\ \A d \in DOMAIN backup : IsFiles(backup[d])
  BY DEF TypeOK, BackupOf
<1>2. IsFiles(With(backup[BackupOf], name, text))
  BY <1>1, WithIsFiles
<1> QED
  BY <1>1, <1>2

\* What a stop leaves of the file it interrupts.
LEMMA StopCases ==
  ASSUME Stop
  PROVE  /\ Doing({"save"}) /\ Arg \in DOMAIN ref =>
              /\ UNCHANGED ref
              /\ \E n \in 0..Len(ref[Arg]) :
                   backup' = [backup EXCEPT ![BackupOf] = With(@, Arg, SubSeq(ref[Arg], 1, n))]
         /\ Doing({"restore"}) /\ Arg \in DOMAIN Files(tape) =>
              /\ UNCHANGED backup
              /\ \E n \in 0..Len(Files(tape)[Arg]) : ref' = With(ref, Arg, SubSeq(Files(tape)[Arg], 1, n))
         /\ Doing({"write"}) /\ ~flag /\ Arg \in DOMAIN ref =>
              /\ UNCHANGED backup
              /\ \E n \in 0..Len(ref[Arg]) : ref' = With(ref, Arg, SubSeq(ref[Arg], 1, n))
         /\ \/ Doing({"save"}) /\ Arg \in DOMAIN ref
            \/ Doing({"restore"}) /\ Arg \in DOMAIN Files(tape)
            \/ Doing({"write"}) /\ ~flag /\ Arg \in DOMAIN ref
            \/ UNCHANGED <<ref, backup>>
<1>1. /\ Doing({"save"}) => ~Doing({"restore"}) /\ ~Doing({"write"})
      /\ Doing({"restore"}) => ~Doing({"save"}) /\ ~Doing({"write"})
      /\ Doing({"write"}) => ~Doing({"save"}) /\ ~Doing({"restore"})
  BY DEF Doing
<1>2. CASE Doing({"save"}) /\ Arg \in DOMAIN ref
  BY <1>1, <1>2 DEF Stop
<1>3. CASE Doing({"restore"}) /\ Arg \in DOMAIN Files(tape)
  BY <1>1, <1>3 DEF Stop
<1>4. CASE Doing({"write"}) /\ ~flag /\ Arg \in DOMAIN ref
  BY <1>1, <1>4 DEF Stop
<1>5. CASE /\ ~(Doing({"save"}) /\ Arg \in DOMAIN ref)
           /\ ~(Doing({"restore"}) /\ Arg \in DOMAIN Files(tape))
           /\ ~(Doing({"write"}) /\ ~flag /\ Arg \in DOMAIN ref)
  BY <1>5 DEF Stop
<1> QED
  BY <1>2, <1>3, <1>4, <1>5

LEMMA StartIs ==
  ASSUME Start
  PROVE  /\ ~Running /\ pr_num' = 0 /\ alarm' = FALSE /\ walked' = "no"
         /\ refused' = FALSE /\ runs' = runs + 1
<1>1. ~Running /\ pr_num' = 0
  BY DEF Start
<1>2. alarm' = FALSE
  BY DEF Start
<1>3. walked' = "no"
  BY DEF Start
<1>4. refused' = FALSE
  BY DEF Start
<1>5. runs' = runs + 1
  BY DEF Start
<1> QED
  BY <1>1, <1>2, <1>3, <1>4, <1>5

LEMMA TypeAfter ==
  ASSUME TypeOK, UNCHANGED <<tape, barcode, mode, flag, fm_num, walked, faults, runs>>,
         head' \in [part : {"ref", "data"}, item : Nat \ {0}, done : Nat],
         at' \in [part : Parts, n : Nat \ {0}], pr_num' \in 0..Len(PrNames), IsFiles(ref'),
         DOMAIN backup' = DOMAIN backup, \A d \in DOMAIN backup' : IsFiles(backup'[d]),
         alt' \in [name : FileNames \cup {"none"}, text : Seq(OurBlock)],
         alarm' \in BOOLEAN, refused' \in BOOLEAN, cut' \in BOOLEAN
  PROVE  TypeOK'
BY DEF TypeOK

LEMMA TypeNext ==
  ASSUME IInv, [Next]_vars
  PROVE  TypeOK'
<1>1. TypeOK
  BY DEF IInv
<1>2. /\ head' = AfterMark => head' \in [part : {"ref", "data"}, item : Nat \ {0}, done : Nat]
      /\ \A part \in {"ref", "data"} :
           /\ Items(tape, part) \in Nat
           /\ Front(part, 1) \in [part : {"ref", "data"}, item : Nat \ {0}, done : Nat]
           /\ LastRcm(part) \in [part : {"ref", "data"}, item : Nat \ {0}, done : Nat]
  BY <1>1, PlaceFacts, ItemFacts DEF Front, LastRcm, TypeOK
<1>3. Goes => at' \in [part : Parts, n : Nat \ {0}] /\ refused' = refused
  BY <1>1, GoesAt DEF Goes
<1>4. Exit => at' \in [part : Parts, n : Nat \ {0}] /\ refused' \in BOOLEAN
  BY DEF Exit, Off, Parts
<1>5. faults + 1 \in Nat
  BY <1>1 DEF TypeOK
<1>6. /\ pr_num \in 0..Len(PrNames) /\ IsFiles(ref) /\ \A d \in DOMAIN backup : IsFiles(backup[d])
      /\ alt \in [name : FileNames \cup {"none"}, text : Seq(OurBlock)]
      /\ alarm \in BOOLEAN /\ refused \in BOOLEAN /\ cut \in BOOLEAN
      /\ head \in [part : {"ref", "data"}, item : Nat \ {0}, done : Nat]
  BY <1>1 DEF TypeOK
<1>a. CASE Start
  <2>1. at' \in [part : Parts, n : Nat \ {0}] /\ tape' \in Tapes /\ mode' \in Modes /\ flag' \in BOOLEAN
    BY <1>a DEF Start, Parts
  <2>2. head' \in [part : {"ref", "data"}, item : Nat \ {0}, done : Nat] /\ fm_num' \in Nat
    <3>1. head' = Front("ref", 1) /\ fm_num' = 0
      BY <1>a DEF Start
    <3> QED
      BY <1>2, <3>1
  <2>3. pr_num' \in 0..Len(PrNames) /\ alarm' \in BOOLEAN /\ walked' \in {"no", "own", "foreign"}
    <3>1. pr_num' = 0 /\ walked' = "no"
      BY <1>a, StartIs
    <3>2. alarm' \in BOOLEAN
      BY <1>a, StartIs
    <3> QED
      BY <3>1, <3>2, PrFacts
  <2>4. alt' \in [name : FileNames \cup {"none"}, text : Seq(OurBlock)]
    <3>1. alt' = [name |-> "none", text |-> << >>]
      BY <1>a DEF Start, NoFile
    <3> QED
      BY <3>1, EmptyText
  <2>5. refused' \in BOOLEAN /\ runs' \in Nat
    <3>1. runs' = runs + 1
      BY <1>a, StartIs
    <3>2. refused' \in BOOLEAN
      BY <1>a, StartIs
    <3> QED
      BY <1>1, <3>1, <3>2 DEF TypeOK
  <2> QED
    BY <1>1, <1>a, <2>1, <2>2, <2>3, <2>4, <2>5 DEF Start, TypeOK
<1>b. CASE EnterPart
  <2>1. PartAfter(at.part) \in Parts
    BY DEF PartAfter, Parts
  <2> QED
    BY <1>1, <1>b, <2>1 DEF EnterPart, TypeOK
<1>c. CASE Restore
  <2>1. InPart /\ Step[1] = "restore"
    BY <1>c DEF Restore, Doing
  <2>2. Arg \in FileNames
    BY <1>1, <2>1, AtOther, StepTable, OrderAssumption
  <2>3. IsFiles(Files(tape))
    BY <1>1 DEF TypeOK, Files
  <2>4. Arg \in DOMAIN Files(tape) => Files(tape)[Arg] \in Seq(OurBlock)
    BY <2>3 DEF IsFiles
  <2>5. IsFiles(ref')
    BY <1>1, <1>c, <2>2, <2>4, WithIsFiles DEF Restore, TypeOK
  <2> QED
    BY <1>1, <1>3, <1>c, <2>5 DEF Restore, TypeOK
<1>d. CASE Clear
  <2>1. IsFiles(Cleared)
    BY <1>1 DEF Cleared, TypeOK, IsFiles
  <2> QED
    BY <1>1, <1>3, <1>d, <2>1 DEF Clear, TypeOK
<1>e. CASE Move
  <2>1. InPart /\ Step[1] \in {"begin", "mark", "last"}
    BY <1>e DEF Move, Doing
  <2>2. Step[1] # "mark" => Arg \in {"ref", "data"}
    BY <1>1, <2>1, AtOther
  <2>3. \/ head' = AfterMark /\ fm_num' = fm_num
        \/ Step[1] # "mark" /\ head' = Front(Arg, 1) /\ fm_num' = fm_num
        \/ Step[1] # "mark" /\ head' = LastRcm(Arg) /\ fm_num' = Items(tape, Arg)
    BY <1>e, <2>1 DEF Move
  <2>4. head' \in [part : {"ref", "data"}, item : Nat \ {0}, done : Nat] /\ fm_num' \in Nat
    <3>1. CASE head' = AfterMark /\ fm_num' = fm_num
      BY <1>1, <1>2, <3>1 DEF TypeOK
    <3>2. CASE Step[1] # "mark" /\ head' = Front(Arg, 1) /\ fm_num' = fm_num
      BY <1>1, <1>2, <2>2, <3>2 DEF TypeOK
    <3>3. CASE Step[1] # "mark" /\ head' = LastRcm(Arg) /\ fm_num' = Items(tape, Arg)
      BY <1>2, <2>2, <3>3
    <3> QED
      BY <2>3, <3>1, <3>2, <3>3
  <2> QED
    BY <1>1, <1>3, <1>e, <2>4 DEF Move, TypeOK
<1>f. CASE ReadBlock
  <2>1. Doing(WriteSteps) /\ ~AtEnd /\ ~AtMark
    BY <1>f DEF ReadBlock
  <2>2. head.done + 1 \in 1..Len(Here) /\ Here \in Seq(OurBlock)
    BY <2>1, HereFacts DEF AtMark
  <2>3. <<Here[head.done + 1]>> \in Seq(OurBlock)
    BY <2>2
  <2>4. IsFiles(ref')
    BY <1>f, <2>1, <2>3, AppendedIs DEF ReadBlock
  <2> QED
    BY <1>1, <1>f, <2>4 DEF ReadBlock, TypeOK
<1>g. CASE ReadMark
  BY <1>1, <1>2, <1>g, EndFileType, PlaceFacts DEF ReadMark, TypeOK
<1>h. CASE ReadNothing
  BY <1>1, <1>h, EndFileType DEF ReadNothing, TypeOK
<1>i. CASE FailRead
  <2>1. CASE Accepted
    BY <1>1, <1>5, <1>i, <2>1, EndFileType DEF FailRead, TypeOK
  <2>2. CASE ~Accepted
    BY <1>1, <1>4, <1>5, <1>i, <2>2 DEF FailRead, Refuse, TypeOK
  <2> QED
    BY <2>1, <2>2
<1>j. CASE Formatted
  <2>1. at' \in [part : Parts, n : Nat \ {0}] /\ refused' \in BOOLEAN
    BY <1>3, <1>4, <1>6, <1>j DEF Formatted
  <2>2. /\ UNCHANGED <<tape, barcode, mode, flag, head, fm_num, walked, faults, runs>>
        /\ UNCHANGED <<pr_num, ref, backup, alt, alarm, cut>>
    BY <1>j DEF Formatted
  <2>3. /\ IsFiles(ref') /\ DOMAIN backup' = DOMAIN backup /\ \A d \in DOMAIN backup' : IsFiles(backup'[d])
        /\ alt' \in [name : FileNames \cup {"none"}, text : Seq(OurBlock)] /\ pr_num' \in 0..Len(PrNames)
        /\ head' \in [part : {"ref", "data"}, item : Nat \ {0}, done : Nat]
    BY <1>6, <2>2
  <2>4. alarm' \in BOOLEAN /\ cut' \in BOOLEAN
    BY <1>6, <2>2
  <2> QED
    BY <1>1, <2>1, <2>2, <2>3, <2>4, TypeAfter
<1>k. CASE RcmBehindPrs
  <2>1. alarm' \in BOOLEAN /\ head' \in [part : {"ref", "data"}, item : Nat \ {0}, done : Nat]
    <3>1. CASE pr_num > 0
      BY <1>2, <1>k, <3>1 DEF RcmBehindPrs
    <3>2. CASE ~(pr_num > 0)
      BY <1>6, <1>k, <3>2 DEF RcmBehindPrs
    <3> QED
      BY <3>1, <3>2
  <2>2. at' \in [part : Parts, n : Nat \ {0}] /\ refused' = refused
    BY <1>3, <1>k DEF RcmBehindPrs
  <2>3. UNCHANGED <<tape, barcode, mode, flag, fm_num, walked, faults, runs, pr_num, ref, backup, alt, cut>>
    BY <1>k DEF RcmBehindPrs
  <2> QED
    BY <1>1, <1>6, <2>1, <2>2, <2>3, TypeAfter
<1>l. CASE Numbers
  <2> DEFINE file == Opened("RCM_1")
             num  == PrNumber(file)
  <2>1. file \in [name : FileNames \cup {"none"}, text : Seq(OurBlock)] /\ file.text \in Seq(OurBlock)
    BY <1>1, TextType, PrFacts, LabelNames
  <2>2. num \in 0..Len(PrNames)
    BY <2>1, PrNumberType
  <2>3. num # 0 => PrNames[num] \in FileNames
    BY <2>2, PrFacts
  <2>4. /\ pr_num' = num
        /\ alt' = IF num = 0 THEN file ELSE [name |-> PrNames[num], text |-> Text(PrNames[num])]
    BY <1>l DEF Numbers
  <2>5. alt' \in [name : FileNames \cup {"none"}, text : Seq(OurBlock)]
    BY <1>1, <2>1, <2>3, <2>4, TextType
  <2>6. at' \in [part : Parts, n : Nat \ {0}] /\ refused' \in BOOLEAN
    BY <1>3, <1>4, <1>6, <1>l DEF Numbers
  <2>7. /\ UNCHANGED <<tape, barcode, mode, flag, head, fm_num, walked, faults, runs>>
        /\ UNCHANGED <<ref, backup, alarm, cut>>
    BY <1>l DEF Numbers
  <2> HIDE DEF num, file
  <2> QED
    BY <1>1, <1>6, <2>2, <2>4, <2>5, <2>6, <2>7, TypeAfter
<1>m. CASE CountMarks
  BY <1>1, <1>3, <1>m DEF CountMarks, TypeOK
<1>n. CASE Diff
  BY <1>1, <1>2, <1>n, CompareType, PlaceFacts DEF Diff, TypeOK
<1>o. CASE FailDiff
  <2>1. CASE Accepted
    BY <1>1, <1>5, <1>o, <2>1, CompareType DEF FailDiff, TypeOK
  <2>2. CASE ~Accepted
    BY <1>1, <1>4, <1>5, <1>o, <2>2 DEF FailDiff, Refuse, TypeOK
  <2> QED
    BY <2>1, <2>2
<1>p. CASE Walk
  BY <1>1, <1>3, <1>p DEF Walk, TypeOK
<1>q. CASE Save
  <2>1. CASE Arg \in DOMAIN ref
    <3>1. Arg \in FileNames /\ ref[Arg] \in Seq(OurBlock)
      BY <1>1, <2>1 DEF TypeOK, IsFiles
    <3>2. backup' = [backup EXCEPT ![BackupOf] = With(@, Arg, ref[Arg])]
      BY <1>q, <2>1 DEF Save
    <3>3. DOMAIN backup' = DOMAIN backup /\ \A d \in DOMAIN backup' : IsFiles(backup'[d])
      BY <1>1, <3>1, <3>2, BackupType
    <3> QED
      BY <1>1, <1>3, <1>q, <3>3 DEF Save, TypeOK
  <2>2. CASE Arg \notin DOMAIN ref
    BY <1>1, <1>3, <1>q, <2>2 DEF Save, TypeOK
  <2> QED
    BY <2>1, <2>2
<1>r. CASE Stop
  <2>1. at' \in [part : Parts, n : Nat \ {0}] /\ cut' \in BOOLEAN
    BY <1>1, <1>r DEF Stop, Off, Parts, TypeOK
  <2>6. UNCHANGED <<tape, barcode, mode, flag, head, fm_num, pr_num, alt, alarm, walked, refused, faults, runs>>
    BY <1>r DEF Stop
  <2>2. CASE Doing({"save"}) /\ Arg \in DOMAIN ref
    <3>1. PICK n \in 0..Len(ref[Arg]) : backup' = [backup EXCEPT ![BackupOf] = With(@, Arg, SubSeq(ref[Arg], 1, n))]
      BY <1>r, <2>2, StopCases
    <3>2. Arg \in FileNames /\ ref[Arg] \in Seq(OurBlock)
      BY <1>1, <2>2 DEF TypeOK, IsFiles
    <3>3. SubSeq(ref[Arg], 1, n) \in Seq(OurBlock)
      BY <3>2, PrefixType
    <3>4. DOMAIN backup' = DOMAIN backup /\ \A d \in DOMAIN backup' : IsFiles(backup'[d])
      BY <1>1, <3>1, <3>2, <3>3, BackupType
    <3>5. UNCHANGED ref
      BY <1>r, <2>2, StopCases
    <3> QED
      BY <1>1, <1>6, <2>1, <2>6, <3>4, <3>5, TypeAfter
  <2>3. CASE Doing({"restore"}) /\ Arg \in DOMAIN Files(tape)
    <3>1. PICK n \in 0..Len(Files(tape)[Arg]) : ref' = With(ref, Arg, SubSeq(Files(tape)[Arg], 1, n))
      BY <1>r, <2>3, StopCases
    <3>2. IsFiles(Files(tape))
      BY <1>1 DEF TypeOK, Files
    <3>3. Arg \in FileNames /\ Files(tape)[Arg] \in Seq(OurBlock)
      BY <2>3, <3>2 DEF IsFiles
    <3>4. SubSeq(Files(tape)[Arg], 1, n) \in Seq(OurBlock)
      BY <3>3, PrefixType
    <3>5. IsFiles(ref')
      BY <1>1, <3>1, <3>3, <3>4, WithIsFiles DEF TypeOK
    <3>6. UNCHANGED backup
      BY <1>r, <2>3, StopCases
    <3> QED
      BY <1>1, <1>6, <2>1, <2>6, <3>5, <3>6, TypeAfter
  <2>4. CASE Doing({"write"}) /\ ~flag /\ Arg \in DOMAIN ref
    <3>1. PICK n \in 0..Len(ref[Arg]) : ref' = With(ref, Arg, SubSeq(ref[Arg], 1, n))
      BY <1>r, <2>4, StopCases
    <3>2. Arg \in FileNames /\ ref[Arg] \in Seq(OurBlock)
      BY <1>1, <2>4 DEF TypeOK, IsFiles
    <3>3. SubSeq(ref[Arg], 1, n) \in Seq(OurBlock)
      BY <3>2, PrefixType
    <3>4. IsFiles(ref')
      BY <1>1, <3>1, <3>2, <3>3, WithIsFiles DEF TypeOK
    <3>5. UNCHANGED backup
      BY <1>r, <2>4, StopCases
    <3> QED
      BY <1>1, <1>6, <2>1, <2>6, <3>4, <3>5, TypeAfter
  <2>5. CASE /\ ~(Doing({"save"}) /\ Arg \in DOMAIN ref)
             /\ ~(Doing({"restore"}) /\ Arg \in DOMAIN Files(tape))
             /\ ~(Doing({"write"}) /\ ~flag /\ Arg \in DOMAIN ref)
    <3>1. UNCHANGED <<ref, backup>>
      BY <1>r, <2>5, StopCases
    <3> QED
      BY <1>1, <1>6, <2>1, <2>6, <3>1, TypeAfter
  <2> QED
    BY <2>2, <2>3, <2>4, <2>5
<1>s. CASE UNCHANGED vars
  BY <1>1, <1>s DEF vars, TypeOK
<1> QED
  BY <1>a, <1>b, <1>c, <1>d, <1>e, <1>f, <1>g, <1>h, <1>i, <1>j, <1>k, <1>l, <1>m, <1>n, <1>o, <1>p,
     <1>q, <1>r, <1>s DEF Next

-----------------------------------------------------------------------------
(* Kinds of steps *)

\* A step that leaves the files.
Quiet ==
  /\ Onward /\ head'.done = 0
  /\ UNCHANGED <<tape, barcode, mode, flag, pr_num, ref, backup, cut, refused>>
  /\ (alarm => alarm') /\ (faults' = 0 => faults = 0)

\* The end of a file that is written, which the check accepts or exits.
EndsText == Doing({"write"}) /\ (ReadMark \/ ReadNothing \/ (FailRead /\ Accepted))
Fills == EndsText /\ ~TooShort

\* An exit.
Leaves ==
  /\ Running /\ at.part # "save" /\ at' = Off
  /\ UNCHANGED <<tape, barcode, mode, flag, backup, cut>>
  /\ (alarm => alarm') /\ (faults' = 0 => faults = 0)

LEMMA ArgNew ==
  ASSUME IInv, Doing({"write"})
  PROVE  Arg \notin Written /\ Arg \notin Checked
<1>1. TypeOK /\ Doing(WriteSteps) /\ InPart /\ Step[1] = "write" /\ Arg \in FileNames
  <2>1. TypeOK /\ Doing(WriteSteps) /\ InPart /\ Step[1] = "write"
    BY DEF IInv, Doing, WriteSteps
  <2> QED
    BY <2>1, WriteArg
<1>2. CASE Pass
  <2>1. Arg \in Labels /\ DoneAt[Arg] = at.n /\ at.n # 1
    BY <1>1, <1>2, AtWrite, LabelNames DEF DoneAt, Pass
  <2>2. ~(at.n > DoneAt[Arg])
    BY <1>1, <2>1 DEF TypeOK
  <2> QED
    BY <1>1, <1>2, <2>1, <2>2, WrittenAt, CheckedAt
<1>3. CASE at.part = "prs"
  <2>1. at.n \in 1..pr_num /\ Arg = PrNames[at.n]
    BY <1>1, <1>3, AtWrite DEF Pass
  <2>2. pr_num \in Nat /\ pr_num <= Len(PrNames) /\ Len(PrNames) \in Nat
    BY <1>1, PrFacts DEF TypeOK
  <2>3. \A k \in 1..pr_num : k \in DOMAIN PrNames
    BY <2>2, PrFacts
  <2>4. Arg \notin Labels
    BY <2>1, <2>3, PrFacts
  <2>5. \A k \in 1..(at.n - 1) : k \in 1..pr_num /\ k # at.n
    BY <2>1, <2>2
  <2>6. \A k \in 1..(at.n - 1) : PrNames[k] # Arg
    BY <2>1, <2>3, <2>5, PrFacts
  <2> QED
    BY <1>1, <1>3, <2>4, <2>6, WrittenAt, CheckedAt
<1> QED
  BY <1>1, <1>2, <1>3, AtWrite

\* The second reading of the OTF label changes nothing.
LEMMA SkimSame ==
  ASSUME IInv, Doing({"skim"})
  PROVE  Arg \in DOMAIN ref /\ With(ref, Arg, Text(Arg)) = ref
<1>1. TypeOK /\ Doing(WriteSteps) /\ InPart /\ Step[1] = "skim" /\ Running
  BY DEF IInv, Doing, WriteSteps, InPart
<1>2. Pass /\ at.n = 9 /\ Arg = "OTFLabel"
  BY <1>1, AtWrite
<1>3. CASE flag
  <2>1. "OTFLabel" \in DOMAIN Files(tape) /\ at.part # "restore"
    BY <1>2, <1>3 DEF IInv, PartInv, Pass
  <2> QED
    BY <1>1, <1>2, <1>3, <2>1, WithSame DEF IInv, RefInv, Text, TypeOK
<1>4. CASE ~flag
  <2>1. Begun /\ ~Writing
    BY <1>1, <1>2, BegunAt DEF Pass, Writing, Doing
  <2>2. DOMAIN ref = Written
    BY <1>4, <2>1 DEF IInv, RefInv
  <2>3. "OTFLabel" \in Written
    <3>1. DoneAt["OTFLabel"] = 4
      BY LabelNames DEF DoneAt
    <3>2. Written = {l \in Labels : at.n > DoneAt[l]}
      BY <1>1, <1>2, WrittenAt
    <3> QED
      BY <1>2, <3>1, <3>2, LabelNames
  <2> QED
    BY <1>1, <1>2, <2>2, <2>3, WithSame DEF Text, TypeOK
<1> QED
  BY <1>3, <1>4

LEMMA NotWriting ==
  ASSUME IInv, InPart, Step[1] \notin WriteSteps
  PROVE  head.done = 0 /\ AfterMark.done = 0
BY PlaceFacts DEF InPart, Doing

\* Reading without writing, to the end of the marker.
LEMMA QuietRead ==
  ASSUME IInv, Doing(WriteSteps), ~Doing({"write"}), NEW place, place.done = 0, EndFile(place),
         faults' = 0 => faults = 0
  PROVE  Quiet
<1>1. TypeOK /\ InPart /\ Running /\ Step[1] \in {"skim", "temp"}
  BY DEF IInv, Doing, WriteSteps, InPart
<1>2. Arg # "RCM_1"
  <2>1. CASE Step[1] = "skim"
    BY <1>1, <2>1, AtWrite
  <2>2. CASE Step[1] = "temp"
    <3>1. at.n \in 1..pr_num /\ Arg = PrNames[at.n]
      BY <1>1, <2>2, AtWrite
    <3>2. pr_num \in Nat /\ pr_num <= Len(PrNames) /\ Len(PrNames) \in Nat
      BY <1>1, PrFacts DEF TypeOK
    <3> QED
      BY <3>1, <3>2, PrFacts, LabelNames
  <2> QED
    BY <1>1, <2>1, <2>2
<1>3. ref' = ref
  <2>1. CASE Step[1] = "skim"
    BY <1>1, <2>1, SkimSame, AppendedIs, EmptyText DEF EndFile, Doing
  <2>2. CASE Step[1] = "temp"
    BY <2>2 DEF EndFile, Appended
  <2> QED
    BY <1>1, <2>1, <2>2
<1>4. ~TooShort
  BY <1>1 DEF TooShort
<1>5. pr_num' = pr_num /\ (alarm => alarm')
  BY <1>2, <1>4 DEF EndFile
<1>6. Onward
  BY <1>1, <1>4 DEF Onward, EndFile, Goes
<1> QED
  BY <1>3, <1>4, <1>5, <1>6 DEF Quiet, EndFile, Goes

\* A text that is missing.
LEMMA ShortLeaves ==
  ASSUME IInv, Doing({"write"}), TooShort, NEW place, EndFile(place), faults' = 0 => faults = 0
  PROVE  Leaves
<1>1. TypeOK /\ InPart /\ Running /\ Step[1] = "write" /\ Doing(WriteSteps)
  BY DEF IInv, Doing, WriteSteps, InPart
<1>2. at.part # "save"
  BY <1>1, AtWrite DEF Pass
<1> QED
  BY <1>1, <1>2 DEF EndFile, Exit, Leaves

LEMMA QuietCompare ==
  ASSUME IInv, Doing({"diff"}), NEW text, NEW place, place.done = 0, Compare(text, place),
         faults' = 0 => faults = 0
  PROVE  Quiet \/ Leaves
<1>1. TypeOK /\ InPart /\ Running /\ Step[1] = "diff"
  BY DEF IInv, Doing, InPart
<1>2. CASE Goes
  BY <1>1, <1>2 DEF Quiet, Compare, Onward, Goes
<1>3. CASE Exit
  BY <1>1, <1>3, AtOther DEF Leaves, Compare, Exit
<1> QED
  BY <1>2, <1>3 DEF Compare

LEMMA NumbersSame ==
  ASSUME IInv, Numbers
  PROVE  pr_num' = pr_num /\ Opened("RCM_1") = alt
<1>1. TypeOK /\ InPart /\ Step[1] = "numbers"
  BY DEF IInv, Numbers, Doing
<1>2. at.part = "data" /\ at.n = 1
  BY <1>1, AtOther
<1>3. alt.name = "RCM_1" /\ pr_num = PrNumber(alt)
  BY <1>2 DEF IInv, AltInv, Before, Numbered, InData
<1>4. Opened("RCM_1") = alt
  BY <1>1, <1>3, OpenedAs
<1> QED
  BY <1>3, <1>4 DEF Numbers

LEMMA StepKinds ==
  ASSUME IInv, [Next]_vars
  PROVE  \/ Start \/ Restore \/ Clear \/ ReadBlock \/ Fills \/ Save \/ Stop
         \/ Quiet /\ (Move \/ EnterPart \/ ReadMark \/ ReadNothing \/ FailRead \/ Formatted \/ RcmBehindPrs
                      \/ Numbers \/ CountMarks \/ Diff \/ FailDiff \/ Walk)
         \/ Leaves /\ (ReadMark \/ ReadNothing \/ FailRead \/ Formatted \/ Numbers \/ Diff \/ FailDiff)
         \/ UNCHANGED vars
<1>1. TypeOK /\ faults \in Nat
  BY DEF IInv, TypeOK
<1>2. faults + 1 # 0
  BY <1>1
<1>a. CASE EnterPart
  BY <1>a, PlaceFacts DEF EnterPart, Quiet, Onward, Doing, WriteSteps
<1>b. CASE Move
  <2>1. InPart /\ Step[1] \in {"begin", "mark", "last"} /\ Running
    BY <1>b DEF Move, Doing, InPart
  <2>2. head'.done = 0
    BY <1>b, <2>1, PlaceFacts DEF Move, Front, LastRcm
  <2> QED
    BY <1>b, <2>1, <2>2 DEF Move, Quiet, Onward, Goes
<1>c. CASE ReadMark
  BY <1>c, QuietRead, ShortLeaves, PlaceFacts DEF ReadMark, EndsText, Fills
<1>d. CASE ReadNothing
  <2>1. head.done = 0
    BY <1>d, PlaceFacts DEF ReadNothing, Doing, InPart
  <2> QED
    BY <1>d, <2>1, QuietRead, ShortLeaves DEF ReadNothing, EndsText, Fills
<1>e. CASE FailRead
  <2>1. CASE Accepted
    BY <1>2, <1>e, <2>1, QuietRead, ShortLeaves, PlaceFacts DEF FailRead, EndsText, Fills
  <2>2. CASE ~Accepted
    <3>1. InPart /\ Running /\ at.part # "save"
      BY <1>1, <1>e, AtWrite DEF FailRead, InPart, Pass
    <3> QED
      BY <1>2, <1>e, <2>2, <3>1 DEF FailRead, Refuse, Exit, Leaves
  <2> QED
    BY <2>1, <2>2
<1>f. CASE Formatted
  <2>1. InPart /\ Step[1] = "formatted" /\ Running
    BY <1>f DEF Formatted, Doing, InPart
  <2>2. head.done = 0 /\ at.part # "save"
    BY <1>1, <2>1, NotWriting, AtOther DEF WriteSteps
  <2>3. CASE Goes
    BY <1>f, <2>1, <2>2, <2>3 DEF Formatted, Quiet, Onward, Goes
  <2>4. CASE Exit
    BY <1>f, <2>1, <2>2, <2>4 DEF Formatted, Leaves, Exit
  <2> QED
    BY <1>f, <2>3, <2>4 DEF Formatted
<1>g. CASE RcmBehindPrs
  <2>1. InPart /\ Step[1] = "rcm" /\ Running
    BY <1>g DEF RcmBehindPrs, Doing, InPart
  <2>2. head'.done = 0
    <3>1. head.done = 0
      BY <2>1, NotWriting DEF WriteSteps
    <3>2. head' = head \/ head' = LastRcm("ref")
      BY <1>g DEF RcmBehindPrs
    <3> QED
      BY <3>1, <3>2 DEF LastRcm, Front
  <2>3. alarm => alarm'
    BY <1>g DEF RcmBehindPrs
  <2> QED
    BY <1>g, <2>1, <2>2, <2>3 DEF RcmBehindPrs, Quiet, Onward, Goes
<1>h. CASE Numbers
  <2>1. InPart /\ Step[1] = "numbers" /\ Running
    BY <1>h DEF Numbers, Doing, InPart
  <2>2. head.done = 0 /\ at.part # "save"
    BY <1>1, <2>1, NotWriting, AtOther DEF WriteSteps
  <2>3. CASE Goes
    BY <1>h, <2>1, <2>2, <2>3, NumbersSame DEF Numbers, Quiet, Onward, Goes
  <2>4. CASE Exit
    BY <1>h, <2>1, <2>2, <2>4 DEF Numbers, Leaves, Exit
  <2> QED
    BY <1>h, <2>3, <2>4 DEF Numbers
<1>i. CASE CountMarks
  <2>1. InPart /\ Step[1] = "count" /\ Running
    BY <1>i DEF CountMarks, Doing, InPart
  <2>2. head.done = 0
    BY <2>1, NotWriting DEF WriteSteps
  <2>3. alarm => alarm'
    BY <1>i DEF CountMarks
  <2> QED
    BY <1>i, <2>1, <2>2, <2>3 DEF CountMarks, Quiet, Onward, Goes
<1>j. CASE Diff
  BY <1>j, QuietCompare, PlaceFacts DEF Diff
<1>k. CASE FailDiff
  <2>1. CASE Accepted
    BY <1>2, <1>k, <2>1, QuietCompare, PlaceFacts DEF FailDiff
  <2>2. CASE ~Accepted
    <3>1. InPart /\ Running /\ at.part # "save"
      BY <1>1, <1>k, AtOther DEF FailDiff, InPart, Doing
    <3> QED
      BY <1>2, <1>k, <2>2, <3>1 DEF FailDiff, Refuse, Exit, Leaves
  <2> QED
    BY <2>1, <2>2
<1>l. CASE Walk
  <2>1. InPart /\ Step[1] = "walk" /\ Running
    BY <1>l DEF Walk, Doing, InPart
  <2>2. head.done = 0
    BY <2>1, NotWriting DEF WriteSteps
  <2>3. alarm => alarm'
    BY <1>l DEF Walk
  <2> QED
    BY <1>l, <2>1, <2>2, <2>3 DEF Walk, Quiet, Onward, Goes
<1> QED
  BY <1>a, <1>b, <1>c, <1>d, <1>e, <1>f, <1>g, <1>h, <1>i, <1>j, <1>k, <1>l DEF Next

-----------------------------------------------------------------------------
(* The step is one of the part, the open file and the file marks *)

\* The number of steps of a part after a step.
LEMMA PartLengthsNext ==
  ASSUME TypeOK'
  PROVE  /\ at'.part = "off" => Len(Steps(at.part))' = 0
         /\ at'.part \in {"restore", "save"} => Len(Steps(at.part))' = Len(Order)
         /\ at'.part \in {"labels", "again"} => Len(Steps(at.part))' = 10
         /\ at'.part = "formatted" => Len(Steps(at.part))' = 1
         /\ at'.part \in {"temp", "prs"} => Len(Steps(at.part))' = pr_num'
         /\ at'.part = "rcm" => Len(Steps(at.part))' = 2
         /\ at'.part = "data" => Len(Steps(at.part))' = IF flag' THEN 4 ELSE 9
         /\ Len(Steps(at.part))' \in Nat
<1>1. (TypeOK =>
         /\ at.part = "off" => Len(Steps(at.part)) = 0
         /\ at.part \in {"restore", "save"} => Len(Steps(at.part)) = Len(Order)
         /\ Pass => Len(Steps(at.part)) = 10
         /\ at.part = "formatted" => Len(Steps(at.part)) = 1
         /\ at.part \in {"temp", "prs"} => Len(Steps(at.part)) = pr_num
         /\ at.part = "rcm" => Len(Steps(at.part)) = 2
         /\ at.part = "data" => Len(Steps(at.part)) = IF flag THEN 4 ELSE 9)'
  BY PartLengths, PTL
<1>2. /\ at'.part = "off" => Len(Steps(at.part))' = 0
      /\ at'.part \in {"restore", "save"} => Len(Steps(at.part))' = Len(Order)
      /\ at'.part \in {"labels", "again"} => Len(Steps(at.part))' = 10
      /\ at'.part = "formatted" => Len(Steps(at.part))' = 1
      /\ at'.part \in {"temp", "prs"} => Len(Steps(at.part))' = pr_num'
      /\ at'.part = "rcm" => Len(Steps(at.part))' = 2
      /\ at'.part = "data" => Len(Steps(at.part))' = IF flag' THEN 4 ELSE 9
  BY <1>1 DEF Pass
<1>3. pr_num' \in Nat /\ Len(Order) \in Nat /\ at'.part \in Parts
  BY PrFacts, OrderAssumption DEF TypeOK
<1> QED
  BY <1>2, <1>3 DEF Parts

\* The end of a written file.
LEMMA EndsAt ==
  ASSUME IInv, EndsText
  PROVE  /\ TypeOK /\ InPart /\ Running /\ Step[1] = "write" /\ Doing(WriteSteps)
         /\ \E place : place.done = 0 /\ EndFile(place)
         /\ faults' = 0 => faults = 0
         /\ \/ Pass /\ \/ at.n = 4  /\ Arg = "OTFLabel"
                       \/ at.n = 6  /\ Arg = "RCM_1"
                       \/ at.n = 8  /\ Arg = "VOL1Label"
                       \/ at.n = 10 /\ Arg = "RCM_0"
            \/ at.part = "prs" /\ at.n \in 1..pr_num /\ Arg = PrNames[at.n] /\ Arg \notin Labels
<1>1. TypeOK /\ InPart /\ Running /\ Step[1] = "write" /\ Doing(WriteSteps)
  BY DEF IInv, EndsText, Doing, WriteSteps, InPart
<1>2. \E place : place.done = 0 /\ EndFile(place)
  <2>1. CASE ReadMark
    BY <2>1, PlaceFacts DEF ReadMark
  <2>2. CASE ReadNothing
    BY <1>1, <2>2, PlaceFacts DEF ReadNothing
  <2>3. CASE FailRead /\ Accepted
    BY <2>3, PlaceFacts DEF FailRead
  <2> QED
    BY <2>1, <2>2, <2>3 DEF EndsText
<1>3. faults' = 0 => faults = 0
  <2>1. faults \in Nat
    BY <1>1 DEF TypeOK
  <2>2. faults + 1 # 0
    BY <2>1
  <2> QED
    BY <2>2 DEF EndsText, ReadMark, ReadNothing, FailRead
<1>4. \/ Pass /\ \/ at.n = 4  /\ Arg = "OTFLabel"
                 \/ at.n = 6  /\ Arg = "RCM_1"
                 \/ at.n = 8  /\ Arg = "VOL1Label"
                 \/ at.n = 10 /\ Arg = "RCM_0"
      \/ at.part = "prs" /\ at.n \in 1..pr_num /\ Arg = PrNames[at.n] /\ Arg \notin Labels
  <2>1. pr_num \in Nat /\ pr_num <= Len(PrNames) /\ Len(PrNames) \in Nat
    BY <1>1, PrFacts DEF TypeOK
  <2>2. \A k \in 1..pr_num : PrNames[k] \notin Labels
    BY <2>1, PrFacts
  <2> QED
    BY <1>1, <2>2, AtWrite
<1> QED
  BY <1>1, <1>2, <1>3, <1>4

\* Where the steps of a written file go.
LEMMA FillsAt ==
  ASSUME IInv, Fills
  PROVE  /\ TypeOK /\ InPart /\ Running /\ Step[1] = "write" /\ Doing(WriteSteps)
         /\ at'.part = at.part /\ at'.n = at.n + 1 /\ head'.done = 0
         /\ UNCHANGED <<tape, barcode, mode, flag, fm_num, backup, cut, refused, walked>>
         /\ ref' = With(ref, Arg, Text(Arg))
         /\ alarm' = (alarm \/ ~WellFormed(Arg, Text(Arg)))
         /\ Arg # "RCM_1" => alt' = alt /\ pr_num' = pr_num
         /\ Arg = "RCM_1" => alt' = Opened(Arg) /\ pr_num' = PrNumber(alt')
         /\ faults' = 0 => faults = 0
         /\ \/ Pass /\ \/ at.n = 4  /\ Arg = "OTFLabel"
                       \/ at.n = 6  /\ Arg = "RCM_1"
                       \/ at.n = 8  /\ Arg = "VOL1Label"
                       \/ at.n = 10 /\ Arg = "RCM_0"
            \/ at.part = "prs" /\ at.n \in 1..pr_num /\ Arg = PrNames[at.n] /\ Arg \notin Labels
<1>1. EndsText /\ ~TooShort
  BY DEF Fills
<1>2. TypeOK /\ InPart /\ Running /\ Step[1] = "write" /\ Doing(WriteSteps)
  BY <1>1, EndsAt
<1>3. PICK place : place.done = 0 /\ EndFile(place)
  BY <1>1, EndsAt
<1>4. Goes /\ ref' = Appended(<< >>) /\ head' = place
  BY <1>1, <1>3 DEF EndFile
<1>5. ref' = With(ref, Arg, Text(Arg))
  <2>1. Text(Arg) \o << >> = Text(Arg)
    BY <1>2, EmptyText, AppendedIs
  <2> QED
    BY <1>2, <1>4, <2>1 DEF Appended
<1>6. at'.part = at.part /\ at'.n = at.n + 1 /\ refused' = refused
  BY <1>2, <1>4, GoesAt DEF Goes
<1>7. alarm' = (alarm \/ ~WellFormed(Arg, Text(Arg)))
  BY <1>1, <1>2, <1>3 DEF EndFile
<1> QED
  BY <1>1, <1>2, <1>3, <1>4, <1>5, <1>6, <1>7, EndsAt DEF EndFile

LEMMA PartNext ==
  ASSUME IInv, TypeOK', [Next]_vars
  PROVE  PartInv'
<1>1. TypeOK /\ PartInv /\ flag \in BOOLEAN
  BY DEF IInv, TypeOK
<1>2. at'.n \in Nat /\ at.n \in Nat /\ pr_num \in Nat /\ Len(Order) \in Nat
  BY <1>1, PrFacts, OrderAssumption DEF TypeOK
<1>3. SUFFICES /\ at'.n <= Len(Steps(at.part))' + 1
               /\ at'.part = "restore" => flag'
               /\ at'.part \in {"again", "prs", "rcm", "save"} => ~flag'
               /\ at'.part = "save" => mode' = "dump"
               /\ flag' => "OTFLabel" \in DOMAIN Files(tape)'
  BY DEF PartInv
<1>4. at'.n = 1 => at'.n <= Len(Steps(at.part))' + 1
  BY PartLengthsNext
<1>5. ASSUME UNCHANGED <<tape, barcode, flag, backup>>
      PROVE  flag' => "OTFLabel" \in DOMAIN Files(tape)'
  BY <1>1, <1>5 DEF PartInv, Files
<1>a. CASE Start
  <2>1. at'.n = 1 /\ at'.part = (IF flag' THEN "restore" ELSE "labels")
    BY <1>a DEF Start
  <2>2. flag' => "OTFLabel" \in DOMAIN Files(tape)'
    BY <1>a DEF Start, Files
  <2> QED
    BY <1>4, <2>1, <2>2
<1>b. CASE Restore \/ Clear \/ Save
  <2>1. InPart /\ Step[1] \in {"restore", "clear", "save"} /\ Goes /\ UNCHANGED <<mode, flag, tape, barcode>>
    BY <1>b DEF Restore, Clear, Save, Doing
  <2>2. at'.part = at.part /\ at'.n = at.n + 1
    BY <1>1, <2>1, GoesAt DEF Goes
  <2>3. at'.n <= Len(Steps(at.part))' + 1
    <3>1. CASE at.part \in {"restore", "save"}
      <4>1. Len(Steps(at.part))' = Len(Order)
        BY <2>2, <3>1, PartLengthsNext
      <4>2. at.n <= Len(Order)
        BY <1>1, <1>2, <2>1, <3>1, StepTable
      <4> QED
        BY <1>2, <2>2, <4>1, <4>2
    <3>2. CASE Pass /\ at.n = 1
      <4>1. Len(Steps(at.part))' = 10
        BY <2>2, <3>2, PartLengthsNext DEF Pass
      <4> QED
        BY <2>2, <3>2, <4>1
    <3> QED
      BY <1>1, <2>1, <3>1, <3>2, AtOther
  <2>4. flag' => "OTFLabel" \in DOMAIN Files(tape)'
    <3>1. flag => UNCHANGED backup
      BY <1>b, <1>1, <2>1, AtOther DEF Restore, Clear, Save, PartInv, Doing
    <3> QED
      BY <1>5, <2>1, <3>1
  <2> QED
    BY <1>1, <2>1, <2>2, <2>3, <2>4 DEF PartInv
<1>c. CASE ReadBlock
  <2>1. UNCHANGED <<at, mode, flag, tape, barcode, backup, pr_num>>
    BY <1>c DEF ReadBlock
  <2>2. Len(Steps(at.part))' = Len(Steps(at.part))
    BY <2>1 DEF Steps, PrSteps, DataSteps
  <2> QED
    BY <1>1, <1>5, <2>1, <2>2 DEF PartInv
<1>d. CASE Fills
  <2>1. /\ InPart /\ at'.part = at.part /\ at'.n = at.n + 1 /\ UNCHANGED <<mode, flag, tape, barcode, backup>>
        /\ \/ Pass /\ at.n <= 10
           \/ at.part = "prs" /\ at.n \in 1..pr_num /\ pr_num' = pr_num
    <3>1. "RCM_1" \in Labels
      BY LabelNames
    <3> QED
      BY <1>d, <3>1, FillsAt
  <2>2. at'.n <= Len(Steps(at.part))' + 1
    <3>1. CASE Pass /\ at.n <= 10
      <4>1. Len(Steps(at.part))' = 10
        BY <2>1, <3>1, PartLengthsNext DEF Pass
      <4> QED
        BY <1>2, <2>1, <3>1, <4>1
    <3>2. CASE at.part = "prs" /\ at.n \in 1..pr_num /\ pr_num' = pr_num
      <4>1. Len(Steps(at.part))' = pr_num
        BY <2>1, <3>2, PartLengthsNext
      <4> QED
        BY <1>2, <2>1, <3>2, <4>1
    <3> QED
      BY <2>1, <3>1, <3>2
  <2> QED
    BY <1>1, <1>5, <2>1, <2>2 DEF PartInv
<1>e. CASE Stop \/ Leaves
  <2>1. at' = Off /\ UNCHANGED <<mode, flag, tape, barcode>>
    BY <1>e DEF Stop, Leaves
  <2>2. at'.part = "off" /\ at'.n = 1
    BY <2>1 DEF Off
  <2>3. flag => UNCHANGED backup
    <3>1. Doing({"save"}) => ~flag
      BY <1>1, AtOther DEF Doing, PartInv
    <3> QED
      BY <1>e, <3>1, StopCases DEF Leaves
  <2> QED
    BY <1>4, <1>5, <2>1, <2>2, <2>3
<1>f. CASE Quiet
  <2>1. Onward /\ UNCHANGED <<mode, flag, tape, barcode, backup, pr_num>>
    BY <1>f DEF Quiet
  <2>2. at'.n <= Len(Steps(at.part))' + 1
    <3>1. CASE at'.n = 1
      BY <1>4, <3>1
    <3>2. CASE at'.part = "formatted" /\ at'.n = 2
      <4>1. Len(Steps(at.part))' = 1
        BY <3>2, PartLengthsNext
      <4> QED
        BY <3>2, <4>1
    <3>3. CASE Pass /\ at.n <= 10 /\ at'.part = at.part /\ at'.n = at.n + 1
      <4>1. Len(Steps(at.part))' = 10
        BY <3>3, PartLengthsNext DEF Pass
      <4> QED
        BY <1>2, <3>3, <4>1
    <3>4. CASE at.n \in 1..pr_num /\ at'.part = "temp" /\ at'.n = at.n + 1
      <4>1. Len(Steps(at.part))' = pr_num
        BY <2>1, <3>4, PartLengthsNext
      <4> QED
        BY <1>2, <3>4, <4>1
    <3>5. CASE at.n \in {1, 2} /\ at'.part = "rcm" /\ at'.n = at.n + 1
      <4>1. Len(Steps(at.part))' = 2
        BY <3>5, PartLengthsNext
      <4>2. at.n = 1 \/ at.n = 2
        BY <3>5
      <4>3. at'.n = 1 + 1 \/ at'.n = 2 + 1
        BY <3>5, <4>2
      <4> QED
        BY <4>1, <4>3
    <3>6. CASE at.n \in 1..(IF flag THEN 4 ELSE 9) /\ at'.part = "data" /\ at'.n = at.n + 1
      <4>1. Len(Steps(at.part))' = IF flag THEN 4 ELSE 9
        BY <2>1, <3>6, PartLengthsNext
      <4>2. CASE flag
        <5>1. Len(Steps(at.part))' = 4
          BY <4>1, <4>2
        <5>2. at.n \in 1..4 /\ at'.n = at.n + 1
          BY <3>6, <4>2
        <5> QED
          BY <5>1, <5>2
      <4>3. CASE ~flag
        <5>1. Len(Steps(at.part))' = 9
          BY <4>1, <4>3
        <5>2. at.n \in 1..9 /\ at'.n = at.n + 1
          BY <3>6, <4>3
        <5> QED
          BY <5>1, <5>2
      <4> QED
        BY <4>2, <4>3
    <3> QED
      BY <1>1, <2>1, <3>1, <3>2, <3>3, <3>4, <3>5, <3>6, OnwardTable
  <2>3. /\ at'.part = "restore" => flag
        /\ at'.part \in {"again", "prs", "rcm", "save"} => ~flag
        /\ at'.part = "save" => mode = "dump"
    BY <1>1, <2>1, OnwardTable DEF PartInv, Pass
  <2> QED
    BY <1>5, <2>1, <2>2, <2>3
<1>g. CASE UNCHANGED vars
  <2>1. UNCHANGED <<at, mode, flag, tape, barcode, backup, pr_num>>
    BY <1>g DEF vars
  <2>2. Len(Steps(at.part))' = Len(Steps(at.part))
    BY <2>1 DEF Steps, PrSteps, DataSteps
  <2> QED
    BY <1>1, <1>5, <2>1, <2>2 DEF PartInv
<1> QED
  BY <1>a, <1>b, <1>c, <1>d, <1>e, <1>f, <1>g, StepKinds

\* Which action a step that leaves the files is.
LEMMA QuietAction ==
  ASSUME IInv, Quiet,
         Move \/ EnterPart \/ ReadMark \/ ReadNothing \/ FailRead \/ Formatted \/ RcmBehindPrs
           \/ Numbers \/ CountMarks \/ Diff \/ FailDiff \/ Walk
  PROVE  /\ TypeOK /\ PartInv /\ Onward /\ Running
         /\ \/ EnterPart /\ ~InPart
            \/ Step[1] \in {"begin", "mark", "last"} /\ InPart /\ Move
            \/ Step[1] \in {"skim", "temp"} /\ InPart /\ Doing(WriteSteps) /\ (ReadMark \/ ReadNothing \/ (FailRead /\ Accepted))
            \/ Step[1] = "formatted" /\ InPart /\ Formatted /\ ~alarm
            \/ Step[1] = "rcm" /\ InPart /\ RcmBehindPrs
            \/ Step[1] = "numbers" /\ InPart /\ Numbers
            \/ Step[1] = "count" /\ InPart /\ CountMarks
            \/ Step[1] = "diff" /\ InPart /\ (Diff \/ (FailDiff /\ Accepted))
            \/ Step[1] = "walk" /\ InPart /\ Walk
         /\ ~(InPart /\ Step[1] \in {"numbers", "diff"}) => alt' = alt
         /\ ~(InPart /\ Step[1] \in {"begin", "mark", "last"}) => fm_num' = fm_num
         /\ ~(InPart /\ Step[1] \in {"skim", "temp", "rcm", "count", "diff", "walk"}) => alarm' = alarm
<1>1. TypeOK /\ PartInv /\ Onward /\ Running
  BY DEF IInv, Quiet, Onward
<1>2. InPart => at' # Off
  <2>1. InPart => at' = [at EXCEPT !.n = @ + 1] /\ at.part # "off"
    BY <1>1 DEF Onward, Running
  <2>2. InPart => at'.part # "off"
    BY <1>1, <2>1, GoesAt
  <2> QED
    BY <2>2 DEF Off
<1>3. InPart => Step[1] # "write"
  BY <1>1 DEF Onward
<1>a. CASE EnterPart
  BY <1>1, <1>a DEF EnterPart
<1>b. CASE Move
  BY <1>1, <1>b DEF Move, Doing
<1>c. CASE ReadMark \/ ReadNothing \/ FailRead
  <2>1. Doing(WriteSteps) /\ InPart /\ Step[1] \in {"skim", "temp"}
    BY <1>3, <1>c DEF ReadMark, ReadNothing, FailRead, Doing, WriteSteps
  <2>2. FailRead => Accepted
    BY <1>2, <2>1 DEF FailRead, Refuse, Exit
  <2>3. Arg # "RCM_1"
    <3>1. CASE Step[1] = "skim"
      BY <1>1, <2>1, <3>1, AtWrite
    <3>2. CASE Step[1] = "temp"
      <4>1. at.n \in 1..pr_num /\ Arg = PrNames[at.n]
        BY <1>1, <2>1, <3>2, AtWrite
      <4>2. pr_num \in Nat /\ pr_num <= Len(PrNames) /\ Len(PrNames) \in Nat
        BY <1>1, PrFacts DEF TypeOK
      <4> QED
        BY <4>1, <4>2, PrFacts, LabelNames
    <3> QED
      BY <2>1, <3>1, <3>2
  <2>4. alt' = alt /\ fm_num' = fm_num
    BY <1>c, <2>2, <2>3 DEF ReadMark, ReadNothing, FailRead, EndFile
  <2> QED
    BY <1>1, <1>c, <2>1, <2>2, <2>4
<1>d. CASE Formatted
  BY <1>1, <1>2, <1>d DEF Formatted, Doing, Exit
<1>e. CASE RcmBehindPrs
  BY <1>1, <1>e DEF RcmBehindPrs, Doing
<1>f. CASE Numbers
  BY <1>1, <1>f DEF Numbers, Doing
<1>g. CASE CountMarks
  BY <1>1, <1>g DEF CountMarks, Doing
<1>h. CASE Diff
  BY <1>1, <1>h DEF Diff, Compare, Doing
<1>i. CASE FailDiff
  <2>1. InPart /\ Step[1] = "diff"
    BY <1>i DEF FailDiff, Doing
  <2>2. Accepted
    BY <1>2, <1>i, <2>1 DEF FailDiff, Refuse, Exit
  <2> QED
    BY <1>1, <1>i, <2>1, <2>2 DEF FailDiff, Compare
<1>j. CASE Walk
  BY <1>1, <1>j DEF Walk, Doing
<1> QED
  BY <1>a, <1>b, <1>c, <1>d, <1>e, <1>f, <1>g, <1>h, <1>i, <1>j

\* A comparison that goes on.
LEMMA QuietDiff ==
  ASSUME IInv, Quiet, InPart, Step[1] = "diff", Diff \/ (FailDiff /\ Accepted)
  PROVE  /\ TypeOK /\ at.part = "data" /\ at'.part = "data" /\ at'.n = at.n + 1
         /\ \/ at.n = 3 /\ Arg = "RCM_1"
            \/ ~flag /\ \/ at.n = 5 /\ Arg = "VOL1Label"
                        \/ at.n = 6 /\ Arg = "OTFLabel"
                        \/ at.n = 7 /\ Arg = "RCM_0"
         /\ alt' = Opened(Arg) /\ fm_num' = fm_num /\ walked' = walked
         /\ \E text :
              /\ alarm' = (alarm \/ Opened(Arg).text # text)
              /\ Arg = "RCM_0" => Opened(Arg).text = text
              /\ \/ /\ text = SubSeq(Here, 1, Len(Here)) /\ head' = AfterMark /\ faults' = faults
                 \/ text = << >> /\ head' = head /\ head.item > 1 /\ faults' = faults + 1
<1>1. TypeOK /\ PartInv /\ Onward
  BY DEF IInv, Quiet
<1>2. at.part = "data"
  BY <1>1, AtOther
<1>3. at' = [at EXCEPT !.n = @ + 1] /\ at' # Off
  <2>1. at' = [at EXCEPT !.n = @ + 1]
    BY <1>1 DEF Onward
  <2> QED
    BY <1>1, <1>2, <2>1, GoesAt DEF Off
<1>4. head.done = 0
  BY NotWriting DEF WriteSteps
<1>5. ASSUME NEW text, NEW place, Compare(text, place)
      PROVE  /\ alt' = Opened(Arg) /\ fm_num' = fm_num /\ walked' = walked
             /\ alarm' = (alarm \/ Opened(Arg).text # text)
             /\ Arg = "RCM_0" => Opened(Arg).text = text
             /\ head' = place
  <2>1. ~Exit
    BY <1>3 DEF Exit
  <2>2. ~(Arg = "RCM_0" /\ alt'.text # text) /\ alt' = Opened(Arg)
    BY <1>5, <2>1 DEF Compare
  <2>3. alarm' = (alarm \/ alt'.text # text)
    BY <1>5 DEF Compare
  <2> QED
    BY <1>5, <2>2, <2>3 DEF Compare
<1>6. \E text :
        /\ alt' = Opened(Arg) /\ fm_num' = fm_num /\ walked' = walked
        /\ alarm' = (alarm \/ Opened(Arg).text # text)
        /\ Arg = "RCM_0" => Opened(Arg).text = text
        /\ \/ text = SubSeq(Here, 1, Len(Here)) /\ head' = AfterMark /\ faults' = faults
           \/ text = << >> /\ head' = head /\ head.item > 1 /\ faults' = faults + 1
  <2>1. CASE Diff
    <3>1. Compare(SubSeq(Here, head.done + 1, Len(Here)), AfterMark) /\ faults' = faults
      BY <2>1 DEF Diff
    <3>2. head.done + 1 = 1
      BY <1>4
    <3>3. Compare(SubSeq(Here, 1, Len(Here)), AfterMark)
      BY <3>1, <3>2
    <3> QED
      BY <1>5, <3>1, <3>3
  <2>2. CASE FailDiff /\ Accepted
    <3>1. Compare(<< >>, head) /\ faults' = faults + 1 /\ head.item > 1
      BY <2>2 DEF FailDiff, Accepted
    <3> QED
      BY <1>5, <3>1
  <2> QED
    BY <2>1, <2>2
<1> QED
  BY <1>1, <1>2, <1>3, <1>6, AtOther, GoesAt

LEMMA MoveIs ==
  ASSUME Move
  PROVE  /\ Step[1] = "begin" => head' = Front(Arg, 1) /\ fm_num' = fm_num
         /\ Step[1] = "mark" => head' = AfterMark /\ fm_num' = fm_num
         /\ Step[1] = "last" => head' = LastRcm(Arg) /\ fm_num' = Items(tape, Arg)
<1>1. CASE Step[1] = "begin"
  BY <1>1 DEF Move
<1>2. CASE Step[1] = "mark"
  BY <1>2 DEF Move
<1>3. CASE Step[1] = "last"
  <2>1. Step[1] # "begin" /\ Step[1] # "mark"
    BY <1>3
  <2> QED
    BY <1>3, <2>1 DEF Move
<1> QED
  BY <1>1, <1>2, <1>3

LEMMA AltNext ==
  ASSUME IInv, TypeOK', [Next]_vars
  PROVE  AltInv'
<1>1. TypeOK /\ AltInv /\ PartInv /\ at.n \in Nat /\ at'.n \in Nat /\ pr_num \in Nat
  BY PrFacts DEF IInv, TypeOK
<1>2. SUFFICES
        /\ at'.part = "restore" \/ (at'.part = "labels" /\ at'.n <= 6) => alt' = NoFile
        /\ /\ at'.part \notin {"off", "restore", "save"} /\ (at'.part = "labels" => at'.n > 6)
           /\ ~(at'.part = "data" /\ at'.n >= 2)
           => alt'.name = "RCM_1" /\ pr_num' = PrNumber(alt')
        /\ at'.part = "data" /\ at'.n >= 2 /\ ~(at'.n >= 4) /\ pr_num' > 0 => alt'.name \notin Labels
        /\ at'.part = "data" /\ at'.n >= 4 /\ ~(at'.n >= 6) => alt'.name = "RCM_1"
        /\ at'.part = "data" /\ at'.n >= 6 /\ ~(at'.n >= 7) => alt'.name = "VOL1Label"
        /\ at'.part = "data" /\ at'.n >= 7 /\ ~(at'.n >= 8) => alt'.name = "OTFLabel"
  BY DEF AltInv, Before, Numbered, InData
<1>3. /\ at.part = "restore" \/ (at.part = "labels" /\ at.n <= 6) => alt = NoFile
      /\ /\ at.part \notin {"off", "restore", "save"} /\ (at.part = "labels" => at.n > 6)
         /\ ~(at.part = "data" /\ at.n >= 2)
         => alt.name = "RCM_1" /\ pr_num = PrNumber(alt)
      /\ at.part = "data" /\ at.n >= 2 /\ ~(at.n >= 4) /\ pr_num > 0 => alt.name \notin Labels
      /\ at.part = "data" /\ at.n >= 4 /\ ~(at.n >= 6) => alt.name = "RCM_1"
      /\ at.part = "data" /\ at.n >= 6 /\ ~(at.n >= 7) => alt.name = "VOL1Label"
      /\ at.part = "data" /\ at.n >= 7 /\ ~(at.n >= 8) => alt.name = "OTFLabel"
  BY <1>1 DEF AltInv, Before, Numbered, InData
<1>a. CASE Start
  <2>1. alt' = NoFile /\ at'.part \in {"restore", "labels"} /\ at'.n = 1
    BY <1>a DEF Start
  <2> QED
    BY <2>1
<1>b. CASE Restore \/ Clear \/ Save
  <2>1. InPart /\ Step[1] \in {"restore", "clear", "save"} /\ Goes /\ UNCHANGED <<alt, pr_num>>
    BY <1>b DEF Restore, Clear, Save, Doing
  <2>2. at'.part = at.part /\ at'.n = at.n + 1
    BY <1>1, <2>1, GoesAt DEF Goes
  <2>3. at.part \in {"restore", "save"} \/ (Pass /\ at.n = 1)
    BY <1>1, <2>1, AtOther
  <2> QED
    BY <1>3, <2>1, <2>2, <2>3 DEF Pass
<1>c. CASE ReadBlock \/ UNCHANGED vars
  <2>1. UNCHANGED <<at, alt, pr_num>>
    BY <1>c DEF ReadBlock, vars
  <2> QED
    BY <1>3, <2>1
<1>d. CASE Fills
  <2>1. /\ InPart /\ at'.part = at.part /\ at'.n = at.n + 1
        /\ Arg # "RCM_1" => alt' = alt /\ pr_num' = pr_num
        /\ Arg = "RCM_1" => alt' = Opened(Arg) /\ pr_num' = PrNumber(alt')
        /\ \/ Pass /\ \/ at.n \in {4, 8, 10}  /\ Arg # "RCM_1"
                      \/ at.n = 6 /\ Arg = "RCM_1"
           \/ at.part = "prs" /\ Arg # "RCM_1"
    BY <1>d, FillsAt, LabelNames
  <2>2. CASE Arg = "RCM_1"
    <3>1. alt'.name = "RCM_1" /\ Pass /\ at.n = 6
      BY <1>1, <2>1, <2>2, OpenedAs
    <3> QED
      BY <2>1, <2>2, <3>1 DEF Pass
  <2>3. CASE Arg # "RCM_1"
    <3>1. alt' = alt /\ pr_num' = pr_num
      BY <2>1, <2>3
    <3>2. CASE Pass /\ at.n \in {4, 8, 10}
      BY <1>3, <2>1, <3>1, <3>2 DEF Pass
    <3>3. CASE at.part = "prs"
      BY <1>3, <2>1, <3>1, <3>3
    <3> QED
      BY <2>1, <2>3, <3>2, <3>3
  <2> QED
    BY <2>2, <2>3
<1>e. CASE Stop \/ Leaves
  <2>1. at'.part = "off"
    BY <1>e DEF Stop, Leaves, Off
  <2> QED
    BY <2>1
<1>f. CASE Quiet /\ (Move \/ EnterPart \/ ReadMark \/ ReadNothing \/ FailRead \/ Formatted \/ RcmBehindPrs
                      \/ Numbers \/ CountMarks \/ Diff \/ FailDiff \/ Walk)
  <2>1. Onward /\ pr_num' = pr_num
    BY <1>f DEF Quiet
  <2>2. CASE InPart /\ Step[1] = "numbers"
    <3>1. Numbers /\ at.part = "data" /\ at.n = 1
      BY <1>1, <1>f, <2>2, QuietAction, AtOther
    <3>2. at'.part = "data" /\ at'.n = 2
      BY <1>1, <2>1, <3>1, OnwardTable DEF Pass
    <3>3. pr_num > 0 => alt'.name = PrNames[pr_num]
      <4>1. PrNumber(Opened("RCM_1")) = pr_num
        BY <2>1, <3>1 DEF Numbers
      <4>2. alt' = IF pr_num = 0 THEN Opened("RCM_1") ELSE [name |-> PrNames[pr_num], text |-> Text(PrNames[pr_num])]
        BY <3>1, <4>1 DEF Numbers
      <4> QED
        BY <1>1, <4>2
    <3>4. pr_num > 0 => PrNames[pr_num] \notin Labels
      <4>1. pr_num <= Len(PrNames) /\ Len(PrNames) \in Nat
        BY <1>1, PrFacts DEF TypeOK
      <4> QED
        BY <1>1, <4>1, PrFacts
    <3> QED
      BY <2>1, <3>2, <3>3, <3>4
  <2>3. CASE InPart /\ Step[1] = "diff"
    <3>1. /\ alt' = Opened(Arg) /\ at.part = "data" /\ at'.part = "data" /\ at'.n = at.n + 1
          /\ \/ at.n = 3 /\ Arg = "RCM_1"
             \/ at.n = 5 /\ Arg = "VOL1Label"
             \/ at.n = 6 /\ Arg = "OTFLabel"
             \/ at.n = 7
      BY <1>f, <2>3, QuietAction, QuietDiff
    <3>2. alt'.name = Arg
      BY <1>1, <3>1, OpenedAs
    <3> QED
      BY <3>1, <3>2
  <2>4. CASE ~(InPart /\ Step[1] \in {"numbers", "diff"})
    <3>1. alt' = alt
      BY <1>f, <2>4, QuietAction
    <3>2. CASE at.part = "data" /\ at'.part = "data"
      <4>1. at'.n = at.n + 1 /\ at.n \in 1..(IF flag THEN 4 ELSE 9)
        BY <1>1, <2>1, <3>2, OnwardTable DEF Pass
      <4>2. InPart
        <5>1. ~InPart => at'.n = 1
          BY <2>1 DEF Onward
        <5> QED
          BY <4>1, <5>1
      <4>3. at.n \in {2, 4, 8, 9}
        BY <1>1, <2>4, <3>2, <4>2, DataTable
      <4> QED
        BY <1>3, <2>1, <3>1, <3>2, <4>1, <4>3
    <3>3. CASE at.part # "data" /\ at'.part = "data"
      <4>1. at'.n = 1 /\ at.part \in {"temp", "rcm"}
        BY <1>1, <2>1, <3>3, OnwardTable DEF Pass
      <4> QED
        BY <1>3, <2>1, <3>1, <3>3, <4>1
    <3>4. CASE at'.part # "data"
      <4>1. /\ at'.part = "restore" \/ (at'.part = "labels" /\ at'.n <= 6) =>
                 at.part = "restore" \/ (at.part = "labels" /\ at.n <= 6)
            /\ at'.part \notin {"off", "restore", "save"} /\ (at'.part = "labels" => at'.n > 6)
                 => at.part \notin {"off", "restore", "save", "data"} /\ (at.part = "labels" => at.n > 6)
        BY <1>1, <2>1, <3>4, OnwardTable DEF Pass
      <4> QED
        BY <1>3, <2>1, <3>1, <3>4, <4>1
    <3> QED
      BY <3>2, <3>3, <3>4
  <2> QED
    BY <2>2, <2>3, <2>4
<1> QED
  BY <1>a, <1>b, <1>c, <1>d, <1>e, <1>f, StepKinds

LEMMA MarksNext ==
  ASSUME IInv, TypeOK', [Next]_vars
  PROVE  MarksInv'
<1>1. TypeOK /\ MarksInv /\ PartInv /\ at.n \in Nat /\ at'.n \in Nat
  BY DEF IInv, TypeOK
<1>2. SUFFICES
        /\ /\ at'.part \notin {"off", "restore", "save"} /\ (at'.part = "labels" => at'.n >= 6)
           /\ ~(at'.part = "data" /\ at'.n >= 3)
           => fm_num' = Items(tape', "ref")
        /\ at'.part = "data" /\ at'.n >= 3 => fm_num' = Items(tape', "data")
  BY <1>1 DEF MarksInv, Before, Numbered, InData
<1>3. /\ /\ at.part \notin {"off", "restore", "save"} /\ (at.part = "labels" => at.n >= 6)
         /\ ~(at.part = "data" /\ at.n >= 3)
         => fm_num = Items(tape, "ref")
      /\ at.part = "data" /\ at.n >= 3 => fm_num = Items(tape, "data")
  BY <1>1 DEF MarksInv, Before, Numbered, InData
<1>a. CASE Start
  <2>1. at'.part \in {"restore", "labels"} /\ at'.n = 1
    BY <1>a DEF Start
  <2> QED
    BY <2>1
<1>b. CASE Restore \/ Clear \/ Save
  <2>1. InPart /\ Step[1] \in {"restore", "clear", "save"} /\ Goes /\ UNCHANGED <<fm_num, tape>>
    BY <1>b DEF Restore, Clear, Save, Doing
  <2>2. at'.part = at.part /\ at'.n = at.n + 1
    BY <1>1, <2>1, GoesAt DEF Goes
  <2>3. at.part \in {"restore", "save"} \/ (Pass /\ at.n = 1)
    BY <1>1, <2>1, AtOther
  <2> QED
    BY <1>3, <2>1, <2>2, <2>3 DEF Pass
<1>c. CASE ReadBlock \/ UNCHANGED vars
  <2>1. UNCHANGED <<at, fm_num, tape>>
    BY <1>c DEF ReadBlock, vars
  <2> QED
    BY <1>3, <2>1
<1>d. CASE Fills
  <2>1. /\ at'.part = at.part /\ at'.n = at.n + 1 /\ UNCHANGED <<fm_num, tape>>
        /\ (Pass /\ at.n \in {4, 6, 8, 10}) \/ at.part = "prs"
    BY <1>d, FillsAt
  <2> QED
    BY <1>3, <2>1 DEF Pass
<1>e. CASE Stop \/ Leaves
  <2>1. at'.part = "off"
    BY <1>e DEF Stop, Leaves, Off
  <2> QED
    BY <2>1
<1>f. CASE Quiet /\ (Move \/ EnterPart \/ ReadMark \/ ReadNothing \/ FailRead \/ Formatted \/ RcmBehindPrs
                      \/ Numbers \/ CountMarks \/ Diff \/ FailDiff \/ Walk)
  <2>1. Onward /\ tape' = tape
    BY <1>f DEF Quiet
  <2>2. CASE InPart /\ Step[1] \in {"begin", "mark", "last"}
    <3>1. Move
      BY <1>f, <2>2, QuietAction
    <3>2. at'.part = at.part /\ at'.n = at.n + 1
      BY <1>1, <2>1, <2>2, GoesAt DEF Onward
    <3>3. CASE Step[1] = "last"
      <4>1. fm_num' = Items(tape, Arg)
        BY <3>1, <3>3, MoveIs
      <4>2. (Pass /\ at.n = 5 /\ Arg = "ref") \/ (at.part = "data" /\ at.n = 2 /\ Arg = "data")
        BY <1>1, <2>2, <3>3, AtOther
      <4> QED
        BY <2>1, <3>2, <4>1, <4>2 DEF Pass
    <3>4. CASE Step[1] # "last"
      <4>1. fm_num' = fm_num
        BY <2>2, <3>1, <3>4, MoveIs
      <4>2. (Pass /\ at.n \in {2, 3, 7}) \/ (at.part = "data" /\ at.n = 4)
        BY <1>1, <2>2, <3>4, AtOther
      <4> QED
        BY <1>3, <2>1, <3>2, <4>1, <4>2 DEF Pass
    <3> QED
      BY <3>3, <3>4
  <2>3. CASE ~(InPart /\ Step[1] \in {"begin", "mark", "last"})
    <3>1. fm_num' = fm_num
      BY <1>f, <2>3, QuietAction
    <3>2. CASE Pass /\ at'.part = at.part
      <4>1. at'.n = at.n + 1 /\ InPart
        <5>1. at'.n = at.n + 1 /\ at.n \in {2, 3, 5, 7, 9}
          BY <1>1, <2>1, <3>2, OnwardTable DEF Pass
        <5>2. ~InPart => at'.n = 1
          BY <2>1 DEF Onward
        <5> QED
          BY <5>1, <5>2
      <4>2. at.n \notin {2, 3, 5, 7}
        BY <1>1, <2>3, <3>2, <4>1, PassTable
      <4>3. at.n = 9
        BY <1>1, <2>1, <3>2, <4>2, OnwardTable DEF Pass
      <4> QED
        BY <1>3, <2>1, <3>1, <3>2, <4>1, <4>3 DEF Pass
    <3>3. CASE at.part = "data" /\ at'.part = "data"
      <4>1. at'.n = at.n + 1 /\ at.n \in 1..(IF flag THEN 4 ELSE 9)
        BY <1>1, <2>1, <3>3, OnwardTable DEF Pass
      <4>2. InPart
        <5>1. ~InPart => at'.n = 1
          BY <2>1 DEF Onward
        <5> QED
          BY <4>1, <5>1
      <4>3. at.n # 2
        BY <1>1, <2>3, <3>3, <4>2, DataTable
      <4> QED
        BY <1>1, <1>3, <2>1, <3>1, <3>3, <4>1, <4>3
    <3>4. CASE ~(Pass /\ at'.part = at.part) /\ ~(at.part = "data" /\ at'.part = "data")
      <4>1. /\ /\ at'.part \notin {"off", "restore", "save"} /\ (at'.part = "labels" => at'.n >= 6)
               => at.part \notin {"off", "restore", "save", "data"} /\ (at.part = "labels" => at.n >= 6)
            /\ at'.part = "data" => at'.n = 1
        BY <1>1, <2>1, <3>4, OnwardTable DEF Pass
      <4> QED
        BY <1>3, <2>1, <3>1, <4>1
    <3> QED
      BY <3>2, <3>3, <3>4
  <2> QED
    BY <2>2, <2>3
<1> QED
  BY <1>a, <1>b, <1>c, <1>d, <1>e, <1>f, StepKinds

-----------------------------------------------------------------------------
(* What is in reference_partition/ *)

LEMMA WithText ==
  ASSUME NEW name
  PROVE  \A f \in DOMAIN ref : f \in DOMAIN With(ref, name, Text(name)) /\ With(ref, name, Text(name))[f] = ref[f]
BY DEF With, Text

\* Written, Checked and Begun after a step.
LEMMA WrittenNext ==
  ASSUME TypeOK'
  PROVE  /\ Begun' <=> at'.part # "off" /\ ~(at'.part = "labels" /\ at'.n = 1)
         /\ at'.part \in {"labels", "again"} /\ ~(at'.part = "again" /\ at'.n = 1) =>
              Written' = {l \in Labels : at'.n > DoneAt[l]}
         /\ at'.part = "again" /\ at'.n = 1 => Written' = Labels
         /\ at'.part \in {"formatted", "temp"} => Written' = Labels
         /\ at'.part = "prs" => Written' = Labels \cup {PrNames[k] : k \in 1..(at'.n - 1)}
         /\ at'.part \in {"rcm", "data", "save"} => Written' = Labels \cup {PrNames[k] : k \in 1..pr_num'}
         /\ at'.part \in {"off", "restore"} => Checked' = {}
         /\ at'.part \in {"labels", "again"} => Checked' = {l \in Labels : at'.n > DoneAt[l]}
         /\ at'.part \notin {"off", "restore", "labels", "again"} => Checked' = Labels
<1>1. /\ (TypeOK => (Begun <=> at.part # "off" /\ ~(at.part = "labels" /\ at.n = 1)))'
      /\ (TypeOK =>
           /\ Pass /\ ~(at.part = "again" /\ at.n = 1) => Written = {l \in Labels : at.n > DoneAt[l]}
           /\ at.part = "again" /\ at.n = 1 => Written = Labels
           /\ at.part \in {"formatted", "temp"} => Written = Labels
           /\ at.part = "prs" => Written = Labels \cup {PrNames[k] : k \in 1..(at.n - 1)}
           /\ at.part \in {"rcm", "data", "save"} => Written = Labels \cup {PrNames[k] : k \in 1..pr_num})'
      /\ (/\ at.part \in {"off", "restore"} => Checked = {}
          /\ Pass => Checked = {l \in Labels : at.n > DoneAt[l]}
          /\ at.part \notin {"off", "restore", "labels", "again"} => Checked = Labels)'
  BY BegunAt, WrittenAt, CheckedAt, PTL
<1> QED
  BY <1>1 DEF Pass, DoneAt

\* A step that stays at its place.
LEMMA SameStep ==
  ASSUME UNCHANGED <<at, flag, pr_num>>
  PROVE  /\ Step' = Step /\ Arg' = Arg /\ (InPart' <=> InPart) /\ (Running' <=> Running)
         /\ Doing({"write"})' <=> Doing({"write"})
         /\ Doing(WriteSteps)' <=> Doing(WriteSteps)
         /\ Written' = Written /\ Checked' = Checked /\ (Begun' <=> Begun)
<1>1. Steps(at.part)' = Steps(at.part)
  BY DEF Steps, PrSteps, DataSteps
<1>2. Step' = Step /\ Arg' = Arg /\ (InPart' <=> InPart) /\ (Running' <=> Running)
  BY <1>1 DEF Step, Arg, InPart, Running
<1>3. Written' = Written /\ Checked' = Checked /\ (Begun' <=> Begun)
  BY DEF Written, Checked, PrsWritten, Pass, Begun, Running, DoneAt
<1> QED
  BY <1>2, <1>3 DEF Doing, WriteSteps

\* A file that is written has what has been read of its marker.
LEMMA TextSoFar ==
  ASSUME IInv, Doing({"write"}), ~flag
  PROVE  /\ Len(Text(Arg)) = head.done /\ \A i \in 1..head.done : Text(Arg)[i] = Here[i]
         /\ head.done = 0 => Text(Arg) = << >>
         /\ DOMAIN ref \cup {Arg} = Written \cup {Arg}
         /\ \A f \in DOMAIN ref : FromTape(ref[f], tape)
         /\ FromTape(Text(Arg), tape)
<1>1. TypeOK /\ RefInv /\ InPart /\ Doing(WriteSteps) /\ Step[1] = "write" /\ Running
  BY DEF IInv, Doing, WriteSteps, InPart
<1>2. Begun
  BY <1>1, AtWrite, BegunAt DEF Pass
<1>3. /\ DOMAIN ref = Written \cup (IF Writing THEN {Arg} ELSE {})
      /\ \A f \in DOMAIN ref : FromTape(ref[f], tape)
      /\ Writing => Len(ref[Arg]) = head.done /\ \A i \in 1..head.done : ref[Arg][i] = Here[i]
  BY <1>1, <1>2 DEF RefInv
<1>4. head.done \in Nat
  BY <1>1 DEF TypeOK
<1>5. CASE head.done = 0
  <2>1. ~Writing
    BY <1>5 DEF Writing
  <2>2. DOMAIN ref = Written /\ Arg \notin Written
    BY <1>3, <2>1, ArgNew
  <2>3. Text(Arg) = << >> /\ Len(<< >>) = 0 /\ DOMAIN << >> = {}
    BY <2>2 DEF Text
  <2>4. FromTape(Text(Arg), tape)
    BY <2>3 DEF FromTape
  <2> QED
    BY <1>3, <1>5, <2>2, <2>3, <2>4
<1>6. CASE head.done > 0
  <2>1. Writing
    BY <1>6 DEF Writing
  <2>2. Arg \in DOMAIN ref /\ Text(Arg) = ref[Arg]
    BY <1>3, <2>1 DEF Text
  <2> QED
    BY <1>3, <1>6, <2>1, <2>2
<1> QED
  BY <1>4, <1>5, <1>6

LEMMA FillsWritten ==
  ASSUME IInv, Fills, TypeOK'
  PROVE  /\ Written' = Written \cup {Arg}
         /\ Pass => Arg \in Labels /\ Checked' \subseteq Checked \cup {Arg}
         /\ ~Pass => Arg \notin Labels /\ Checked' = Checked
         /\ Begun /\ Running
<1>1. /\ TypeOK /\ Running
      /\ at'.part = at.part /\ at'.n = at.n + 1
      /\ \/ Pass /\ \/ at.n = 4  /\ Arg = "OTFLabel"
                    \/ at.n = 6  /\ Arg = "RCM_1"
                    \/ at.n = 8  /\ Arg = "VOL1Label"
                    \/ at.n = 10 /\ Arg = "RCM_0"
         \/ at.part = "prs" /\ at.n \in 1..pr_num /\ Arg = PrNames[at.n] /\ Arg \notin Labels
  BY FillsAt
<1>2. CASE Pass
  <2>1. Arg \in Labels /\ at.n = DoneAt[Arg] /\ at.n \in {4, 6, 8, 10}
    BY <1>1, <1>2, LabelNames DEF DoneAt, Pass
  <2>2. \A l \in Labels : at'.n > DoneAt[l] <=> at.n > DoneAt[l] \/ l = Arg
    <3>1. \A l \in Labels : DoneAt[l] \in {4, 6, 8, 10} /\ (DoneAt[l] = at.n => l = Arg)
      BY <1>1, <1>2, <2>1, LabelNames DEF DoneAt, Pass
    <3> QED
      BY <1>1, <2>1, <3>1
  <2>3. {l \in Labels : at'.n > DoneAt[l]} = {l \in Labels : at.n > DoneAt[l]} \cup {Arg}
    BY <2>1, <2>2
  <2>4. at.n # 1 /\ at'.n # 1
    BY <1>1, <2>1
  <2> QED
    BY <1>1, <1>2, <2>1, <2>3, <2>4, WrittenAt, CheckedAt, WrittenNext, BegunAt DEF Pass
<1>3. CASE ~Pass
  <2>1. at.part = "prs" /\ at.n \in 1..pr_num /\ Arg = PrNames[at.n] /\ Arg \notin Labels
    BY <1>1, <1>3
  <2>2. at.n \in Nat /\ at'.n - 1 = at.n
    BY <1>1 DEF TypeOK
  <2>3. 1..at.n = 1..(at.n - 1) \cup {at.n}
    BY <2>1, <2>2
  <2>4. {PrNames[k] : k \in 1..(at'.n - 1)} = {PrNames[k] : k \in 1..(at.n - 1)} \cup {Arg}
    BY <2>1, <2>2, <2>3
  <2>5. Written' = Written \cup {Arg}
    BY <1>1, <2>1, <2>4, WrittenAt, WrittenNext
  <2> QED
    BY <1>1, <1>3, <2>1, <2>5, CheckedAt, WrittenNext, BegunAt
<1> QED
  BY <1>2, <1>3

\* What RefInv says after a step at whose end nothing is half written.
LEMMA RefAfter ==
  ASSUME head'.done = 0,
         at'.part = "restore" =>
           \A k \in 1..(at'.n - 1) :
             Order[k] \in DOMAIN Files(tape)' =>
               Order[k] \in DOMAIN ref' /\ ref'[Order[k]] = Files(tape)'[Order[k]],
         flag' /\ at'.part \notin {"off", "restore"} =>
           \A f \in DOMAIN Files(tape)' : f \in DOMAIN ref' /\ ref'[f] = Files(tape)'[f],
         ~flag' /\ Begun' => DOMAIN ref' = Written' /\ \A f \in DOMAIN ref' : FromTape(ref'[f], tape')
  PROVE  RefInv'
<1>1. ~Writing'
  BY DEF Writing
<1>2. (\A f \in DOMAIN ref : FromTape(ref[f], tape))' <=> \A f \in DOMAIN ref' : FromTape(ref'[f], tape')
  BY DEF FromTape
<1> QED
  BY <1>1, <1>2 DEF RefInv, Running

LEMMA RefReadBlock ==
  ASSUME IInv, TypeOK', ReadBlock
  PROVE  RefInv'
<1>1. /\ TypeOK /\ RefInv /\ Doing(WriteSteps) /\ ~AtEnd /\ ~AtMark /\ Running /\ InPart
      /\ Step[1] \in {"write", "skim", "temp"}
  BY DEF IInv, ReadBlock, Doing, WriteSteps, InPart
<1>2. /\ UNCHANGED <<at, flag, pr_num, tape, barcode, backup>>
      /\ ref' = Appended(<<Here[head.done + 1]>>)
      /\ head' = [head EXCEPT !.done = @ + 1]
  BY DEF ReadBlock
<1>3. /\ head.part = "ref" /\ head.done \in Nat /\ head.done + 1 \in 1..Len(Here) /\ Here \in Seq(OurBlock)
      /\ \A i \in 1..Len(Here) : Here[i].tape = tape
  <2>1. Len(Here) \in Nat /\ head.done \in 0..Len(Here) /\ head.done # Len(Here)
    BY <1>1, HereFacts DEF AtMark
  <2>2. \A i \in 1..Len(Here) : Here[i].tape = tape
    <3>1. \A i \in 1..Len(Here) : Here[i] = Block(tape, Item(tape, "ref", head.item), i)
      BY <1>1, HereFacts
    <3>2. \A name, i : Block(tape, name, i).tape = tape
      BY DEF Block
    <3> QED
      BY <3>1, <3>2
  <2> QED
    BY <1>1, <2>1, <2>2, HereFacts
<1>4. head'.done = head.done + 1 /\ head'.part = head.part /\ head'.item = head.item /\ head'.done > 0
  BY <1>1, <1>2, <1>3 DEF TypeOK
<1>5. Here' = Here
  BY <1>2, <1>4 DEF Here
<1>6. Files(tape)' = Files(tape)
  BY <1>2 DEF Files
<1>7. at.part \notin {"restore", "off"}
  BY <1>1, AtWrite DEF Pass
<1>8. Arg \in FileNames /\ IsFiles(ref) /\ <<Here[head.done + 1]>> \in Seq(OurBlock)
  BY <1>1, <1>3, WriteArg DEF TypeOK
<1>9. CASE flag
  <2>1. \A f \in DOMAIN ref : f \in DOMAIN ref' /\ ref'[f] = ref[f]
    <3>1. ref' = ref \/ ref' = With(ref, Arg, Text(Arg))
      BY <1>1, <1>2, <1>8, <1>9, AppendedIs
    <3>2. \A f \in DOMAIN ref : f \in DOMAIN With(ref, Arg, Text(Arg)) /\ With(ref, Arg, Text(Arg))[f] = ref[f]
      BY WithText
    <3> QED
      BY <3>1, <3>2
  <2> QED
    BY <1>1, <1>2, <1>6, <1>7, <1>9, <2>1 DEF RefInv, Running
<1>10. CASE ~flag /\ Step[1] # "write"
  <2>1. ref' = ref
    BY <1>1, <1>2, <1>8, <1>10, AppendedIs, SkimSame DEF Doing, IInv
  <2>2. ~Writing /\ ~Writing'
    BY <1>2, <1>10, SameStep DEF Writing, Doing
  <2>3. (\A f \in DOMAIN ref : FromTape(ref[f], tape))' <=> \A f \in DOMAIN ref : FromTape(ref[f], tape)
    BY <1>2, <2>1 DEF FromTape
  <2> QED
    BY <1>1, <1>2, <1>6, <1>7, <1>10, <2>1, <2>2, <2>3, SameStep DEF RefInv
<1>11. CASE ~flag /\ Step[1] = "write"
  <2> DEFINE text == Text(Arg)
             longer == text \o <<Here[head.done + 1]>>
  <2>1. Doing({"write"})
    BY <1>1, <1>11 DEF Doing
  <2>2. /\ Len(text) = head.done /\ \A i \in 1..head.done : text[i] = Here[i]
        /\ DOMAIN ref \cup {Arg} = Written \cup {Arg}
        /\ \A f \in DOMAIN ref : FromTape(ref[f], tape)
        /\ FromTape(text, tape)
    BY <1>11, <2>1, TextSoFar
  <2>3. text \in Seq(OurBlock)
    BY <1>1, <1>8, TextType
  <2>4. /\ Len(longer) = head.done + 1 /\ \A i \in 1..(head.done + 1) : longer[i] = Here[i]
        /\ DOMAIN longer = 1..(head.done + 1)
    <3>1. Len(longer) = head.done + 1 /\ DOMAIN longer = 1..(head.done + 1)
      BY <1>3, <2>2, <2>3
    <3>2. \A i \in 1..head.done : longer[i] = text[i]
      BY <1>3, <2>2, <2>3
    <3>3. longer[head.done + 1] = Here[head.done + 1]
      BY <1>3, <2>2, <2>3
    <3>4. \A i \in 1..head.done : longer[i] = Here[i]
      BY <2>2, <3>2
    <3>5. 1..(head.done + 1) = 1..head.done \cup {head.done + 1}
      BY <1>3
    <3> HIDE DEF longer
    <3>6. \A i \in 1..(head.done + 1) : longer[i] = Here[i]
      <4> TAKE i \in 1..(head.done + 1)
      <4>1. i \in 1..head.done \/ i = head.done + 1
        BY <3>5
      <4> QED
        BY <3>3, <3>4, <4>1
    <3> QED
      BY <3>1, <3>6
  <2>5. FromTape(longer, tape)
    <3>1. \A i \in DOMAIN longer : longer[i] = Here[i] /\ i \in 1..Len(Here)
      <4>1. 1..(head.done + 1) \subseteq 1..Len(Here)
        BY <1>3
      <4> HIDE DEF longer
      <4> QED
        BY <2>4, <4>1
    <3> QED
      BY <1>3, <3>1 DEF FromTape
  <2> HIDE DEF longer, text
  <2>6. ref' = With(ref, Arg, longer)
    BY <1>1, <1>2, <1>8, <1>11, AppendedIs DEF longer, text, IInv
  <2>7. DOMAIN ref' = Written \cup {Arg} /\ ref'[Arg] = longer /\ \A f \in DOMAIN ref' : FromTape(ref'[f], tape)
    <3>0. /\ DOMAIN With(ref, Arg, longer) = DOMAIN ref \cup {Arg}
          /\ With(ref, Arg, longer)[Arg] = longer
          /\ \A f \in DOMAIN ref : f # Arg => With(ref, Arg, longer)[f] = ref[f]
      BY DEF With
    <3>1. DOMAIN ref' = DOMAIN ref \cup {Arg} /\ ref'[Arg] = longer
      BY <2>6, <3>0
    <3>2. \A f \in DOMAIN ref' : f # Arg => ref'[f] = ref[f] /\ f \in DOMAIN ref
      BY <2>6, <3>0, <3>1
    <3> QED
      BY <2>2, <2>5, <3>1, <3>2
  <2>8. Writing'
    BY <1>2, <1>4, <2>1, SameStep DEF Writing
  <2>9. (\A f \in DOMAIN ref : FromTape(ref[f], tape))'
    BY <1>2, <2>7 DEF FromTape
  <2> QED
    BY <1>2, <1>4, <1>5, <1>7, <1>11, <2>4, <2>7, <2>8, <2>9, SameStep DEF RefInv
<1> QED
  BY <1>9, <1>10, <1>11

LEMMA RefFills ==
  ASSUME IInv, TypeOK', Fills
  PROVE  RefInv'
<1>1. /\ TypeOK /\ RefInv /\ InPart /\ Running /\ Step[1] = "write" /\ Doing(WriteSteps)
      /\ at'.part = at.part /\ at'.n = at.n + 1 /\ head'.done = 0
      /\ UNCHANGED <<tape, barcode, flag, backup>>
      /\ ref' = With(ref, Arg, Text(Arg))
  BY FillsAt DEF IInv
<1>2. at.part \in {"labels", "again", "prs"} /\ Doing({"write"})
  BY <1>1, AtWrite DEF Pass, Doing
<1>3. Files(tape)' = Files(tape)
  BY <1>1 DEF Files
<1>4. \A f \in DOMAIN ref : f \in DOMAIN ref' /\ ref'[f] = ref[f]
  BY <1>1, WithText
<1>5. flag' => \A f \in DOMAIN Files(tape)' : f \in DOMAIN ref' /\ ref'[f] = Files(tape)'[f]
  BY <1>1, <1>2, <1>3, <1>4 DEF RefInv
<1>6. ~flag' => DOMAIN ref' = Written' /\ \A f \in DOMAIN ref' : FromTape(ref'[f], tape')
  <2> HAVE ~flag'
  <2>1. /\ DOMAIN ref \cup {Arg} = Written \cup {Arg}
        /\ \A f \in DOMAIN ref : FromTape(ref[f], tape)
        /\ FromTape(Text(Arg), tape)
    BY <1>1, <1>2, TextSoFar
  <2>2. DOMAIN ref' = DOMAIN ref \cup {Arg} /\ ref'[Arg] = Text(Arg)
    BY <1>1 DEF With
  <2> QED
    BY <1>1, <1>4, <2>1, <2>2, FillsWritten
<1> QED
  BY <1>1, <1>2, <1>5, <1>6, RefAfter

LEMMA RefNext ==
  ASSUME IInv, TypeOK', [Next]_vars
  PROVE  RefInv'
<1>1. TypeOK /\ RefInv /\ PartInv /\ HeadInv /\ flag \in BOOLEAN
  BY DEF IInv, TypeOK
<1>a. CASE Start
  <2>1. at'.part = (IF flag' THEN "restore" ELSE "labels") /\ at'.n = 1 /\ head'.done = 0
    BY <1>a DEF Start, Front
  <2>2. ~flag' => ~Begun'
    BY <2>1, WrittenNext
  <2> QED
    BY <2>1, <2>2, RefAfter
<1>b. CASE Restore
  <2>1. InPart /\ Step[1] = "restore" /\ Goes /\ UNCHANGED <<flag, tape, barcode, backup, head>>
    BY <1>b DEF Restore, Doing
  <2>2. at.part = "restore" /\ at.n \in 1..Len(Order) /\ Arg = Order[at.n] /\ flag
    BY <1>1, <2>1, AtOther, StepTable DEF PartInv
  <2>3. at'.part = "restore" /\ at'.n - 1 = at.n
    BY <1>1, <2>1, <2>2, GoesAt DEF Goes, TypeOK
  <2>4. Files(tape)' = Files(tape) /\ head'.done = 0
    BY <2>1, NotWriting DEF Files, WriteSteps
  <2>5. \A f \in DOMAIN ref : f \in DOMAIN ref' /\ (f # Arg => ref'[f] = ref[f])
    BY <1>b DEF Restore, With
  <2>6. Arg \in DOMAIN Files(tape) => Arg \in DOMAIN ref' /\ ref'[Arg] = Files(tape)[Arg]
    BY <1>b DEF Restore, With
  <2>7. \A k \in 1..at.n :
          Order[k] \in DOMAIN Files(tape) => Order[k] \in DOMAIN ref' /\ ref'[Order[k]] = Files(tape)[Order[k]]
    <3> TAKE k \in 1..at.n
    <3>1. CASE Order[k] = Arg
      BY <2>6, <3>1
    <3>2. CASE Order[k] # Arg
      <4>1. k \in 1..(at.n - 1)
        <5>1. at.n \in Nat /\ k # at.n
          BY <2>2, <3>2
        <5> QED
          BY <5>1
      <4> QED
        BY <1>1, <2>2, <2>5, <3>2, <4>1 DEF RefInv
    <3> QED
      BY <3>1, <3>2
  <2> QED
    BY <2>1, <2>2, <2>3, <2>4, <2>7, RefAfter
<1>c. CASE Clear
  <2>1. InPart /\ Step[1] = "clear" /\ Goes /\ ref' = Cleared /\ UNCHANGED <<flag, tape, barcode, backup, head>>
    BY <1>c DEF Clear, Doing
  <2>2. Pass /\ at.n = 1 /\ at'.part = at.part /\ at'.n = 2
    BY <1>1, <2>1, AtOther, GoesAt DEF Goes
  <2>3. Files(tape)' = Files(tape) /\ head'.done = 0
    BY <2>1, NotWriting DEF Files, WriteSteps
  <2>4. flag' => \A f \in DOMAIN Files(tape)' : f \in DOMAIN ref' /\ ref'[f] = Files(tape)'[f]
    BY <1>1, <2>1, <2>2, <2>3 DEF RefInv, Cleared, Pass, Running
  <2>5. ~flag' => DOMAIN ref' = Written' /\ \A f \in DOMAIN ref' : FromTape(ref'[f], tape')
    <3> HAVE ~flag'
    <3>1. DOMAIN ref' = {}
      BY <2>1 DEF Cleared
    <3>2. \A l \in Labels : ~(at'.n > DoneAt[l])
      BY <2>2, CheckedAt
    <3>3. Written' = {}
      BY <2>2, <3>2, WrittenNext DEF Pass
    <3> QED
      BY <3>1, <3>3
  <2> QED
    BY <2>2, <2>3, <2>4, <2>5, RefAfter DEF Pass
<1>d. CASE Save
  <2>1. InPart /\ Step[1] = "save" /\ Goes /\ UNCHANGED <<ref, flag, tape, pr_num, head>>
    BY <1>d DEF Save, Doing
  <2>2. at.part = "save" /\ at'.part = "save" /\ ~flag
    BY <1>1, <2>1, AtOther, GoesAt DEF Goes, PartInv
  <2>3. head'.done = 0 /\ ~Writing
    BY <2>1, NotWriting DEF WriteSteps, Writing, Doing
  <2>4. Written' = Written
    BY <1>1, <2>1, <2>2, WrittenAt, WrittenNext
  <2>5. Begun
    BY <1>1, <2>2, BegunAt
  <2>6. DOMAIN ref' = Written' /\ \A f \in DOMAIN ref' : FromTape(ref'[f], tape')
    BY <1>1, <2>1, <2>2, <2>3, <2>4, <2>5 DEF RefInv
  <2> QED
    BY <2>1, <2>2, <2>3, <2>6, RefAfter
<1>e. CASE Stop \/ Leaves
  <2>1. at'.part = "off"
    BY <1>e DEF Stop, Leaves, Off
  <2>2. ~Running' /\ ~Begun'
    BY <2>1, WrittenNext DEF Running
  <2> QED
    BY <2>1, <2>2 DEF RefInv
<1>f. CASE Quiet
  <2>1. /\ Onward /\ head'.done = 0 /\ UNCHANGED <<tape, barcode, flag, pr_num, ref, backup>>
    BY <1>f DEF Quiet
  <2>2. Files(tape)' = Files(tape)
    BY <2>1 DEF Files
  <2>3. at'.part # "restore"
    BY <1>1, <2>1, OnwardTable DEF Pass
  <2>4. flag' /\ at'.part # "off" => \A f \in DOMAIN Files(tape)' : f \in DOMAIN ref' /\ ref'[f] = Files(tape)'[f]
    <3> HAVE flag' /\ at'.part # "off"
    <3>1. CASE at.part # "restore"
      BY <1>1, <2>1, <2>2, <3>1 DEF RefInv, Onward
    <3>2. CASE at.part = "restore"
      <4>1. at.n - 1 = Len(Order)
        <5>1. at.n = Len(Order) + 1 /\ Len(Order) \in Nat
          BY <1>1, <2>1, <2>3, <3>2, OnwardTable, OrderAssumption DEF Pass
        <5> QED
          BY <5>1
      <4>2. \A k \in 1..Len(Order) :
              Order[k] \in DOMAIN Files(tape) => Order[k] \in DOMAIN ref /\ ref[Order[k]] = Files(tape)[Order[k]]
        <5>1. \A k \in 1..(at.n - 1) :
                Order[k] \in DOMAIN Files(tape) => Order[k] \in DOMAIN ref /\ ref[Order[k]] = Files(tape)[Order[k]]
          BY <1>1, <3>2 DEF RefInv
        <5>2. 1..(at.n - 1) = 1..Len(Order)
          BY <4>1
        <5> QED
          BY <5>1, <5>2
      <4>3. \A f \in DOMAIN Files(tape) : f \in FileNames
        <5>1. IsFiles(Files(tape))
          BY <1>1 DEF TypeOK, Files
        <5> QED
          BY <5>1 DEF IsFiles
      <4>4. \A f \in FileNames : \E k \in 1..Len(Order) : Order[k] = f
        BY OrderAssumption
      <4> QED
        BY <2>1, <2>2, <4>2, <4>3, <4>4
    <3> QED
      BY <3>1, <3>2
  <2>5. ~flag' /\ Begun' => DOMAIN ref' = Written' /\ \A f \in DOMAIN ref' : FromTape(ref'[f], tape')
    <3> HAVE ~flag' /\ Begun'
    <3>1. Begun /\ Written' = Written
      BY <1>1, <2>1, OnwardWritten
    <3>2. ~Writing
      BY <2>1 DEF Onward, Writing, Doing
    <3> QED
      BY <1>1, <2>1, <3>1, <3>2 DEF RefInv
  <2> QED
    BY <2>1, <2>3, <2>4, <2>5, RefAfter
<1>g. CASE UNCHANGED vars
  <2>1. UNCHANGED <<at, flag, pr_num, tape, barcode, backup, ref, head>>
    BY <1>g DEF vars
  <2>2. Files(tape)' = Files(tape) /\ Here' = Here
    BY <2>1 DEF Files, Here
  <2>3. Writing' <=> Writing
    BY <2>1, SameStep DEF Writing
  <2>4. (\A f \in DOMAIN ref : FromTape(ref[f], tape))' <=> \A f \in DOMAIN ref : FromTape(ref[f], tape)
    BY <2>1 DEF FromTape
  <2> QED
    BY <1>1, <2>1, <2>2, <2>3, <2>4, SameStep DEF RefInv
<1> QED
  BY <1>a, <1>b, <1>c, <1>d, <1>e, <1>f, <1>g, StepKinds, RefReadBlock, RefFills

-----------------------------------------------------------------------------
(* Whose files they are *)

LEMMA SourceAt ==
  ASSUME IInv, NEW u \in Tapes, Running, Source(u), ~alarm
  PROVE  /\ \A l \in Checked : l \in DOMAIN ref /\ ref[l] = Marker(u, l)
         /\ /\ at.part \notin {"off", "restore"} /\ (at.part = "labels" => at.n > 6)
            => pr_num = Len(PrBlocks[u])
         /\ /\ at.part \notin {"off", "restore", "save"} /\ (at.part = "labels" => at.n > 6)
            /\ ~(at.part = "data" /\ at.n >= 2)
            => alt.text = Marker(u, "RCM_1")
         /\ at.part = "data" /\ at.n >= 4 => u = tape
BY DEF IInv, SourceInv, Before, Numbered, InData

LEMMA SourceAfter ==
  ASSUME \A u \in Tapes :
           at'.part # "off" /\ Source(u)' /\ ~alarm' =>
             /\ \A l \in Checked' : l \in DOMAIN ref' /\ ref'[l] = Marker(u, l)
             /\ /\ at'.part \notin {"off", "restore"} /\ (at'.part = "labels" => at'.n > 6)
                => pr_num' = Len(PrBlocks[u])
             /\ /\ at'.part \notin {"off", "restore", "save"} /\ (at'.part = "labels" => at'.n > 6)
                /\ ~(at'.part = "data" /\ at'.n >= 2)
                => alt'.text = Marker(u, "RCM_1")
             /\ at'.part = "data" /\ at'.n >= 4 => u = tape'
  PROVE  SourceInv'
BY DEF SourceInv, Running, Before, Numbered, InData

LEMMA SameSource ==
  ASSUME UNCHANGED <<tape, barcode, flag, backup>>, NEW u \in Tapes
  PROVE  Source(u)' <=> Source(u)
<1>1. Files(tape)' = Files(tape)
  BY DEF Files
<1>2. LabelsOf(Files(tape), u)' <=> LabelsOf(Files(tape), u)
  BY <1>1 DEF LabelsOf, FromTape
<1> QED
  BY <1>2 DEF Source

\* The text of a label whose format is right is that of the tape its file is from.
LEMMA TextOfSource ==
  ASSUME IInv, Doing({"write"}), Pass, NEW u \in Tapes, Source(u), WellFormed(Arg, Text(Arg))
  PROVE  Text(Arg) = Marker(u, Arg)
<1>1. TypeOK /\ RefInv /\ Doing(WriteSteps) /\ Running
  BY DEF IInv, Doing, WriteSteps, InPart
<1>2. Arg \in Labels
  BY <1>1, AtWrite, LabelNames DEF Pass, Doing
<1>3. PICK v \in Tapes : Text(Arg) = Marker(v, Arg)
  BY <1>2 DEF WellFormed
<1>4. FromTape(Text(Arg), u)
  <2>1. CASE flag
    <3>1. Arg \in DOMAIN Files(tape) /\ FromTape(Files(tape)[Arg], u)
      BY <1>2, <2>1 DEF Source, LabelsOf
    <3>2. Arg \in DOMAIN ref /\ ref[Arg] = Files(tape)[Arg]
      BY <1>1, <2>1, <3>1 DEF RefInv, Pass
    <3> QED
      BY <3>1, <3>2 DEF Text
  <2>2. CASE ~flag
    BY <2>2, TextSoFar DEF Source
  <2> QED
    BY <2>1, <2>2
<1>5. /\ 1 \in DOMAIN Marker(v, Arg) /\ Marker(v, Arg)[1] = Block(v, Arg, 1)
  BY MarkerFacts
<1>6. Block(v, Arg, 1).tape = v
  BY DEF Block
<1>7. v = u
  BY <1>3, <1>4, <1>5, <1>6 DEF FromTape
<1> QED
  BY <1>3, <1>7

LEMMA SourceFills ==
  ASSUME IInv, TypeOK', Fills
  PROVE  SourceInv'
<1>1. /\ TypeOK /\ InPart /\ Running /\ Step[1] = "write"
      /\ at'.part = at.part /\ at'.n = at.n + 1
      /\ UNCHANGED <<tape, barcode, flag, backup>>
      /\ ref' = With(ref, Arg, Text(Arg))
      /\ alarm' = (alarm \/ ~WellFormed(Arg, Text(Arg)))
      /\ Arg # "RCM_1" => alt' = alt /\ pr_num' = pr_num
      /\ Arg = "RCM_1" => alt' = Opened(Arg) /\ pr_num' = PrNumber(alt')
      /\ \/ Pass /\ \/ at.n = 4  /\ Arg = "OTFLabel"
                    \/ at.n = 6  /\ Arg = "RCM_1"
                    \/ at.n = 8  /\ Arg = "VOL1Label"
                    \/ at.n = 10 /\ Arg = "RCM_0"
         \/ at.part = "prs" /\ at.n \in 1..pr_num /\ Arg = PrNames[at.n] /\ Arg \notin Labels
  BY FillsAt
<1>2. Doing({"write"}) /\ at.n \in Nat
  BY <1>1 DEF Doing, TypeOK
<1>3. SUFFICES ASSUME NEW u \in Tapes, Source(u), ~alarm'
               PROVE  /\ \A l \in Checked' : l \in DOMAIN ref' /\ ref'[l] = Marker(u, l)
                      /\ (at'.part = "labels" => at'.n > 6) => pr_num' = Len(PrBlocks[u]) /\ alt'.text = Marker(u, "RCM_1")
  BY <1>1, SourceAfter, SameSource DEF Pass
<1>4. ~alarm /\ WellFormed(Arg, Text(Arg))
  BY <1>1, <1>3
<1>5. \A l \in Checked : l \in DOMAIN ref /\ ref[l] = Marker(u, l)
  BY <1>1, <1>3, <1>4, SourceAt
<1>6. Pass => Text(Arg) = Marker(u, Arg)
  BY <1>2, <1>3, <1>4, TextOfSource
<1>7. Arg \in DOMAIN ref' /\ ref'[Arg] = Text(Arg) /\ \A f \in DOMAIN ref : f \in DOMAIN ref' /\ ref'[f] = ref[f]
  BY <1>1, WithText DEF With
<1>8. \A l \in Checked' : l \in DOMAIN ref' /\ ref'[l] = Marker(u, l)
  BY <1>5, <1>6, <1>7, FillsWritten
<1>9. ASSUME at'.part = "labels" => at'.n > 6
      PROVE  pr_num' = Len(PrBlocks[u]) /\ alt'.text = Marker(u, "RCM_1")
  <2>1. CASE at.part = "labels" /\ at.n = 6
    <3>1. Arg = "RCM_1" /\ alt = NoFile
      BY <1>1, <2>1 DEF IInv, AltInv
    <3>2. alt' = Opened("RCM_1") /\ Opened("RCM_1").text = Text("RCM_1")
      BY <1>1, <3>1, OpenedAs, LabelNames DEF NoFile
    <3>3. alt'.text = Marker(u, "RCM_1")
      BY <1>6, <2>1, <3>1, <3>2 DEF Pass
    <3> QED
      BY <1>1, <3>1, <3>3, PrNumberOf
  <2>2. CASE ~(at.part = "labels" /\ at.n = 6)
    <3>1. at.part \in {"labels", "again", "prs"} /\ (at.part = "labels" => at.n > 6)
      BY <1>1, <1>2, <1>9, <2>2 DEF Pass
    <3>2. pr_num = Len(PrBlocks[u]) /\ alt.text = Marker(u, "RCM_1")
      BY <1>1, <1>3, <1>4, <3>1, SourceAt
    <3>3. alt.name = "RCM_1" /\ pr_num = PrNumber(alt)
      BY <3>1 DEF IInv, AltInv, Before, Numbered, InData
    <3>4. alt' = alt
      BY <1>1, <3>3, OpenedAs
    <3> QED
      BY <1>1, <3>2, <3>3, <3>4
  <2> QED
    BY <2>1, <2>2
<1> QED
  BY <1>8, <1>9

LEMMA SourceQuiet ==
  ASSUME IInv, TypeOK', Quiet,
         Move \/ EnterPart \/ ReadMark \/ ReadNothing \/ FailRead \/ Formatted \/ RcmBehindPrs
           \/ Numbers \/ CountMarks \/ Diff \/ FailDiff \/ Walk
  PROVE  SourceInv'
<1>1. /\ TypeOK /\ PartInv /\ Onward /\ Running /\ at.n \in Nat
      /\ UNCHANGED <<tape, barcode, flag, pr_num, ref, backup>> /\ (alarm => alarm')
  BY DEF IInv, Quiet, Onward, TypeOK
<1>2. SUFFICES ASSUME NEW u \in Tapes, Source(u), ~alarm', at'.part # "off"
               PROVE  /\ \A l \in Checked' : l \in DOMAIN ref /\ ref[l] = Marker(u, l)
                      /\ /\ at'.part \notin {"off", "restore"} /\ (at'.part = "labels" => at'.n > 6)
                         => pr_num = Len(PrBlocks[u])
                      /\ /\ at'.part \notin {"off", "restore", "save"} /\ (at'.part = "labels" => at'.n > 6)
                         /\ ~(at'.part = "data" /\ at'.n >= 2)
                         => alt'.text = Marker(u, "RCM_1")
                      /\ at'.part = "data" /\ at'.n >= 4 => u = tape
  BY <1>1, SourceAfter, SameSource
<1>3. /\ \A l \in Checked : l \in DOMAIN ref /\ ref[l] = Marker(u, l)
      /\ /\ at.part \notin {"off", "restore"} /\ (at.part = "labels" => at.n > 6)
         => pr_num = Len(PrBlocks[u])
      /\ /\ at.part \notin {"off", "restore", "save"} /\ (at.part = "labels" => at.n > 6)
         /\ ~(at.part = "data" /\ at.n >= 2)
         => alt.text = Marker(u, "RCM_1")
      /\ at.part = "data" /\ at.n >= 4 => u = tape
  BY <1>1, <1>2, SourceAt
<1>4. \A l \in Checked' : l \in DOMAIN ref /\ ref[l] = Marker(u, l)
  BY <1>1, <1>3, OnwardWritten
<1>5. ASSUME at'.part \notin {"off", "restore"}, at'.part = "labels" => at'.n > 6
      PROVE  at.part \notin {"off", "restore"} /\ (at.part = "labels" => at.n > 6)
  BY <1>1, <1>5, OnwardTable DEF Pass
<1>6. ASSUME at'.part \notin {"off", "restore", "save"}, at'.part = "labels" => at'.n > 6, ~(at'.part = "data" /\ at'.n >= 2)
      PROVE  alt'.text = Marker(u, "RCM_1")
  <2>1. at.part \notin {"off", "restore", "save", "data"} /\ (at.part = "labels" => at.n > 6)
    BY <1>1, <1>6, OnwardTable DEF Pass
  <2>2. ~(InPart /\ Step[1] \in {"numbers", "diff"})
    BY <1>1, <2>1, AtOther
  <2>3. alt' = alt
    BY <2>2, QuietAction
  <2> QED
    BY <1>3, <2>1, <2>3
<1>7. ASSUME at'.part = "data", at'.n >= 4
      PROVE  u = tape
  <2>1. at.part = "data" /\ at.n >= 3 /\ at'.n = at.n + 1
    BY <1>1, <1>7, OnwardTable DEF Pass
  <2>2. CASE at.n >= 4
    BY <1>3, <2>1, <2>2
  <2>3. CASE at.n = 3
    <3>1. InPart /\ Step[1] = "diff"
      <4>1. InPart
        <5>1. ~InPart => at'.n = 1
          BY <1>1 DEF Onward
        <5> QED
          BY <2>1, <5>1, <2>3
      <4> QED
        BY <1>1, <2>1, <2>3, <4>1, DataTable
    <3>2. Diff \/ (FailDiff /\ Accepted)
      BY <3>1, QuietAction
    <3>3. Arg = "RCM_1"
      BY <2>3, <3>1, <3>2, QuietDiff
    <3>4. Opened(Arg).text = SubSeq(Here, 1, Len(Here)) \/ Opened(Arg).text = << >>
      BY <1>2, <3>1, <3>2, QuietDiff
    <3>5. pr_num = Len(PrBlocks[u]) /\ pr_num > 0
      BY <1>3, <2>1, PrFacts
    <3>6. alt.name # "RCM_1"
      BY <2>1, <2>3, <3>5, LabelNames DEF IInv, AltInv, InData
    <3>7. Opened(Arg).text = Text("RCM_1")
      BY <1>1, <3>3, <3>6, OpenedAs
    <3>8. "RCM_1" \in Checked
      BY <2>1, CheckedAt, LabelNames
    <3>9. Text("RCM_1") = Marker(u, "RCM_1") /\ Text("RCM_1") # << >>
      BY <1>3, <3>8, MarkerFacts DEF Text
    <3>10. tape \in Tapes /\ head = LastRcm("data")
      BY <1>1, <2>1, <2>3 DEF IInv, HeadInv, TypeOK
    <3>11. Here = Marker(tape, "RCM_1")
      BY <3>10, ItemFacts DEF LastRcm, Front, Here
    <3>12. Here \in Seq(OurBlock)
      BY <3>10, <3>11, MarkerFacts, PrFacts, LabelNames
    <3>13. SubSeq(Here, 1, Len(Here)) = Here
      BY <3>12
    <3>14. Marker(u, "RCM_1") = Marker(tape, "RCM_1")
      BY <3>4, <3>7, <3>9, <3>11, <3>13
    <3> QED
      BY <3>10, <3>14, MarkerOwn
  <2> QED
    BY <1>1, <2>1, <2>2, <2>3
<1> QED
  BY <1>3, <1>4, <1>5, <1>6, <1>7

LEMMA SourceNext ==
  ASSUME IInv, TypeOK', [Next]_vars
  PROVE  SourceInv'
<1>1. TypeOK /\ PartInv
  BY DEF IInv
<1>a. CASE Start
  <2>1. at'.part \in {"restore", "labels"} /\ at'.n = 1
    BY <1>a DEF Start
  <2>2. Checked' = {}
    BY <2>1, WrittenNext, CheckedAt
  <2> QED
    BY <2>1, <2>2, SourceAfter
<1>b. CASE Restore
  <2>1. InPart /\ Step[1] = "restore" /\ Goes
    BY <1>b DEF Restore, Doing
  <2>2. at'.part = "restore"
    BY <1>1, <2>1, AtOther, GoesAt DEF Goes
  <2> QED
    BY <2>2, SourceAfter, WrittenNext
<1>c. CASE Clear
  <2>1. InPart /\ Running /\ Step[1] = "clear" /\ Goes /\ UNCHANGED <<tape, barcode, flag, backup, alt, pr_num, alarm>>
    BY <1>c DEF Clear, Doing, InPart
  <2>2. Pass /\ at.n = 1 /\ at'.part = at.part /\ at'.n = 2
    BY <1>1, <2>1, AtOther, GoesAt DEF Goes
  <2>3. Checked' = {}
    BY <2>2, WrittenNext, CheckedAt DEF Pass
  <2> QED
    BY <2>1, <2>2, <2>3, SourceAfter, SourceAt, SameSource DEF Pass
<1>d. CASE ReadBlock
  <2>1. /\ UNCHANGED <<at, tape, barcode, flag, backup, alt, pr_num, alarm>>
        /\ Doing(WriteSteps) /\ Running /\ InPart /\ Step[1] \in {"write", "skim", "temp"} /\ ~AtEnd /\ ~AtMark
        /\ ref' = Appended(<<Here[head.done + 1]>>)
    BY <1>d DEF ReadBlock, Doing, InPart, WriteSteps
  <2>2. \A l \in Checked : l \in DOMAIN ref => l \in DOMAIN ref' /\ ref'[l] = ref[l]
    <3>1. <<Here[head.done + 1]>> \in Seq(OurBlock)
      <4>1. Here \in Seq(OurBlock) /\ head.done + 1 \in 1..Len(Here)
        BY <2>1, HereFacts DEF AtMark
      <4> QED
        BY <4>1
    <3>2. \/ ref' = ref
          \/ ref' = With(ref, Arg, Text(Arg))
          \/ Step[1] = "write" /\ ref' = With(ref, Arg, Text(Arg) \o <<Here[head.done + 1]>>)
      BY <2>1, <3>1, AppendedIs DEF TypeOK
    <3>3. CASE ref' = With(ref, Arg, Text(Arg))
      BY <3>3, WithText
    <3>4. CASE Step[1] = "write" /\ ref' = With(ref, Arg, Text(Arg) \o <<Here[head.done + 1]>>)
      <4>1. Arg \notin Checked
        BY <2>1, <3>4, ArgNew DEF Doing
      <4> QED
        BY <3>4, <4>1 DEF With
    <3> QED
      BY <3>2, <3>3, <3>4
  <2>3. Checked' = Checked
    BY <2>1, SameStep
  <2> QED
    BY <2>1, <2>2, <2>3, SourceAfter, SourceAt, SameSource
<1>e. CASE Save
  <2>1. InPart /\ Running /\ Step[1] = "save" /\ Goes /\ UNCHANGED <<tape, flag, ref, alt, pr_num, alarm>>
    BY <1>e DEF Save, Doing, InPart
  <2>2. at.part = "save" /\ at'.part = "save" /\ ~flag
    BY <1>1, <2>1, AtOther, GoesAt DEF Goes, PartInv
  <2>3. \A u \in Tapes : Source(u)' => Source(u)
    BY <2>1, <2>2 DEF Source
  <2>4. Checked' = Checked
    BY <2>2, CheckedAt, WrittenNext
  <2> QED
    BY <2>1, <2>2, <2>3, <2>4, SourceAfter, SourceAt
<1>f. CASE Stop \/ Leaves
  <2>1. at'.part = "off"
    BY <1>f DEF Stop, Leaves, Off
  <2> QED
    BY <2>1, SourceAfter
<1>g. CASE UNCHANGED vars
  <2>1. UNCHANGED <<at, tape, barcode, flag, backup, ref, alt, pr_num, alarm>>
    BY <1>g DEF vars
  <2>2. Checked' = Checked
    BY <2>1, SameStep
  <2>3. at.part # "off" <=> Running
    BY DEF Running
  <2> QED
    BY <2>1, <2>2, <2>3, SourceAfter, SourceAt, SameSource
<1> QED
  BY <1>a, <1>b, <1>c, <1>d, <1>e, <1>f, <1>g, StepKinds, SourceFills, SourceQuiet

-----------------------------------------------------------------------------
(* Where the tape is *)

LEMMA HeadAfter ==
  ASSUME head'.done = 0,
         at'.part \notin {"off", "data", "save"} => head'.part = "ref",
         at'.part \in {"labels", "again"} =>
           /\ at'.n = 3 => head'.item = 1
           /\ at'.n = 4 => head'.item = 2
           /\ at'.n = 6 => head'.item = Items(tape', "ref")
           /\ at'.n = 8 => head'.item = 1
           /\ at'.n = 9 => head'.item = 2
           /\ at'.n = 10 => head'.item = 3 \/ (head'.item = 2 /\ faults' # 0)
           /\ at'.n = 11 /\ (faults' = 0 \/ (~flag' /\ ~alarm')) => head' = Front("ref", 4),
         at'.part = "formatted" =>
           /\ at'.n = 2 => ~alarm'
           /\ faults' = 0 \/ (~flag' /\ ~alarm') => head' = Front("ref", 4),
         at'.part = "prs" /\ faults' = 0 => head'.item = at'.n + 3,
         at'.part = "rcm" /\ at'.n = 1 /\ faults' = 0 => head' = Front("ref", Items(tape', "ref")),
         at'.part = "data" =>
           /\ at'.n = 3 => head' = Front("data", Items(tape', "data"))
           /\ ~flag' =>
              /\ at'.n = 5 => head' = Front("data", 1)
              /\ at'.n = 6 => head' = Front("data", 2)
              /\ at'.n = 7 => \/ head' = Front("data", 3)
                              \/ head' = Front("data", 2) /\ alarm' /\ faults' > 0 /\ (BadRcm0' => faults' > 1)
              /\ at'.n \in {8, 9} /\ (faults' <= 1 \/ ~alarm') => head' = Front("data", 4)
  PROVE  HeadInv'
<1>1. head'.done # 0 \/ ~(head'.done > 0)
  OBVIOUS
<1>2. ~(head'.done > 0)
  OBVIOUS
<1>3. /\ at'.part \in {"labels", "again"} => head'.part = "ref"
      /\ at'.part = "prs" => head'.part = "ref"
  OBVIOUS
<1> QED
  BY <1>2, <1>3 DEF HeadInv, InRef, Pass, LastRcm

LEMMA HeadAt ==
  ASSUME IInv
  PROVE  /\ at.part \notin {"off", "data", "save"} => head.part = "ref"
         /\ at.part \in {"labels", "again"} =>
              /\ at.n = 3 => head.item = 1
              /\ at.n = 4 => head.item = 2
              /\ at.n = 6 => head.item = Items(tape, "ref")
              /\ at.n = 8 => head.item = 1
              /\ at.n = 9 => head.item = 2
              /\ at.n = 10 => head.item = 3 \/ (head.item = 2 /\ faults # 0)
              /\ at.n = 11 /\ (faults = 0 \/ (~flag /\ ~alarm)) => head = Front("ref", 4)
         /\ at.part = "formatted" =>
              /\ at.n = 2 => ~alarm
              /\ faults = 0 \/ (~flag /\ ~alarm) => head = Front("ref", 4)
         /\ at.part = "prs" /\ faults = 0 => head.item = at.n + 3
         /\ at.part = "rcm" /\ at.n = 1 /\ faults = 0 => head = Front("ref", Items(tape, "ref"))
         /\ at.part = "data" =>
              /\ at.n = 3 => head = Front("data", Items(tape, "data"))
              /\ ~flag =>
                 /\ at.n = 5 => head = Front("data", 1)
                 /\ at.n = 6 => head = Front("data", 2)
                 /\ at.n = 7 => \/ head = Front("data", 3)
                                \/ head = Front("data", 2) /\ alarm /\ faults > 0 /\ (BadRcm0 => faults > 1)
                 /\ at.n \in {8, 9} /\ (faults <= 1 \/ ~alarm) => head = Front("data", 4)
BY DEF IInv, HeadInv, InRef, Pass, LastRcm

\* Where reading a marker leaves the tape.
LEMMA ReadPlace ==
  ASSUME IInv, Doing(WriteSteps), ReadMark \/ ReadNothing \/ (FailRead /\ Accepted)
  PROVE  /\ head.part = "ref" /\ head'.part = "ref"
         /\ \/ ReadMark /\ AtMark /\ ~AtEnd /\ head' = AfterMark /\ head'.item = head.item + 1 /\ faults' = faults
            \/ AtEnd /\ head' = head /\ faults' = faults
            \/ ~AtEnd /\ head' = head /\ head.item > 1 /\ head.done = 0 /\ faults' = faults + 1 /\ faults' # 0
<1>1. head.part = "ref" /\ faults \in Nat
  BY AtWrite DEF IInv, HeadInv, Pass, TypeOK
<1>2. CASE ReadMark
  BY <1>1, <1>2, PlaceFacts DEF ReadMark, EndFile, AtMark
<1>3. CASE ReadNothing
  BY <1>1, <1>3 DEF ReadNothing, EndFile
<1>4. CASE FailRead /\ Accepted
  BY <1>1, <1>4 DEF FailRead, EndFile, Accepted
<1> QED
  BY <1>2, <1>3, <1>4

\* Without failed reads the run has read what is on the tape.
LEMMA ExactPrs ==
  ASSUME IInv, Running, ~flag, faults = 0
  PROVE  /\ ~alarm /\ ~refused
         /\ at.part \notin {"off", "restore", "labels"} => pr_num = Len(PrBlocks[tape])
         /\ Begun => \A f \in Written : ref[f] = Marker(tape, f)
<1>1. tape \in Tapes /\ Source(tape) /\ Exact(tape)
  BY DEF IInv, TypeOK, Source, Exact
<1>2. ~alarm /\ ~refused /\ (Begun => \A f \in Written : ref[f] = Marker(tape, f))
  BY <1>1 DEF IInv, ExactInv
<1> QED
  BY <1>1, <1>2, SourceAt

LEMMA HeadFills ==
  ASSUME IInv, TypeOK', Fills
  PROVE  HeadInv'
<1>1. /\ TypeOK /\ InPart /\ Running /\ Step[1] = "write" /\ Doing(WriteSteps) /\ Doing({"write"})
      /\ at'.part = at.part /\ at'.n = at.n + 1 /\ head'.done = 0
      /\ UNCHANGED <<tape, flag>>
      /\ alarm' = (alarm \/ ~WellFormed(Arg, Text(Arg)))
      /\ \/ Pass /\ \/ at.n = 4  /\ Arg = "OTFLabel"
                    \/ at.n = 6  /\ Arg = "RCM_1"
                    \/ at.n = 8  /\ Arg = "VOL1Label"
                    \/ at.n = 10 /\ Arg = "RCM_0"
         \/ at.part = "prs" /\ at.n \in 1..pr_num
  BY FillsAt DEF Doing
<1>2. /\ head.part = "ref" /\ head'.part = "ref"
      /\ \/ ReadMark /\ AtMark /\ ~AtEnd /\ head' = AfterMark /\ head'.item = head.item + 1 /\ faults' = faults
         \/ AtEnd /\ head' = head /\ faults' = faults
         \/ ~AtEnd /\ head' = head /\ head.item > 1 /\ head.done = 0 /\ faults' = faults + 1 /\ faults' # 0
  BY <1>1, ReadPlace DEF EndsText, Fills
<1>3. tape \in Tapes /\ pr_num \in Nat /\ faults \in Nat /\ head.item \in Nat
  BY <1>1, PrFacts DEF TypeOK
<1>4. AtEnd => head.item > Len(PrBlocks[tape]) + 4 /\ head.item > 4
  <2>1. Items(tape, "ref") = Len(PrBlocks[tape]) + 4 /\ Len(PrBlocks[tape]) \in Nat
    BY <1>3, ItemFacts, PrFacts
  <2> QED
    BY <1>2, <1>3, <2>1 DEF AtEnd
<1>5. CASE Pass /\ at.n \in {4, 6}
  BY <1>1, <1>2, <1>5, HeadAfter DEF Pass
<1>6. CASE Pass /\ at.n = 8
  <2>1. head.item = 1
    BY <1>6, HeadAt DEF Pass
  <2>2. head'.item = 2
    BY <1>2, <1>4, <2>1
  <2> QED
    BY <1>1, <1>2, <1>6, <2>2, HeadAfter DEF Pass
<1>7. CASE Pass /\ at.n = 10
  <2>1. Arg = "RCM_0" /\ (head.item = 3 \/ (head.item = 2 /\ faults # 0))
    BY <1>1, <1>7, HeadAt DEF Pass
  <2>2. SUFFICES ASSUME faults' = 0 \/ (~flag /\ ~alarm')
                 PROVE  head' = Front("ref", 4)
    BY <1>1, <1>2, <1>7, HeadAfter DEF Pass
  <2>3. CASE AtEnd
    BY <1>4, <2>1, <2>3
  <2>4. CASE ReadMark /\ AtMark /\ ~AtEnd /\ head' = AfterMark /\ faults' = faults
    <3>1. CASE head.item = 3
      BY <1>2, <2>4, <3>1 DEF AfterMark
    <3>2. CASE head.item = 2 /\ faults # 0
      <4>1. ~flag /\ WellFormed("RCM_0", Text("RCM_0"))
        BY <1>1, <2>1, <2>2, <2>4, <3>2
      <4>2. Source(tape)
        BY <4>1 DEF Source
      <4>3. Text("RCM_0") = Marker(tape, "RCM_0")
        BY <1>1, <1>3, <1>7, <2>1, <4>1, <4>2, TextOfSource
      <4>4. /\ Len(Text("RCM_0")) = head.done /\ \A i \in 1..head.done : Text("RCM_0")[i] = Here[i]
        BY <1>1, <2>1, <4>1, TextSoFar
      <4>5. head.done >= 1 /\ head.done \in Nat /\ Here[1] = Block(tape, Item(tape, "ref", 2), 1)
        BY <1>1, <2>4, <3>2, HereFacts DEF AtMark
      <4>6. Item(tape, "ref", 2) = "OTFLabel"
        BY <1>3, ItemFacts
      <4>7. Text("RCM_0")[1] = Block(tape, "OTFLabel", 1)
        BY <4>4, <4>5, <4>6
      <4>8. Text("RCM_0")[1] = Block(tape, "RCM_0", 1)
        BY <1>3, <4>3, MarkerFacts
      <4>9. Block(tape, "OTFLabel", 1).name = "OTFLabel" /\ Block(tape, "RCM_0", 1).name = "RCM_0"
        BY DEF Block
      <4> QED
        BY <4>7, <4>8, <4>9
    <3> QED
      BY <2>1, <3>1, <3>2
  <2>5. CASE head.done = 0 /\ faults' # 0
    <3>1. ~flag /\ WellFormed("RCM_0", Text("RCM_0"))
      BY <1>1, <2>1, <2>2, <2>5
    <3>2. Text("RCM_0") = << >>
      BY <1>1, <2>1, <2>5, <3>1, TextSoFar
    <3>3. Source(tape)
      BY <3>1 DEF Source
    <3>4. Text("RCM_0") = Marker(tape, "RCM_0")
      BY <1>1, <1>3, <1>7, <2>1, <3>1, <3>3, TextOfSource
    <3> QED
      BY <1>3, <3>2, <3>4, MarkerFacts
  <2> QED
    BY <1>2, <2>3, <2>4, <2>5
<1>8. CASE at.part = "prs" /\ at.n \in 1..pr_num
  <2>1. SUFFICES ASSUME faults' = 0 PROVE head'.item = at'.n + 3
    BY <1>1, <1>2, <1>8, HeadAfter
  <2>2. faults = 0 /\ head.item = at.n + 3
    <3>1. faults = 0
      BY <1>2, <1>3, <2>1
    <3> QED
      BY <1>8, <3>1, HeadAt
  <2>3. ~flag
    BY <1>8 DEF IInv, PartInv
  <2>4. pr_num = Len(PrBlocks[tape])
    BY <1>1, <1>8, <2>2, <2>3, ExactPrs
  <2>5. at.n \in Nat /\ at.n <= pr_num
    BY <1>3, <1>8
  <2>6. ~AtEnd
    BY <1>3, <1>4, <2>2, <2>4, <2>5
  <2>7. head'.item = head.item + 1
    BY <1>2, <2>1, <2>6
  <2> QED
    BY <1>1, <2>2, <2>5, <2>7
<1> QED
  BY <1>1, <1>5, <1>6, <1>7, <1>8

\* What an error says about the files of a run that has read them.
LEMMA ReadLabels ==
  ASSUME IInv, at.part = "data", ~flag, NEW l \in Labels
  PROVE  /\ ~alarm => Text(l) = Marker(tape, l)
         /\ faults = 0 => Text(l) = Marker(tape, l)
         /\ Text(l) = << >> => alarm /\ faults # 0
<1>1. TypeOK /\ Running /\ Begun /\ tape \in Tapes
  BY BegunAt DEF IInv, Running, TypeOK
<1>2. ~alarm => Text(l) = Marker(tape, l)
  <2>1. Source(tape) /\ l \in Checked
    BY CheckedAt DEF Source
  <2> QED
    BY <1>1, <2>1, SourceAt DEF Text
<1>3. faults = 0 => Text(l) = Marker(tape, l)
  <2>1. l \in Written
    BY <1>1, WrittenAt
  <2>2. l \in DOMAIN ref
    BY <1>1, <2>1 DEF IInv, RefInv
  <2> QED
    BY <1>1, <2>1, <2>2, ExactPrs DEF Text
<1> QED
  BY <1>1, <1>2, <1>3, MarkerFacts

LEMMA HeadDiff ==
  ASSUME IInv, TypeOK', Quiet, InPart, Step[1] = "diff", Diff \/ (FailDiff /\ Accepted)
  PROVE  HeadInv'
<1>1. /\ TypeOK /\ at.part = "data" /\ at'.part = "data" /\ at'.n = at.n + 1
      /\ \/ at.n = 3 /\ Arg = "RCM_1"
         \/ ~flag /\ \/ at.n = 5 /\ Arg = "VOL1Label"
                     \/ at.n = 6 /\ Arg = "OTFLabel"
                     \/ at.n = 7 /\ Arg = "RCM_0"
      /\ head'.done = 0 /\ UNCHANGED <<tape, flag, ref>> /\ (alarm => alarm')
  BY QuietDiff DEF Quiet
<1>2. PICK text :
        /\ alarm' = (alarm \/ Opened(Arg).text # text)
        /\ Arg = "RCM_0" => Opened(Arg).text = text
        /\ \/ text = SubSeq(Here, 1, Len(Here)) /\ head' = AfterMark /\ faults' = faults
           \/ text = << >> /\ head' = head /\ head.item > 1 /\ faults' = faults + 1
  BY QuietDiff
<1>3. tape \in Tapes /\ faults \in Nat
  BY <1>1 DEF TypeOK
<1>4. \A n \in Nat : Front("data", n).part = "data" /\ Front("data", n).item = n
  BY DEF Front
<1>5. CASE at.n = 3
  BY <1>1, <1>5, HeadAfter
<1>6. CASE at.n = 5 /\ ~flag
  <2>1. head = Front("data", 1) /\ head.item = 1 /\ head.part = "data"
    BY <1>1, <1>4, <1>6, HeadAt
  <2>2. head' = AfterMark
    BY <1>2, <2>1
  <2>3. head' = Front("data", 2)
    BY <2>1, <2>2 DEF AfterMark
  <2> QED
    BY <1>1, <1>6, <2>3, HeadAfter
<1>7. CASE at.n = 6 /\ ~flag
  <2>1. head = Front("data", 2) /\ head.item = 2 /\ head.part = "data"
    BY <1>1, <1>4, <1>7, HeadAt
  <2>2. CASE head' = AfterMark
    <3>1. head' = Front("data", 3)
      BY <2>1, <2>2 DEF AfterMark
    <3> QED
      BY <1>1, <1>7, <3>1, HeadAfter
  <2>3. CASE text = << >> /\ head' = head /\ faults' = faults + 1
    <3>1. Arg = "OTFLabel"
      BY <1>1, <1>7
    <3>2. alt.name = "VOL1Label"
      BY <1>1, <1>7 DEF IInv, AltInv, InData
    <3>3. Opened(Arg).text = Text("OTFLabel")
      BY <1>1, <3>1, <3>2, OpenedAs
    <3>4. Text("OTFLabel") = << >> => alarm
      BY <1>1, <1>7, ReadLabels, LabelNames
    <3>5. alarm'
      BY <1>2, <2>3, <3>3, <3>4
    <3>6. BadRcm0' => faults' > 1
      <4>1. BadRcm0' => BadRcm0
        BY <1>1 DEF BadRcm0, Text
      <4>2. BadRcm0 => faults # 0
        BY <1>1, <1>7, ReadLabels, LabelNames DEF BadRcm0
      <4> QED
        BY <1>3, <2>3, <4>1, <4>2
    <3>7. faults' > 0
      BY <1>3, <2>3
    <3> QED
      BY <1>1, <1>7, <2>1, <2>3, <3>5, <3>6, <3>7, HeadAfter
  <2> QED
    BY <1>2, <2>2, <2>3
<1>8. CASE at.n = 7 /\ ~flag
  <2>1. /\ Arg = "RCM_0" /\ alt.name = "OTFLabel"
        /\ \/ head = Front("data", 3)
           \/ head = Front("data", 2) /\ alarm /\ faults > 0 /\ (BadRcm0 => faults > 1)
    BY <1>1, <1>8, HeadAt DEF IInv, AltInv, InData
  <2>2. Text("RCM_0") = text
    BY <1>1, <1>2, <2>1, OpenedAs
  <2>3. SUFFICES ASSUME faults' <= 1 \/ ~alarm'
                 PROVE  head' = Front("data", 4)
    BY <1>1, <1>8, HeadAfter
  <2>4. CASE text = << >> /\ head' = head /\ faults' = faults + 1
    <3>1. alarm /\ faults # 0
      BY <1>1, <1>8, <2>2, <2>4, ReadLabels, LabelNames
    <3>2. faults' > 1
      BY <1>3, <2>4, <3>1
    <3>3. faults' \in Nat
      BY <1>3, <2>4
    <3> QED
      BY <1>1, <2>3, <3>1, <3>2, <3>3
  <2>5. CASE text = SubSeq(Here, 1, Len(Here)) /\ head' = AfterMark /\ faults' = faults
    <3>1. CASE head = Front("data", 3)
      BY <1>4, <2>5, <3>1 DEF AfterMark
    <3>2. CASE head = Front("data", 2) /\ alarm /\ (BadRcm0 => faults > 1)
      <4>1. Here = Marker(tape, "OTFLabel")
        BY <1>3, <1>4, <3>2, ItemFacts DEF Here
      <4>2. Here \in Seq(OurBlock)
        BY <1>3, <4>1, MarkerFacts, PrFacts, LabelNames
      <4>3. text = Marker(tape, "OTFLabel")
        BY <2>5, <4>1, <4>2
      <4>4. Marker(tape, "OTFLabel") # Marker(tape, "RCM_0")
        <5>1. "OTFLabel" # "RCM_0"
          OBVIOUS
        <5> QED
          BY <1>3, <5>1, MarkerOwn
      <4>5. BadRcm0
        BY <2>2, <4>3, <4>4 DEF BadRcm0
      <4>6. faults > 1 /\ alarm'
        BY <1>1, <3>2, <4>5
      <4> QED
        BY <1>3, <2>3, <2>5, <4>6
    <3> QED
      BY <2>1, <3>1, <3>2
  <2> QED
    BY <1>2, <2>4, <2>5
<1> QED
  BY <1>1, <1>5, <1>6, <1>7, <1>8

LEMMA HeadQuiet ==
  ASSUME IInv, TypeOK', Quiet,
         Move \/ EnterPart \/ ReadMark \/ ReadNothing \/ FailRead \/ Formatted \/ RcmBehindPrs
           \/ Numbers \/ CountMarks \/ Diff \/ FailDiff \/ Walk
  PROVE  HeadInv'
<1>1. /\ TypeOK /\ PartInv /\ Onward /\ Running /\ at.n \in Nat /\ pr_num \in Nat
      /\ head'.done = 0 /\ UNCHANGED <<tape, barcode, mode, flag, pr_num, ref, backup>> /\ (alarm => alarm')
      /\ tape \in Tapes /\ faults \in Nat /\ head.item \in Nat
  BY PrFacts DEF IInv, Quiet, Onward, TypeOK
<1>2. Items(tape, "ref") = Len(PrBlocks[tape]) + 4 /\ Len(PrBlocks[tape]) \in Nat /\ Len(PrBlocks[tape]) >= 1
  BY <1>1, ItemFacts, PrFacts
<1>3. \A part, n : Front(part, n).part = part /\ Front(part, n).item = n
  BY DEF Front
<1>a. CASE EnterPart /\ ~InPart
  <2>1. head' = head /\ faults' = faults /\ alarm' = alarm
    BY <1>a DEF EnterPart
  <2>2. at'.n = 1
    BY <1>1, <1>a DEF Onward
  <2>3. CASE at'.part \in {"labels", "again"}
    <3>1. at.part # "data" /\ at.part # "off" /\ at.part # "save"
      BY <1>1, <2>3, OnwardTable DEF Pass
    <3> QED
      BY <1>1, <2>1, <2>2, <2>3, <3>1, HeadAfter, HeadAt
  <2>4. CASE at'.part \in {"formatted", "prs"}
    <3>1. at.part \in {"labels", "again"} /\ at.n = 11
      BY <1>1, <2>2, <2>4, OnwardTable, <1>a DEF Pass, Onward, EnterPart
    <3>2. head.part = "ref" /\ (faults = 0 \/ (~flag /\ ~alarm) => head = Front("ref", 4))
      BY <3>1, HeadAt
    <3> QED
      BY <1>1, <1>3, <2>1, <2>2, <2>4, <3>2, HeadAfter
  <2>5. CASE at'.part = "temp"
    <3>1. at.part = "formatted"
      BY <1>1, <2>2, <2>5, <1>a, OnwardTable DEF Pass
    <3> QED
      BY <1>1, <2>1, <2>2, <2>5, <3>1, HeadAfter, HeadAt
  <2>6. CASE at'.part = "rcm"
    <3>1. at.part = "prs" /\ at.n = pr_num + 1
      BY <1>1, <2>2, <2>6, <1>a, OnwardTable DEF Pass
    <3>2. faults = 0 => head = Front("ref", Items(tape, "ref"))
      <4> HAVE faults = 0
      <4>1. ~flag
        BY <1>1, <3>1 DEF PartInv
      <4>2. pr_num = Len(PrBlocks[tape])
        BY <1>1, <3>1, <4>1, ExactPrs
      <4>3. head.item = (pr_num + 1) + 3 /\ head.part = "ref" /\ head.done = 0
        BY <1>1, <2>1, <3>1, HeadAt
      <4>4. head.item = Items(tape, "ref")
        BY <1>1, <1>2, <4>2, <4>3
      <4>5. head = [part |-> head.part, item |-> head.item, done |-> head.done]
        BY <1>1 DEF TypeOK
      <4> QED
        BY <4>3, <4>4, <4>5 DEF Front
    <3>3. head.part = "ref"
      BY <3>1, HeadAt
    <3> QED
      BY <1>1, <2>1, <2>2, <2>6, <3>2, <3>3, HeadAfter
  <2>7. CASE at'.part \in {"off", "data", "save", "restore"}
    <3>1. at'.part # "restore"
      BY <1>1, <2>7, OnwardTable DEF Pass
    <3> QED
      BY <1>1, <2>2, <2>7, <3>1, HeadAfter
  <2> QED
    BY <1>1, <2>3, <2>4, <2>5, <2>6, <2>7 DEF TypeOK, Parts
<1>b. CASE Step[1] \in {"begin", "mark", "last"} /\ InPart /\ Move
  <2>1. at'.part = at.part /\ at'.n = at.n + 1
    BY <1>1, <1>b, GoesAt DEF Onward
  <2>2. \/ Pass /\ \/ at.n = 2 /\ Step[1] = "begin" /\ Arg = "ref"
                   \/ at.n = 3 /\ Step[1] = "mark"
                   \/ at.n = 5 /\ Step[1] = "last" /\ Arg = "ref"
                   \/ at.n = 7 /\ Step[1] = "begin" /\ Arg = "ref"
        \/ at.part = "data" /\ \/ at.n = 2 /\ Step[1] = "last" /\ Arg = "data"
                               \/ at.n = 4 /\ ~flag /\ Step[1] = "begin" /\ Arg = "data"
    BY <1>1, <1>b, AtOther
  <2>3. CASE Pass /\ at.n \in {2, 7}
    <3>1. head' = Front("ref", 1)
      BY <1>b, <2>2, <2>3, MoveIs DEF Pass
    <3>2. head'.part = "ref" /\ head'.item = 1
      BY <1>3, <3>1
    <3> QED
      BY <1>1, <2>1, <2>3, <3>2, HeadAfter DEF Pass
  <2>4. CASE Pass /\ at.n = 3
    <3>1. head' = AfterMark /\ head.item = 1 /\ head.part = "ref"
      BY <1>b, <2>2, <2>4, MoveIs, HeadAt DEF Pass
    <3>2. head'.item = 2 /\ head'.part = "ref"
      BY <1>3, <3>1 DEF AfterMark
    <3> QED
      BY <1>1, <2>1, <2>4, <3>2, HeadAfter DEF Pass
  <2>5. CASE Pass /\ at.n = 5
    <3>1. head' = Front("ref", Items(tape, "ref"))
      BY <1>b, <2>2, <2>5, MoveIs DEF Pass, LastRcm
    <3>2. head'.part = "ref" /\ head'.item = Items(tape, "ref")
      BY <1>3, <3>1
    <3> QED
      BY <1>1, <2>1, <2>5, <3>2, HeadAfter DEF Pass
  <2>6. CASE at.part = "data" /\ at.n = 2
    <3>1. head' = Front("data", Items(tape, "data"))
      BY <1>b, <2>2, <2>6, MoveIs DEF LastRcm, Pass
    <3> QED
      BY <1>1, <2>1, <2>6, <3>1, HeadAfter
  <2>7. CASE at.part = "data" /\ at.n = 4
    <3>1. head' = Front("data", 1)
      BY <1>b, <2>2, <2>7, MoveIs DEF Pass
    <3> QED
      BY <1>1, <2>1, <2>7, <3>1, HeadAfter
  <2> QED
    BY <2>2, <2>3, <2>4, <2>5, <2>6, <2>7
<1>c. CASE /\ Step[1] \in {"skim", "temp"} /\ InPart /\ Doing(WriteSteps)
           /\ ReadMark \/ ReadNothing \/ (FailRead /\ Accepted)
  <2>1. at'.part = at.part /\ at'.n = at.n + 1
    BY <1>1, <1>c, GoesAt DEF Onward
  <2>2. /\ head.part = "ref" /\ head'.part = "ref"
        /\ \/ ReadMark /\ AtMark /\ ~AtEnd /\ head' = AfterMark /\ head'.item = head.item + 1 /\ faults' = faults
           \/ AtEnd /\ head' = head /\ faults' = faults
           \/ ~AtEnd /\ head' = head /\ head.item > 1 /\ head.done = 0 /\ faults' = faults + 1 /\ faults' # 0
    BY <1>c, ReadPlace
  <2>3. CASE Pass /\ at.n = 9
    <3>1. head.item = 2
      BY <2>3, HeadAt DEF Pass
    <3>2. ~AtEnd
      BY <1>2, <2>2, <3>1 DEF AtEnd
    <3>3. head'.item = 3 \/ (head'.item = 2 /\ faults' # 0)
      BY <2>2, <3>1, <3>2
    <3> QED
      BY <1>1, <2>1, <2>2, <2>3, <3>3, HeadAfter DEF Pass
  <2>4. CASE at.part = "temp"
    BY <1>1, <2>1, <2>2, <2>4, HeadAfter
  <2> QED
    BY <1>1, <1>c, <2>3, <2>4, AtWrite
<1>d. CASE Step[1] = "formatted" /\ InPart /\ Formatted /\ ~alarm
  <2>1. at.part = "formatted" /\ at.n = 1 /\ head' = head /\ faults' = faults /\ alarm' = alarm
    BY <1>1, <1>d, AtOther DEF Formatted
  <2>2. at'.part = at.part /\ at'.n = at.n + 1
    BY <1>1, <1>d, GoesAt DEF Onward
  <2> QED
    BY <1>1, <1>d, <2>1, <2>2, HeadAfter, HeadAt
<1>e. CASE Step[1] = "rcm" /\ InPart /\ RcmBehindPrs
  <2>1. at.part = "rcm" /\ at.n = 1 /\ (head' = head \/ head' = LastRcm("ref"))
    BY <1>1, <1>e, AtOther DEF RcmBehindPrs
  <2>2. at'.part = at.part /\ at'.n = at.n + 1
    BY <1>1, <1>e, GoesAt DEF Onward
  <2>3. head'.part = "ref"
    BY <1>3, <2>1, HeadAt DEF LastRcm
  <2> QED
    BY <1>1, <2>1, <2>2, <2>3, HeadAfter
<1>f. CASE Step[1] = "numbers" /\ InPart /\ Numbers
  <2>1. at.part = "data" /\ at.n = 1
    BY <1>1, <1>f, AtOther
  <2>2. at'.part = at.part /\ at'.n = at.n + 1
    BY <1>1, <1>f, GoesAt DEF Onward
  <2> QED
    BY <1>1, <2>1, <2>2, HeadAfter
<1>g. CASE Step[1] = "count" /\ InPart /\ CountMarks
  <2>1. at'.part = at.part /\ at'.n = at.n + 1 /\ head' = head /\ faults' = faults
    BY <1>1, <1>g, GoesAt DEF Onward, CountMarks
  <2>2. CASE at.part = "rcm" /\ at.n = 2
    BY <1>1, <2>1, <2>2, HeadAfter, HeadAt
  <2>3. CASE at.part = "data" /\ at.n = 8 /\ ~flag
    BY <1>1, <2>1, <2>3, HeadAfter, HeadAt
  <2> QED
    BY <1>1, <1>g, <2>2, <2>3, AtOther
<1>h. CASE Step[1] = "walk" /\ InPart /\ Walk
  <2>1. at'.part = at.part /\ at'.n = at.n + 1
    BY <1>1, <1>h, GoesAt DEF Onward
  <2>2. at.part = "data" /\ at.n = (IF flag THEN 4 ELSE 9)
    BY <1>1, <1>h, AtOther
  <2> QED
    BY <1>1, <2>1, <2>2, HeadAfter
<1> QED
  BY <1>a, <1>b, <1>c, <1>d, <1>e, <1>f, <1>g, <1>h, QuietAction, HeadDiff

LEMMA HeadNext ==
  ASSUME IInv, TypeOK', [Next]_vars
  PROVE  HeadInv'
<1>1. TypeOK /\ PartInv /\ HeadInv
  BY DEF IInv
<1>a. CASE Start
  <2>1. at'.part \in {"restore", "labels"} /\ at'.n = 1 /\ head' = Front("ref", 1)
    BY <1>a DEF Start
  <2>2. head'.part = "ref" /\ head'.done = 0
    BY <2>1 DEF Front
  <2> QED
    BY <2>1, <2>2, HeadAfter
<1>b. CASE Restore \/ Clear \/ Save
  <2>1. InPart /\ Step[1] \in {"restore", "clear", "save"} /\ Goes /\ head' = head
    BY <1>b DEF Restore, Clear, Save, Doing
  <2>2. at'.part = at.part /\ at'.n = at.n + 1 /\ head'.done = 0
    BY <1>1, <2>1, GoesAt, NotWriting DEF Goes, WriteSteps
  <2>3. at.part \in {"restore", "save"} \/ (Pass /\ at.n = 1)
    BY <1>1, <2>1, AtOther
  <2> QED
    BY <2>1, <2>2, <2>3, HeadAfter, HeadAt DEF Pass
<1>c. CASE ReadBlock
  <2>1. /\ UNCHANGED <<at, tape, flag, pr_num, faults, alarm>> /\ head' = [head EXCEPT !.done = @ + 1]
        /\ Doing(WriteSteps) /\ Running /\ InPart /\ ~AtEnd /\ ~AtMark
    BY <1>c DEF ReadBlock, Doing, InPart
  <2>2. head'.part = head.part /\ head'.item = head.item /\ head'.done = head.done + 1
    BY <1>1, <2>1 DEF TypeOK
  <2>3. Here' = Here /\ (AtEnd' <=> AtEnd) /\ (Doing(WriteSteps)' <=> Doing(WriteSteps))
    BY <2>1, <2>2, SameStep DEF Here, AtEnd
  <2>4. Len(Here) \in Nat /\ head.done \in 0..Len(Here) /\ head.done # Len(Here)
    BY <2>1, HereFacts DEF AtMark
  <2>5. head'.done <= Len(Here)
    BY <2>2, <2>4
  <2>6. \/ Pass /\ at.n \in {4, 6, 8, 9, 10}
        \/ at.part \in {"prs", "temp"}
    BY <1>1, <2>1, AtWrite
  <2> QED
    BY <1>1, <2>1, <2>2, <2>3, <2>5, <2>6 DEF HeadInv, InRef, Pass
<1>d. CASE Stop \/ Leaves
  <2>1. at'.part = "off"
    BY <1>d DEF Stop, Leaves, Off
  <2> QED
    BY <2>1 DEF HeadInv, Running, Pass
<1>e. CASE UNCHANGED vars
  <2>1. UNCHANGED <<at, tape, flag, pr_num, faults, alarm, head, ref>>
    BY <1>e DEF vars
  <2>2. Here' = Here /\ (AtEnd' <=> AtEnd) /\ (Doing(WriteSteps)' <=> Doing(WriteSteps)) /\ (Running' <=> Running)
    BY <2>1, SameStep DEF Here, AtEnd
  <2>3. BadRcm0' <=> BadRcm0
    BY <2>1 DEF BadRcm0, Text
  <2> QED
    BY <1>1, <2>1, <2>2, <2>3 DEF HeadInv, InRef, Pass, LastRcm
<1> QED
  BY <1>a, <1>b, <1>c, <1>d, <1>e, StepKinds, HeadFills, HeadQuiet

-----------------------------------------------------------------------------
(* Runs without failed reads *)

LEMMA ExactAfter ==
  ASSUME \A u \in Tapes : Exact(u)' =>
           /\ ~refused' /\ (u = tape' => ~alarm')
           /\ at'.part # "off" /\ ~(at'.part = "data" /\ at'.n >= 4) => ~alarm'
           /\ ~flag' /\ Begun' => \A f \in Written' : ref'[f] = Marker(tape', f)
  PROVE  ExactInv'
BY DEF ExactInv, Running, InData

LEMMA SameExact ==
  ASSUME UNCHANGED <<tape, barcode, flag, backup>>, faults' = 0 => faults = 0, NEW u \in Tapes
  PROVE  Exact(u)' => Exact(u)
<1>1. Files(tape)' = Files(tape)
  BY DEF Files
<1> QED
  BY <1>1 DEF Exact

LEMMA ExactAt ==
  ASSUME IInv, NEW u \in Tapes, Exact(u), Running
  PROVE  /\ Source(u) /\ faults = 0 /\ ~refused /\ (u = tape => ~alarm)
         /\ IF flag THEN Files(tape) = Own(u) ELSE u = tape
         /\ ~(at.part = "data" /\ at.n >= 4) => ~alarm
         /\ ~flag /\ Begun => \A f \in Written : ref[f] = Marker(tape, f)
<1>1. /\ faults = 0 /\ ~refused /\ (u = tape => ~alarm)
      /\ ~(at.part = "data" /\ at.n >= 4) => ~alarm
      /\ ~flag /\ Begun => \A f \in Written : ref[f] = Marker(tape, f)
      /\ IF flag THEN Files(tape) = Own(u) ELSE u = tape
  BY DEF IInv, ExactInv, Exact, InData
<1>2. LabelsOf(Own(u), u)
  BY MarkerFacts DEF LabelsOf, Own, Names
<1> QED
  BY <1>1, <1>2 DEF Source

LEMMA ExactFiles ==
  ASSUME IInv, NEW u \in Tapes, Exact(u), Running,
         flag => at.part # "restore", ~flag => at.part \in {"rcm", "data", "save"}
  PROVE  \A f \in Names(u) : f \in DOMAIN ref /\ ref[f] = Marker(u, f) /\ Text(f) = Marker(u, f)
<1>1. TypeOK /\ RefInv /\ at.part # "off"
  BY DEF IInv, Running
<1>2. CASE flag
  <2>1. Files(tape) = Own(u)
    BY <1>2, ExactAt
  <2>2. \A f \in Names(u) : f \in DOMAIN ref /\ ref[f] = Own(u)[f]
    <3>1. DOMAIN Own(u) = Names(u)
      BY DEF Own
    <3> QED
      BY <1>1, <1>2, <2>1, <3>1 DEF RefInv
  <2> QED
    BY <2>2 DEF Own, Text
<1>3. CASE ~flag
  <2>1. u = tape /\ faults = 0 /\ Begun
    BY <1>1, <1>3, ExactAt, BegunAt
  <2>2. pr_num = Len(PrBlocks[tape]) /\ \A f \in Written : ref[f] = Marker(tape, f)
    BY <1>3, <2>1, ExactPrs
  <2>3. Names(tape) = Written
    BY <1>1, <1>3, <2>2, WrittenAt DEF Names, PrNumbers
  <2>4. \A f \in Written : f \in DOMAIN ref
    BY <1>1, <1>3, <2>1 DEF RefInv
  <2> QED
    BY <2>1, <2>2, <2>3, <2>4 DEF Text
<1> QED
  BY <1>2, <1>3

\* What is read without a failure is a marker of the tape.
LEMMA ExactFills ==
  ASSUME IInv, EndsText, faults' = faults, NEW u \in Tapes, Exact(u)
  PROVE  WellFormed(Arg, Text(Arg)) /\ (~flag => Text(Arg) = Marker(tape, Arg))
<1>1. /\ TypeOK /\ RefInv /\ InPart /\ Running /\ Step[1] = "write" /\ Doing(WriteSteps) /\ Doing({"write"})
      /\ \/ Pass /\ \/ at.n = 4  /\ Arg = "OTFLabel"
                    \/ at.n = 6  /\ Arg = "RCM_1"
                    \/ at.n = 8  /\ Arg = "VOL1Label"
                    \/ at.n = 10 /\ Arg = "RCM_0"
         \/ at.part = "prs" /\ at.n \in 1..pr_num /\ Arg = PrNames[at.n] /\ Arg \notin Labels
  BY EndsAt DEF Doing, IInv
<1>2. Pass => Arg \in Labels
  BY <1>1, LabelNames, EndsAt, PrFacts DEF Pass
<1>3. CASE flag
  <2>1. Pass
    BY <1>1, <1>3 DEF IInv, PartInv
  <2>2. Arg \in Names(u)
    BY <1>2, <2>1 DEF Names
  <2>3. Text(Arg) = Marker(u, Arg)
    BY <1>1, <1>3, <2>1, <2>2, ExactFiles DEF Pass
  <2> QED
    BY <1>2, <1>3, <2>1, <2>3 DEF WellFormed
<1>4. CASE ~flag
  <2>1. tape \in Tapes /\ faults = 0 /\ faults \in Nat
    BY <1>1, <1>4, ExactAt DEF TypeOK
  <2>2. /\ Len(PrBlocks[tape]) \in Nat
        /\ Items(tape, "ref") = Len(PrBlocks[tape]) + 4
        /\ Item(tape, "ref", 1) = "VOL1Label" /\ Item(tape, "ref", 2) = "OTFLabel"
        /\ Item(tape, "ref", 3) = "RCM_0" /\ Item(tape, "ref", Items(tape, "ref")) = "RCM_1"
        /\ \A n \in PrNumbers(tape) : Item(tape, "ref", n + 3) = PrNames[n]
    BY <2>1, ItemFacts, PrFacts
  <2>3. head.part = "ref" /\ head.item <= Items(tape, "ref") /\ Item(tape, "ref", head.item) = Arg
    <3>1. CASE Pass
      BY <1>1, <2>1, <2>2, <3>1, HeadAt DEF Pass
    <3>2. CASE at.part = "prs" /\ at.n \in 1..pr_num /\ Arg = PrNames[at.n]
      <4>1. head.item = at.n + 3 /\ head.part = "ref" /\ pr_num = Len(PrBlocks[tape])
        BY <1>1, <1>4, <2>1, <3>2, HeadAt, ExactPrs
      <4> QED
        BY <1>1, <2>2, <3>2, <4>1 DEF PrNumbers, TypeOK
    <3> QED
      BY <1>1, <3>1, <3>2
  <2>4. ~AtEnd
    BY <1>1, <2>2, <2>3 DEF AtEnd, TypeOK
  <2>5. AtMark
    BY <1>1, <2>1, <2>4, ReadPlace DEF EndsText
  <2>6. Here = Marker(tape, Arg) /\ head.done = Len(Here) /\ Here \in Seq(OurBlock)
    BY <1>1, <2>3, <2>4, <2>5, HereFacts DEF AtMark
  <2>7. Len(Text(Arg)) = head.done /\ \A i \in 1..head.done : Text(Arg)[i] = Here[i]
    BY <1>1, <1>4, TextSoFar
  <2>8. Text(Arg) \in Seq(OurBlock)
    BY <1>1, WriteArg, TextType
  <2>9. Text(Arg) = Marker(tape, Arg)
    BY <2>6, <2>7, <2>8
  <2>10. CASE Pass
    BY <1>2, <2>1, <2>9, <2>10, <1>4 DEF WellFormed
  <2>11. CASE at.part = "prs"
    <3>1. at.n \in PrNumbers(tape) /\ Arg = PrNames[at.n] /\ Arg \notin Labels
      BY <1>1, <1>4, <2>1, <2>11, ExactPrs DEF Pass, PrNumbers
    <3> QED
      BY <2>1, <2>9, <3>1, <1>4 DEF WellFormed
  <2> QED
    BY <1>1, <2>10, <2>11
<1> QED
  BY <1>3, <1>4

\* What the data partition is compared with is the same there.
LEMMA ExactDiff ==
  ASSUME IInv, Exact(tape), Doing({"diff"})
  PROVE  head.done = 0 /\ Opened(Arg).text = SubSeq(Here, 1, Len(Here))
<1>1. /\ TypeOK /\ Running /\ InPart /\ at.part = "data"
      /\ \/ at.n = 3 /\ Arg = "RCM_1"
         \/ ~flag /\ \/ at.n = 5 /\ Arg = "VOL1Label"
                     \/ at.n = 6 /\ Arg = "OTFLabel"
                     \/ at.n = 7 /\ Arg = "RCM_0"
  <2>1. TypeOK /\ Running /\ InPart /\ Step[1] = "diff"
    BY DEF IInv, Doing, InPart
  <2> QED
    BY <2>1, AtOther
<1>2. tape \in Tapes /\ faults = 0 /\ ~alarm /\ Source(tape)
  BY <1>1, ExactAt DEF TypeOK
<1>3. Arg \in Labels
  BY <1>1, LabelNames
<1>4. Text(Arg) = Marker(tape, Arg)
  BY <1>1, <1>2, <1>3, ExactFiles DEF Names
<1>5. alt.name # Arg
  <2>1. CASE at.n = 3
    <3>1. pr_num > 0
      <4>1. pr_num = Len(PrBlocks[tape])
        BY <1>1, <1>2, SourceAt
      <4> QED
        BY <1>2, <4>1, PrFacts
    <3> QED
      BY <1>1, <1>3, <2>1, <3>1 DEF IInv, AltInv, InData
  <2>2. CASE at.n = 5 /\ Arg = "VOL1Label"
    BY <1>1, <2>2 DEF IInv, AltInv, InData
  <2>3. CASE at.n = 6 /\ Arg = "OTFLabel"
    BY <1>1, <2>3 DEF IInv, AltInv, InData
  <2>4. CASE at.n = 7 /\ Arg = "RCM_0"
    BY <1>1, <2>4 DEF IInv, AltInv, InData
  <2> QED
    BY <1>1, <2>1, <2>2, <2>3, <2>4
<1>6. Opened(Arg).text = Marker(tape, Arg)
  BY <1>1, <1>4, <1>5, OpenedAs
<1>7. Here = Marker(tape, Arg)
  <2>1. \A n \in Nat : Front("data", n).part = "data" /\ Front("data", n).item = n
    BY DEF Front
  <2>2. CASE at.n = 3
    <3>1. head = Front("data", Items(tape, "data")) /\ Items(tape, "data") \in Nat
      BY <1>1, <1>2, <2>2, HeadAt, ItemFacts
    <3> QED
      BY <1>1, <1>2, <2>1, <2>2, <3>1, ItemFacts DEF Here
  <2>3. CASE ~flag /\ at.n \in {5, 6, 7}
    <3>1. \/ at.n = 5 /\ head = Front("data", 1) /\ Arg = "VOL1Label"
          \/ at.n = 6 /\ head = Front("data", 2) /\ Arg = "OTFLabel"
          \/ at.n = 7 /\ head = Front("data", 3) /\ Arg = "RCM_0"
      BY <1>1, <1>2, <2>3, HeadAt
    <3> QED
      BY <1>2, <2>1, <3>1, ItemFacts DEF Here
  <2> QED
    BY <1>1, <2>2, <2>3
<1>8. Here \in Seq(OurBlock)
  BY <1>2, <1>3, <1>7, MarkerFacts, PrFacts
<1>9. SubSeq(Here, 1, Len(Here)) = Here
  BY <1>8
<1>10. head.done = 0
  BY <1>1, NotWriting DEF Doing, WriteSteps
<1> QED
  BY <1>6, <1>7, <1>9, <1>10

LEMMA ExactQuiet ==
  ASSUME IInv, TypeOK', Quiet,
         Move \/ EnterPart \/ ReadMark \/ ReadNothing \/ FailRead \/ Formatted \/ RcmBehindPrs
           \/ Numbers \/ CountMarks \/ Diff \/ FailDiff \/ Walk
  PROVE  ExactInv'
<1>1. /\ TypeOK /\ PartInv /\ Onward /\ Running /\ at.n \in Nat /\ tape \in Tapes /\ faults \in Nat
      /\ UNCHANGED <<tape, barcode, flag, pr_num, ref, backup, refused>> /\ (faults' = 0 => faults = 0)
  BY DEF IInv, Quiet, Onward, TypeOK
<1>2. SUFFICES ASSUME NEW u \in Tapes, Exact(u)', Exact(u)
               PROVE  /\ u = tape => ~alarm'
                      /\ at'.part # "off" /\ ~(at'.part = "data" /\ at'.n >= 4) => ~alarm'
  <2>1. ASSUME NEW u \in Tapes, Exact(u), ~flag', Begun'
        PROVE  \A f \in Written' : ref'[f] = Marker(tape', f)
    <3>1. Begun /\ Written' = Written
      BY <1>1, <2>1, OnwardWritten
    <3> QED
      BY <1>1, <2>1, <3>1, ExactAt
  <2>2. \A u \in Tapes : Exact(u)' => Exact(u)
    BY <1>1, SameExact
  <2> QED
    BY <1>1, <2>1, <2>2, ExactAfter, ExactAt
<1>3. /\ Source(u) /\ faults = 0 /\ faults' = 0 /\ (u = tape => ~alarm)
      /\ ~flag => u = tape
      /\ ~(at.part = "data" /\ at.n >= 4) => ~alarm
  BY <1>1, <1>2, ExactAt DEF Exact
<1>4. at'.part # "off" /\ ~(at'.part = "data" /\ at'.n >= 4) => ~alarm
  <2>1. CASE at.part = "data" /\ at.n >= 4
    <3>1. at'.part = "off" \/ at'.part = "save" \/ (at'.part = "data" /\ at'.n = at.n + 1)
      BY <1>1, <2>1, OnwardTable DEF Pass
    <3>2. at'.part = "save" => ~flag
      BY <1>1, <2>1, OnwardTable DEF Pass
    <3> QED
      BY <1>1, <1>3, <2>1, <3>1, <3>2
  <2> QED
    BY <1>3, <2>1
<1>5. CASE alarm' = alarm
  BY <1>3, <1>4, <1>5
<1>6. CASE InPart /\ Step[1] \in {"skim", "temp"}
  <2>1. Doing(WriteSteps) /\ (ReadMark \/ ReadNothing \/ (FailRead /\ Accepted))
    BY <1>6, <1>2, QuietAction
  <2>2. alarm' = (alarm \/ (Step[1] # "temp" /\ ~WellFormed(Arg, Text(Arg))))
    BY <1>6, <2>1 DEF ReadMark, ReadNothing, FailRead, EndFile, TooShort
  <2>3. at.part \in {"labels", "again", "temp"} /\ (Step[1] = "skim" => Pass /\ at.n = 9 /\ Arg = "OTFLabel")
    BY <1>1, <1>6, <2>1, AtWrite DEF Pass
  <2>4. ~alarm
    BY <1>3, <2>3
  <2>5. Step[1] = "skim" => WellFormed(Arg, Text(Arg))
    <3> HAVE Step[1] = "skim"
    <3>1. Arg \in Labels /\ Arg \in Checked
      <4>1. DoneAt["OTFLabel"] = 4
        BY LabelNames DEF DoneAt
      <4> QED
        BY <2>3, <4>1, CheckedAt, LabelNames
    <3>2. Text(Arg) = Marker(u, Arg)
      BY <1>1, <1>3, <2>4, <3>1, SourceAt DEF Text
    <3> QED
      BY <3>1, <3>2 DEF WellFormed
  <2> QED
    BY <1>6, <2>2, <2>4, <2>5
<1>7. CASE InPart /\ Step[1] = "rcm"
  <2>1. at.part = "rcm" /\ at.n = 1
    BY <1>1, <1>7, AtOther
  <2>2. head = LastRcm("ref") /\ ~alarm
    BY <1>3, <2>1, HeadAt DEF LastRcm
  <2>3. RcmBehindPrs
    BY <1>7, <1>2, QuietAction
  <2>4. ~alarm'
    BY <2>2, <2>3 DEF RcmBehindPrs
  <2> QED
    BY <2>4
<1>8. CASE InPart /\ Step[1] = "count"
  <2>1. \/ at.part = "rcm" /\ at.n = 2 /\ Arg = "ref"
        \/ at.part = "data" /\ at.n = 8 /\ ~flag /\ Arg = "data"
    BY <1>1, <1>8, AtOther
  <2>2. ~flag /\ u = tape /\ ~alarm
    BY <1>1, <1>3, <2>1 DEF PartInv
  <2>3. pr_num = Len(PrBlocks[tape]) /\ pr_num \in Nat
    BY <1>1, <1>3, <2>1, <2>2, ExactPrs, PrFacts
  <2>4. CountMarks
    BY <1>8, <1>2, QuietAction
  <2>5. CASE at.part = "rcm" /\ at.n = 2 /\ Arg = "ref"
    <3>1. fm_num = Items(tape, "ref")
      BY <2>5 DEF IInv, MarksInv, Before, Numbered, InData
    <3>2. fm_num = pr_num + 4
      BY <1>1, <2>3, <3>1, ItemFacts
    <3>3. FmNum(pr_num, 0) = pr_num + 4
      BY <2>3 DEF FmNum
    <3>4. alarm' = (alarm \/ fm_num # FmNum(pr_num, 0))
      BY <2>4, <2>5 DEF CountMarks
    <3> QED
      BY <2>2, <3>2, <3>3, <3>4
  <2>6. CASE at.part = "data" /\ at.n = 8 /\ Arg = "data"
    <3>1. fm_num = Items(tape, "data")
      BY <1>1, <2>6 DEF IInv, MarksInv, InData
    <3>2. fm_num = 3 * pr_num + 4
      BY <1>1, <2>3, <3>1, ItemFacts
    <3>3. {n \in 1..pr_num : Text(PrNames[n]) # << >>} = 1..pr_num
      <4>1. \A n \in 1..pr_num : PrNames[n] \in Names(tape)
        BY <2>3 DEF Names, PrNumbers
      <4>2. \A n \in 1..pr_num : Text(PrNames[n]) = Marker(tape, PrNames[n])
        BY <1>1, <1>2, <2>2, <2>6, <4>1, ExactFiles
      <4> QED
        BY <1>1, <4>2, MarkerFacts
    <3>4. Cardinality(1..pr_num) = pr_num
      <4>1. pr_num \in Int /\ 1 \in Int
        BY <2>3
      <4>2. Cardinality(1..pr_num) = IF 1 > pr_num THEN 0 ELSE pr_num - 1 + 1
        BY <4>1, FS_Interval
      <4> QED
        BY <2>3, <4>2
    <3>5. alarm' = (alarm \/ fm_num # FmNum(pr_num, pr_num))
      <4>1. Arg # "ref"
        BY <2>6
      <4> QED
        BY <2>4, <3>3, <3>4, <4>1 DEF CountMarks
    <3>6. FmNum(pr_num, pr_num) = 3 * pr_num + 4
      BY <2>3 DEF FmNum
    <3> QED
      BY <2>2, <3>2, <3>5, <3>6
  <2> QED
    BY <2>1, <2>5, <2>6
<1>9. CASE InPart /\ Step[1] = "diff"
  <2>1. Diff \/ (FailDiff /\ Accepted)
    BY <1>9, <1>2, QuietAction
  <2>2. at.part = "data" /\ at'.part = "data" /\ at'.n = at.n + 1 /\ at.n >= 3 /\ (at.n # 3 => ~flag)
    BY <1>9, <2>1, QuietDiff
  <2>3. PICK text :
          /\ alarm' = (alarm \/ Opened(Arg).text # text)
          /\ \/ text = SubSeq(Here, 1, Len(Here)) /\ faults' = faults
             \/ text = << >> /\ faults' = faults + 1
    BY <1>9, <2>1, QuietDiff
  <2>4. text = SubSeq(Here, 1, Len(Here))
    BY <1>3, <2>3
  <2>5. u = tape => ~alarm'
    BY <1>2, <1>3, <1>9, <2>3, <2>4, ExactDiff DEF Doing
  <2> QED
    BY <1>1, <2>2, <2>5
<1>10. CASE InPart /\ Step[1] = "walk"
  <2>1. at.part = "data" /\ at.n >= 4 /\ at'.part = "data" /\ at'.n >= 4
    <3>1. at.part = "data" /\ at.n >= 4
      BY <1>1, <1>10, AtOther
    <3>2. at'.part = "data" /\ at'.n = at.n + 1
      BY <1>1, <1>10, <3>1, OnwardTable, GoesAt DEF Onward
    <3> QED
      BY <1>1, <3>1, <3>2
  <2>2. SUFFICES ASSUME u = tape PROVE ~alarm'
    BY <2>1
  <2>3. ~alarm /\ pr_num = Len(PrBlocks[tape])
    BY <1>1, <1>3, <2>1, <2>2, SourceAt
  <2>4. \A n \in 1..pr_num : PrNames[n] \in Names(tape)
    BY <2>3 DEF Names, PrNumbers
  <2>5. \A n \in 1..pr_num : Text(PrNames[n]) = Marker(tape, PrNames[n])
    BY <1>1, <1>2, <2>1, <2>2, <2>4, ExactFiles
  <2>6. Walk
    BY <1>10, <1>2, QuietAction
  <2> QED
    BY <2>3, <2>5, <2>6 DEF Walk
<1> QED
  BY <1>2, <1>5, <1>6, <1>7, <1>8, <1>9, <1>10, QuietAction

\* A tape is not refused for what is on it.
LEMMA ExactLeaves ==
  ASSUME IInv, Leaves, NEW u \in Tapes,
         ReadMark \/ ReadNothing \/ FailRead \/ Formatted \/ Numbers \/ Diff \/ FailDiff
  PROVE  ~Exact(u)'
<1>1. /\ TypeOK /\ Running /\ UNCHANGED <<tape, barcode, flag, backup>> /\ (faults' = 0 => faults = 0)
      /\ at'.part = "off" /\ faults \in Nat /\ tape \in Tapes
  BY DEF IInv, Leaves, Off, TypeOK
<1>2. SUFFICES ASSUME Exact(u), faults' = 0
               PROVE  FALSE
  BY <1>1, SameExact DEF Exact
<1>3. /\ Source(u) /\ faults = 0 /\ (u = tape => ~alarm)
      /\ ~flag => u = tape
      /\ ~(at.part = "data" /\ at.n >= 4) => ~alarm
  BY <1>1, <1>2, ExactAt
<1>4. ~Goes
  <2>1. Goes => at'.part = at.part
    BY <1>1, GoesAt DEF Goes
  <2> QED
    BY <1>1, <2>1 DEF Running
<1>5. CASE FailRead \/ FailDiff
  <2>1. faults' = faults + 1
    BY <1>5 DEF FailRead, FailDiff
  <2> QED
    BY <1>1, <1>2, <2>1
<1>6. CASE Formatted
  <2>1. InPart /\ Step[1] = "formatted" /\ alarm
    BY <1>4, <1>6 DEF Formatted, Doing
  <2>2. at.part = "formatted"
    BY <1>1, <2>1, AtOther
  <2> QED
    BY <1>3, <2>1, <2>2
<1>7. CASE Numbers
  <2>1. InPart /\ Step[1] = "numbers"
    BY <1>7 DEF Numbers, Doing
  <2>2. at.part = "data" /\ at.n = 1 /\ ~alarm
    BY <1>1, <1>3, <2>1, AtOther
  <2>3. pr_num = Len(PrBlocks[u])
    BY <1>1, <1>3, <2>2, SourceAt
  <2>4. \A n \in 1..pr_num : PrNames[n] \in DOMAIN ref
    <3>1. \A n \in 1..pr_num : PrNames[n] \in Names(u)
      BY <2>3 DEF Names, PrNumbers
    <3> QED
      BY <1>1, <1>2, <2>2, <3>1, ExactFiles
  <2>5. pr_num' = pr_num
    BY <1>7, NumbersSame
  <2> QED
    BY <1>4, <1>7, <2>4, <2>5 DEF Numbers
<1>8. CASE Diff
  <2>1. InPart /\ Step[1] = "diff"
    BY <1>8 DEF Diff, Doing
  <2>2. /\ at.part = "data"
        /\ \/ at.n = 3 /\ Arg = "RCM_1"
           \/ ~flag /\ Arg \in {"VOL1Label", "OTFLabel", "RCM_0"}
    BY <1>1, <2>1, AtOther
  <2>3. Arg \in DOMAIN ref
    <3>1. Arg \in Names(u)
      BY <2>2 DEF Names, Labels
    <3> QED
      BY <1>1, <1>2, <2>2, <3>1, ExactFiles
  <2>4. Arg = "RCM_0" => Opened(Arg).text = SubSeq(Here, head.done + 1, Len(Here))
    <3> HAVE Arg = "RCM_0"
    <3>1. u = tape
      BY <1>3, <2>2
    <3>2. head.done = 0 /\ Opened(Arg).text = SubSeq(Here, 1, Len(Here))
      BY <1>2, <2>1, <3>1, ExactDiff DEF Doing
    <3>3. head.done + 1 = 1
      BY <3>2
    <3> QED
      BY <3>2, <3>3
  <2>5. alt' = Opened(Arg)
    BY <1>8 DEF Diff, Compare
  <2> QED
    BY <1>4, <1>8, <2>3, <2>4, <2>5 DEF Diff, Compare
<1>9. CASE ReadMark \/ ReadNothing
  <2>1. TooShort /\ Doing(WriteSteps) /\ faults' = faults
    BY <1>4, <1>9 DEF ReadMark, ReadNothing, EndFile
  <2>2. EndsText /\ Text(Arg) = << >>
    BY <1>9, <2>1 DEF EndsText, TooShort, Doing
  <2>3. WellFormed(Arg, << >>)
    BY <1>2, <2>1, <2>2, ExactFills
  <2>4. \A t \in Tapes : \A name : Marker(t, name) # << >>
    BY MarkerFacts
  <2> QED
    BY <2>3, <2>4 DEF WellFormed
<1> QED
  BY <1>5, <1>6, <1>7, <1>8, <1>9

LEMMA ExactNext ==
  ASSUME IInv, TypeOK', [Next]_vars
  PROVE  ExactInv'
<1>1. TypeOK /\ PartInv /\ RefInv /\ at.n \in Nat /\ tape \in Tapes
  BY DEF IInv, TypeOK
\* A step of a part that reports and reads nothing.
<1>2. ASSUME Running, UNCHANGED <<tape, barcode, flag, backup, alarm, refused, faults>>,
             at'.part = at.part, at'.n = at.n,
             ~flag /\ Begun' => Begun /\ Written' \subseteq Written /\ \A f \in Written' : ref'[f] = ref[f]
      PROVE  ExactInv'
  <2>1. \A u \in Tapes : Exact(u)' => Exact(u)
    BY <1>2, SameExact
  <2> QED
    BY <1>2, <2>1, ExactAfter, ExactAt
<1>a. CASE Start
  <2>1. alarm' = FALSE /\ refused' = FALSE
    BY <1>a, StartIs
  <2>2. at'.part = (IF flag' THEN "restore" ELSE "labels") /\ at'.n = 1
    BY <1>a DEF Start
  <2>3. ~flag' => ~Begun'
    BY <2>2, WrittenNext
  <2> QED
    BY <2>1, <2>3, ExactAfter
<1>b. CASE Restore
  <2>1. InPart /\ Running /\ Step[1] = "restore" /\ Goes /\ UNCHANGED <<tape, barcode, flag, backup, alarm, faults>>
    BY <1>b DEF Restore, Doing, InPart
  <2>2. at.part = "restore" /\ at'.part = "restore" /\ flag /\ refused' = refused
    BY <1>1, <2>1, AtOther, GoesAt DEF Goes, PartInv
  <2>3. \A u \in Tapes : Exact(u)' => Exact(u)
    BY <2>1, SameExact
  <2> QED
    BY <2>1, <2>2, <2>3, ExactAfter, ExactAt
<1>c. CASE Clear
  <2>1. InPart /\ Running /\ Step[1] = "clear" /\ Goes /\ UNCHANGED <<tape, barcode, flag, backup, alarm, faults>>
    BY <1>c DEF Clear, Doing, InPart
  <2>2. Pass /\ at.n = 1 /\ at'.part = at.part /\ at'.n = 2 /\ refused' = refused
    BY <1>1, <2>1, AtOther, GoesAt DEF Goes
  <2>3. Written' = {}
    <3>1. \A l \in Labels : ~(at'.n > DoneAt[l])
      BY <2>2, CheckedAt
    <3> QED
      BY <2>2, <3>1, WrittenNext DEF Pass
  <2>4. \A u \in Tapes : Exact(u)' => Exact(u)
    BY <2>1, SameExact
  <2> QED
    BY <2>1, <2>2, <2>3, <2>4, ExactAfter, ExactAt DEF Pass
<1>d. CASE ReadBlock
  <2>1. /\ UNCHANGED <<at, tape, barcode, flag, backup, pr_num, alarm, refused, faults>>
        /\ Doing(WriteSteps) /\ Running /\ InPart /\ Step[1] \in {"write", "skim", "temp"} /\ ~AtEnd /\ ~AtMark
        /\ ref' = Appended(<<Here[head.done + 1]>>)
    BY <1>d DEF ReadBlock, Doing, InPart, WriteSteps
  <2>2. ASSUME ~flag, Begun'
        PROVE  Begun /\ Written' = Written /\ \A f \in Written : ref'[f] = ref[f]
    <3>1. Begun /\ Written' = Written
      BY <2>1, <2>2, SameStep
    <3>2. <<Here[head.done + 1]>> \in Seq(OurBlock)
      <4>1. Here \in Seq(OurBlock) /\ head.done + 1 \in 1..Len(Here)
        BY <2>1, HereFacts DEF AtMark
      <4> QED
        BY <4>1
    <3>3. \A f \in Written : f \in DOMAIN ref
      BY <1>1, <2>2, <3>1 DEF RefInv
    <3>4. \/ ref' = ref
          \/ ref' = With(ref, Arg, Text(Arg))
          \/ Step[1] = "write" /\ ref' = With(ref, Arg, Text(Arg) \o <<Here[head.done + 1]>>)
      BY <2>1, <3>2, AppendedIs DEF TypeOK
    <3>5. CASE ref' = With(ref, Arg, Text(Arg))
      BY <3>1, <3>3, <3>5, WithText
    <3>6. CASE Step[1] = "write" /\ ref' = With(ref, Arg, Text(Arg) \o <<Here[head.done + 1]>>)
      <4>1. Arg \notin Written
        BY <2>1, <3>6, ArgNew DEF Doing
      <4> QED
        BY <3>1, <3>3, <3>6, <4>1 DEF With
    <3> QED
      BY <3>1, <3>4, <3>5, <3>6
  <2> QED
    BY <1>2, <2>1, <2>2
<1>e. CASE Fills
  <2>1. /\ TypeOK /\ InPart /\ Running /\ at'.part = at.part /\ at'.n = at.n + 1
        /\ UNCHANGED <<tape, barcode, flag, backup, refused>>
        /\ ref' = With(ref, Arg, Text(Arg))
        /\ alarm' = (alarm \/ ~WellFormed(Arg, Text(Arg)))
        /\ faults' = 0 => faults = 0
        /\ Pass \/ at.part = "prs"
    BY <1>e, FillsAt
  <2>2. SUFFICES ASSUME NEW u \in Tapes, Exact(u)', Exact(u)
                 PROVE  /\ ~alarm'
                        /\ ~flag => \A f \in Written' : ref'[f] = Marker(tape, f)
    <3>1. \A u \in Tapes : Exact(u)' => Exact(u)
      BY <2>1, SameExact
    <3> QED
      BY <2>1, <2>2, <3>1, ExactAfter, ExactAt
  <2>3. faults' = faults
    BY <2>2 DEF Exact
  <2>4. WellFormed(Arg, Text(Arg)) /\ (~flag => Text(Arg) = Marker(tape, Arg))
    BY <1>e, <2>2, <2>3, ExactFills DEF Fills
  <2>5. ~alarm'
    BY <2>1, <2>2, <2>4, ExactAt DEF Pass
  <2>6. ASSUME ~flag
        PROVE  \A f \in Written' : ref'[f] = Marker(tape, f)
    <3>1. Written' = Written \cup {Arg} /\ Begun
      BY <1>e, FillsWritten
    <3>2. \A f \in Written : f \in DOMAIN ref /\ ref[f] = Marker(tape, f)
      BY <1>1, <2>1, <2>2, <2>6, <3>1, ExactAt DEF RefInv
    <3>3. ref'[Arg] = Marker(tape, Arg)
      BY <2>1, <2>4, <2>6 DEF With
    <3>4. \A f \in DOMAIN ref : ref'[f] = ref[f]
      BY <2>1, WithText
    <3> QED
      BY <3>1, <3>2, <3>3, <3>4
  <2> QED
    BY <2>5, <2>6
<1>f. CASE Save
  <2>1. InPart /\ Running /\ Step[1] = "save" /\ Goes /\ UNCHANGED <<tape, flag, pr_num, ref, alarm, faults>>
    BY <1>f DEF Save, Doing, InPart
  <2>2. at.part = "save" /\ at'.part = "save" /\ ~flag /\ refused' = refused
    BY <1>1, <2>1, AtOther, GoesAt DEF Goes, PartInv
  <2>3. \A u \in Tapes : Exact(u)' => Exact(u)
    BY <2>1, <2>2 DEF Exact
  <2>4. Written' = Written /\ Begun
    BY <1>1, <2>1, <2>2, WrittenAt, WrittenNext, BegunAt
  <2> QED
    BY <2>1, <2>2, <2>3, <2>4, ExactAfter, ExactAt
<1>g. CASE Stop
  <2>1. Running /\ at'.part = "off" /\ UNCHANGED <<tape, barcode, flag, alarm, refused, faults>>
    BY <1>g DEF Stop, Off
  <2>2. ~Begun'
    BY <2>1, WrittenNext
  <2>3. \A u \in Tapes : Exact(u)' => Exact(u)
    <3>1. CASE flag
      <4>1. ~Doing({"save"})
        BY <1>1, <3>1, AtOther DEF Doing, PartInv
      <4>2. backup' = backup
        BY <1>g, <4>1, StopCases
      <4> QED
        BY <2>1, <4>2, SameExact
    <3>2. CASE ~flag
      BY <2>1, <3>2 DEF Exact
    <3> QED
      BY <3>1, <3>2
  <2> QED
    BY <2>1, <2>2, <2>3, ExactAfter, ExactAt
<1>h. CASE Leaves /\ (ReadMark \/ ReadNothing \/ FailRead \/ Formatted \/ Numbers \/ Diff \/ FailDiff)
  BY <1>h, ExactAfter, ExactLeaves
<1>i. CASE UNCHANGED vars
  <2>1. UNCHANGED <<at, tape, barcode, flag, backup, pr_num, alarm, refused, faults, ref>>
    BY <1>i DEF vars
  <2>2. CASE Running
    BY <1>2, <2>1, <2>2, SameStep
  <2>3. CASE ~Running
    <3>1. ~Begun' /\ at'.part = "off"
      BY <2>1, <2>3, SameStep DEF Begun, Running
    <3>2. \A u \in Tapes : Exact(u)' => Exact(u)
      BY <2>1, SameExact
    <3> QED
      BY <2>1, <3>1, <3>2, ExactAfter DEF IInv, ExactInv
  <2> QED
    BY <2>2, <2>3
<1> QED
  BY <1>a, <1>b, <1>c, <1>d, <1>e, <1>f, <1>g, <1>h, <1>i, StepKinds, ExactQuiet

-----------------------------------------------------------------------------
(* The backup *)

\* A backup that has been made has the files of the run.
LEMMA Complete ==
  ASSUME IInv, at.part = "save", ~cut, \A k \in at.n..Len(Order) : Order[k] \notin DOMAIN ref
  PROVE  LabelsOf(Files(tape), tape) /\ (faults = 0 => Files(tape) = Own(tape))
<1>1. /\ TypeOK /\ RefInv /\ Running /\ ~flag /\ at.n \in Nat \ {0} /\ tape \in Tapes
      /\ IsFiles(ref) /\ IsFiles(Files(tape)) /\ Begun
  <2>1. TypeOK /\ RefInv /\ PartInv /\ Running
    BY DEF IInv, Running
  <2>2. IsFiles(Files(tape))
    <3>1. tape \in Tapes /\ barcode[tape] \in DOMAIN backup /\ \A d \in DOMAIN backup : IsFiles(backup[d])
      BY <2>1 DEF TypeOK
    <3> QED
      BY <3>1 DEF Files
  <2>3. Begun
    BY <2>1, BegunAt DEF Running
  <2> QED
    BY <2>1, <2>2, <2>3 DEF TypeOK, PartInv
<1>2. DOMAIN Files(tape) = DOMAIN ref /\ \A f \in DOMAIN ref : Files(tape)[f] = ref[f]
  <2>1. /\ DOMAIN Files(tape) = {f \in DOMAIN ref : \E k \in 1..(at.n - 1) : Order[k] = f}
        /\ \A f \in DOMAIN Files(tape) : Files(tape)[f] = ref[f]
    BY DEF IInv, BackupInv, Saved
  <2>2. ASSUME NEW f \in DOMAIN ref
        PROVE  \E k \in 1..(at.n - 1) : Order[k] = f
    <3>1. f \in FileNames
      BY <1>1 DEF IsFiles
    <3>2. PICK k \in DOMAIN Order : Order[k] = f
      BY <3>1, OrderAssumption
    <3>3. k \in 1..Len(Order) /\ Len(Order) \in Nat
      BY <3>2, OrderAssumption
    <3>4. k \notin at.n..Len(Order)
      BY <3>2
    <3> QED
      BY <1>1, <3>2, <3>3, <3>4
  <2> QED
    BY <2>1, <2>2
<1>3. DOMAIN ref = Written /\ \A f \in DOMAIN ref : FromTape(ref[f], tape)
  <2>1. ~Writing
    <3>1. InPart => Step[1] # "write"
      BY <1>1, StepTable
    <3> QED
      BY <3>1 DEF Writing, Doing
  <2> QED
    BY <1>1, <2>1 DEF RefInv
<1>4. Written = Labels \cup {PrNames[k] : k \in 1..pr_num}
  BY <1>1, WrittenAt
<1>5. LabelsOf(Files(tape), tape)
  BY <1>2, <1>3, <1>4 DEF LabelsOf
<1>6. ASSUME faults = 0
      PROVE  Files(tape) = Own(tape)
  <2>1. pr_num = Len(PrBlocks[tape]) /\ \A f \in Written : ref[f] = Marker(tape, f)
    BY <1>1, <1>6, ExactPrs
  <2>2. Names(tape) = Written
    BY <1>4, <2>1 DEF Names, PrNumbers
  <2>3. DOMAIN Files(tape) = Names(tape) /\ \A f \in Names(tape) : Files(tape)[f] = Marker(tape, f)
    BY <1>2, <1>3, <2>1, <2>2
  <2>4. Files(tape) = [f \in DOMAIN Files(tape) |-> Files(tape)[f]]
    BY <1>1 DEF IsFiles
  <2> QED
    BY <2>3, <2>4 DEF Own
<1> QED
  BY <1>5, <1>6

\* A step that leaves the backups and makes none.
LEMMA BackupSame ==
  ASSUME IInv, UNCHANGED <<tape, barcode, backup>>, ~cut' => ~cut, faults' = 0 => faults = 0,
         at'.part # "save", at'.part # "off" => flag' = flag /\ at.part # "off",
         ~cut' /\ at.part = "save" =>
           at'.part = "off" /\ LabelsOf(Files(tape), tape) /\ (faults = 0 => Files(tape) = Own(tape))
  PROVE  BackupInv'
<1>1. SUFFICES ASSUME ~cut', ~cut
               PROVE  /\ ~flag' /\ at'.part # "off" => DOMAIN Files(tape)' = {}
                      /\ \A d \in DOMAIN backup' :
                           \/ DOMAIN backup'[d] = {}
                           \/ /\ \E u \in Tapes : LabelsOf(backup'[d], u)
                              /\ faults' = 0 => \E t \in Tapes : barcode'[t] = d /\ backup'[d] = Own(t)
  <2>1. \A d, u : LabelsOf(backup[d], u)' <=> LabelsOf(backup'[d], u)
    BY DEF LabelsOf, FromTape
  <2> QED
    BY <1>1, <2>1 DEF BackupInv, Running
<1>2. TypeOK /\ tape \in Tapes /\ Files(tape)' = Files(tape)
  BY DEF IInv, TypeOK, Files
<1>3. ~flag' /\ at'.part # "off" => DOMAIN Files(tape)' = {}
  BY <1>1, <1>2 DEF IInv, BackupInv, Running
<1>4. ASSUME NEW d \in DOMAIN backup
      PROVE  \/ DOMAIN backup[d] = {}
             \/ /\ \E u \in Tapes : LabelsOf(backup[d], u)
                /\ faults' = 0 => \E t \in Tapes : barcode[t] = d /\ backup[d] = Own(t)
  <2>1. CASE at.part = "save" /\ d = barcode[tape]
    BY <1>1, <1>2, <2>1 DEF Files
  <2>2. CASE ~(at.part = "save" /\ d = barcode[tape])
    BY <1>1, <2>2 DEF IInv, BackupInv
  <2> QED
    BY <2>1, <2>2
<1> QED
  BY <1>3, <1>4

LEMMA BackupSave ==
  ASSUME IInv, TypeOK', Save
  PROVE  BackupInv'
<1>1. /\ TypeOK /\ InPart /\ Step[1] = "save" /\ Goes /\ UNCHANGED <<tape, barcode, ref, faults>> /\ cut' = cut
      /\ backup' = IF Arg \in DOMAIN ref THEN [backup EXCEPT ![BackupOf] = With(@, Arg, ref[Arg])] ELSE backup
      /\ IsFiles(ref)
  BY DEF IInv, TypeOK, Save, Doing
<1>2. at.part = "save" /\ at.n \in 1..Len(Order) /\ Arg = Order[at.n]
  BY <1>1, AtOther, StepTable
<1>3. at'.part = "save" /\ at'.n - 1 = at.n /\ at.n \in Nat
  BY <1>1, <1>2, GoesAt DEF Goes, TypeOK
<1>4. SUFFICES ASSUME ~cut'
               PROVE  Saved' /\ \A d \in DOMAIN backup' : d # barcode[tape] => d \in DOMAIN backup /\ backup'[d] = backup[d]
  <2>1. \A d \in DOMAIN backup : ~cut' /\ d # barcode[tape] =>
          \/ DOMAIN backup[d] = {}
          \/ /\ \E u \in Tapes : LabelsOf(backup[d], u)
             /\ faults = 0 => \E t \in Tapes : barcode[t] = d /\ backup[d] = Own(t)
    <3> TAKE d \in DOMAIN backup
    <3>1. HAVE ~cut' /\ d # barcode[tape]
    <3>2. ~cut
      BY <1>1, <3>1
    <3>3. \/ at.part = "save" /\ d = barcode[tape]
          \/ DOMAIN backup[d] = {}
          \/ /\ \E u \in Tapes : LabelsOf(backup[d], u)
             /\ faults = 0 => \E t \in Tapes : barcode[t] = d /\ backup[d] = Own(t)
      BY <3>2 DEF IInv, BackupInv
    <3> QED
      BY <3>1, <3>3
  <2>2. \A d, u : LabelsOf(backup[d], u)' <=> LabelsOf(backup'[d], u)
    BY DEF LabelsOf, FromTape
  <2> QED
    BY <1>1, <1>3, <1>4, <2>1, <2>2 DEF BackupInv
<1>5. /\ DOMAIN Files(tape) = {f \in DOMAIN ref : \E k \in 1..(at.n - 1) : Order[k] = f}
      /\ \A f \in DOMAIN Files(tape) : Files(tape)[f] = ref[f]
  BY <1>1, <1>2, <1>4 DEF IInv, BackupInv, Saved
<1>6. /\ DOMAIN Files(tape)' = DOMAIN Files(tape) \cup ({Arg} \cap DOMAIN ref)
      /\ \A f \in DOMAIN Files(tape)' : Files(tape)'[f] = ref[f]
      /\ \A d \in DOMAIN backup' : d # barcode[tape] => d \in DOMAIN backup /\ backup'[d] = backup[d]
  <2>1. CASE Arg \in DOMAIN ref
    <3>1. Arg \in FileNames /\ ref[Arg] \in Seq(OurBlock)
      BY <1>1, <2>1 DEF IsFiles
    <3>2. /\ DOMAIN backup' = DOMAIN backup /\ backup'[BackupOf] = With(backup[BackupOf], Arg, ref[Arg])
          /\ \A d \in DOMAIN backup : d # BackupOf => backup'[d] = backup[d]
      BY <1>1, <2>1, <3>1, BackupType
    <3>3. Files(tape)' = With(Files(tape), Arg, ref[Arg])
      BY <1>1, <3>2 DEF Files, BackupOf
    <3>4. /\ DOMAIN Files(tape)' = DOMAIN Files(tape) \cup {Arg}
          /\ \A f \in DOMAIN Files(tape)' : Files(tape)'[f] = ref[f]
      BY <1>5, <3>3 DEF With
    <3> QED
      BY <2>1, <3>2, <3>4 DEF BackupOf
  <2>2. CASE Arg \notin DOMAIN ref
    <3>1. backup' = backup /\ Files(tape)' = Files(tape)
      BY <1>1, <2>2 DEF Files
    <3> QED
      BY <1>5, <2>2, <3>1
  <2> QED
    BY <2>1, <2>2
<1>7. \A f : (\E k \in 1..(at'.n - 1) : Order[k] = f) <=> ((\E k \in 1..(at.n - 1) : Order[k] = f) \/ f = Arg)
  BY <1>2, <1>3
<1>8. Saved'
  BY <1>1, <1>5, <1>6, <1>7 DEF Saved
<1> QED
  BY <1>6, <1>8

LEMMA BackupNext ==
  ASSUME IInv, TypeOK', [Next]_vars
  PROVE  BackupInv'
<1>1. TypeOK /\ PartInv /\ at.n \in Nat /\ tape \in Tapes /\ faults \in Nat
  BY DEF IInv, TypeOK
<1>a. CASE Start
  <2>1. /\ ~Running /\ UNCHANGED <<barcode, backup, cut, faults>> /\ tape' \in Tapes
        /\ flag' = ("OTFLabel" \in DOMAIN Files(tape')) /\ at'.part # "save"
    BY <1>a DEF Start
  <2>2. at.part = "off"
    BY <2>1 DEF Running
  <2>3. SUFFICES ASSUME ~cut
                 PROVE  ~flag' => DOMAIN Files(tape)' = {}
    <3>1. ~cut => \A d \in DOMAIN backup :
            \/ DOMAIN backup[d] = {}
            \/ /\ \E u \in Tapes : LabelsOf(backup[d], u)
               /\ faults = 0 => \E t \in Tapes : barcode[t] = d /\ backup[d] = Own(t)
      BY <2>2 DEF IInv, BackupInv
    <3>2. \A d, u : LabelsOf(backup[d], u)' <=> LabelsOf(backup'[d], u)
      BY DEF LabelsOf, FromTape
    <3>3. ~cut' <=> ~cut
      BY <2>1
    <3> QED
      BY <2>1, <2>3, <3>1, <3>2, <3>3 DEF BackupInv
  <2>4. Files(tape)' = backup[barcode[tape']] /\ Files(tape') = backup[barcode[tape']]
    BY <2>1 DEF Files
  <2>5. barcode[tape'] \in DOMAIN backup
    BY <1>1, <2>1 DEF TypeOK
  <2>6. DOMAIN backup[barcode[tape']] = {} \/ \E u \in Tapes : LabelsOf(backup[barcode[tape']], u)
    BY <2>2, <2>3, <2>5 DEF IInv, BackupInv
  <2>7. (\E u \in Tapes : LabelsOf(backup[barcode[tape']], u)) => "OTFLabel" \in DOMAIN backup[barcode[tape']]
    BY LabelNames DEF LabelsOf
  <2> QED
    BY <2>1, <2>4, <2>6, <2>7
<1>b. CASE Restore \/ Clear \/ ReadBlock \/ Fills
  <2>1. /\ InPart /\ Running /\ Step[1] # "save" /\ UNCHANGED <<tape, barcode, flag, backup>> /\ at'.part = at.part
        /\ (~cut' => ~cut) /\ (faults' = 0 => faults = 0)
    <3>1. CASE Restore \/ Clear
      BY <1>1, <1>b, <3>1, GoesAt DEF Restore, Clear, Goes, Doing, InPart
    <3>2. CASE ReadBlock
      BY <3>2 DEF ReadBlock, Doing, InPart, WriteSteps
    <3>3. CASE Fills
      BY <3>3, FillsAt
    <3> QED
      BY <1>b, <3>1, <3>2, <3>3
  <2>2. at.part # "save"
    BY <1>1, <2>1, StepTable
  <2> QED
    BY <2>1, <2>2, BackupSame DEF Running
<1>c. CASE Leaves
  <2>1. /\ at.part # "save" /\ at'.part = "off" /\ UNCHANGED <<tape, barcode, backup>>
        /\ (~cut' => ~cut) /\ (faults' = 0 => faults = 0)
    BY <1>c DEF Leaves, Off
  <2> QED
    BY <2>1, BackupSame
<1>d. CASE Stop
  <2>1. /\ Running /\ at'.part = "off" /\ UNCHANGED <<tape, barcode, faults>>
        /\ cut' = (cut \/ (Doing({"save"}) /\ \E n \in at.n..Len(Order) : Order[n] \in DOMAIN ref))
    BY <1>d DEF Stop, Off
  <2>2. ~cut' => ~cut
    BY <2>1
  <2>3. CASE cut'
    BY <2>3 DEF BackupInv
  <2>4. CASE ~cut' /\ at.part = "save"
    <3>1. \A k \in at.n..Len(Order) : Order[k] \notin DOMAIN ref
      <4>1. CASE InPart
        <5>1. Doing({"save"})
          BY <1>1, <2>4, <4>1, StepTable DEF Doing
        <5> QED
          BY <2>1, <2>4, <5>1
      <4>2. CASE ~InPart
        <5>1. at.n = Len(Order) + 1 /\ Len(Order) \in Nat
          BY <1>1, <2>1, <2>4, <4>2, AtEndOfPart, OrderAssumption DEF Pass
        <5>2. at.n..Len(Order) = {}
          BY <5>1
        <5> QED
          BY <5>2
      <4> QED
        BY <4>1, <4>2
    <3>2. LabelsOf(Files(tape), tape) /\ (faults = 0 => Files(tape) = Own(tape))
      BY <2>2, <2>4, <3>1, Complete
    <3>3. ~(Doing({"save"}) /\ Arg \in DOMAIN ref)
      <4>1. InPart => at.n \in at.n..Len(Order) /\ Arg = Order[at.n]
        BY <1>1, <2>4, StepTable
      <4> QED
        BY <3>1, <4>1 DEF Doing
    <3>4. backup' = backup
      BY <1>d, <3>3, StopCases
    <3> QED
      BY <1>1, <2>1, <2>2, <2>4, <3>2, <3>4, BackupSame
  <2>5. CASE at.part # "save"
    <3>1. ~Doing({"save"})
      BY <1>1, <2>5, AtOther DEF Doing
    <3>2. backup' = backup
      BY <1>d, <3>1, StopCases
    <3> QED
      BY <2>1, <2>2, <2>5, <3>2, BackupSame
  <2> QED
    BY <2>3, <2>4, <2>5
<1>e. CASE Quiet
  <2>1. /\ Onward /\ Running /\ UNCHANGED <<tape, barcode, flag, backup>> /\ (faults' = 0 => faults = 0)
        /\ (~cut' => ~cut) /\ at.part # "off"
    BY <1>e DEF Quiet, Onward, Running
  <2>2. CASE at.part = "save"
    <3>1. at'.part = "off" /\ at.n = Len(Order) + 1
      BY <1>1, <2>1, <2>2, OnwardTable DEF Pass
    <3>2. at.n..Len(Order) = {}
      <4>1. Len(Order) \in Nat
        BY OrderAssumption
      <4> QED
        BY <3>1, <4>1
    <3>3. ~cut => LabelsOf(Files(tape), tape) /\ (faults = 0 => Files(tape) = Own(tape))
      BY <2>2, <3>2, Complete
    <3> QED
      BY <2>1, <2>2, <3>1, <3>3, BackupSame
  <2>3. CASE at.part # "save" /\ at'.part # "save"
    BY <2>1, <2>3, BackupSame
  <2>4. CASE at.part # "save" /\ at'.part = "save"
    <3>1. at.part = "data" /\ at'.n = 1 /\ ~flag
      BY <1>1, <2>1, <2>4, OnwardTable DEF Pass
    <3>2. Files(tape)' = Files(tape)
      BY <2>1 DEF Files
    <3>3. SUFFICES ASSUME ~cut', ~cut PROVE BackupInv'
      BY <2>1 DEF BackupInv
    <3>4. DOMAIN Files(tape)' = {}
      BY <2>1, <2>4, <3>1, <3>2, <3>3 DEF IInv, BackupInv
    <3>5. Saved'
      BY <3>1, <3>4 DEF Saved
    <3>6. \A d \in DOMAIN backup :
            \/ DOMAIN backup[d] = {}
            \/ /\ \E u \in Tapes : LabelsOf(backup[d], u)
               /\ faults' = 0 => \E t \in Tapes : barcode[t] = d /\ backup[d] = Own(t)
      <4> TAKE d \in DOMAIN backup
      <4> QED
        BY <2>1, <2>4, <3>3 DEF IInv, BackupInv
    <3>7. \A d, u : LabelsOf(backup[d], u)' <=> LabelsOf(backup'[d], u)
      BY DEF LabelsOf, FromTape
    <3> QED
      BY <2>1, <2>4, <3>5, <3>6, <3>7 DEF BackupInv
  <2> QED
    BY <2>2, <2>3, <2>4
<1>f. CASE UNCHANGED vars
  <2>1. UNCHANGED <<at, tape, barcode, flag, backup, ref, faults>> /\ (~cut' => ~cut)
    BY <1>f DEF vars
  <2>2. Files(tape)' = Files(tape) /\ (Running' <=> Running) /\ (Saved' <=> Saved)
    BY <2>1 DEF Files, Running, Saved
  <2>3. \A d, u : LabelsOf(backup[d], u)' <=> LabelsOf(backup[d], u)
    BY <2>1 DEF LabelsOf, FromTape
  <2> QED
    BY <2>1, <2>2, <2>3 DEF IInv, BackupInv
<1> QED
  BY <1>a, <1>b, <1>c, <1>d, <1>e, <1>f, StepKinds, BackupSave

LEMMA WrongNext ==
  ASSUME IInv, TypeOK', [Next]_vars
  PROVE  WrongMarkersReported'
<1>1. TypeOK /\ PartInv /\ tape \in Tapes /\ (walked = "foreign" /\ ~cut => alarm)
  BY DEF IInv, TypeOK, WrongMarkersReported
<1>2. ASSUME walked' = walked, alarm => alarm', ~cut' => ~cut
      PROVE  WrongMarkersReported'
  BY <1>1, <1>2 DEF WrongMarkersReported
<1>a. CASE Start
  BY <1>a, StartIs DEF WrongMarkersReported
<1>b. CASE Restore \/ Clear \/ ReadBlock \/ Save \/ Stop
  <2>1. walked' = walked /\ alarm' = alarm
    BY <1>b DEF Restore, Clear, ReadBlock, Save, Stop
  <2>2. CASE Restore \/ Clear \/ ReadBlock \/ Save
    BY <1>2, <2>1, <2>2 DEF Restore, Clear, ReadBlock, Save
  <2>3. CASE Stop
    <3>1. cut' = (cut \/ (Doing({"save"}) /\ \E n \in at.n..Len(Order) : Order[n] \in DOMAIN ref))
      BY <2>3 DEF Stop
    <3> QED
      BY <1>2, <2>1, <3>1
  <2> QED
    BY <1>b, <2>2, <2>3
<1>c. CASE Fills
  BY <1>c, <1>2, FillsAt
<1>d. CASE Leaves /\ (ReadMark \/ ReadNothing \/ FailRead \/ Formatted \/ Numbers \/ Diff \/ FailDiff)
  <2>1. walked' = walked
    BY <1>d DEF ReadMark, ReadNothing, FailRead, EndFile, Refuse, Formatted, Numbers, Diff, FailDiff, Compare
  <2> QED
    BY <1>d, <1>2, <2>1 DEF Leaves
<1>e. ASSUME Quiet,
             Move \/ EnterPart \/ ReadMark \/ ReadNothing \/ FailRead \/ Formatted \/ RcmBehindPrs
               \/ Numbers \/ CountMarks \/ Diff \/ FailDiff
      PROVE  WrongMarkersReported'
  <2>1. walked' = walked
    BY <1>e DEF Move, EnterPart, ReadMark, ReadNothing, FailRead, EndFile, Refuse, Formatted, RcmBehindPrs,
                Numbers, CountMarks, Diff, FailDiff, Compare
  <2> QED
    BY <1>e, <1>2, <2>1 DEF Quiet
<1>f. CASE Quiet /\ Walk
  <2>1. SUFFICES ASSUME walked' = "foreign", ~cut', ~alarm'
                 PROVE  FALSE
    BY DEF WrongMarkersReported
  <2>2. InPart /\ Running /\ Step[1] = "walk" /\ ~cut /\ ~alarm
    BY <1>f, <2>1 DEF Quiet, Walk, Doing, InPart
  <2>3. at.part = "data" /\ at.n >= 4
    BY <1>1, <2>2, AtOther
  <2>4. PICK u \in Tapes : Source(u)
    <3>1. CASE ~flag
      BY <1>1, <3>1 DEF Source
    <3>2. CASE flag
      <4>1. DOMAIN Files(tape) # {} /\ barcode[tape] \in DOMAIN backup
        BY <1>1, <3>2 DEF PartInv, TypeOK
      <4>2. \E u \in Tapes : LabelsOf(Files(tape), u)
        BY <2>2, <2>3, <4>1 DEF IInv, BackupInv, Files
      <4> QED
        BY <3>2, <4>2 DEF Source
    <3> QED
      BY <3>1, <3>2
  <2>5. u = tape /\ pr_num = Len(PrBlocks[tape]) /\ \A l \in Checked : l \in DOMAIN ref /\ ref[l] = Marker(tape, l)
    BY <2>2, <2>3, <2>4, SourceAt
  <2>6. \A l \in Labels : Text(l) = Marker(tape, l)
    BY <2>3, <2>5, CheckedAt DEF Text
  <2>7. \A n \in 1..pr_num : Text(PrNames[n]) = Marker(tape, PrNames[n])
    BY <1>f, <2>1 DEF Walk
  <2>8. \A name \in Names(tape) : Text(name) = Marker(tape, name)
    BY <2>5, <2>6, <2>7 DEF Names, PrNumbers
  <2> QED
    BY <1>f, <2>1, <2>8 DEF Walk
<1>g. CASE UNCHANGED vars
  BY <1>g, <1>2 DEF vars
<1> QED
  BY <1>a, <1>b, <1>c, <1>d, <1>e, <1>f, <1>g, StepKinds

-----------------------------------------------------------------------------
(* The invariant *)

LEMMA NoFiles ==
  ASSUME NEW files, IsFiles(files), DOMAIN files = {}
  PROVE  files = << >>
BY DEF IsFiles

LEMMA InitInv ==
  ASSUME Init
  PROVE  IInv
<1>1. /\ at.part = "off" /\ at.n = 1 /\ head.done = 0 /\ ref = << >> /\ DOMAIN ref = {}
      /\ ~Running /\ ~Begun /\ ~Pass /\ ~flag /\ ~alarm /\ ~refused /\ walked = "no" /\ ~cut
  BY DEF Init, Off, Front, Running, Begun, Pass
<1>2. \A d \in DOMAIN backup : backup[d] = << >> /\ DOMAIN backup[d] = {}
  BY DEF Init
<1>3. TypeOK
  <2>1. IsFiles(<< >>)
    BY DEF IsFiles
  <2>2. /\ at \in [part : Parts, n : Nat \ {0}]
        /\ head \in [part : {"ref", "data"}, item : Nat \ {0}, done : Nat]
        /\ alt \in [name : FileNames \cup {"none"}, text : Seq(OurBlock)]
    BY DEF Init, Off, Front, NoFile, Parts
  <2>3. pr_num \in 0..Len(PrNames)
    BY PrFacts DEF Init
  <2>4. IsFiles(ref) /\ \A d \in DOMAIN backup : IsFiles(backup[d])
    BY <1>1, <1>2, <2>1
  <2>5. DOMAIN backup = {barcode[t] : t \in Tapes}
    BY DEF Init
  <2> QED
    BY <2>2, <2>3, <2>4, <2>5 DEF Init, TypeOK, Modes
<1>4. PartInv
  <2>1. Len(Steps(at.part)) = 0
    BY <1>1, <1>3, PartLengths
  <2> QED
    BY <1>1, <2>1 DEF PartInv
<1>5. RefInv /\ SourceInv /\ AltInv /\ MarksInv
  BY <1>1 DEF RefInv, SourceInv, AltInv, MarksInv, Before, Numbered, InData
<1>6. HeadInv
  BY <1>1 DEF HeadInv
<1>7. ExactInv
  BY <1>1 DEF ExactInv
<1>8. BackupInv
  BY <1>1, <1>2 DEF BackupInv
<1>9. WrongMarkersReported
  BY <1>1 DEF WrongMarkersReported
<1> QED
  BY <1>3, <1>4, <1>5, <1>6, <1>7, <1>8, <1>9 DEF IInv

\* The places of the tape, the files read and restored and the backups agree with
\* the step of the run that read_marker_file, check_diff_btwn_file_and_tape and
\* cp_dir have reached, after any history of runs.
THEOREM InductiveInvariant == Spec => []IInv
<1>1. Init => IInv
  BY InitInv
<1>2. IInv /\ [Next]_vars => IInv'
  <2> SUFFICES ASSUME IInv, [Next]_vars
               PROVE  IInv'
    OBVIOUS
  <2>1. TypeOK'
    BY TypeNext
  <2> QED
    BY <2>1, PartNext, RefNext, SourceNext, AltNext, MarksNext, HeadNext, ExactNext, BackupNext, WrongNext
       DEF IInv
<1> QED
  BY <1>1, <1>2, PTL DEF Spec

\* The tape is at the first PR, and at the first file of the data partition, where
\* it is read without being located, as far as failed reads have not been told.
THEOREM HeadsAreAtFirst == Spec => []HeadAtFirst
<1>1. ASSUME IInv
      PROVE  HeadAtFirst
  <2>1. ASSUME at = [part |-> "formatted", n |-> 2], flag => faults = 0
        PROVE  head = Front("ref", 4)
    <3>1. at.part = "formatted" /\ at.n = 2 /\ ~alarm
      BY <1>1, <2>1, HeadAt
    <3>2. faults = 0 \/ ~flag
      BY <2>1
    <3> QED
      BY <1>1, <3>1, <3>2, HeadAt
  <2>2. ASSUME Doing({"walk"}), ~flag, faults <= 1 \/ ~alarm
        PROVE  head = Front("data", 4)
    <3>1. TypeOK /\ InPart /\ Step[1] = "walk"
      BY <1>1, <2>2 DEF IInv, Doing
    <3>2. at.part = "data" /\ at.n = 9
      BY <2>2, <3>1, AtOther
    <3> QED
      BY <1>1, <2>2, <3>2, HeadAt
  <2> QED
    BY <2>1, <2>2 DEF HeadAtFirst
<1> QED
  BY <1>1, InductiveInvariant, PTL

\* If all reads have succeeded, main walks with exactly the files of the tape it has
\* read, and a backup is empty or has exactly those of one tape with its barcode.
THEOREM WholeFiles == Spec => []FilesWhole
<1>1. ASSUME IInv, faults = 0
      PROVE  FilesWhole
  <2>1. /\ TypeOK /\ RefInv /\ IsFiles(ref) /\ tape \in Tapes
        /\ \A d \in DOMAIN backup : IsFiles(backup[d])
    BY <1>1 DEF IInv, TypeOK
  <2>2. ASSUME Doing({"walk"}), ~flag
        PROVE  ref = Own(tape)
    <3>1. InPart /\ Running /\ Step[1] = "walk"
      BY <2>2 DEF Doing, InPart
    <3>2. at.part = "data"
      BY <2>1, <3>1, AtOther
    <3>3. Begun /\ ~Writing
      BY <2>1, <3>1, <3>2, BegunAt DEF Writing, Doing
    <3>4. DOMAIN ref = Written
      BY <2>1, <2>2, <3>3 DEF RefInv
    <3>5. pr_num = Len(PrBlocks[tape]) /\ \A f \in Written : ref[f] = Marker(tape, f)
      BY <1>1, <2>2, <3>1, <3>2, <3>3, ExactPrs
    <3>6. Written = Names(tape)
      BY <2>1, <3>2, <3>5, WrittenAt DEF Names, PrNumbers
    <3>7. ref = [f \in DOMAIN ref |-> ref[f]]
      BY <2>1 DEF IsFiles
    <3> QED
      BY <3>4, <3>5, <3>6, <3>7 DEF Own
  <2>3. ASSUME ~cut, ~Doing({"save"}), NEW d \in DOMAIN backup
        PROVE  backup[d] = << >> \/ \E t \in Tapes : barcode[t] = d /\ backup[d] = Own(t)
    <3>1. \/ at.part = "save" /\ d = barcode[tape]
          \/ DOMAIN backup[d] = {}
          \/ \E t \in Tapes : barcode[t] = d /\ backup[d] = Own(t)
      BY <1>1, <2>3 DEF IInv, BackupInv
    <3>2. CASE at.part = "save" /\ d = barcode[tape]
      <4>1. ~InPart
        BY <2>1, <2>3, <3>2, StepTable DEF Doing
      <4>2. at.n = Len(Order) + 1 /\ Len(Order) \in Nat
        BY <1>1, <3>2, <4>1, AtEndOfPart, OrderAssumption DEF IInv, Running, Pass
      <4>3. at.n..Len(Order) = {}
        BY <4>2
      <4>4. Files(tape) = Own(tape)
        BY <1>1, <2>3, <3>2, <4>3, Complete
      <4> QED
        BY <2>1, <3>2, <4>4 DEF Files
    <3>3. CASE DOMAIN backup[d] = {}
      BY <2>1, <3>3, NoFiles
    <3> QED
      BY <3>1, <3>2, <3>3
  <2> QED
    BY <2>2, <2>3 DEF FilesWhole, BackupWhole
<1>2. IInv => FilesWhole
  BY <1>1 DEF FilesWhole
<1> QED
  BY <1>2, InductiveInvariant, PTL

\* A walk with the files of another tape has been reported, whatever reads have
\* failed, if no backup was interrupted.
THEOREM WrongMarkersAreReported == Spec => []WrongMarkersReported
<1>1. IInv => WrongMarkersReported
  BY DEF IInv
<1> QED
  BY <1>1, InductiveInvariant, PTL

\* An error is reported only when a read has failed or the restored files are not
\* those of the tape, and a tape is refused only when a read has failed or a backup
\* was interrupted.
THEOREM NoFalseAlarms == Spec => []NoFalseAlarm
<1>1. ASSUME IInv
      PROVE  NoFalseAlarm
  <2>1. TypeOK /\ PartInv /\ tape \in Tapes /\ faults \in Nat /\ barcode[tape] \in DOMAIN backup
    BY <1>1 DEF IInv, TypeOK
  <2>2. ASSUME alarm, faults = 0
        PROVE  Restored
    <3>1. ~Exact(tape)
      BY <1>1, <2>1, <2>2 DEF IInv, ExactInv
    <3> QED
      BY <2>2, <3>1 DEF Exact, Restored
  <2>3. ASSUME refused, faults = 0, ~cut
        PROVE  FALSE
    <3>1. \A u \in Tapes : ~Exact(u)
      BY <1>1, <2>3 DEF IInv, ExactInv
    <3>2. flag
      BY <2>1, <2>3, <3>1 DEF Exact
    <3>3. at.part # "save" /\ DOMAIN Files(tape) # {}
      BY <2>1, <3>2 DEF PartInv
    <3>4. \E t \in Tapes : Files(tape) = Own(t)
      BY <1>1, <2>1, <2>3, <3>3 DEF IInv, BackupInv, Files
    <3> QED
      BY <2>3, <3>1, <3>2, <3>4 DEF Exact
  <2> QED
    BY <2>1, <2>2, <2>3 DEF NoFalseAlarm
<1> QED
  BY <1>1, InductiveInvariant, PTL
=============================================================================
