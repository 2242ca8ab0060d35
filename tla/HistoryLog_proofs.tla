------------------------- MODULE HistoryLog_proofs --------------------------
(***************************************************************************)
(* Proofs about history.log, for any tapes and any number of runs, writes  *)
(* and stops: one line per key, a resume that reads its own section, the   *)
(* copies flushed at the end of a program, and the table the file is.      *)
(***************************************************************************)
EXTENDS HistoryLog, FiniteSetTheorems, SequenceTheorems, WellFoundedInduction, TLAPS

-----------------------------------------------------------------------------
(* Lines *)

Lines ==
  {l \in [section : Tapes \cup {"none"}, key : Keys \cup {"none"}, value : Nat] :
     /\ l.section = "none" <=> l.key \in Keys
     /\ l.section # "none" => l.value = 0}

LEMMA KeysAre == Keys = {"PR", "OCM", "PO", "Object_number"} /\ "none" \notin Keys
<1>1. DOMAIN KeyOrder = {1, 2, 3, 4}
  BY DEF KeyOrder
<1>2. KeyOrder[1] = "PR" /\ KeyOrder[2] = "OCM" /\ KeyOrder[3] = "PO" /\ KeyOrder[4] = "Object_number"
  BY DEF KeyOrder
<1>3. Keys = {KeyOrder[1], KeyOrder[2], KeyOrder[3], KeyOrder[4]}
  BY <1>1 DEF Keys, Range
<1> QED
  BY <1>2, <1>3

LEMMA LineFacts ==
  ASSUME NEW l \in Lines
  PROVE  /\ IsSection(l) <=> l.section \in Tapes
         /\ IsSection(l) <=> l.key = "none"
         /\ IsSection(l) <=> l.key \notin Keys
         /\ \A t \in Tapes : l = Section(t) <=> l.section = t
         /\ l.value \in Nat
BY TapesAssumption, KeysAre DEF Lines, IsSection, Section

LEMMA KeyLineFacts ==
  ASSUME NEW k \in Keys, NEW v \in Nat
  PROVE  /\ KeyLine(k, v) \in Lines /\ ~IsSection(KeyLine(k, v))
         /\ KeyLine(k, v).key = k /\ KeyLine(k, v).value = v /\ KeyLine(k, v).section = "none"
BY DEF KeyLine, Lines, IsSection

LEMMA SectionFacts ==
  ASSUME NEW t \in Tapes
  PROVE  /\ Section(t) \in Lines /\ IsSection(Section(t))
         /\ Section(t).section = t /\ Section(t).key = "none"
BY TapesAssumption, KeysAre DEF Section, Lines, IsSection

-----------------------------------------------------------------------------
(* The owner of a line *)

LEMMA LeastOf ==
  ASSUME NEW S \in SUBSET Nat, S # {}
  PROVE  \E n \in S : \A m \in S : n <= m
<1> DEFINE Less == OpToRel(<, Nat)
<1>1. PICK n \in S : \A m \in S : ~ (<<m, n>> \in Less)
  <2>1. IsWellFoundedOn(Less, Nat)
    BY NatLessThanWellFounded
  <2> HIDE DEF Less
  <2> QED
    BY <2>1, WFMin
<1>2. \A m \in S : ~ (m < n)
  BY <1>1 DEF OpToRel
<1> QED
  BY <1>2

\* A text that begins with a header.
Headed(x) == x \in Seq(Lines) /\ (Len(x) > 0 => IsSection(x[1]))

\* h is the last header up to i.
HeaderOf(x, i, h) == h \in 1..i /\ IsSection(x[h]) /\ \A n \in (h + 1)..i : ~IsSection(x[n])

LEMMA OwnerIs ==
  ASSUME NEW x \in Seq(Lines), NEW i \in 1..Len(x), NEW h, HeaderOf(x, i, h)
  PROVE  Owner(x, i) = x[h].section /\ Owner(x, i) \in Tapes
<1> DEFINE H == {n \in 1..i : IsSection(x[n])}
<1>1. h \in H /\ \A n \in H : h >= n
  BY DEF HeaderOf
<1>2. \A m \in H : (\A n \in H : m >= n) => m = h
  BY <1>1
<1>3. Max(H) = h
  <2> HIDE DEF H
  <2> QED
    BY <1>1, <1>2 DEF Max
<1>4. H # {}
  BY <1>1
<1>5. Owner(x, i) = x[h].section
  BY <1>3, <1>4 DEF Owner
<1>6. x[h] \in Lines
  BY DEF HeaderOf
<1> QED
  BY <1>1, <1>5, <1>6, LineFacts

LEMMA HeaderExists ==
  ASSUME NEW x, Headed(x), NEW i \in 1..Len(x)
  PROVE  \E h \in 1..i : HeaderOf(x, i, h)
<1>1. Len(x) \in Nat /\ IsSection(x[1])
  BY DEF Headed
<1> DEFINE S == {d \in Nat : d < i /\ IsSection(x[i - d])}
<1>2. i - 1 \in S
  <2>1. i - (i - 1) = 1 /\ i - 1 \in Nat /\ i - 1 < i
    OBVIOUS
  <2> QED
    BY <1>1, <2>1
<1>3. PICK d \in S : \A m \in S : d <= m
  <2>1. S \subseteq Nat /\ S # {}
    BY <1>2
  <2> HIDE DEF S
  <2> QED
    BY <2>1, LeastOf
<1>4. i - d \in 1..i /\ IsSection(x[i - d])
  BY <1>3
<1>5. ASSUME NEW n \in (i - d + 1)..i, IsSection(x[n]) PROVE FALSE
  <2>1. i - (i - n) = n /\ i - n \in Nat /\ i - n < i
    BY <1>3, <1>5
  <2>2. i - n \in S
    BY <1>5, <2>1
  <2>3. n \in Int /\ d \in Int /\ n > i - d
    BY <1>3, <1>5
  <2> HIDE DEF S
  <2>4. d <= i - n
    BY <1>3, <2>2
  <2> QED
    BY <2>3, <2>4
<1> QED
  BY <1>4, <1>5 DEF HeaderOf

\* The owner of the next line.
LEMMA OwnerNext ==
  ASSUME NEW x, Headed(x), NEW i \in 1..Len(x)
  PROVE  /\ Owner(x, i) \in Tapes
         /\ IsSection(x[i]) => Owner(x, i) = x[i].section
         /\ (i > 1 /\ ~IsSection(x[i])) => Owner(x, i) = Owner(x, i - 1)
<1>1. x \in Seq(Lines)
  BY DEF Headed
<1>2. PICK h \in 1..i : HeaderOf(x, i, h)
  BY HeaderExists
<1>3. Owner(x, i) = x[h].section /\ Owner(x, i) \in Tapes
  BY <1>1, <1>2, OwnerIs
<1>4. IsSection(x[i]) => h = i
  BY <1>2 DEF HeaderOf
<1>5. ASSUME i > 1, ~IsSection(x[i]) PROVE Owner(x, i) = Owner(x, i - 1)
  <2>1. HeaderOf(x, i - 1, h) /\ i - 1 \in 1..Len(x)
    BY <1>2, <1>5 DEF HeaderOf
  <2> QED
    BY <1>1, <1>3, <2>1, OwnerIs
<1> QED
  BY <1>3, <1>4, <1>5

\* Only the header itself is the owner's: a line with an owner has a header of that
\* owner at it or before it.
LEMMA OwnersHeader ==
  ASSUME NEW x, Headed(x), NEW i \in 1..Len(x)
  PROVE  \E h \in 1..i : IsSection(x[h]) /\ x[h].section = Owner(x, i) /\ Owner(x, h) = Owner(x, i)
                         /\ x[h].key = "none"
<1>1. x \in Seq(Lines)
  BY DEF Headed
<1>2. PICK h \in 1..i : HeaderOf(x, i, h)
  BY HeaderExists
<1>3. HeaderOf(x, h, h)
  BY <1>2 DEF HeaderOf
<1>4. h \in 1..Len(x) /\ x[h] \in Lines
  BY <1>1, <1>2
<1>5. Owner(x, i) = x[h].section /\ Owner(x, h) = x[h].section
  BY <1>1, <1>2, <1>3, <1>4, OwnerIs
<1> QED
  BY <1>2, <1>4, <1>5, LineFacts DEF HeaderOf

-----------------------------------------------------------------------------
(* Whole texts: OneLinePerKey of one file *)

OneLine(x) ==
  \A i \in 1..Len(x) : \A j \in 1..(i - 1) : x[i].key = x[j].key => Owner(x, i) # Owner(x, j)

Whole(x) == Headed(x) /\ OneLine(x)

LEMMA WholeOnce ==
  ASSUME NEW x, Whole(x), NEW i \in 1..Len(x), NEW j \in 1..Len(x),
         x[i].key = x[j].key, Owner(x, i) = Owner(x, j)
  PROVE  i = j
<1>1. Len(x) \in Nat
  BY DEF Whole, Headed
<1>2. ~(i < j) /\ ~(j < i)
  BY <1>1 DEF Whole, OneLine
<1> QED
  BY <1>1, <1>2

\* The section of a tape begins once.
LEMMA OneSection ==
  ASSUME NEW x, Whole(x), NEW i \in 1..Len(x), NEW j \in 1..Len(x),
         i < j, IsSection(x[j]), x[j].section = Owner(x, i)
  PROVE  FALSE
<1>1. Headed(x) /\ x[j] \in Lines
  BY DEF Whole, Headed
<1>2. PICK h \in 1..i : x[h].key = "none" /\ Owner(x, h) = Owner(x, i)
  BY <1>1, OwnersHeader
<1>3. x[j].key = "none" /\ Owner(x, j) = Owner(x, i)
  BY <1>1, LineFacts, OwnerNext
<1>4. h \in 1..Len(x)
  BY <1>1 DEF Headed
<1>5. h = j
  BY <1>2, <1>3, <1>4, WholeOnce
<1> QED
  BY <1>2, <1>5

-----------------------------------------------------------------------------
(* The numbers of a file *)

LEMMA NumberIs ==
  ASSUME NEW x, Whole(x), NEW i \in 1..Len(x)
  PROVE  Number(x, Owner(x, i), x[i].key) = x[i].value
<1> DEFINE at == {j \in 1..Len(x) : x[j].key = x[i].key /\ Owner(x, j) = Owner(x, i)}
<1>1. at = {i}
  BY WholeOnce
<1>2. Min(at) = i
  BY <1>1 DEF Min
<1> QED
  BY <1>1, <1>2 DEF Number

LEMMA NumberNone ==
  ASSUME NEW x, NEW t, NEW k, \A i \in 1..Len(x) : ~(x[i].key = k /\ Owner(x, i) = t)
  PROVE  Number(x, t, k) = 0
BY DEF Number

LEMMA TableType == ASSUME NEW x, Whole(x) PROVE Table(x) \in [Tapes -> [Keys -> Nat]]
<1> SUFFICES ASSUME NEW t \in Tapes, NEW k \in Keys PROVE Number(x, t, k) \in Nat
  BY DEF Table
<1>1. CASE \E i \in 1..Len(x) : x[i].key = k /\ Owner(x, i) = t
  <2>1. PICK i \in 1..Len(x) : x[i].key = k /\ Owner(x, i) = t
    BY <1>1
  <2>2. x[i] \in Lines
    BY DEF Whole, Headed
  <2> QED
    BY <2>1, <2>2, NumberIs, LineFacts
<1>2. CASE ~\E i \in 1..Len(x) : x[i].key = k /\ Owner(x, i) = t
  BY <1>2, NumberNone
<1> QED
  BY <1>1, <1>2

\* y has the lines of x, but for one key of one tape.
LEMMA TableWith ==
  ASSUME NEW x, Whole(x), NEW y, Whole(y), NEW t \in Tapes, NEW k \in Keys, NEW v \in Nat,
         \E j \in 1..Len(y) : y[j].key = k /\ Owner(y, j) = t /\ y[j].value = v,
         \A i \in 1..Len(x) : x[i].key \in Keys /\ ~(x[i].key = k /\ Owner(x, i) = t) =>
           \E j \in 1..Len(y) : y[j].key = x[i].key /\ Owner(y, j) = Owner(x, i) /\ y[j].value = x[i].value,
         \A j \in 1..Len(y) : y[j].key \in Keys /\ ~(y[j].key = k /\ Owner(y, j) = t) =>
           \E i \in 1..Len(x) : x[i].key = y[j].key /\ Owner(x, i) = Owner(y, j)
  PROVE  Table(y) = [Table(x) EXCEPT ![t][k] = v]
<1>1. Number(y, t, k) = v
  BY NumberIs
<1>2. ASSUME NEW u \in Tapes, NEW c \in Keys, ~(u = t /\ c = k)
      PROVE  Number(y, u, c) = Number(x, u, c)
  <2>1. CASE \E i \in 1..Len(x) : x[i].key = c /\ Owner(x, i) = u
    <3>1. PICK i \in 1..Len(x) : x[i].key = c /\ Owner(x, i) = u
      BY <2>1
    <3>2. PICK j \in 1..Len(y) : y[j].key = c /\ Owner(y, j) = u /\ y[j].value = x[i].value
      BY <1>2, <3>1
    <3>3. Number(x, u, c) = x[i].value
      BY <3>1, NumberIs
    <3>4. Number(y, u, c) = y[j].value
      BY <3>2, NumberIs
    <3> QED
      BY <3>2, <3>3, <3>4
  <2>2. CASE ~\E i \in 1..Len(x) : x[i].key = c /\ Owner(x, i) = u
    <3>1. \A j \in 1..Len(y) : ~(y[j].key = c /\ Owner(y, j) = u)
      BY <1>2, <2>2
    <3>2. Number(y, u, c) = 0 /\ Number(x, u, c) = 0
      BY <2>2, <3>1, NumberNone
    <3> QED
      BY <3>2
  <2> QED
    BY <2>1, <2>2
<1>3. Table(x) = [u \in Tapes |-> [c \in Keys |-> Number(x, u, c)]]
  BY DEF Table
<1>4. Table(y) = [u \in Tapes |-> [c \in Keys |-> Number(y, u, c)]]
  BY DEF Table
<1>5. [Table(x) EXCEPT ![t][k] = v] = [u \in Tapes |-> [c \in Keys |-> IF u = t /\ c = k THEN v ELSE Number(x, u, c)]]
  BY <1>3
<1> QED
  BY <1>1, <1>2, <1>4, <1>5

-----------------------------------------------------------------------------
(* What a scan may make of a text: y from x *)

\* y is x with the number of one key of one tape.
Becomes(x, y, t, k, v) == Whole(y) /\ Table(y) = [Table(x) EXCEPT ![t][k] = v]

\* The key of a tape replaced in its line.
LEMMA Replaced ==
  ASSUME NEW x, Whole(x), NEW y \in Seq(Lines), NEW i \in 1..Len(x), NEW k \in Keys, NEW v \in Nat,
         x[i].key = k, Len(y) = Len(x),
         \A j \in 1..Len(x) : y[j] = IF j = i THEN KeyLine(k, v) ELSE x[j]
  PROVE  Becomes(x, y, Owner(x, i), k, v)
<1>1. x \in Seq(Lines) /\ Headed(x) /\ Len(x) \in Nat
  BY DEF Whole, Headed
<1>2. \A j \in 1..Len(x) : /\ x[j] \in Lines /\ y[j] \in Lines
                           /\ y[j].key = x[j].key /\ y[j].section = x[j].section
                           /\ (j # i => y[j].value = x[j].value)
  <2>1. x[i] \in Lines /\ x[i].section = "none"
    <3>1. x[i] \in Lines
      BY <1>1
    <3> QED
      BY <3>1 DEF Lines
  <2> QED
    BY <1>1, <2>1, KeyLineFacts
<1>3. \A j \in 1..Len(x) : IsSection(y[j]) <=> IsSection(x[j])
  BY <1>2 DEF IsSection
<1>4. Headed(y)
  BY <1>1, <1>3 DEF Headed
<1>5. ASSUME NEW j \in 1..Len(x) PROVE Owner(y, j) = Owner(x, j)
  <2>1. PICK h \in 1..j : HeaderOf(x, j, h)
    BY <1>1, HeaderExists
  <2>2. HeaderOf(y, j, h) /\ h \in 1..Len(x)
    BY <1>1, <1>3, <2>1 DEF HeaderOf
  <2>3. Owner(x, j) = x[h].section /\ Owner(y, j) = y[h].section
    BY <1>1, <2>1, <2>2, OwnerIs
  <2> QED
    BY <1>2, <2>2, <2>3
<1>6. OneLine(y)
  <2>1. ASSUME NEW a \in 1..Len(x), NEW b \in 1..(a - 1), y[a].key = y[b].key
        PROVE  Owner(y, a) # Owner(y, b)
    <3>1. b \in 1..Len(x) /\ x[a].key = x[b].key
      BY <1>1, <1>2, <2>1
    <3>2. Owner(x, a) # Owner(x, b)
      BY <3>1 DEF Whole, OneLine
    <3> QED
      BY <1>5, <3>1, <3>2
  <2> QED
    BY <2>1 DEF OneLine
<1>7. Whole(y)
  BY <1>4, <1>6 DEF Whole
<1>8. Table(y) = [Table(x) EXCEPT ![Owner(x, i)][k] = v]
  <2>1. Owner(x, i) \in Tapes
    BY <1>1, OwnerNext
  <2>2. \E j \in 1..Len(y) : y[j].key = k /\ Owner(y, j) = Owner(x, i) /\ y[j].value = v
    BY <1>2, <1>5, KeyLineFacts
  <2>3. ASSUME NEW j \in 1..Len(x), x[j].key \in Keys, ~(x[j].key = k /\ Owner(x, j) = Owner(x, i))
        PROVE  \E n \in 1..Len(y) : y[n].key = x[j].key /\ Owner(y, n) = Owner(x, j) /\ y[n].value = x[j].value
    BY <1>2, <1>5, <2>3
  <2>4. ASSUME NEW j \in 1..Len(y), y[j].key \in Keys, ~(y[j].key = k /\ Owner(y, j) = Owner(x, i))
        PROVE  \E n \in 1..Len(x) : x[n].key = y[j].key /\ Owner(x, n) = Owner(y, j)
    BY <1>2, <1>5, <2>4
  <2> QED
    BY <1>7, <2>1, <2>2, <2>3, <2>4, TableWith
<1> QED
  BY <1>7, <1>8 DEF Becomes

\* The key of a tape added at the end of its section, behind line e.
Insertion(x, y, e, line) ==
  /\ e \in 1..Len(x) /\ y \in Seq(Lines) /\ Len(y) = Len(x) + 1
  /\ e < Len(x) => IsSection(x[e + 1])
  /\ \A j \in 1..(Len(x) + 1) : y[j] = IF j <= e THEN x[j] ELSE IF j = e + 1 THEN line ELSE x[j - 1]

OwnersMoved(x, y, e) ==
  /\ Headed(y)
  /\ \A j \in 1..e : Owner(y, j) = Owner(x, j)
  /\ Owner(y, e + 1) = Owner(x, e)
  /\ \A j \in (e + 2)..Len(y) : Owner(y, j) = Owner(x, j - 1)

LEMMA InsertedOwners ==
  ASSUME NEW x, Whole(x), NEW y, NEW e, NEW k \in Keys, NEW v \in Nat, Insertion(x, y, e, KeyLine(k, v))
  PROVE  OwnersMoved(x, y, e)
<1>1. x \in Seq(Lines) /\ Headed(x) /\ Len(x) \in Nat /\ y \in Seq(Lines) /\ e \in 1..Len(x) /\ Len(y) = Len(x) + 1
  BY DEF Whole, Headed, Insertion
<1>2. /\ \A j \in 1..e : y[j] = x[j]
      /\ y[e + 1] = KeyLine(k, v)
      /\ \A j \in (e + 2)..Len(y) : y[j] = x[j - 1]
  BY <1>1 DEF Insertion
<1>3. ~IsSection(y[e + 1])
  BY <1>2, KeyLineFacts
<1>4. Headed(y)
  BY <1>1, <1>2 DEF Headed
<1>5. ASSUME NEW j \in 1..e PROVE Owner(y, j) = Owner(x, j)
  <2>1. PICK h \in 1..j : HeaderOf(x, j, h)
    BY <1>1, HeaderExists
  <2>2. HeaderOf(y, j, h)
    BY <1>1, <1>2, <2>1 DEF HeaderOf
  <2>3. Owner(x, j) = x[h].section /\ Owner(y, j) = y[h].section
    BY <1>1, <2>1, <2>2, OwnerIs
  <2> QED
    BY <1>1, <1>2, <2>3
<1>6. Owner(y, e + 1) = Owner(x, e)
  <2>1. e + 1 \in 1..Len(y) /\ e + 1 > 1 /\ (e + 1) - 1 = e
    BY <1>1
  <2>2. Owner(y, e + 1) = Owner(y, e)
    BY <1>3, <1>4, <2>1, OwnerNext
  <2> QED
    BY <1>1, <1>5, <2>2
<1>7. ASSUME NEW j \in (e + 2)..Len(y) PROVE Owner(y, j) = Owner(x, j - 1)
  <2>1. j - 1 \in 1..Len(x)
    BY <1>1
  <2>2. PICK h \in 1..(j - 1) : HeaderOf(x, j - 1, h)
    BY <1>1, <2>1, HeaderExists
  <2>3. h >= e + 1
    <3>1. e < Len(x)
      BY <1>1
    <3>2. IsSection(x[e + 1])
      BY <3>1 DEF Insertion
    <3>3. ~(e + 1 \in (h + 1)..(j - 1))
      BY <2>2, <3>2 DEF HeaderOf
    <3> QED
      BY <1>1, <3>3
  <2>4. y[h + 1] = x[h]
    <3>1. h + 1 \in (e + 2)..Len(y) /\ (h + 1) - 1 = h
      BY <1>1, <2>3
    <3> QED
      BY <1>2, <3>1
  <2>5. ASSUME NEW n \in (h + 1 + 1)..j PROVE ~IsSection(y[n])
    <3>1. n \in (e + 2)..Len(y) /\ n - 1 \in (h + 1)..(j - 1)
      BY <1>1, <2>3
    <3>2. y[n] = x[n - 1]
      BY <1>2, <3>1
    <3> QED
      BY <2>2, <3>1, <3>2 DEF HeaderOf
  <2>6. HeaderOf(y, j, h + 1)
    BY <1>1, <2>2, <2>4, <2>5 DEF HeaderOf
  <2>7. Owner(x, j - 1) = x[h].section
    BY <1>1, <2>1, <2>2, OwnerIs
  <2>8. j \in 1..Len(y)
    BY <1>1
  <2>9. Owner(y, j) = y[h + 1].section
    BY <1>1, <2>6, <2>8, OwnerIs
  <2> QED
    BY <2>4, <2>7, <2>9
<1> QED
  BY <1>4, <1>5, <1>6, <1>7 DEF OwnersMoved

LEMMA Inserted ==
  ASSUME NEW x, Whole(x), NEW y, NEW e, NEW k \in Keys, NEW v \in Nat, Insertion(x, y, e, KeyLine(k, v)),
         \A i \in 1..Len(x) : ~(x[i].key = k /\ Owner(x, i) = Owner(x, e))
  PROVE  Becomes(x, y, Owner(x, e), k, v)
<1>1. x \in Seq(Lines) /\ Headed(x) /\ Len(x) \in Nat /\ y \in Seq(Lines) /\ e \in 1..Len(x) /\ Len(y) = Len(x) + 1
  BY DEF Whole, Headed, Insertion
<1>2. OwnersMoved(x, y, e)
  BY InsertedOwners
<1>3. /\ \A j \in 1..e : Owner(y, j) = Owner(x, j)
      /\ \A j \in (e + 2)..Len(y) : Owner(y, j) = Owner(x, j - 1)
  BY <1>2 DEF OwnersMoved
<1> DEFINE From(j) == IF j <= e THEN j ELSE j - 1
           To(i) == IF i <= e THEN i ELSE i + 1
<1>4. Headed(y) /\ y[e + 1].key = k /\ y[e + 1].value = v /\ Owner(y, e + 1) = Owner(x, e) /\ e + 1 \in 1..Len(y)
  <2>1. e + 1 \in 1..(Len(x) + 1) /\ ~(e + 1 <= e)
    BY <1>1
  <2>2. y[e + 1] = KeyLine(k, v)
    BY <2>1 DEF Insertion
  <2> QED
    BY <1>1, <1>2, <2>1, <2>2, KeyLineFacts DEF OwnersMoved
<1>5. ASSUME NEW j \in 1..Len(y), j # e + 1
      PROVE  From(j) \in 1..Len(x) /\ y[j] = x[From(j)] /\ Owner(y, j) = Owner(x, From(j)) /\ To(From(j)) = j
  <2>1. CASE j <= e
    <3>1. j \in 1..e /\ j \in 1..(Len(x) + 1)
      BY <1>1, <2>1
    <3>2. Owner(y, j) = Owner(x, j)
      BY <1>3, <3>1
    <3>3. y[j] = x[j]
      BY <2>1, <3>1 DEF Insertion
    <3> QED
      BY <1>1, <2>1, <3>1, <3>2, <3>3
  <2>2. CASE j > e
    <3>1. j \in (e + 2)..Len(y) /\ j \in 1..(Len(x) + 1) /\ j - 1 \in 1..Len(x) /\ j - 1 > e
      BY <1>1, <1>5, <2>2
    <3>2. Owner(y, j) = Owner(x, j - 1)
      BY <1>3, <3>1
    <3>3. y[j] = x[j - 1]
      BY <1>5, <2>2, <3>1 DEF Insertion
    <3> QED
      BY <1>1, <3>1, <3>2, <3>3
  <2> QED
    BY <1>1, <2>1, <2>2
<1>6. ASSUME NEW i \in 1..Len(x)
      PROVE  To(i) \in 1..Len(y) /\ To(i) # e + 1 /\ From(To(i)) = i
  BY <1>1
<1> HIDE DEF From, To
<1>7. OneLine(y)
  <2>1. ASSUME NEW a \in 1..Len(y), NEW b \in 1..Len(y), a # b, y[a].key = y[b].key, Owner(y, a) = Owner(y, b)
        PROVE  FALSE
    <3>1. CASE a = e + 1
      BY <1>4, <1>5, <2>1, <3>1
    <3>2. CASE b = e + 1
      BY <1>4, <1>5, <2>1, <3>2
    <3>3. CASE a # e + 1 /\ b # e + 1
      <4>1. From(a) = From(b)
        BY <1>5, <2>1, <3>3, WholeOnce
      <4> QED
        BY <1>5, <2>1, <3>3, <4>1
    <3> QED
      BY <3>1, <3>2, <3>3
  <2>2. \A a \in 1..Len(y) : \A b \in 1..(a - 1) : b \in 1..Len(y) /\ a # b
    BY <1>1
  <2> QED
    BY <2>1, <2>2 DEF OneLine
<1>8. Whole(y)
  BY <1>4, <1>7 DEF Whole
<1>9. Table(y) = [Table(x) EXCEPT ![Owner(x, e)][k] = v]
  <2>1. Owner(x, e) \in Tapes
    BY <1>1, OwnerNext
  <2>2. \E j \in 1..Len(y) : y[j].key = k /\ Owner(y, j) = Owner(x, e) /\ y[j].value = v
    BY <1>4
  <2>3. ASSUME NEW i \in 1..Len(x)
        PROVE  \E j \in 1..Len(y) : y[j].key = x[i].key /\ Owner(y, j) = Owner(x, i) /\ y[j].value = x[i].value
    <3>1. To(i) \in 1..Len(y) /\ To(i) # e + 1 /\ From(To(i)) = i
      BY <1>6
    <3>2. y[To(i)] = x[i] /\ Owner(y, To(i)) = Owner(x, i)
      BY <1>5, <3>1
    <3> QED
      BY <3>1, <3>2
  <2>4. ASSUME NEW j \in 1..Len(y), ~(y[j].key = k /\ Owner(y, j) = Owner(x, e))
        PROVE  \E i \in 1..Len(x) : x[i].key = y[j].key /\ Owner(x, i) = Owner(y, j)
    <3>1. j # e + 1
      BY <1>4, <2>4
    <3> QED
      BY <1>5, <3>1
  <2> QED
    BY <1>8, <2>1, <2>2, <2>3, <2>4, TableWith
<1> QED
  BY <1>8, <1>9 DEF Becomes

\* A section of its own, added with the key at the end of the text.
Addition(x, y, t, line) ==
  /\ y \in Seq(Lines) /\ Len(y) = Len(x) + 2
  /\ \A j \in 1..Len(x) : y[j] = x[j]
  /\ y[Len(x) + 1] = Section(t) /\ y[Len(x) + 2] = line

LEMMA Added ==
  ASSUME NEW x, Whole(x), NEW y, NEW t \in Tapes, NEW k \in Keys, NEW v \in Nat, Addition(x, y, t, KeyLine(k, v)),
         \A i \in 1..Len(x) : Owner(x, i) # t
  PROVE  Becomes(x, y, t, k, v)
<1>1. x \in Seq(Lines) /\ Headed(x) /\ Len(x) \in Nat /\ y \in Seq(Lines) /\ Len(y) = Len(x) + 2
  BY DEF Whole, Headed, Addition
<1> DEFINE n == Len(x)
<1>2. /\ \A j \in 1..n : y[j] = x[j]
      /\ IsSection(y[n + 1]) /\ y[n + 1].section = t /\ y[n + 1].key = "none"
      /\ ~IsSection(y[n + 2]) /\ y[n + 2].key = k /\ y[n + 2].value = v
  BY SectionFacts, KeyLineFacts DEF Addition
<1>3. n + 1 \in 1..Len(y) /\ n + 2 \in 1..Len(y) /\ n + 2 > 1 /\ (n + 2) - 1 = n + 1
  BY <1>1
<1>4. Headed(y)
  <2>1. CASE n = 0
    BY <1>1, <1>2, <2>1 DEF Headed
  <2>2. CASE n > 0
    BY <1>1, <1>2, <2>2 DEF Headed
  <2> QED
    BY <1>1, <2>1, <2>2
<1>5. Owner(y, n + 1) = t /\ Owner(y, n + 2) = t
  <2>1. Owner(y, n + 1) = t
    BY <1>2, <1>3, <1>4, OwnerNext
  <2>2. Owner(y, n + 2) = Owner(y, n + 1)
    BY <1>2, <1>3, <1>4, OwnerNext
  <2> QED
    BY <2>1, <2>2
<1>6. ASSUME NEW j \in 1..n PROVE j \in 1..Len(y) /\ Owner(y, j) = Owner(x, j)
  <2>1. PICK h \in 1..j : HeaderOf(x, j, h)
    BY <1>1, HeaderExists
  <2>2. HeaderOf(y, j, h) /\ h \in 1..n /\ j \in 1..Len(y)
    BY <1>1, <1>2, <2>1 DEF HeaderOf
  <2>3. Owner(x, j) = x[h].section /\ Owner(y, j) = y[h].section
    BY <1>1, <2>1, <2>2, OwnerIs
  <2> QED
    BY <1>2, <2>2, <2>3
<1>7. \A j \in 1..Len(y) : j \in 1..n \/ j = n + 1 \/ j = n + 2
  BY <1>1
<1>8. "none" # k
  BY KeysAre
<1> HIDE DEF n
<1>9. OneLine(y)
  <2>1. ASSUME NEW a \in 1..Len(y), NEW b \in 1..Len(y), a # b, y[a].key = y[b].key, Owner(y, a) = Owner(y, b)
        PROVE  FALSE
    <3>1. CASE a \in 1..n /\ b \in 1..n
      BY <1>2, <1>6, <2>1, <3>1, WholeOnce DEF n
    <3>2. CASE a \in 1..n /\ b \notin 1..n
      BY <1>5, <1>6, <1>7, <2>1, <3>2 DEF n
    <3>3. CASE a \notin 1..n /\ b \in 1..n
      BY <1>5, <1>6, <1>7, <2>1, <3>3 DEF n
    <3>4. CASE a \notin 1..n /\ b \notin 1..n
      BY <1>2, <1>7, <1>8, <2>1, <3>4
    <3> QED
      BY <3>1, <3>2, <3>3, <3>4
  <2>2. \A a \in 1..Len(y) : \A b \in 1..(a - 1) : b \in 1..Len(y) /\ a # b
    BY <1>1
  <2> QED
    BY <2>1, <2>2 DEF OneLine
<1>10. Whole(y)
  BY <1>4, <1>9 DEF Whole
<1>11. Table(y) = [Table(x) EXCEPT ![t][k] = v]
  <2>1. \E j \in 1..Len(y) : y[j].key = k /\ Owner(y, j) = t /\ y[j].value = v
    BY <1>2, <1>3, <1>5
  <2>2. ASSUME NEW i \in 1..Len(x)
        PROVE  \E j \in 1..Len(y) : y[j].key = x[i].key /\ Owner(y, j) = Owner(x, i) /\ y[j].value = x[i].value
    BY <1>2, <1>6 DEF n
  <2>3. ASSUME NEW j \in 1..Len(y), y[j].key \in Keys, ~(y[j].key = k /\ Owner(y, j) = t)
        PROVE  \E i \in 1..Len(x) : x[i].key = y[j].key /\ Owner(x, i) = Owner(y, j)
    <3>1. j # n + 1 /\ j # n + 2
      BY <1>2, <1>5, <2>3, KeysAre
    <3> QED
      BY <1>2, <1>6, <1>7, <3>1 DEF n
  <2> QED
    BY <1>10, <2>1, <2>2, <2>3, TableWith
<1> QED
  BY <1>10, <1>11 DEF Becomes

\* A text without the key of the tape has 0 for it.
LEMMA Unchanged ==
  ASSUME NEW x, Whole(x), NEW t \in Tapes, NEW k \in Keys,
         \A i \in 1..Len(x) : ~(x[i].key = k /\ Owner(x, i) = t)
  PROVE  Number(x, t, k) = 0 /\ Table(x) = [Table(x) EXCEPT ![t][k] = 0]
<1>1. Number(x, t, k) = 0
  BY NumberNone
<1>2. Table(x) = [u \in Tapes |-> [c \in Keys |-> Number(x, u, c)]]
  BY DEF Table
<1>3. [Table(x) EXCEPT ![t][k] = 0] = [u \in Tapes |-> [c \in Keys |-> IF u = t /\ c = k THEN 0 ELSE Number(x, u, c)]]
  BY <1>2
<1> QED
  BY <1>1, <1>2, <1>3

-----------------------------------------------------------------------------
(* The scan *)

IsScan(s) == s \in [out : Seq(Lines), inside : BOOLEAN, added : BOOLEAN, found : BOOLEAN, value : Nat]

\* The scan of x has a value for every number of lines.
LEMMA ScanExists ==
  ASSUME NEW N \in Nat, NEW x
  PROVE  \E f : f = [n \in 0..N |-> IF n = 0 THEN BeforeScan ELSE ScanLine(f[n - 1], x[n])]
<1> DEFINE Fcn(f, k) == f = [n \in 0..k |-> IF n = 0 THEN BeforeScan ELSE ScanLine(f[n - 1], x[n])]
           S == {k \in Nat : ~\E f : Fcn(f, k)}
<1>1. S = {}
  <2> SUFFICES ASSUME S # {} PROVE FALSE
    OBVIOUS
  <2>1. PICK k \in S : \A m \in S : k <= m
    <3>1. S \subseteq Nat
      OBVIOUS
    <3> HIDE DEF S
    <3> QED
      BY <3>1, LeastOf
  <2>2. k # 0
    <3> DEFINE g == [n \in 0..0 |-> BeforeScan]
    <3>1. Fcn(g, 0)
      OBVIOUS
    <3> HIDE DEF g, Fcn
    <3>2. 0 \notin S
      BY <3>1
    <3> QED
      BY <3>2
  <2>3. k - 1 \in Nat /\ k - 1 \notin S
    <3>1. k \in Nat
      OBVIOUS
    <3>2. k - 1 \in Nat /\ ~(k <= k - 1)
      BY <2>2, <3>1
    <3> HIDE DEF S
    <3> QED
      BY <2>1, <3>2
  <2>4. PICK f : Fcn(f, k - 1)
    BY <2>3
  <2> DEFINE g == [n \in 0..k |-> IF n < k THEN f[n] ELSE ScanLine(f[k - 1], x[k])]
  <2>5. ASSUME NEW n \in 0..k
        PROVE  g[n] = IF n = 0 THEN BeforeScan ELSE ScanLine(g[n - 1], x[n])
    <3>1. k \in Nat
      OBVIOUS
    <3>2. CASE n = 0
      BY <2>2, <2>4, <3>1, <3>2
    <3>3. CASE n > 0 /\ n < k
      <4>1. n \in 0..(k - 1) /\ n - 1 \in 0..k /\ n - 1 < k /\ n # 0
        BY <3>1, <3>3
      <4>2. f[n] = ScanLine(f[n - 1], x[n])
        BY <2>4, <4>1
      <4>3. g[n] = f[n] /\ g[n - 1] = f[n - 1]
        BY <3>3, <4>1
      <4> QED
        BY <4>1, <4>2, <4>3
    <3>4. CASE n = k
      <4>1. k \in 0..k /\ k - 1 \in 0..k /\ k - 1 < k /\ ~(k < k)
        BY <2>2, <3>1
      <4>2. g[k] = ScanLine(f[k - 1], x[k]) /\ g[k - 1] = f[k - 1]
        BY <4>1
      <4> QED
        BY <2>2, <3>4, <4>2
    <3> QED
      BY <3>1, <3>2, <3>3, <3>4
  <2>6. Fcn(g, k)
    <3>1. g = [n \in 0..k |-> g[n]]
      OBVIOUS
    <3> HIDE DEF g
    <3> QED
      BY <2>5, <3>1
  <2> HIDE DEF g, Fcn
  <2>7. k \notin S
    BY <2>6
  <2> QED
    BY <2>7
<1>2. \E f : Fcn(f, N)
  BY <1>1
<1> QED
  BY <1>2

LEMMA ScanSteps ==
  ASSUME ini.text \in Seq(Lines)
  PROVE  /\ Scanned[0] = BeforeScan
         /\ \A n \in 1..Len(ini.text) : Scanned[n] = ScanLine(Scanned[n - 1], ini.text[n])
<1> DEFINE N == Len(ini.text)
<1>1. N \in Nat
  OBVIOUS
<1>2. \E f : f = [n \in 0..N |-> IF n = 0 THEN BeforeScan ELSE ScanLine(f[n - 1], ini.text[n])]
  BY <1>1, ScanExists
<1>3. Scanned = [n \in 0..N |-> IF n = 0 THEN BeforeScan ELSE ScanLine(Scanned[n - 1], ini.text[n])]
  BY <1>2 DEF Scanned
<1> HIDE DEF N
<1>4. Scanned[0] = BeforeScan
  BY <1>1, <1>3
<1>5. ASSUME NEW n \in 1..N PROVE Scanned[n] = ScanLine(Scanned[n - 1], ini.text[n])
  <2>1. n \in 0..N /\ n # 0
    BY <1>1
  <2> QED
    BY <1>3, <2>1
<1> QED
  BY <1>4, <1>5 DEF N

\* What is being looked for or written, and the lines that have it.
TheLine == KeyLine(Head(todo), value)
IsOwn(x, i) == Owner(x, i) = tape /\ x[i].key = Head(todo)

Copied(x, n, out) == out \in Seq(Lines) /\ Len(out) = n /\ \A j \in 1..n : out[j] = x[j]
Changed(x, n, out, i, line) ==
  out \in Seq(Lines) /\ Len(out) = n /\ \A j \in 1..n : out[j] = IF j = i THEN line ELSE x[j]
Longer(x, n, out, e, line) ==
  /\ out \in Seq(Lines) /\ Len(out) = n + 1
  /\ \A j \in 1..(n + 1) : out[j] = IF j <= e THEN x[j] ELSE IF j = e + 1 THEN line ELSE x[j - 1]

\* Where a scan of x may be after n lines: before the section of the tape, in it, in
\* it with the key written, behind it, or at the key it has read.
ScanBefore(x, n, s) ==
  /\ ~s.inside /\ ~s.added /\ ~s.found /\ Copied(x, n, s.out)
  /\ \A i \in 1..n : Owner(x, i) # tape

ScanIn(x, n, s) ==
  /\ s.inside /\ ~s.added /\ ~s.found /\ Copied(x, n, s.out)
  /\ n > 0 /\ Owner(x, n) = tape /\ \A i \in 1..n : ~IsOwn(x, i)

ScanWritten(x, n, s) ==
  /\ s.inside /\ s.added /\ ~s.found /\ rw = "write"
  /\ n > 0 /\ Owner(x, n) = tape
  /\ \E i \in 1..n : IsOwn(x, i) /\ Changed(x, n, s.out, i, TheLine)

ScanBehind(x, n, s) ==
  /\ ~s.inside /\ s.added /\ ~s.found
  /\ n > 0 /\ Owner(x, n) # tape
  /\ \E e \in 1..(n - 1) :
       /\ Owner(x, e) = tape /\ IsSection(x[e + 1])
       /\ \/ rw = "write" /\ \E i \in 1..n : IsOwn(x, i) /\ Changed(x, n, s.out, i, TheLine)
          \/ (\A i \in 1..n : ~IsOwn(x, i)) /\ Longer(x, n, s.out, e, TheLine)

ScanFound(x, n, s) ==
  /\ s.found /\ rw = "read"
  /\ \E i \in 1..n : IsOwn(x, i) /\ s.value = x[i].value /\ Copied(x, i - 1, s.out)

ScanAt(x, n, s) ==
  /\ IsScan(s)
  /\ \/ ScanBefore(x, n, s) \/ ScanIn(x, n, s) \/ ScanWritten(x, n, s)
     \/ ScanBehind(x, n, s) \/ ScanFound(x, n, s)

\* What is asked of a read or a write.
Asked == tape \in Tapes /\ todo # << >> /\ Head(todo) \in Keys /\ value \in Nat /\ rw \in {"read", "write"}

LEMMA AppendAt ==
  ASSUME NEW s \in Seq(Lines), NEW l \in Lines
  PROVE  /\ Append(s, l) \in Seq(Lines) /\ Len(Append(s, l)) = Len(s) + 1
         /\ \A j \in 1..(Len(s) + 1) : Append(s, l)[j] = IF j <= Len(s) THEN s[j] ELSE l
OBVIOUS

LEMMA ConcatNone ==
  ASSUME NEW s \in Seq(Lines), NEW l \in Lines
  PROVE  (s \o << >>) \o <<l>> = Append(s, l)
OBVIOUS

LEMMA ConcatTwo ==
  ASSUME NEW s \in Seq(Lines), NEW k \in Lines, NEW l \in Lines
  PROVE  (s \o <<k>>) \o <<l>> = Append(Append(s, k), l)
OBVIOUS

LEMMA ConcatOne ==
  ASSUME NEW s \in Seq(Lines), NEW l \in Lines
  PROVE  s \o <<l>> = Append(s, l)
OBVIOUS

LEMMA CopiedNext ==
  ASSUME NEW x \in Seq(Lines), NEW n \in 1..Len(x), NEW out, Copied(x, n - 1, out)
  PROVE  /\ Copied(x, n, Append(out, x[n]))
         /\ \A l \in Lines : Changed(x, n, Append(out, l), n, l)
         /\ \A l \in Lines : Longer(x, n, Append(Append(out, l), x[n]), n - 1, l)
<1>1. out \in Seq(Lines) /\ Len(out) = n - 1 /\ x[n] \in Lines /\ n \in Nat
      /\ \A j \in 1..(n - 1) : out[j] = x[j]
  BY DEF Copied
<1>2. Copied(x, n, Append(out, x[n]))
  BY <1>1, AppendAt DEF Copied
<1>3. ASSUME NEW l \in Lines PROVE Changed(x, n, Append(out, l), n, l)
  BY <1>1, AppendAt DEF Changed
<1>4. ASSUME NEW l \in Lines PROVE Longer(x, n, Append(Append(out, l), x[n]), n - 1, l)
  <2> DEFINE o == Append(out, l)
  <2>1. o \in Seq(Lines) /\ Len(o) = n /\ \A j \in 1..n : o[j] = IF j <= n - 1 THEN x[j] ELSE l
    BY <1>1, AppendAt
  <2> HIDE DEF o
  <2>2. /\ Append(o, x[n]) \in Seq(Lines) /\ Len(Append(o, x[n])) = n + 1
        /\ \A j \in 1..(n + 1) : Append(o, x[n])[j] = IF j <= n THEN o[j] ELSE x[n]
    BY <1>1, <2>1, AppendAt
  <2>3. Longer(x, n, Append(o, x[n]), n - 1, l)
    BY <1>1, <2>1, <2>2 DEF Longer
  <2> QED
    BY <2>3 DEF o
<1> QED
  BY <1>2, <1>3, <1>4

LEMMA ChangedNext ==
  ASSUME NEW x \in Seq(Lines), NEW n \in 1..Len(x), NEW out, NEW i \in 1..(n - 1), NEW l,
         Changed(x, n - 1, out, i, l)
  PROVE  Changed(x, n, Append(out, x[n]), i, l)
<1>1. out \in Seq(Lines) /\ Len(out) = n - 1 /\ x[n] \in Lines /\ n \in Nat
      /\ \A j \in 1..(n - 1) : out[j] = IF j = i THEN l ELSE x[j]
  BY DEF Changed
<1> QED
  BY <1>1, AppendAt DEF Changed

LEMMA LongerNext ==
  ASSUME NEW x \in Seq(Lines), NEW n \in 1..Len(x), NEW out, NEW e \in 1..(n - 2), NEW l,
         Longer(x, n - 1, out, e, l)
  PROVE  Longer(x, n, Append(out, x[n]), e, l)
<1>1. out \in Seq(Lines) /\ Len(out) = n /\ x[n] \in Lines /\ n \in Nat
      /\ \A j \in 1..n : out[j] = IF j <= e THEN x[j] ELSE IF j = e + 1 THEN l ELSE x[j - 1]
  BY DEF Longer
<1> DEFINE o == Append(out, x[n])
<1>2. o \in Seq(Lines) /\ Len(o) = n + 1 /\ \A j \in 1..(n + 1) : o[j] = IF j <= n THEN out[j] ELSE x[n]
  BY <1>1, AppendAt
<1> HIDE DEF o
<1>3. ASSUME NEW j \in 1..(n + 1)
      PROVE  o[j] = IF j <= e THEN x[j] ELSE IF j = e + 1 THEN l ELSE x[j - 1]
  <2>1. CASE j \in 1..n
    BY <1>1, <1>2, <2>1
  <2>2. CASE j = n + 1
    <3>1. ~(j <= e) /\ j # e + 1 /\ j - 1 = n /\ ~(j <= n)
      BY <1>1, <2>2
    <3> QED
      BY <1>2, <3>1
  <2>3. j \in 1..n \/ j = n + 1
    BY <1>1
  <2> QED
    BY <2>1, <2>2, <2>3
<1>4. Longer(x, n, o, e, l)
  BY <1>2, <1>3 DEF Longer
<1> QED
  BY <1>4 DEF o

\* The step of a scan outside the section asked for.
LEMMA OutsideStep ==
  ASSUME Asked, NEW x, Whole(x), NEW n \in 1..Len(x), NEW s, IsScan(s),
         ScanBefore(x, n - 1, s) \/ ScanBehind(x, n - 1, s)
  PROVE  ScanAt(x, n, ScanLine(s, x[n]))
<1>1. x \in Seq(Lines) /\ Headed(x) /\ n \in Nat /\ Len(x) \in Nat /\ x[n] \in Lines /\ tape \in Tapes
  BY DEF Whole, Headed, Asked
<1> DEFINE r == ScanOutside(s, x[n])
<1>2. ScanLine(s, x[n]) = r
  BY DEF ScanBefore, ScanBehind, ScanLine
<1> DEFINE b == x[n] = Section(tape)
<1>3. r = [s EXCEPT !.out = Append(@, x[n]), !.inside = b] /\ b \in BOOLEAN
  BY DEF ScanOutside
<1>4. b <=> x[n].section = tape
  BY <1>1, LineFacts
<1> HIDE DEF b, r
<1>5. /\ IsScan(r) /\ r.out = Append(s.out, x[n]) /\ (r.inside <=> x[n].section = tape)
      /\ (r.added <=> s.added) /\ (r.found <=> s.found)
  <2>1. Append(s.out, x[n]) \in Seq(Lines)
    BY <1>1, AppendAt DEF IsScan
  <2>2. IsScan(r) /\ r.out = Append(s.out, x[n]) /\ r.inside = b /\ r.added = s.added /\ r.found = s.found
    BY <1>3, <2>1 DEF IsScan
  <2> QED
    BY <1>4, <2>2
<1>6. /\ IsSection(x[n]) => Owner(x, n) = x[n].section
      /\ (n > 1 /\ ~IsSection(x[n])) => Owner(x, n) = Owner(x, n - 1)
  BY <1>1, OwnerNext
<1>7. x[n].section = tape => IsSection(x[n]) /\ x[n].key \notin Keys
  BY <1>1, LineFacts
<1>8. CASE ScanBefore(x, n - 1, s)
  <2>1. Copied(x, n, r.out)
    BY <1>1, <1>5, <1>8, CopiedNext DEF ScanBefore
  <2>2. \A i \in 1..(n - 1) : Owner(x, i) # tape
    BY <1>8 DEF ScanBefore
  <2>3. \A i \in 1..n : i \in 1..(n - 1) \/ i = n
    BY <1>1
  <2>4. CASE x[n].section = tape
    <3>1. Owner(x, n) = tape /\ x[n].key # Head(todo)
      BY <1>6, <1>7, <2>4 DEF Asked
    <3>2. ScanIn(x, n, r)
      BY <1>1, <1>5, <1>8, <2>1, <2>2, <2>3, <2>4, <3>1 DEF ScanIn, ScanBefore, IsOwn
    <3> QED
      BY <1>2, <1>5, <3>2 DEF ScanAt
  <2>5. CASE x[n].section # tape
    <3>1. Owner(x, n) # tape
      <4>1. CASE IsSection(x[n])
        BY <1>6, <2>5, <4>1
      <4>2. CASE ~IsSection(x[n])
        <5>1. n > 1
          BY <1>1, <4>2 DEF Headed
        <5>2. n - 1 \in 1..(n - 1)
          BY <1>1, <5>1
        <5> QED
          BY <1>6, <2>2, <4>2, <5>1, <5>2
      <4> QED
        BY <4>1, <4>2
    <3>2. ScanBefore(x, n, r)
      BY <1>5, <1>8, <2>1, <2>2, <2>3, <2>5, <3>1 DEF ScanBefore
    <3> QED
      BY <1>2, <1>5, <3>2 DEF ScanAt
  <2> QED
    BY <2>4, <2>5
<1>9. CASE ScanBehind(x, n - 1, s)
  <2>1. PICK e \in 1..(n - 1 - 1) :
          /\ Owner(x, e) = tape /\ IsSection(x[e + 1])
          /\ \/ rw = "write" /\ \E i \in 1..(n - 1) : IsOwn(x, i) /\ Changed(x, n - 1, s.out, i, TheLine)
             \/ (\A i \in 1..(n - 1) : ~IsOwn(x, i)) /\ Longer(x, n - 1, s.out, e, TheLine)
    BY <1>9 DEF ScanBehind
  <2>2. e \in 1..(n - 2) /\ e \in 1..(n - 1) /\ e \in 1..Len(x) /\ e < n /\ n > 1
    BY <1>1, <2>1
  <2>3. x[n].section # tape
    BY <1>1, <1>7, <2>1, <2>2, OneSection
  <2>4. Owner(x, n) # tape
    BY <1>6, <1>9, <2>2, <2>3 DEF ScanBehind
  <2>5. \/ rw = "write" /\ \E i \in 1..n : IsOwn(x, i) /\ Changed(x, n, r.out, i, TheLine)
        \/ (\A i \in 1..n : ~IsOwn(x, i)) /\ Longer(x, n, r.out, e, TheLine)
    <3>1. CASE rw = "write" /\ \E i \in 1..(n - 1) : IsOwn(x, i) /\ Changed(x, n - 1, s.out, i, TheLine)
      <4>1. PICK i \in 1..(n - 1) : IsOwn(x, i) /\ Changed(x, n - 1, s.out, i, TheLine)
        BY <3>1
      <4>2. Changed(x, n, r.out, i, TheLine)
        BY <1>1, <1>5, <4>1, ChangedNext
      <4>3. i \in 1..n
        BY <1>1
      <4> QED
        BY <3>1, <4>1, <4>2, <4>3
    <3>2. CASE (\A i \in 1..(n - 1) : ~IsOwn(x, i)) /\ Longer(x, n - 1, s.out, e, TheLine)
      <4>1. Longer(x, n, r.out, e, TheLine)
        BY <1>1, <1>5, <2>2, <3>2, LongerNext
      <4>2. \A i \in 1..n : i \in 1..(n - 1) \/ i = n
        BY <1>1
      <4> QED
        BY <2>4, <3>2, <4>1, <4>2 DEF IsOwn
    <3> QED
      BY <2>1, <3>1, <3>2
  <2>6. ScanBehind(x, n, r)
    BY <1>5, <1>9, <2>1, <2>2, <2>3, <2>4, <2>5 DEF ScanBehind
  <2> QED
    BY <1>2, <1>5, <2>6 DEF ScanAt
<1> QED
  BY <1>8, <1>9

\* The step of a scan in the section.
LEMMA InsideStep ==
  ASSUME Asked, NEW x, Whole(x), NEW n \in 1..Len(x), NEW s, IsScan(s),
         ScanIn(x, n - 1, s) \/ ScanWritten(x, n - 1, s)
  PROVE  ScanAt(x, n, ScanLine(s, x[n]))
<1>1. /\ x \in Seq(Lines) /\ Headed(x) /\ n \in Nat /\ Len(x) \in Nat /\ x[n] \in Lines /\ tape \in Tapes
      /\ s.out \in Seq(Lines)
  BY DEF Whole, Headed, Asked, IsScan
<1>2. TheLine \in Lines
  BY KeyLineFacts DEF TheLine, Asked
<1>3. n > 1 /\ Owner(x, n - 1) = tape /\ n - 1 \in 1..(n - 1) /\ n - 1 \in 1..Len(x) /\ (n - 1) + 1 = n
  BY <1>1 DEF ScanIn, ScanWritten
<1>4. s.inside /\ ~s.found /\ ScanLine(s, x[n]) = ScanInside(s, x[n])
  BY DEF ScanIn, ScanWritten, ScanLine
<1>5. /\ IsSection(x[n]) => Owner(x, n) = x[n].section
      /\ ~IsSection(x[n]) => Owner(x, n) = tape
  BY <1>1, <1>3, OwnerNext
<1>6. IsSection(x[n]) <=> x[n].key \notin Keys
  BY <1>1, LineFacts
<1>7. \A i \in 1..n : i \in 1..(n - 1) \/ i = n
  BY <1>1
<1>8. CASE IsSection(x[n])
  <2> DEFINE r == [s EXCEPT !.out = Append(IF s.added THEN s.out ELSE Append(s.out, TheLine), x[n]),
                            !.inside = FALSE, !.added = TRUE]
  <2>1. ScanInside(s, x[n]) = r
    <3> DEFINE o == (s.out \o (IF s.added THEN << >> ELSE <<TheLine>>)) \o <<x[n]>>
    <3>1. ScanInside(s, x[n]) = [s EXCEPT !.out = o, !.inside = FALSE, !.added = TRUE]
      <4>1. x[n].key # Head(todo)
        BY <1>6, <1>8 DEF Asked
      <4> QED
        BY <1>8, <4>1 DEF ScanInside, TheLine
    <3>2. o = Append(IF s.added THEN s.out ELSE Append(s.out, TheLine), x[n])
      <4>1. CASE s.added
        BY <1>1, <4>1, ConcatNone
      <4>2. CASE ~s.added
        BY <1>1, <1>2, <4>2, ConcatTwo
      <4> QED
        BY <4>1, <4>2
    <3> HIDE DEF o
    <3> QED
      BY <3>1, <3>2
  <2>2. IsScan(r) /\ ~r.inside /\ r.added /\ r.found = s.found
        /\ r.out = Append(IF s.added THEN s.out ELSE Append(s.out, TheLine), x[n])
    BY <1>1, <1>2, AppendAt DEF IsScan
  <2> HIDE DEF r
  <2>3. Owner(x, n) # tape
    <3>1. n - 1 < n
      BY <1>1
    <3> QED
      BY <1>3, <1>5, <1>8, <3>1, OneSection
  <2>4. ~IsOwn(x, n)
    BY <2>3 DEF IsOwn
  <2>5. \/ rw = "write" /\ \E i \in 1..n : IsOwn(x, i) /\ Changed(x, n, r.out, i, TheLine)
        \/ (\A i \in 1..n : ~IsOwn(x, i)) /\ Longer(x, n, r.out, n - 1, TheLine)
    <3>1. CASE ScanWritten(x, n - 1, s)
      <4>1. PICK i \in 1..(n - 1) : IsOwn(x, i) /\ Changed(x, n - 1, s.out, i, TheLine)
        BY <3>1 DEF ScanWritten
      <4>2. r.out = Append(s.out, x[n])
        BY <2>2, <3>1 DEF ScanWritten
      <4>3. Changed(x, n, r.out, i, TheLine)
        BY <1>1, <4>1, <4>2, ChangedNext
      <4>4. i \in 1..n
        BY <1>1
      <4> QED
        BY <3>1, <4>1, <4>3, <4>4 DEF ScanWritten
    <3>2. CASE ScanIn(x, n - 1, s)
      <4>1. Copied(x, n - 1, s.out) /\ r.out = Append(Append(s.out, TheLine), x[n])
        BY <2>2, <3>2 DEF ScanIn
      <4>2. Longer(x, n, r.out, n - 1, TheLine)
        BY <1>1, <1>2, <4>1, CopiedNext
      <4> QED
        BY <1>7, <2>4, <3>2, <4>2 DEF ScanIn
    <3> QED
      BY <3>1, <3>2
  <2>6. ScanBehind(x, n, r)
    BY <1>1, <1>3, <1>4, <1>8, <2>2, <2>3, <2>5 DEF ScanBehind
  <2> QED
    BY <1>4, <2>1, <2>2, <2>6 DEF ScanAt
<1>9. CASE x[n].key = Head(todo) /\ rw = "read"
  <2> DEFINE r == [s EXCEPT !.found = TRUE, !.value = x[n].value]
  <2>1. ~IsSection(x[n])
    BY <1>6, <1>9 DEF Asked
  <2>2. ScanInside(s, x[n]) = r
    BY <1>9, <2>1 DEF ScanInside
  <2>3. IsScan(r) /\ r.found /\ r.value = x[n].value /\ r.out = s.out
    BY <1>1, LineFacts DEF IsScan
  <2> HIDE DEF r
  <2>4. Copied(x, n - 1, s.out) /\ IsOwn(x, n)
    BY <1>5, <1>9, <2>1 DEF ScanIn, ScanWritten, IsOwn
  <2>5. ScanFound(x, n, r)
    BY <1>1, <1>9, <2>3, <2>4 DEF ScanFound
  <2> QED
    BY <1>4, <2>2, <2>3, <2>5 DEF ScanAt
<1>10. CASE x[n].key = Head(todo) /\ rw = "write"
  <2> DEFINE r == [s EXCEPT !.out = Append(@, TheLine), !.added = TRUE]
  <2>1. ~IsSection(x[n]) /\ rw # "read"
    BY <1>6, <1>10 DEF Asked
  <2>2. ScanInside(s, x[n]) = r
    BY <1>10, <2>1 DEF ScanInside, TheLine
  <2>3. IsScan(r) /\ r.inside /\ r.added /\ ~r.found /\ r.out = Append(s.out, TheLine)
    BY <1>1, <1>2, <1>4, AppendAt DEF IsScan
  <2> HIDE DEF r
  <2>4. IsOwn(x, n) /\ Owner(x, n) = tape
    BY <1>5, <1>10, <2>1 DEF IsOwn
  <2>5. ScanIn(x, n - 1, s)
    <3>1. ASSUME NEW i \in 1..(n - 1), IsOwn(x, i) PROVE FALSE
      <4>1. i \in 1..Len(x) /\ i # n
        BY <1>1
      <4> QED
        BY <2>4, <3>1, <4>1, WholeOnce DEF IsOwn
    <3> QED
      BY <3>1 DEF ScanWritten
  <2>6. Changed(x, n, r.out, n, TheLine)
    BY <1>1, <1>2, <2>3, <2>5, CopiedNext DEF ScanIn
  <2>7. ScanWritten(x, n, r)
    BY <1>1, <1>10, <2>3, <2>4, <2>6 DEF ScanWritten
  <2> QED
    BY <1>4, <2>2, <2>3, <2>7 DEF ScanAt
<1>11. CASE ~IsSection(x[n]) /\ x[n].key # Head(todo)
  <2> DEFINE r == [s EXCEPT !.out = Append(@, x[n])]
  <2>1. ScanInside(s, x[n]) = r
    BY <1>11 DEF ScanInside
  <2>2. IsScan(r) /\ r.inside /\ r.added = s.added /\ ~r.found /\ r.out = Append(s.out, x[n])
    BY <1>1, <1>4, AppendAt DEF IsScan
  <2> HIDE DEF r
  <2>3. ~IsOwn(x, n) /\ Owner(x, n) = tape
    BY <1>5, <1>11 DEF IsOwn
  <2>4. CASE ScanIn(x, n - 1, s)
    <3>1. Copied(x, n, r.out)
      BY <1>1, <2>2, <2>4, CopiedNext DEF ScanIn
    <3>2. ScanIn(x, n, r)
      BY <1>1, <1>7, <2>2, <2>3, <2>4, <3>1 DEF ScanIn
    <3> QED
      BY <1>4, <2>1, <2>2, <3>2 DEF ScanAt
  <2>5. CASE ScanWritten(x, n - 1, s)
    <3>1. PICK i \in 1..(n - 1) : IsOwn(x, i) /\ Changed(x, n - 1, s.out, i, TheLine)
      BY <2>5 DEF ScanWritten
    <3>2. Changed(x, n, r.out, i, TheLine) /\ i \in 1..n
      BY <1>1, <2>2, <3>1, ChangedNext
    <3>3. ScanWritten(x, n, r)
      BY <1>1, <2>2, <2>3, <2>5, <3>1, <3>2 DEF ScanWritten
    <3> QED
      BY <1>4, <2>1, <2>2, <3>3 DEF ScanAt
  <2> QED
    BY <2>4, <2>5
<1> QED
  BY <1>8, <1>9, <1>10, <1>11 DEF Asked

LEMMA ScanStep ==
  ASSUME Asked, NEW x, Whole(x), NEW n \in 1..Len(x), NEW s, ScanAt(x, n - 1, s)
  PROVE  ScanAt(x, n, ScanLine(s, x[n]))
<1>1. CASE ScanFound(x, n - 1, s)
  <2>1. ScanLine(s, x[n]) = s
    BY <1>1 DEF ScanFound, ScanLine
  <2>2. 1..(n - 1) \subseteq 1..n
    OBVIOUS
  <2>3. ScanFound(x, n, s)
    BY <1>1, <2>2 DEF ScanFound
  <2> QED
    BY <2>1, <2>3 DEF ScanAt
<1>2. CASE ScanBefore(x, n - 1, s) \/ ScanBehind(x, n - 1, s)
  BY <1>2, OutsideStep DEF ScanAt
<1>3. CASE ScanIn(x, n - 1, s) \/ ScanWritten(x, n - 1, s)
  BY <1>3, InsideStep DEF ScanAt
<1> QED
  BY <1>1, <1>2, <1>3 DEF ScanAt

\* So the scan of a whole file ends in one of the five ways.
LEMMA WholeScanAt ==
  ASSUME Asked, Whole(ini.text)
  PROVE  ScanAt(ini.text, Len(ini.text), WholeScan)
<1> DEFINE x == ini.text
           N == Len(x)
           S == {n \in Nat : n <= N /\ ~ScanAt(x, n, Scanned[n])}
<1>1. x \in Seq(Lines) /\ N \in Nat
  BY DEF Whole, Headed
<1>2. /\ Scanned[0] = BeforeScan
      /\ \A n \in 1..N : Scanned[n] = ScanLine(Scanned[n - 1], x[n])
  BY <1>1, ScanSteps
<1>3. ScanAt(x, 0, BeforeScan)
  <2>1. IsScan(BeforeScan)
    BY DEF IsScan, BeforeScan
  <2>2. ScanBefore(x, 0, BeforeScan)
    BY DEF ScanBefore, BeforeScan, Copied
  <2> QED
    BY <2>1, <2>2 DEF ScanAt
<1>4. S = {}
  <2> SUFFICES ASSUME S # {} PROVE FALSE
    OBVIOUS
  <2>1. PICK k \in S : \A m \in S : k <= m
    <3>1. S \subseteq Nat
      OBVIOUS
    <3> HIDE DEF S
    <3> QED
      BY <3>1, LeastOf
  <2>2. k # 0
    BY <1>2, <1>3, <2>1
  <2>3. k \in 1..N /\ k - 1 \in Nat /\ k - 1 <= N /\ ~(k <= k - 1)
    BY <1>1, <2>1, <2>2
  <2>4. k - 1 \notin S
    <3> HIDE DEF S
    <3> QED
      BY <2>1, <2>3
  <2>5. ScanAt(x, k - 1, Scanned[k - 1])
    BY <2>3, <2>4
  <2>6. ScanAt(x, k, Scanned[k])
    BY <1>2, <2>3, <2>5, ScanStep
  <2> QED
    BY <2>1, <2>6
<1>5. N \notin S
  BY <1>4
<1> QED
  BY <1>1, <1>5 DEF WholeScan
-----------------------------------------------------------------------------
(* The copy a scan leaves *)

\* The copy of a read: the file itself, or with an empty key for the tape.
Grown(x, y, t) ==
  y = x \/ \E e \in 1..Len(x) : \E k \in Keys : Owner(x, e) = t /\ Insertion(x, y, e, KeyLine(k, 0))

\* What a read that found its key has copied: a beginning that ends in the section
\* of the tape.
Harmless(text, x, t) ==
  /\ text \in Seq(Lines) /\ Len(text) < Len(x)
  /\ \A j \in 1..Len(text) : text[j] = x[j]
  /\ Owner(x, Len(text) + 1) = t

LEMMA HarmlessGrown ==
  ASSUME NEW x, Whole(x), NEW y, NEW t \in Tapes, Grown(x, y, t), NEW text, Harmless(text, x, t)
  PROVE  Harmless(text, y, t)
<1>1. CASE y = x
  BY <1>1
<1>2. CASE y # x
  <2>1. PICK e \in 1..Len(x), k \in Keys : Owner(x, e) = t /\ Insertion(x, y, e, KeyLine(k, 0))
    BY <1>2 DEF Grown
  <2> DEFINE p == Len(text) + 1
  <2>2. Headed(x) /\ x \in Seq(Lines) /\ Len(x) \in Nat /\ p \in 1..Len(x) /\ Owner(x, p) = t /\ Len(text) \in Nat
    BY DEF Whole, Headed, Harmless
  <2>3. p <= e
    <3> SUFFICES ASSUME p > e PROVE FALSE
      BY <2>2
    <3>1. e < Len(x) /\ e + 1 \in 1..Len(x) /\ IsSection(x[e + 1])
      BY <2>1, <2>2 DEF Insertion
    <3>2. PICK h \in 1..p : HeaderOf(x, p, h)
      BY <2>2, HeaderExists
    <3>3. IsSection(x[h]) /\ x[h].section = Owner(x, e)
      BY <2>1, <2>2, <3>2, OwnerIs DEF HeaderOf
    <3>4. ~(h < e + 1)
      <4> SUFFICES ASSUME h < e + 1 PROVE FALSE
        OBVIOUS
      <4>1. e + 1 \in (h + 1)..p
        BY <2>2, <3>1, <3>2
      <4> QED
        BY <3>1, <3>2, <4>1 DEF HeaderOf
    <3>5. h \in 1..Len(x) /\ e < h
      BY <2>2, <3>2, <3>4
    <3> QED
      BY <3>3, <3>5, OneSection
  <2>4. OwnersMoved(x, y, e)
    BY <2>1, InsertedOwners
  <2>5. Owner(y, p) = t
    <3>1. p \in 1..e
      BY <2>2, <2>3
    <3> QED
      BY <2>2, <2>4, <3>1 DEF OwnersMoved
  <2>6. Len(y) = Len(x) + 1 /\ \A j \in 1..e : y[j] = x[j]
    BY <2>1, <2>2 DEF Insertion
  <2>7. \A j \in 1..Len(text) : j \in 1..e
    BY <2>2, <2>3
  <2> QED
    BY <2>2, <2>5, <2>6, <2>7 DEF Harmless
<1> QED
  BY <1>1, <1>2

\* A beginning of a whole text is whole.
Begins(text, x) == text \in Seq(Lines) /\ Len(text) <= Len(x) /\ \A j \in 1..Len(text) : text[j] = x[j]

LEMMA BeginningWhole ==
  ASSUME NEW x, Whole(x), NEW text, Begins(text, x)
  PROVE  Whole(text)
<1>1. x \in Seq(Lines) /\ Headed(x) /\ Len(x) \in Nat /\ text \in Seq(Lines) /\ Len(text) \in Nat
      /\ Len(text) <= Len(x) /\ \A j \in 1..Len(text) : text[j] = x[j]
  BY DEF Whole, Headed, Begins
<1>2. Headed(text)
  BY <1>1 DEF Headed
<1>3. ASSUME NEW i \in 1..Len(text) PROVE Owner(text, i) = Owner(x, i)
  <2>1. i \in 1..Len(x)
    BY <1>1
  <2>2. PICK h \in 1..i : HeaderOf(x, i, h)
    BY <1>1, <2>1, HeaderExists
  <2>3. HeaderOf(text, i, h) /\ text[h] = x[h]
    BY <1>1, <2>2 DEF HeaderOf
  <2> QED
    BY <1>1, <2>1, <2>2, <2>3, OwnerIs
<1>4. ASSUME NEW i \in 1..Len(text), NEW j \in 1..(i - 1), text[i].key = text[j].key
      PROVE  Owner(text, i) # Owner(text, j)
  <2>1. i \in 1..Len(x) /\ j \in 1..Len(text) /\ x[i].key = x[j].key
    BY <1>1, <1>4
  <2>2. Owner(x, i) # Owner(x, j)
    BY <2>1 DEF Whole, OneLine
  <2> QED
    BY <1>3, <2>1, <2>2
<1> QED
  BY <1>2, <1>4 DEF Whole, OneLine

\* A read that finds its key has the number of the file and a harmless copy.
LEMMA Found ==
  ASSUME Asked, Whole(ini.text), WholeScan.found
  PROVE  /\ rw = "read" /\ WholeScan.value = Number(ini.text, tape, Head(todo)) /\ WholeScan.value \in Nat
         /\ Harmless(WholeScan.out, ini.text, tape)
<1>1. ScanFound(ini.text, Len(ini.text), WholeScan) /\ IsScan(WholeScan)
  BY WholeScanAt DEF ScanAt, ScanBefore, ScanIn, ScanWritten, ScanBehind
<1>2. PICK i \in 1..Len(ini.text) : IsOwn(ini.text, i) /\ WholeScan.value = ini.text[i].value
                                 /\ Copied(ini.text, i - 1, WholeScan.out)
  BY <1>1 DEF ScanFound
<1>3. WholeScan.value = Number(ini.text, tape, Head(todo))
  BY <1>2, NumberIs DEF IsOwn
<1>4. Harmless(WholeScan.out, ini.text, tape)
  <2>1. Len(ini.text) \in Nat /\ (i - 1) + 1 = i
    BY DEF Whole, Headed
  <2> QED
    BY <1>2, <2>1 DEF Harmless, Copied, IsOwn
<1> QED
  BY <1>1, <1>3, <1>4 DEF ScanFound, IsScan

\* The copy of a scan that goes to the end.
GoodCopy(x, y) ==
  /\ Whole(y)
  /\ Table(y) = [Table(x) EXCEPT ![tape][Head(todo)] = value]
  /\ rw = "read" => Grown(x, y, tape) /\ Number(x, tape, Head(todo)) = 0

LEMMA EndOfLonger ==
  ASSUME Asked, NEW x, Whole(x), rw = "read" => value = 0, NEW e \in 1..Len(x), Owner(x, e) = tape,
         \A i \in 1..Len(x) : ~IsOwn(x, i), NEW y, Insertion(x, y, e, TheLine)
  PROVE  GoodCopy(x, y)
<1>1. \A i \in 1..Len(x) : ~(x[i].key = Head(todo) /\ Owner(x, i) = tape)
  BY DEF IsOwn
<1>2. Becomes(x, y, tape, Head(todo), value)
  <2>1. Head(todo) \in Keys /\ value \in Nat /\ Insertion(x, y, e, KeyLine(Head(todo), value))
    BY DEF TheLine, Asked
  <2>2. \A i \in 1..Len(x) : ~(x[i].key = Head(todo) /\ Owner(x, i) = Owner(x, e))
    BY <1>1
  <2>3. Becomes(x, y, Owner(x, e), Head(todo), value)
    BY <2>1, <2>2, Inserted
  <2> QED
    BY <2>3
<1>3. Number(x, tape, Head(todo)) = 0
  BY <1>1, NumberNone
<1>4. rw = "read" => Grown(x, y, tape)
  BY DEF Grown, TheLine, Asked
<1> QED
  BY <1>2, <1>3, <1>4 DEF GoodCopy, Becomes

LEMMA EndOfChanged ==
  ASSUME Asked, NEW x, Whole(x), rw = "write", NEW i \in 1..Len(x), IsOwn(x, i),
         NEW y, Changed(x, Len(x), y, i, TheLine)
  PROVE  GoodCopy(x, y)
<1>1. Becomes(x, y, Owner(x, i), Head(todo), value)
  BY Replaced DEF Changed, IsOwn, TheLine, Asked
<1>2. Owner(x, i) = tape
  BY DEF IsOwn
<1> QED
  BY <1>1, <1>2 DEF GoodCopy, Becomes

LEMMA CopiedAll ==
  ASSUME NEW x \in Seq(Lines), NEW out, Copied(x, Len(x), out)
  PROVE  out = x
<1>1. out \in Seq(Lines) /\ Len(out) = Len(x) /\ \A j \in 1..Len(out) : out[j] = x[j]
  BY DEF Copied
<1> QED
  BY <1>1, SeqEqual

LEMMA EndOfCopied ==
  ASSUME Asked, NEW x, Whole(x), rw = "read", value = 0, \A i \in 1..Len(x) : ~IsOwn(x, i),
         NEW y, Copied(x, Len(x), y)
  PROVE  GoodCopy(x, y)
<1>1. \A i \in 1..Len(x) : ~(x[i].key = Head(todo) /\ Owner(x, i) = tape)
  BY DEF IsOwn
<1>2. Number(x, tape, Head(todo)) = 0 /\ Table(x) = [Table(x) EXCEPT ![tape][Head(todo)] = 0]
  BY <1>1, Unchanged DEF Asked
<1>3. y = x
  BY CopiedAll DEF Whole, Headed
<1> QED
  BY <1>2, <1>3 DEF GoodCopy, Grown

LEMMA EndOfAddition ==
  ASSUME Asked, NEW x, Whole(x), rw = "write", \A i \in 1..Len(x) : Owner(x, i) # tape,
         NEW y, Addition(x, y, tape, TheLine)
  PROVE  GoodCopy(x, y)
<1>1. Becomes(x, y, tape, Head(todo), value)
  <2>1. Head(todo) \in Keys /\ value \in Nat /\ tape \in Tapes /\ Addition(x, y, tape, KeyLine(Head(todo), value))
    BY DEF TheLine, Asked
  <2> QED
    BY <2>1, Added
<1> QED
  BY <1>1 DEF GoodCopy, Becomes

LEMMA CopiedAdded ==
  ASSUME NEW x \in Seq(Lines), NEW out, Copied(x, Len(x), out), NEW t \in Tapes, Section(t) \in Lines, NEW l \in Lines
  PROVE  Addition(x, out \o <<Section(t), l>>, t, l)
<1>1. out \in Seq(Lines) /\ Len(out) = Len(x) /\ \A j \in 1..Len(x) : out[j] = x[j]
  BY DEF Copied
<1> DEFINE o == out \o <<Section(t), l>>
<1>2. o \in Seq(Lines) /\ Len(o) = Len(x) + 2
  BY <1>1
<1>3. \A j \in 1..Len(x) : o[j] = x[j]
  BY <1>1
<1>4. o[Len(x) + 1] = Section(t) /\ o[Len(x) + 2] = l
  BY <1>1
<1> HIDE DEF o
<1>5. Addition(x, o, t, l)
  BY <1>2, <1>3, <1>4 DEF Addition
<1> QED
  BY <1>5 DEF o

LEMMA CopyIsGood ==
  ASSUME Asked, Whole(ini.text), rw = "read" => value = 0, ~WholeScan.found
  PROVE  GoodCopy(ini.text, AtEnd(WholeScan))
<1> DEFINE x == ini.text
           n == Len(x)
           s == WholeScan
<1>1. x \in Seq(Lines) /\ n \in Nat /\ IsScan(s) /\ s.out \in Seq(Lines) /\ Whole(x)
  BY WholeScanAt DEF Whole, Headed, ScanAt, IsScan
<1>2. TheLine \in Lines /\ tape \in Tapes /\ Section(tape) \in Lines
  BY KeyLineFacts, SectionFacts DEF TheLine, Asked
<1>3. ScanBefore(x, n, s) \/ ScanIn(x, n, s) \/ ScanWritten(x, n, s) \/ ScanBehind(x, n, s)
  BY WholeScanAt DEF ScanAt, ScanFound
<1>n. n = Len(x) /\ (rw = "read" => value = 0)
  OBVIOUS
<1> SUFFICES GoodCopy(x, AtEnd(s))
  OBVIOUS
<1> HIDE DEF x, n, s
<1>4. CASE ScanBefore(x, n, s)
  <2>1. ~s.inside /\ ~s.added /\ Copied(x, n, s.out) /\ \A i \in 1..n : Owner(x, i) # tape
    BY <1>4 DEF ScanBefore
  <2>2. CASE rw = "read"
    <3>1. AtEnd(s) = s.out
      BY <2>1, <2>2 DEF AtEnd
    <3>2. \A i \in 1..Len(x) : ~IsOwn(x, i)
      BY <1>n, <2>1 DEF IsOwn
    <3>3. Copied(x, Len(x), s.out)
      BY <1>n, <2>1
    <3> QED
      BY <1>n, <1>1, <2>2, <3>1, <3>2, <3>3, EndOfCopied
  <2>3. CASE rw = "write"
    <3>1. AtEnd(s) = s.out \o <<Section(tape), TheLine>>
      BY <2>1, <2>3 DEF AtEnd, TheLine
    <3>2. Addition(x, s.out \o <<Section(tape), TheLine>>, tape, TheLine)
      BY <1>n, <1>1, <1>2, <2>1, CopiedAdded
    <3> QED
      BY <1>n, <1>1, <2>1, <2>3, <3>1, <3>2, EndOfAddition
  <2> QED
    BY <2>2, <2>3 DEF Asked
<1>5. CASE ScanIn(x, n, s)
  <2>1. /\ s.inside /\ ~s.added /\ Copied(x, n, s.out) /\ n \in 1..n
        /\ Owner(x, n) = tape /\ \A i \in 1..n : ~IsOwn(x, i)
    BY <1>n, <1>1, <1>5 DEF ScanIn
  <2>2. AtEnd(s) = Append(s.out, TheLine)
    <3>1. AtEnd(s) = s.out \o <<TheLine>>
      BY <2>1 DEF AtEnd, TheLine
    <3> QED
      BY <1>n, <1>1, <1>2, <3>1, ConcatOne
  <2>3. Insertion(x, Append(s.out, TheLine), n, TheLine)
    <3>1. s.out \in Seq(Lines) /\ Len(s.out) = n /\ \A j \in 1..n : s.out[j] = x[j]
      BY <2>1 DEF Copied
    <3> DEFINE y == Append(s.out, TheLine)
    <3>2. y \in Seq(Lines) /\ Len(y) = n + 1 /\ \A j \in 1..(n + 1) : y[j] = IF j <= n THEN s.out[j] ELSE TheLine
      BY <1>2, <3>1, AppendAt
    <3> HIDE DEF y
    <3>3. Insertion(x, y, n, TheLine)
      BY <1>n, <1>1, <2>1, <3>1, <3>2 DEF Insertion
    <3> QED
      BY <3>3 DEF y
  <2> QED
    BY <1>n, <1>1, <2>1, <2>2, <2>3, EndOfLonger
<1>6. CASE ScanWritten(x, n, s)
  <2>1. AtEnd(s) = s.out
    BY <1>6 DEF ScanWritten, AtEnd
  <2> QED
    BY <1>n, <1>1, <1>6, <2>1, EndOfChanged DEF ScanWritten
<1>7. CASE ScanBehind(x, n, s)
  <2>1. AtEnd(s) = s.out
    BY <1>7 DEF ScanBehind, AtEnd
  <2>2. PICK e \in 1..(n - 1) :
          /\ Owner(x, e) = tape /\ IsSection(x[e + 1])
          /\ \/ rw = "write" /\ \E i \in 1..n : IsOwn(x, i) /\ Changed(x, n, s.out, i, TheLine)
             \/ (\A i \in 1..n : ~IsOwn(x, i)) /\ Longer(x, n, s.out, e, TheLine)
    BY <1>7 DEF ScanBehind
  <2>3. CASE rw = "write" /\ \E i \in 1..n : IsOwn(x, i) /\ Changed(x, n, s.out, i, TheLine)
    BY <1>n, <1>1, <2>1, <2>3, EndOfChanged
  <2>4. CASE (\A i \in 1..n : ~IsOwn(x, i)) /\ Longer(x, n, s.out, e, TheLine)
    <3>1. Insertion(x, s.out, e, TheLine) /\ e \in 1..n
      BY <1>n, <1>1, <2>2, <2>4 DEF Longer, Insertion
    <3> QED
      BY <1>n, <1>1, <2>1, <2>2, <2>4, <3>1, EndOfLonger
  <2> QED
    BY <2>2, <2>3, <2>4
<1> QED
  BY <1>3, <1>4, <1>5, <1>6, <1>7

-----------------------------------------------------------------------------
(* Files and streams *)

IsFile(f) == f \in [id : Nat, text : Seq(Lines)] /\ (f.id = 0 => f = NoFile)
Stream == [id : Nat \ {0}, text : Seq(Lines)]
Streams == Seq(Stream)

\* A new file has the identity of no other.
LEMMA NewIdFresh ==
  ASSUME IsFile(ini), IsFile(temp), leaked \in Streams
  PROVE  NewId \in Nat \ {0} /\ NewId \notin Used
<1> DEFINE n == Len(leaked)
           f == [i \in 1..(n + 2) |-> IF i <= n THEN leaked[i].id ELSE IF i = n + 1 THEN ini.id ELSE temp.id]
<1>1. n \in Nat
  BY DEF Streams
<1>2. f \in Surjection(1..(n + 2), Used)
  <2>1. ASSUME NEW i \in 1..(n + 2) PROVE f[i] \in Used
    <3>1. i <= n => i \in 1..Len(leaked)
      BY <1>1
    <3> QED
      BY <3>1 DEF Used
  <2>2. ASSUME NEW u \in Used PROVE \E i \in 1..(n + 2) : f[i] = u
    <3>1. CASE u = ini.id
      <4>1. n + 1 \in 1..(n + 2) /\ ~(n + 1 <= n)
        BY <1>1
      <4>2. f[n + 1] = u
        BY <3>1, <4>1
      <4> QED
        BY <4>1, <4>2
    <3>2. CASE u = temp.id
      <4>1. n + 2 \in 1..(n + 2) /\ ~(n + 2 <= n) /\ n + 2 # n + 1
        BY <1>1
      <4>2. f[n + 2] = u
        BY <3>2, <4>1
      <4> QED
        BY <4>1, <4>2
    <3>3. CASE \E i \in 1..Len(leaked) : u = leaked[i].id
      <4>1. PICK i \in 1..Len(leaked) : u = leaked[i].id
        BY <3>3
      <4>2. i \in 1..(n + 2) /\ i <= n
        BY <1>1, <4>1
      <4>3. f[i] = u
        BY <4>1, <4>2
      <4> QED
        BY <4>2, <4>3
    <3> QED
      BY <3>1, <3>2, <3>3 DEF Used
  <2>3. f \in [1..(n + 2) -> Used]
    BY <2>1
  <2> HIDE DEF f
  <2> QED
    BY <2>2, <2>3 DEF Surjection
<1> HIDE DEF f, n
<1>3. IsFiniteSet(1..(n + 2)) /\ Cardinality(1..(n + 2)) = n + 2
  <2>1. 1 \in Int /\ n + 2 \in Int /\ ~(1 > n + 2) /\ (n + 2) - 1 + 1 = n + 2
    BY <1>1
  <2> QED
    BY <2>1, FS_Interval
<1>4. IsFiniteSet(Used) /\ Cardinality(Used) <= n + 2
  BY <1>2, <1>3, FS_Surjection
<1>5. Cardinality(1..(n + 3)) = n + 3 /\ Cardinality(Used) \in Nat
  <2>1. 1 \in Int /\ n + 3 \in Int /\ ~(1 > n + 3) /\ (n + 3) - 1 + 1 = n + 3
    BY <1>1
  <2> QED
    BY <1>4, <2>1, FS_Interval, FS_CardinalityType
<1>6. ~(1..(n + 3) \subseteq Used)
  <2> SUFFICES ASSUME 1..(n + 3) \subseteq Used PROVE FALSE
    OBVIOUS
  <2>1. Cardinality(1..(n + 3)) <= Cardinality(Used)
    BY <1>4, FS_Subset
  <2> QED
    BY <1>1, <1>4, <1>5, <2>1
<1>7. NewId \in 1..(n + 3) /\ NewId \notin Used
  BY <1>6 DEF NewId, n
<1> QED
  BY <1>1, <1>7

LEMMA Joined ==
  ASSUME NEW a \in Seq(Lines), NEW r \in Seq(Lines)
  PROVE  /\ a \o r \in Seq(Lines) /\ Len(a \o r) = Len(a) + Len(r)
         /\ \A j \in 1..Len(a \o r) : (a \o r)[j] = IF j <= Len(a) THEN a[j] ELSE r[j - Len(a)]
<1>1. a \o r \in Seq(Lines)
  OBVIOUS
<1>2. Len(a \o r) = Len(a) + Len(r)
  OBVIOUS
<1>3. \A j \in 1..Len(a \o r) : (a \o r)[j] = IF j <= Len(a) THEN a[j] ELSE r[j - Len(a)]
  BY <1>2
<1> QED
  BY <1>1, <1>2, <1>3

\* Flushing the beginning of a text to a file that holds a beginning of it.
LEMMA FlushedBegins ==
  ASSUME NEW f, IsFile(f), NEW s \in Stream, NEW x \in Seq(Lines),
         Begins(f.text, x), s.id = f.id => Begins(s.text, x)
  PROVE  /\ IsFile(Flushed(f, s)) /\ Flushed(f, s).id = f.id
         /\ Begins(Flushed(f, s).text, x) /\ Len(f.text) <= Len(Flushed(f, s).text)
<1>1. CASE f.id # s.id
  <2>1. Flushed(f, s) = f
    BY <1>1 DEF Flushed
  <2> QED
    BY <2>1 DEF IsFile
<1>2. CASE f.id = s.id
  <2> DEFINE a == s.text
             b == f.text
             r == SubSeq(b, Len(a) + 1, Len(b))
             o == a \o r
  <2>1. /\ a \in Seq(Lines) /\ Len(a) \in Nat /\ Len(a) <= Len(x) /\ \A j \in 1..Len(a) : a[j] = x[j]
        /\ b \in Seq(Lines) /\ Len(b) \in Nat /\ Len(b) <= Len(x) /\ \A j \in 1..Len(b) : b[j] = x[j]
    BY <1>2 DEF Begins, Stream
  <2>2. Flushed(f, s) = [f EXCEPT !.text = o]
    BY <1>2 DEF Flushed
  <2>3. f \in [id : Nat, text : Seq(Lines)] /\ f.id # 0
    BY <1>2 DEF IsFile, Stream
  <2> HIDE DEF a, b
  <2>4. r \in Seq(Lines) /\ Len(r) = (IF Len(b) > Len(a) THEN Len(b) - Len(a) ELSE 0)
        /\ \A j \in 1..Len(r) : r[j] = b[Len(a) + j]
    <3>1. Len(a) + 1 \in Int /\ Len(b) \in Int
      BY <2>1
    <3>2. \A j \in (Len(a) + 1)..Len(b) : b[j] \in Lines
      BY <2>1
    <3> QED
      BY <2>1, <3>1, <3>2
  <2> HIDE DEF r
  <2>5. o \in Seq(Lines) /\ Len(o) = Len(a) + Len(r)
        /\ \A j \in 1..Len(o) : o[j] = IF j <= Len(a) THEN a[j] ELSE r[j - Len(a)]
    BY <2>1, <2>4, Joined
  <2> HIDE DEF o
  <2>6. Len(o) <= Len(x) /\ Len(b) <= Len(o)
    BY <2>1, <2>4, <2>5
  <2>7. ASSUME NEW j \in 1..Len(o) PROVE o[j] = x[j]
    <3>1. CASE j <= Len(a)
      BY <2>1, <2>5, <3>1
    <3>2. CASE ~(j <= Len(a))
      <4>1. j - Len(a) \in 1..Len(r) /\ Len(a) + (j - Len(a)) = j /\ j \in 1..Len(b)
        BY <2>1, <2>4, <2>5, <3>2
      <4>2. o[j] = r[j - Len(a)] /\ r[j - Len(a)] = b[j]
        BY <2>4, <2>5, <3>2, <4>1
      <4> QED
        BY <2>1, <4>1, <4>2
    <3> QED
      BY <3>1, <3>2
  <2>8. Begins(o, x)
    BY <2>5, <2>6, <2>7 DEF Begins
  <2>9. Flushed(f, s).id = f.id /\ Flushed(f, s).text = o /\ Flushed(f, s) \in [id : Nat, text : Seq(Lines)]
    BY <2>2, <2>3, <2>5
  <2> QED
    BY <2>3, <2>6, <2>8, <2>9 DEF IsFile, b
<1> QED
  BY <1>1, <1>2

\* f[n] is the file after the first n of the streams x have been flushed.
IsFlushing(f, N, file, x) == f = [n \in 0..N |-> IF n = 0 THEN file ELSE Flushed(f[n - 1], x[n])]

\* Flushing streams to a file has a value for every number of streams.
LEMMA FlushExists ==
  ASSUME NEW N \in Nat, NEW file, NEW x
  PROVE  \E f : IsFlushing(f, N, file, x)
<1> USE DEF IsFlushing
<1> DEFINE Fcn(f, k) == f = [n \in 0..k |-> IF n = 0 THEN file ELSE Flushed(f[n - 1], x[n])]
           S == {k \in Nat : ~\E f : Fcn(f, k)}
<1>1. S = {}
  <2> SUFFICES ASSUME S # {} PROVE FALSE
    OBVIOUS
  <2>1. PICK k \in S : \A m \in S : k <= m
    <3>1. S \subseteq Nat
      OBVIOUS
    <3> HIDE DEF S
    <3> QED
      BY <3>1, LeastOf
  <2>2. k # 0
    <3> DEFINE g == [n \in 0..0 |-> file]
    <3>1. Fcn(g, 0)
      OBVIOUS
    <3> HIDE DEF g, Fcn
    <3>2. 0 \notin S
      BY <3>1
    <3> QED
      BY <3>2
  <2>3. k - 1 \in Nat /\ k - 1 \notin S
    <3>1. k \in Nat
      OBVIOUS
    <3>2. k - 1 \in Nat /\ ~(k <= k - 1)
      BY <2>2, <3>1
    <3> HIDE DEF S
    <3> QED
      BY <2>1, <3>2
  <2>4. PICK f : Fcn(f, k - 1)
    BY <2>3
  <2> DEFINE g == [n \in 0..k |-> IF n < k THEN f[n] ELSE Flushed(f[k - 1], x[k])]
  <2>5. ASSUME NEW n \in 0..k
        PROVE  g[n] = IF n = 0 THEN file ELSE Flushed(g[n - 1], x[n])
    <3>1. k \in Nat
      OBVIOUS
    <3>2. CASE n = 0
      BY <2>2, <2>4, <3>1, <3>2
    <3>3. CASE n > 0 /\ n < k
      <4>1. n \in 0..(k - 1) /\ n - 1 \in 0..k /\ n - 1 < k /\ n # 0
        BY <3>1, <3>3
      <4>2. f[n] = Flushed(f[n - 1], x[n])
        BY <2>4, <4>1
      <4>3. g[n] = f[n] /\ g[n - 1] = f[n - 1]
        BY <3>3, <4>1
      <4> QED
        BY <4>1, <4>2, <4>3
    <3>4. CASE n = k
      <4>1. k \in 0..k /\ k - 1 \in 0..k /\ k - 1 < k /\ ~(k < k)
        BY <2>2, <3>1
      <4>2. g[k] = Flushed(f[k - 1], x[k]) /\ g[k - 1] = f[k - 1]
        BY <4>1
      <4> QED
        BY <2>2, <3>4, <4>2
    <3> QED
      BY <3>1, <3>2, <3>3, <3>4
  <2>6. Fcn(g, k)
    <3>1. g = [n \in 0..k |-> g[n]]
      OBVIOUS
    <3> HIDE DEF g
    <3> QED
      BY <2>5, <3>1
  <2> HIDE DEF g, Fcn
  <2>7. k \notin S
    BY <2>6
  <2> QED
    BY <2>7
<1>2. \E f : Fcn(f, N)
  BY <1>1
<1> QED
  BY <1>2

\* All the streams of a file flushed, of which each has written a beginning of x.
LEMMA AfterFlushBegins ==
  ASSUME leaked \in Streams, NEW file, IsFile(file), NEW x \in Seq(Lines), Begins(file.text, x),
         \A i \in 1..Len(leaked) : leaked[i].id = file.id => Begins(leaked[i].text, x)
  PROVE  /\ IsFile(AfterFlush(file)) /\ AfterFlush(file).id = file.id
         /\ Begins(AfterFlush(file).text, x) /\ Len(file.text) <= Len(AfterFlush(file).text)
<1> DEFINE N == Len(leaked)
           f == CHOOSE f : f = [n \in 0..N |-> IF n = 0 THEN file ELSE Flushed(f[n - 1], leaked[n])]
           Good(g) == /\ IsFile(g) /\ g.id = file.id /\ Begins(g.text, x) /\ Len(file.text) <= Len(g.text)
           S == {n \in Nat : n <= N /\ ~Good(f[n])}
<1>0. \A i \in 1..N : leaked[i] \in Stream
  BY DEF Streams
<1>1. N \in Nat
  BY DEF Streams
<1>e. \E g : IsFlushing(g, N, file, leaked)
  BY <1>1, FlushExists
<1>2. f = [n \in 0..N |-> IF n = 0 THEN file ELSE Flushed(f[n - 1], leaked[n])]
  BY <1>e, Zenon DEF IsFlushing
<1>3. AfterFlush(file) = f[N]
  BY DEF AfterFlush
<1> HIDE DEF f
<1>4. f[0] = file /\ \A n \in 1..N : f[n] = Flushed(f[n - 1], leaked[n])
  <2>1. ASSUME NEW n \in 1..N PROVE f[n] = Flushed(f[n - 1], leaked[n])
    <3>1. n \in 0..N /\ n # 0
      BY <1>1
    <3> QED
      BY <1>2, <3>1
  <2>2. f[0] = file
    BY <1>1, <1>2
  <2> QED
    BY <2>1, <2>2
<1>5. S = {}
  <2> SUFFICES ASSUME S # {} PROVE FALSE
    OBVIOUS
  <2>1. PICK k \in S : \A m \in S : k <= m
    <3>1. S \subseteq Nat
      OBVIOUS
    <3> HIDE DEF S
    <3> QED
      BY <3>1, LeastOf
  <2>2. k # 0
    <3>1. Good(f[0])
      <4>1. Len(file.text) \in Nat
        BY DEF Begins
      <4> QED
        BY <1>4, <4>1
    <3> HIDE DEF Good
    <3> QED
      BY <2>1, <3>1
  <2>3. k \in 1..N /\ k - 1 \in Nat /\ k - 1 <= N /\ ~(k <= k - 1)
    BY <1>1, <2>1, <2>2
  <2>4. k - 1 \notin S
    <3> HIDE DEF S
    <3> QED
      BY <2>1, <2>3
  <2>5. Good(f[k - 1])
    BY <2>3, <2>4
  <2>6. Good(f[k])
    <3> DEFINE g == f[k - 1]
               h == Flushed(g, leaked[k])
    <3>0. Good(g)
      BY <2>5
    <3>1. f[k] = h
      BY <1>4, <2>3
    <3>2. leaked[k] \in Stream
      BY <2>3, <1>0
    <3> HIDE DEF g
    <3>3. leaked[k].id = g.id => Begins(leaked[k].text, x)
      BY <2>3, <3>0
    <3>4. IsFile(h) /\ h.id = g.id /\ Begins(h.text, x) /\ Len(g.text) <= Len(h.text)
      BY <3>0, <3>2, <3>3, FlushedBegins
    <3>5. Len(file.text) \in Nat /\ Len(g.text) \in Nat /\ Len(h.text) \in Nat
      BY <3>0, <3>4 DEF Begins
    <3> HIDE DEF h
    <3>6. Good(h)
      BY <3>0, <3>4, <3>5
    <3> HIDE DEF Good
    <3> QED
      BY <3>1, <3>6
  <2> QED
    BY <2>1, <2>6
<1>6. Good(f[N])
  <2>1. N \notin S
    BY <1>5
  <2> HIDE DEF Good
  <2> QED
    BY <1>1, <2>1
<1> QED
  BY <1>3, <1>6

\* A file flushed with beginnings of its own text stays as it is.
LEMMA AfterFlushSame ==
  ASSUME leaked \in Streams, NEW file, IsFile(file),
         \A i \in 1..Len(leaked) : leaked[i].id = file.id => Begins(leaked[i].text, file.text)
  PROVE  AfterFlush(file) = file
<1> DEFINE g == AfterFlush(file)
<1>1. file \in [id : Nat, text : Seq(Lines)] /\ Begins(file.text, file.text)
  BY DEF IsFile, Begins
<1>2. IsFile(g) /\ g.id = file.id /\ Begins(g.text, file.text) /\ Len(file.text) <= Len(g.text)
  BY <1>1, AfterFlushBegins
<1>3. g \in [id : Nat, text : Seq(Lines)]
  BY <1>2 DEF IsFile
<1> HIDE DEF g
<1>4. Len(g.text) = Len(file.text) /\ \A j \in 1..Len(g.text) : g.text[j] = file.text[j]
  BY <1>1, <1>2, <1>3 DEF Begins
<1>5. g.text = file.text
  <2>1. g.text \in Seq(Lines) /\ file.text \in Seq(Lines)
    BY <1>1, <1>3
  <2> QED
    BY <1>4, <2>1, SeqEqual
<1>6. g = file
  BY <1>1, <1>2, <1>3, <1>5
<1> QED
  BY <1>6 DEF g

-----------------------------------------------------------------------------
(* The keys still to be done *)

Todos ==
  {<<"PR", "OCM", "PO", "Object_number">>, <<"OCM", "PO", "Object_number">>, <<"PO", "Object_number">>,
   <<"Object_number">>, << >>}
Left(keys) == {keys[i] : i \in 1..Len(keys)}

\* One key is done at a time.
Advances(d) ==
  /\ Head(d) \in Keys /\ Tail(d) \in Todos /\ Tail(d) # KeyOrder
  /\ Len(d) = 1 <=> Tail(d) = << >>
  /\ Left(d) = {Head(d)} \cup Left(Tail(d)) /\ Head(d) \notin Left(Tail(d)) /\ Left(d) \subseteq Keys

LEMMA TodoFacts ==
  /\ Left(<< >>) = {} /\ KeyOrder \in Todos /\ KeyOrder # << >> /\ Left(KeyOrder) = Keys
  /\ \A d \in Todos : d # << >> => Advances(d)
<1> DEFINE a == <<"PR", "OCM", "PO", "Object_number">>
           b == <<"OCM", "PO", "Object_number">>
           c == <<"PO", "Object_number">>
           d == <<"Object_number">>
<1>1. /\ Head(a) = "PR" /\ Tail(a) = b /\ Len(a) = 4
      /\ Head(b) = "OCM" /\ Tail(b) = c /\ Len(b) = 3
      /\ Head(c) = "PO" /\ Tail(c) = d /\ Len(c) = 2
      /\ Head(d) = "Object_number" /\ Tail(d) = << >> /\ Len(d) = 1
  OBVIOUS
<1>2. Left(a) = {"PR", "OCM", "PO", "Object_number"}
  <2>1. Len(a) = 4 /\ a[1] = "PR" /\ a[2] = "OCM" /\ a[3] = "PO" /\ a[4] = "Object_number"
    OBVIOUS
  <2> HIDE DEF a
  <2> QED
    BY <2>1 DEF Left
<1>3. Left(b) = {"OCM", "PO", "Object_number"}
  <2>1. Len(b) = 3 /\ b[1] = "OCM" /\ b[2] = "PO" /\ b[3] = "Object_number"
    OBVIOUS
  <2> HIDE DEF b
  <2> QED
    BY <2>1 DEF Left
<1>4. Left(c) = {"PO", "Object_number"}
  <2>1. Len(c) = 2 /\ c[1] = "PO" /\ c[2] = "Object_number"
    OBVIOUS
  <2> HIDE DEF c
  <2> QED
    BY <2>1 DEF Left
<1>5. Left(d) = {"Object_number"}
  <2>1. Len(d) = 1 /\ d[1] = "Object_number"
    OBVIOUS
  <2> HIDE DEF d
  <2> QED
    BY <2>1 DEF Left
<1>6. Left(<< >>) = {} /\ Len(<< >>) = 0
  BY DEF Left
<1>7. a = KeyOrder
  BY DEF KeyOrder
<1>l. Len(a) = 4 /\ Len(b) = 3 /\ Len(c) = 2 /\ Len(d) = 1 /\ Len(<< >>) = 0
  OBVIOUS
<1>8. a # b /\ a # c /\ a # d /\ a # << >> /\ b # << >> /\ c # << >> /\ d # << >>
  <2>1. \A s : Len(s) # 0 => s # << >>
    BY <1>l
  <2>2. a # << >> /\ b # << >> /\ c # << >> /\ d # << >>
    <3> HIDE DEF a, b, c, d
    <3> QED
      BY <1>l, <2>1
  <2> HIDE DEF a, b, c, d
  <2>3. Len(a) # Len(b) /\ Len(a) # Len(c) /\ Len(a) # Len(d)
    BY <1>l
  <2> QED
    BY <2>2, <2>3, Zenon
<1>9. Todos = {a, b, c, d, << >>}
  BY DEF Todos
<1> HIDE DEF a, b, c, d
<1>10. Advances(a)
  <2>1. Head(a) \in Keys /\ Left(a) \subseteq Keys
    BY <1>1, <1>2, KeysAre
  <2>2. Tail(a) = b /\ b \in Todos /\ b # KeyOrder /\ Len(a) # 1 /\ b # << >>
    BY <1>1, <1>l, <1>7, <1>8, <1>9
  <2>3. Left(a) = {Head(a)} \cup Left(b) /\ Head(a) \notin Left(b)
    BY <1>1, <1>2, <1>3
  <2> QED
    BY <2>1, <2>2, <2>3 DEF Advances
<1>11. Advances(b)
  <2>1. Head(b) \in Keys /\ Left(b) \subseteq Keys
    BY <1>1, <1>3, KeysAre
  <2>2. Tail(b) = c /\ c \in Todos /\ c # KeyOrder /\ Len(b) # 1 /\ c # << >>
    BY <1>1, <1>l, <1>7, <1>8, <1>9
  <2>3. Left(b) = {Head(b)} \cup Left(c) /\ Head(b) \notin Left(c)
    BY <1>1, <1>3, <1>4
  <2> QED
    BY <2>1, <2>2, <2>3 DEF Advances
<1>12. Advances(c)
  <2>1. Head(c) \in Keys /\ Left(c) \subseteq Keys
    BY <1>1, <1>4, KeysAre
  <2>2. Tail(c) = d /\ d \in Todos /\ d # KeyOrder /\ Len(c) # 1 /\ d # << >>
    BY <1>1, <1>l, <1>7, <1>8, <1>9
  <2>3. Left(c) = {Head(c)} \cup Left(d) /\ Head(c) \notin Left(d)
    BY <1>1, <1>4, <1>5
  <2> QED
    BY <2>1, <2>2, <2>3 DEF Advances
<1>13. Advances(d)
  BY <1>1, <1>5, <1>6, <1>7, <1>8, <1>9, KeysAre DEF Advances
<1> QED
  BY <1>2, <1>6, <1>7, <1>8, <1>9, <1>10, <1>11, <1>12, <1>13, KeysAre

-----------------------------------------------------------------------------
(* The invariant *)

Busy == {"open", "scan", "remove", "rename"}

TypeOK ==
  /\ IsFile(ini) /\ IsFile(temp) /\ leaked \in Streams
  /\ pc \in Busy \cup {"idle", "off"} /\ tape \in Tapes /\ rw \in {"read", "write"}
  /\ todo \in Todos /\ (pc \in Busy <=> todo # << >>)
  /\ value \in Nat /\ writes \in Nat /\ got \in [Keys -> Nat] /\ fresh \in BOOLEAN

\* Which files there are.
FilesInv ==
  /\ pc = "off" => leaked = << >>
  /\ pc = "scan" => ini # NoFile /\ temp # NoFile /\ temp.text = << >>
  /\ pc = "remove" => ini # NoFile /\ temp # NoFile
  /\ pc = "rename" => ini = NoFile /\ temp # NoFile
  /\ pc \in {"idle", "open"} /\ leaked # << >> => temp.text = << >>

\* The texts are whole, and the copy is the file with the one number changed.
TextInv ==
  /\ Whole(ini.text) /\ Whole(temp.text)
  /\ rw = "read" /\ todo # << >> => value = 0
  /\ pc = "remove" => Table(temp.text) = [Table(ini.text) EXCEPT ![tape][Head(todo)] = value]

\* The open copies of some files are harmless; there are none.
Safe(streams, ids, x, t) ==
  \A i \in 1..Len(streams) : streams[i].id \in ids => Harmless(streams[i].text, x, t)
Closed(streams, ids) == \A i \in 1..Len(streams) : streams[i].id \notin ids

\* While the open copies can be flushed to a file they are a beginning of it: during
\* reads and after them.  The second key of a write is the first whose copy is of no
\* open stream.
LeakInv ==
  /\ (pc = "idle" \/ (rw = "read" /\ pc \in {"open", "scan"})) =>
       Safe(leaked, {ini.id, temp.id}, ini.text, tape)
  /\ (rw = "read" /\ pc \in {"remove", "rename"}) =>
       Safe(leaked, {temp.id}, temp.text, tape)
  /\ (rw = "write" /\ todo # KeyOrder /\ pc = "open") => temp = NoFile
  /\ (rw = "write" /\ todo # KeyOrder /\ pc \in {"scan", "remove", "rename"}) => Closed(leaked, {temp.id})

\* The keys a resume has read so far.
GotInv ==
  /\ (rw = "read" /\ todo # << >>) =>
       /\ \A k \in Left(todo) : got[k] = 0
       /\ pc \in {"open", "scan"} => \A k \in Keys \ Left(todo) : got[k] = Number(ini.text, tape, k)
       /\ pc \in {"remove", "rename"} =>
            \A k \in (Keys \ Left(todo)) \cup {Head(todo)} : got[k] = Number(temp.text, tape, k)
  /\ fresh => pc = "idle" /\ \A k \in Keys : got[k] = Number(ini.text, tape, k)

LogInv == TypeOK /\ FilesInv /\ TextInv /\ LeakInv /\ GotInv

-----------------------------------------------------------------------------
(* Every step keeps it *)

LEMMA EmptyWhole == Whole(<< >>) /\ Table(<< >>) = [t \in Tapes |-> [k \in Keys |-> 0]]
<1>1. Len(<< >>) = 0 /\ << >> \in Seq(Lines)
  OBVIOUS
<1>2. Whole(<< >>)
  BY <1>1 DEF Whole, Headed, OneLine
<1>3. \A t, k : Number(<< >>, t, k) = 0
  BY NumberNone
<1> QED
  BY <1>2, <1>3 DEF Table

LEMMA NothingLeaked ==
  ASSUME leaked = << >>, NEW ids, NEW x, NEW t
  PROVE  Safe(leaked, ids, x, t)
BY DEF Safe

LEMMA AskedNow ==
  ASSUME TypeOK, pc \in Busy
  PROVE  Asked /\ todo \in Todos /\ todo # << >> /\ Advances(todo)
<1>1. todo \in Todos /\ todo # << >>
  BY DEF TypeOK
<1>2. Advances(todo)
  BY <1>1, TodoFacts
<1> QED
  BY <1>1, <1>2 DEF Asked, TypeOK, Advances

LEMMA StartKeeps == ASSUME LogInv, Start PROVE LogInv'
<1>1. /\ pc = "off" /\ pc' = "idle" /\ tape' \in Tapes /\ leaked = << >> /\ todo = << >> /\ ~fresh
      /\ UNCHANGED <<ini, temp, leaked, rw, todo, value, got, fresh, writes>>
  BY DEF Start, LogInv, TypeOK, FilesInv, GotInv, Busy
<1>2. TypeOK'
  BY <1>1 DEF LogInv, TypeOK, Busy
<1>3. FilesInv'
  BY <1>1 DEF LogInv, FilesInv
<1>4. TextInv'
  BY <1>1 DEF LogInv, TextInv
<1>5. LeakInv'
  BY <1>1, NothingLeaked DEF LeakInv, Safe
<1>6. GotInv'
  BY <1>1 DEF GotInv
<1> QED
  BY <1>2, <1>3, <1>4, <1>5, <1>6 DEF LogInv

LEMMA GetKeeps == ASSUME LogInv, get_history PROVE LogInv'
<1>1. /\ pc = "off" /\ pc' = "open" /\ tape' \in Tapes /\ leaked = << >> /\ ~fresh
      /\ rw' = "read" /\ todo' = KeyOrder /\ value' = 0 /\ got' = Nothing
      /\ UNCHANGED <<ini, temp, leaked, fresh, writes>>
  BY DEF get_history, LogInv, TypeOK, FilesInv, GotInv, Busy
<1>2. TypeOK'
  BY <1>1, TodoFacts DEF LogInv, TypeOK, Busy, Nothing
<1>3. FilesInv'
  BY <1>1 DEF LogInv, FilesInv
<1>4. TextInv'
  BY <1>1 DEF LogInv, TextInv
<1>5. LeakInv'
  BY <1>1 DEF LeakInv, Safe
<1>6. GotInv'
  BY <1>1, TodoFacts DEF GotInv, Nothing
<1> QED
  BY <1>2, <1>3, <1>4, <1>5, <1>6 DEF LogInv

LEMMA OutputKeeps == ASSUME LogInv, output_history PROVE LogInv'
<1>1. /\ pc = "idle" /\ pc' = "open" /\ fresh' = FALSE
      /\ rw' = "write" /\ todo' = KeyOrder /\ value' = writes + 1 /\ got' = Nothing /\ writes' = writes + 1
      /\ UNCHANGED <<ini, temp, leaked, tape>>
  BY DEF output_history
<1>2. TypeOK'
  <2>1. writes \in Nat /\ writes + 1 \in Nat
    BY DEF LogInv, TypeOK
  <2>2. KeyOrder \in Todos /\ KeyOrder # << >>
    BY TodoFacts
  <2>3. Nothing \in [Keys -> Nat]
    BY DEF Nothing
  <2>4. pc' \in Busy /\ todo' # << >> /\ todo' \in Todos
    BY <1>1, <2>2 DEF Busy
  <2>5. value' \in Nat /\ writes' \in Nat /\ got' \in [Keys -> Nat] /\ fresh' \in BOOLEAN
    BY <1>1, <2>1, <2>3 DEF LogInv, TypeOK
  <2> QED
    BY <1>1, <2>4, <2>5 DEF LogInv, TypeOK
<1>3. FilesInv'
  BY <1>1 DEF LogInv, FilesInv
<1>4. TextInv'
  BY <1>1 DEF LogInv, TextInv
<1>5. LeakInv'
  BY <1>1 DEF LeakInv
<1>6. GotInv'
  BY <1>1 DEF GotInv
<1> QED
  BY <1>2, <1>3, <1>4, <1>5, <1>6 DEF LogInv

LEMMA CreateKeeps == ASSUME LogInv, CreateIni PROVE LogInv'
<1>1. /\ pc = "open" /\ ini.text = << >> /\ ini'.text = << >> /\ ini'.id = NewId /\ ini' = [id |-> NewId, text |-> << >>]
      /\ UNCHANGED <<temp, leaked, pc, tape, rw, todo, value, got, fresh, writes>>
  BY DEF CreateIni, NoFile
<1>2. NewId \in Nat \ {0} /\ NewId \notin Used
  BY NewIdFresh DEF LogInv, TypeOK
<1>3. TypeOK'
  BY <1>1, <1>2 DEF LogInv, TypeOK, IsFile
<1>4. FilesInv'
  BY <1>1 DEF LogInv, FilesInv
<1>5. TextInv'
  BY <1>1, EmptyWhole DEF LogInv, TextInv
<1>6. LeakInv'
  <2>1. ASSUME Safe(leaked, {ini.id, temp.id}, ini.text, tape)
        PROVE  Safe(leaked, {ini'.id, temp.id}, ini'.text, tape)
    BY <1>1, <1>2, <2>1 DEF Safe, Used
  <2> QED
    BY <1>1, <2>1 DEF LogInv, LeakInv
<1>7. GotInv'
  BY <1>1 DEF LogInv, GotInv
<1> QED
  BY <1>3, <1>4, <1>5, <1>6, <1>7 DEF LogInv

LEMMA OpenKeeps == ASSUME LogInv, OpenTemp PROVE LogInv'
<1>1. /\ pc = "open" /\ pc' = "scan" /\ ini # NoFile /\ temp'.text = << >>
      /\ temp'.id = (IF temp = NoFile THEN NewId ELSE temp.id) /\ temp' = [id |-> temp'.id, text |-> << >>]
      /\ UNCHANGED <<ini, leaked, tape, rw, todo, value, got, fresh, writes>>
  BY DEF OpenTemp
<1>2. NewId \in Nat \ {0} /\ NewId \notin Used
  BY NewIdFresh DEF LogInv, TypeOK
<1>3. temp'.id \in Nat \ {0}
  BY <1>1, <1>2 DEF LogInv, TypeOK, IsFile
<1>4. temp' # NoFile
  BY <1>3 DEF NoFile
<1>5. TypeOK'
  <2>1. IsFile(temp')
    <3>1. << >> \in Seq(Lines)
      OBVIOUS
    <3> QED
      BY <1>1, <1>3, <3>1 DEF IsFile
  <2> QED
    BY <1>1, <2>1 DEF LogInv, TypeOK, Busy
<1>6. FilesInv'
  BY <1>1, <1>4 DEF LogInv, FilesInv
<1>7. TextInv'
  BY <1>1, EmptyWhole DEF LogInv, TextInv
<1>8. LeakInv'
  <2>1. ASSUME Safe(leaked, {ini.id, temp.id}, ini.text, tape)
        PROVE  Safe(leaked, {ini.id, temp'.id}, ini.text, tape)
    BY <1>1, <1>2, <2>1 DEF Safe, Used
  <2>2. ASSUME temp = NoFile
        PROVE  Closed(leaked, {temp'.id})
    BY <1>1, <1>2, <2>2 DEF Closed, Used
  <2> QED
    BY <1>1, <2>1, <2>2 DEF LogInv, LeakInv
<1>9. GotInv'
  BY <1>1 DEF LogInv, GotInv
<1> QED
  BY <1>5, <1>6, <1>7, <1>8, <1>9 DEF LogInv

\* A key done, in a read or a write: what NextKey says.
LEMMA NextKeyFacts ==
  ASSUME LogInv, pc \in Busy, NextKey
  PROVE  /\ todo' = Tail(todo) /\ todo' \in Todos /\ todo' # KeyOrder
         /\ pc' = (IF todo' = << >> THEN "idle" ELSE "open")
         /\ fresh' = (rw = "read" /\ todo' = << >>) /\ fresh' \in BOOLEAN
         /\ Left(todo) = {Head(todo)} \cup Left(todo') /\ Head(todo) \notin Left(todo') /\ Left(todo) \subseteq Keys
         /\ Left(<< >>) = {} /\ Asked /\ todo # << >>
<1>1. Asked /\ Advances(todo) /\ todo # << >>
  BY AskedNow DEF LogInv
<1>2. todo' = Tail(todo)
  BY DEF NextKey
<1>3. Len(todo) = 1 <=> todo' = << >>
  BY <1>1, <1>2 DEF Advances
<1>4. pc' = (IF todo' = << >> THEN "idle" ELSE "open") /\ fresh' = (rw = "read" /\ todo' = << >>)
  BY <1>3 DEF NextKey
<1> QED
  BY <1>1, <1>2, <1>4, TodoFacts DEF Advances

LEMMA FindKeeps == ASSUME LogInv, FindKey PROVE LogInv'
<1>1. /\ pc = "scan" /\ pc \in Busy /\ WholeScan.found /\ NextKey
      /\ got' = [got EXCEPT ![Head(todo)] = WholeScan.value]
      /\ leaked' = <<[id |-> temp.id, text |-> WholeScan.out]>> \o leaked
      /\ UNCHANGED <<ini, temp, tape, rw, value, writes>>
  BY DEF FindKey, Busy
<1>2. /\ todo' \in Todos /\ todo' # KeyOrder /\ todo # << >> /\ pc' = (IF todo' = << >> THEN "idle" ELSE "open")
      /\ fresh' = (rw = "read" /\ todo' = << >>) /\ fresh' \in BOOLEAN
      /\ Left(todo) = {Head(todo)} \cup Left(todo') /\ Head(todo) \notin Left(todo') /\ Left(todo) \subseteq Keys
      /\ Left(<< >>) = {} /\ Asked
  BY <1>1, NextKeyFacts
<1>3. /\ rw = "read" /\ WholeScan.value = Number(ini.text, tape, Head(todo)) /\ WholeScan.value \in Nat
      /\ Harmless(WholeScan.out, ini.text, tape)
  BY <1>1, <1>2, Found DEF LogInv, TextInv
<1>4. ini # NoFile /\ temp # NoFile /\ temp.text = << >> /\ temp.id \in Nat \ {0} /\ leaked \in Streams
  BY <1>1 DEF LogInv, FilesInv, TypeOK, IsFile
<1> DEFINE new == [id |-> temp.id, text |-> WholeScan.out]
<1>5. new \in Stream
  BY <1>3, <1>4 DEF Stream, Harmless
<1>6. leaked' \in Streams /\ \A i \in 1..Len(leaked') : leaked'[i] = new \/ \E j \in 1..Len(leaked) : leaked'[i] = leaked[j]
  <2> HIDE DEF new
  <2>1. <<new>> \in Seq(Stream) /\ Len(<<new>>) = 1 /\ <<new>>[1] = new
    BY <1>5
  <2>2. ASSUME NEW a \in Seq(Stream), NEW b \in Seq(Stream)
        PROVE  /\ a \o b \in Seq(Stream) /\ Len(a \o b) = Len(a) + Len(b)
               /\ \A i \in 1..Len(a \o b) : (a \o b)[i] = IF i <= Len(a) THEN a[i] ELSE b[i - Len(a)]
    <3>1. Len(a \o b) = Len(a) + Len(b)
      OBVIOUS
    <3> QED
      BY <3>1
  <2>3. leaked \in Seq(Stream)
    BY <1>4 DEF Streams
  <2> DEFINE o == <<new>> \o leaked
  <2>4. o \in Seq(Stream) /\ Len(o) = 1 + Len(leaked)
        /\ \A i \in 1..Len(o) : o[i] = IF i <= 1 THEN <<new>>[i] ELSE leaked[i - 1]
    BY <2>1, <2>2, <2>3
  <2> HIDE DEF o
  <2>5. ASSUME NEW i \in 1..Len(o) PROVE o[i] = new \/ \E j \in 1..Len(leaked) : o[i] = leaked[j]
    <3>1. CASE i <= 1
      BY <2>1, <2>4, <3>1
    <3>2. CASE ~(i <= 1)
      <4>1. i - 1 \in 1..Len(leaked)
        BY <2>3, <2>4, <3>2
      <4> QED
        BY <2>4, <3>2, <4>1
    <3> QED
      BY <3>1, <3>2
  <2>6. leaked' = o
    BY <1>1 DEF o, new
  <2> QED
    BY <2>4, <2>5, <2>6 DEF Streams
<1>7. TypeOK'
  <2>1. got' \in [Keys -> Nat]
    BY <1>1, <1>3 DEF LogInv, TypeOK
  <2>2. pc' \in Busy \cup {"idle", "off"} /\ (pc' \in Busy <=> todo' # << >>)
    BY <1>2 DEF Busy
  <2> QED
    BY <1>1, <1>2, <1>6, <2>1, <2>2 DEF LogInv, TypeOK
<1>8. FilesInv'
  BY <1>1, <1>2, <1>4 DEF LogInv, FilesInv
<1>9. TextInv'
  BY <1>1, <1>2 DEF LogInv, TextInv
<1>10. LeakInv'
  <2>1. Safe(leaked, {ini.id, temp.id}, ini.text, tape)
    BY <1>1, <1>3 DEF LogInv, LeakInv
  <2>2. Safe(leaked', {ini.id, temp.id}, ini.text, tape)
    BY <1>3, <1>6, <2>1 DEF Safe
  <2> QED
    BY <1>1, <1>2, <1>3, <2>2 DEF LeakInv
<1>11. GotInv'
  <2>1. /\ \A k \in Left(todo) : got[k] = 0
        /\ \A k \in Keys \ Left(todo) : got[k] = Number(ini.text, tape, k)
    BY <1>1, <1>2, <1>3 DEF LogInv, GotInv
  <2>2. \A k \in Left(todo') : got'[k] = 0
    BY <1>1, <1>2, <2>1 DEF LogInv, TypeOK
  <2>3. \A k \in Keys \ Left(todo') : got'[k] = Number(ini.text, tape, k)
    BY <1>1, <1>2, <1>3, <2>1 DEF LogInv, TypeOK
  <2> QED
    BY <1>1, <1>2, <2>2, <2>3 DEF GotInv
<1> QED
  BY <1>7, <1>8, <1>9, <1>10, <1>11 DEF LogInv

LEMMA CopyKeeps == ASSUME LogInv, CopyFile PROVE LogInv'
<1> DEFINE y == AtEnd(WholeScan)
<1>1. /\ pc = "scan" /\ pc' = "remove" /\ pc \in Busy /\ ~WholeScan.found
      /\ temp' = [temp EXCEPT !.text = y]
      /\ UNCHANGED <<ini, leaked, tape, rw, todo, value, got, fresh, writes>>
  BY DEF CopyFile, Busy
<1>2. Asked /\ todo # << >> /\ Left(todo) = {Head(todo)} \cup Left(Tail(todo))
  BY <1>1, AskedNow DEF LogInv, Advances
<1>3. GoodCopy(ini.text, y)
  BY <1>1, <1>2, CopyIsGood DEF LogInv, TextInv
<1> HIDE DEF y
<1>4. ini # NoFile /\ temp # NoFile /\ temp.id \in Nat \ {0} /\ temp \in [id : Nat, text : Seq(Lines)]
  BY <1>1 DEF LogInv, FilesInv, TypeOK, IsFile
<1>5. Whole(y) /\ y \in Seq(Lines) /\ Table(y) = [Table(ini.text) EXCEPT ![tape][Head(todo)] = value]
  BY <1>3 DEF GoodCopy, Whole, Headed
<1>6. temp'.id = temp.id /\ temp'.text = y /\ temp' \in [id : Nat, text : Seq(Lines)] /\ temp' # NoFile
  BY <1>1, <1>4, <1>5 DEF NoFile
<1>7. TypeOK'
  BY <1>1, <1>4, <1>6 DEF LogInv, TypeOK, IsFile, Busy
<1>8. FilesInv'
  BY <1>1, <1>4, <1>6 DEF LogInv, FilesInv
<1>9. TextInv'
  BY <1>1, <1>5, <1>6 DEF LogInv, TextInv
<1>10. LeakInv'
  <2>1. ASSUME rw = "read" PROVE Safe(leaked, {temp.id}, y, tape)
    <3>1. Safe(leaked, {ini.id, temp.id}, ini.text, tape)
      BY <1>1, <2>1 DEF LogInv, LeakInv
    <3>2. Grown(ini.text, y, tape) /\ Whole(ini.text) /\ tape \in Tapes
      BY <1>2, <1>3, <2>1 DEF GoodCopy, LogInv, TextInv, Asked
    <3> QED
      BY <3>1, <3>2, HarmlessGrown DEF Safe
  <2> QED
    BY <1>1, <1>6, <2>1 DEF LogInv, LeakInv
<1>11. GotInv'
  <2>1. ASSUME rw = "read", NEW k \in (Keys \ Left(todo)) \cup {Head(todo)}
        PROVE  got[k] = Number(y, tape, k)
    <3>1. /\ \A c \in Left(todo) : got[c] = 0
          /\ \A c \in Keys \ Left(todo) : got[c] = Number(ini.text, tape, c)
      BY <1>1, <1>2, <2>1 DEF LogInv, GotInv
    <3>2. value = 0 /\ Number(ini.text, tape, Head(todo)) = 0 /\ tape \in Tapes /\ k \in Keys /\ Head(todo) \in Keys
      BY <1>2, <1>3, <2>1 DEF GoodCopy, LogInv, TextInv, Asked
    <3>3. Table(ini.text)[tape][k] = Number(ini.text, tape, k) /\ Table(y)[tape][k] = Number(y, tape, k)
      BY <3>2 DEF Table
    <3>4. Table(y)[tape][k] = IF k = Head(todo) THEN 0 ELSE Table(ini.text)[tape][k]
      <4>1. Table(ini.text) \in [Tapes -> [Keys -> Nat]]
        BY TableType DEF LogInv, TextInv
      <4> QED
        BY <1>5, <3>2, <4>1
    <3> QED
      BY <1>2, <3>1, <3>2, <3>3, <3>4
  <2> QED
    BY <1>1, <1>2, <1>6, <2>1 DEF LogInv, GotInv
<1> QED
  BY <1>7, <1>8, <1>9, <1>10, <1>11 DEF LogInv

LEMMA RemoveKeeps == ASSUME LogInv, RemoveIni PROVE LogInv'
<1>1. /\ pc = "remove" /\ pc' = "rename" /\ ini' = NoFile /\ NoFile.text = << >>
      /\ UNCHANGED <<temp, leaked, tape, rw, todo, value, got, fresh, writes>>
  BY DEF RemoveIni, NoFile
<1>2. TypeOK'
  <2>1. IsFile(NoFile)
    BY DEF IsFile, NoFile
  <2> QED
    BY <1>1, <2>1 DEF LogInv, TypeOK, Busy
<1>3. FilesInv'
  BY <1>1 DEF LogInv, FilesInv
<1>4. TextInv'
  BY <1>1, EmptyWhole DEF LogInv, TextInv
<1>5. LeakInv'
  BY <1>1 DEF LogInv, LeakInv
<1>6. GotInv'
  BY <1>1 DEF LogInv, GotInv
<1> QED
  BY <1>2, <1>3, <1>4, <1>5, <1>6 DEF LogInv

LEMMA KeyOrderTail == Tail(KeyOrder) # << >>
<1>1. Len(Tail(KeyOrder)) = 3 /\ Len(<< >>) = 0
  BY DEF KeyOrder
<1> QED
  BY <1>1

LEMMA RenameKeeps == ASSUME LogInv, RenameTemp PROVE LogInv'
<1>1. /\ pc = "rename" /\ pc \in Busy /\ ini' = temp /\ temp' = NoFile /\ NoFile.text = << >> /\ NoFile.id = 0 /\ NextKey
      /\ UNCHANGED <<leaked, tape, rw, value, got, writes>>
  BY DEF RenameTemp, NoFile, Busy
<1>2. /\ todo' \in Todos /\ todo' # KeyOrder /\ todo # << >> /\ pc' = (IF todo' = << >> THEN "idle" ELSE "open")
      /\ fresh' = (rw = "read" /\ todo' = << >>) /\ fresh' \in BOOLEAN
      /\ Left(todo) = {Head(todo)} \cup Left(todo') /\ Head(todo) \notin Left(todo') /\ Left(todo) \subseteq Keys
      /\ Left(<< >>) = {} /\ Head(todo) \in Keys
  BY <1>1, NextKeyFacts DEF Asked
<1>3. TypeOK'
  <2>1. IsFile(NoFile)
    BY DEF IsFile, NoFile
  <2>2. pc' \in Busy \cup {"idle", "off"} /\ (pc' \in Busy <=> todo' # << >>)
    BY <1>2 DEF Busy
  <2> QED
    BY <1>1, <1>2, <2>1, <2>2 DEF LogInv, TypeOK
<1>4. FilesInv'
  BY <1>1, <1>2 DEF LogInv, FilesInv
<1>5. TextInv'
  BY <1>1, <1>2, EmptyWhole DEF LogInv, TextInv
<1>6. LeakInv'
  <2>1. \A i \in 1..Len(leaked) : leaked[i].id # 0
    <3>1. \A i \in 1..Len(leaked) : leaked[i] \in Stream
      BY DEF LogInv, TypeOK, Streams
    <3> QED
      BY <3>1 DEF Stream
  <2>2. ASSUME Safe(leaked, {temp.id}, temp.text, tape)
        PROVE  Safe(leaked, {temp.id, 0}, temp.text, tape)
    BY <2>1, <2>2 DEF Safe
  <2>3. ASSUME Closed(leaked, {temp.id})
        PROVE  Safe(leaked, {temp.id, 0}, temp.text, tape)
    BY <2>1, <2>3 DEF Safe, Closed
  <2>4. pc' = "idle" \/ rw = "read" => Safe(leaked, {temp.id, 0}, temp.text, tape)
    <3>1. CASE rw = "read"
      BY <1>1, <2>2, <3>1 DEF LogInv, LeakInv
    <3>2. CASE rw = "write" /\ pc' = "idle"
      <4>1. todo # KeyOrder
        <5>1. Tail(KeyOrder) # << >>
          BY KeyOrderTail
        <5>2. Tail(todo) = << >>
          BY <1>1, <1>2, <3>2 DEF NextKey
        <5> QED
          BY <5>1, <5>2
      <4> QED
        BY <1>1, <2>3, <3>2, <4>1 DEF LogInv, LeakInv
    <3> QED
      BY <3>1, <3>2 DEF LogInv, TypeOK
  <2> QED
    BY <1>1, <1>2, <2>4 DEF LeakInv
<1>7. GotInv'
  <2>1. rw = "read" => /\ \A k \in Left(todo) : got[k] = 0
                       /\ \A k \in (Keys \ Left(todo)) \cup {Head(todo)} : got[k] = Number(temp.text, tape, k)
    BY <1>1, <1>2 DEF LogInv, GotInv
  <2>2. rw = "read" => /\ \A k \in Left(todo') : got[k] = 0
                       /\ \A k \in Keys \ Left(todo') : got[k] = Number(temp.text, tape, k)
    BY <1>2, <2>1
  <2> QED
    BY <1>1, <1>2, <2>2 DEF GotInv
<1> QED
  BY <1>3, <1>4, <1>5, <1>6, <1>7 DEF LogInv

LEMMA ExitKeeps == ASSUME LogInv, Exit PROVE LogInv' /\ ini' = ini
<1>1. /\ pc = "idle" /\ pc' = "off" /\ ini' = AfterFlush(ini) /\ temp' = AfterFlush(temp) /\ leaked' = << >>
      /\ value' = 0 /\ got' = Nothing /\ fresh' = FALSE /\ UNCHANGED <<tape, rw, todo, writes>>
  BY DEF Exit
<1>2. /\ IsFile(ini) /\ IsFile(temp) /\ leaked \in Streams /\ todo = << >> /\ Whole(ini.text) /\ Whole(temp.text)
      /\ ini.text \in Seq(Lines) /\ Safe(leaked, {ini.id, temp.id}, ini.text, tape)
  BY <1>1 DEF LogInv, TypeOK, TextInv, LeakInv, IsFile, Busy
<1>3. \A i \in 1..Len(leaked) : leaked[i].id \in {ini.id, temp.id} => Begins(leaked[i].text, ini.text)
  BY <1>2 DEF Safe, Harmless, Begins
<1>4. ini' = ini
  BY <1>1, <1>2, <1>3, AfterFlushSame
<1>5. IsFile(temp') /\ Whole(temp'.text)
  <2>1. CASE leaked = << >>
    <3>1. AfterFlush(temp) = temp
      <4>1. \A i \in 1..Len(leaked) : leaked[i].id = temp.id => Begins(leaked[i].text, temp.text)
        BY <2>1
      <4> QED
        BY <1>2, <4>1, AfterFlushSame
    <3> QED
      BY <1>1, <1>2, <3>1
  <2>2. CASE leaked # << >>
    <3>1. Begins(temp.text, ini.text)
      <4>1. temp.text = << >>
        BY <1>1, <2>2 DEF LogInv, FilesInv
      <4> QED
        BY <1>2, <4>1 DEF Begins
    <3>2. IsFile(AfterFlush(temp)) /\ Begins(AfterFlush(temp).text, ini.text)
      BY <1>2, <1>3, <3>1, AfterFlushBegins
    <3> QED
      BY <1>1, <1>2, <3>2, BeginningWhole
  <2> QED
    BY <2>1, <2>2
<1>6. TypeOK'
  <2>1. << >> \in Streams /\ Nothing \in [Keys -> Nat]
    BY DEF Streams, Nothing
  <2> QED
    BY <1>1, <1>2, <1>4, <1>5, <2>1 DEF LogInv, TypeOK, Busy
<1>7. FilesInv'
  BY <1>1 DEF FilesInv
<1>8. TextInv'
  BY <1>1, <1>2, <1>4, <1>5 DEF TextInv
<1>9. LeakInv'
  BY <1>1 DEF LeakInv
<1>10. GotInv'
  BY <1>1, <1>2 DEF GotInv
<1> QED
  BY <1>4, <1>6, <1>7, <1>8, <1>9, <1>10 DEF LogInv

LEMMA StopKeeps == ASSUME LogInv, Stop PROVE LogInv' /\ ini' = ini
<1>1. /\ pc' = "off" /\ leaked' = << >> /\ todo' = << >> /\ value' = 0 /\ got' = Nothing /\ fresh' = FALSE
      /\ UNCHANGED <<ini, temp, tape, rw, writes>>
  BY DEF Stop
<1>2. TypeOK'
  <2>1. << >> \in Streams /\ Nothing \in [Keys -> Nat] /\ << >> \in Todos
    BY DEF Streams, Nothing, Todos
  <2> QED
    BY <1>1, <2>1 DEF LogInv, TypeOK, Busy
<1>3. FilesInv'
  BY <1>1 DEF FilesInv
<1>4. TextInv'
  BY <1>1 DEF LogInv, TextInv
<1>5. LeakInv'
  BY <1>1 DEF LeakInv
<1>6. GotInv'
  BY <1>1 DEF GotInv
<1> QED
  BY <1>1, <1>2, <1>3, <1>4, <1>5, <1>6 DEF LogInv

LEMMA InitLog == ASSUME Init PROVE LogInv
<1>1. /\ ini = NoFile /\ temp = NoFile /\ leaked = << >> /\ pc = "off" /\ tape \in Tapes /\ rw = "read" /\ todo = << >>
      /\ value = 0 /\ got = Nothing /\ fresh = FALSE /\ writes = 0 /\ NoFile.text = << >>
  BY DEF Init, NoFile
<1>2. TypeOK
  <2>1. << >> \in Streams /\ Nothing \in [Keys -> Nat] /\ << >> \in Todos /\ IsFile(NoFile)
    BY DEF Streams, Nothing, Todos, IsFile, NoFile
  <2> QED
    BY <1>1, <2>1 DEF TypeOK, Busy
<1>3. FilesInv
  BY <1>1 DEF FilesInv
<1>4. TextInv
  BY <1>1, EmptyWhole DEF TextInv
<1>5. LeakInv
  BY <1>1 DEF LeakInv
<1>6. GotInv
  BY <1>1 DEF GotInv
<1> QED
  BY <1>2, <1>3, <1>4, <1>5, <1>6 DEF LogInv

LEMMA NextLog == ASSUME LogInv, [Next]_vars PROVE LogInv'
<1>1. CASE UNCHANGED vars
  <2>1. UNCHANGED <<ini, temp, leaked, pc, tape, rw, todo, value, got, fresh, runs, writes>>
    BY <1>1 DEF vars
  <2>2. TypeOK' /\ FilesInv' /\ TextInv' /\ LeakInv' /\ GotInv'
    BY <2>1 DEF LogInv, TypeOK, FilesInv, TextInv, LeakInv, GotInv
  <2> QED
    BY <2>2 DEF LogInv
<1>2. CASE Next
  BY <1>2, StartKeeps, GetKeeps, OutputKeeps, CreateKeeps, OpenKeeps, FindKeeps, CopyKeeps, RemoveKeeps,
     RenameKeeps, ExitKeeps, StopKeeps DEF Next
<1> QED
  BY <1>1, <1>2

\* The state invariant of history.log (HistoryLog's files, texts, open copies and keys
\* read), for any tapes, runs and writes.
THEOREM LogHolds == Spec => []LogInv
<1>1. Init => LogInv
  BY InitLog
<1>2. LogInv /\ [Next]_vars => LogInv'
  BY NextLog
<1> QED
  BY <1>1, <1>2, PTL DEF Spec

\* OneLinePerKey: read_or_write_ini never gives a tape a second section, or a key a
\* second line in it, whatever was stopped in the middle of a write.
THEOREM OneLineEach == Spec => []OneLinePerKey
<1>1. LogInv => OneLinePerKey
  BY DEF LogInv, TextInv, Whole, OneLine, OneLinePerKey
<1> QED
  BY <1>1, LogHolds, PTL

\* ReadsOwnSection: get_history ends with what history.log says of the tape in the
\* drive, also when its reads have rewritten the file.
THEOREM ReadsItsTape == Spec => []ReadsOwnSection
<1>1. LogInv => ReadsOwnSection
  BY DEF LogInv, GotInv, ReadsOwnSection
<1> QED
  BY <1>1, LogHolds, PTL

\* FlushKeepsHistory: the copies that get_history leaves open change nothing in
\* history.log when the program ends and they are flushed.
THEOREM FlushHarmless == Spec => FlushKeepsHistory
<1>1. LogInv /\ [Next]_vars => [pc = "idle" /\ pc' = "off" => ini' = ini]_vars
  <2> SUFFICES ASSUME LogInv, Next, pc = "idle", pc' = "off" PROVE ini' = ini
    OBVIOUS
  <2>1. CASE Exit
    BY <2>1, ExitKeeps
  <2>2. CASE Stop
    BY <2>2, StopKeeps
  <2>3. ~Start /\ ~get_history /\ ~output_history /\ ~CreateIni /\ ~OpenTemp /\ ~FindKey /\ ~CopyFile
        /\ ~RemoveIni /\ ~RenameTemp
    BY DEF Start, get_history, output_history, CreateIni, OpenTemp, FindKey, CopyFile, RemoveIni, RenameTemp
  <2> QED
    BY <2>1, <2>2, <2>3 DEF Next
<1> QED
  BY <1>1, LogHolds, PTL DEF Spec, FlushKeepsHistory

-----------------------------------------------------------------------------
(* history.log is a table *)

\* The file that holds the table.
Kept(a, b, c) == Table(IF c = "rename" THEN b.text ELSE a.text)

LEMMA StoreBegins == Init => Store!StoreInit
<1> SUFFICES ASSUME Init PROVE Store!StoreInit
  OBVIOUS
<1>1. pc # "rename" /\ ini.text = << >>
  BY DEF Init, NoFile
<1> QED
  BY <1>1, EmptyWhole DEF Store!StoreInit, Store!Empty

\* The steps that leave the table as it is.
LEMMA KeptSteps ==
  ASSUME LogInv, Next, ~RemoveIni, ~(Stop /\ pc = "rename")
  PROVE  Kept(ini', temp', pc') = Kept(ini, temp, pc)
<1>1. CASE Start \/ get_history \/ output_history \/ OpenTemp \/ FindKey \/ CopyFile
  <2>1. ini' = ini /\ pc # "rename" /\ pc' # "rename"
    BY <1>1 DEF Start, get_history, output_history, OpenTemp, FindKey, CopyFile, NextKey
  <2> QED
    BY <2>1 DEF Kept
<1>2. CASE CreateIni
  BY <1>2 DEF CreateIni, NoFile, Kept
<1>3. CASE RenameTemp
  BY <1>3 DEF RenameTemp, NextKey, Kept
<1>4. CASE Exit
  <2>1. ini' = ini
    BY <1>4, ExitKeeps
  <2> QED
    BY <1>4, <2>1 DEF Exit, Kept
<1>5. CASE Stop
  BY <1>5 DEF Stop, Kept
<1> QED
  BY <1>1, <1>2, <1>3, <1>4, <1>5 DEF Next

LEMMA StoreSteps ==
  ASSUME LogInv, [Next]_vars
  PROVE  [Store!Put \/ Store!Lose \/ Store!Keep]_(Store!storeVars)
<1>1. CASE UNCHANGED vars
  BY <1>1 DEF vars, Store!storeVars
<1>2. CASE RemoveIni
  <2>1. /\ pc = "remove" /\ pc' = "rename" /\ temp' = temp /\ pc \in Busy
    BY <1>2 DEF RemoveIni, Busy
  <2>2. todo # << >> /\ Head(todo) \in Keys
    BY <2>1, AskedNow DEF LogInv, Asked
  <2>3. Table(temp.text) = [Table(ini.text) EXCEPT ![tape][Head(todo)] = value]
    BY <2>1 DEF LogInv, TextInv
  <2>4. Store!Put
    BY <2>1, <2>2, <2>3 DEF Store!Put
  <2> QED
    BY <2>4
<1>3. CASE Stop /\ pc = "rename"
  <2>1. pc' = "off" /\ ini' = ini /\ ini.text = << >>
    BY <1>3 DEF Stop, LogInv, FilesInv, NoFile
  <2>2. Store!Lose
    BY <1>3, <2>1, EmptyWhole DEF Store!Lose, Store!Empty
  <2> QED
    BY <2>2
<1>4. CASE Next /\ ~RemoveIni /\ ~(Stop /\ pc = "rename")
  <2>1. Kept(ini', temp', pc') = Kept(ini, temp, pc)
    BY <1>4, KeptSteps
  <2>2. Store!Keep
    BY <2>1 DEF Store!Keep, Kept
  <2> QED
    BY <2>2
<1> QED
  BY <1>1, <1>2, <1>3, <1>4

\* IsAStore: read_or_write_ini keeps a table of the tapes, in which a run sets its own
\* tape's numbers and which only a stop between the remove and the rename can lose.
THEOREM KeepsATable == Spec => IsAStore
<1>1. Init => Store!StoreInit
  BY StoreBegins
<1>2. LogInv /\ [Next]_vars => [Store!Put \/ Store!Lose \/ Store!Keep]_(Store!storeVars)
  BY StoreSteps
<1> QED
  BY <1>1, <1>2, LogHolds, PTL DEF Spec, IsAStore, Store!StoreSpec
=============================================================================
