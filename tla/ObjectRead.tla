----------------------------- MODULE ObjectRead -----------------------------
(***************************************************************************)
(* Reading the objects a search in the lists has chosen, or the packed     *)
(* object the first of them is in (--Level 1).  The files are appended to, *)
(* and one that exists is taken for whole.                                 *)
(*                                                                         *)
(* Bytes of a packed object (PO) are numbered from its first one.          *)
(* last_data_offset and its kind count from behind the PO identifier.      *)
(***************************************************************************)
EXTENDS Naturals, Sequences, Functions, FiniteSetsExt

CONSTANTS
  BlockSize, IdentifierSize, HeaderSize, DirSize,
  Packs,     \* sequence of POs [block, num, size]: first block, objects, bytes
  Objects,   \* sequence of objects [pack, place, metaSize, size]; place is the
             \* number of the first byte of the metadata
  Selections,   \* what searches choose: a set of sequences of objects
  MaxRuns    \* bound on the runs of the program

ObjectNumbers == DOMAIN Objects
PackNumbers   == DOMAIN Packs
Nothing == [meta |-> << >>, data |-> 0, opened |-> FALSE]

ASSUME SizesAssumption ==
  /\ {BlockSize, IdentifierSize, HeaderSize, DirSize} \subseteq Nat \ {0}
  /\ DirSize <= BlockSize /\ MaxRuns \in Nat
ASSUME TapeAssumption ==
  /\ \A p \in PackNumbers : /\ Packs[p].block \in Nat /\ Packs[p].num \in Nat
                            /\ Packs[p].size \in Nat /\ Packs[p].size >= IdentifierSize
  /\ \A m \in ObjectNumbers : /\ Objects[m].pack \in PackNumbers /\ Objects[m].place \in Nat
                              /\ Objects[m].metaSize \in Nat /\ Objects[m].size \in Nat
ASSUME SelectionsAssumption == \A c \in Selections : c # << >> /\ c \in Seq(ObjectNumbers)

VARIABLES
  files,   \* per object: the places whose metadata were appended to
           \* .meta, the bytes of .data and whether it exists
  packs,   \* per PO: bytes of its .pack, and whether it exists
  pc,      \* "off", "object", "data", "block", "pack" or "packblock"
  level,   \* structure_level
  chosen,  \* objects
  todo,    \* those of chosen that are still to be read
  left,    \* bytes that remain of the file being written
  torn,    \* files a stopped run was writing: <<"object" or "pack", number>>
  said,    \* <<level, chosen>> of the runs that said they were complete
  runs

vars == <<files, packs, pc, level, chosen, todo, left, torn, said, runs>>

-----------------------------------------------------------------------------
(* Places on the tape *)

\* Where the walk found the metadata of object m: a block and an offset in it.
BlockOf(m)  == Packs[Objects[m].pack].block + Objects[m].place \div BlockSize
OffsetOf(m) == Objects[m].place % BlockSize

\* block_address and offset in the list.
ListedAddress(m) == Packs[Objects[m].pack].block
ListedOffset(m)  == (BlockOf(m) - ListedAddress(m)) * BlockSize + OffsetOf(m)

\* Where main asks for the metadata.
Located(m) == <<ListedAddress(m) + ListedOffset(m) \div BlockSize, ListedOffset(m) % BlockSize>>

\* The tail of the last block of the metadata, where the data begin.
remained_tape_data_size(m) ==
  (BlockSize - ((Located(m)[2] + Objects[m].metaSize) % BlockSize)) % BlockSize

\* The last entry of the PO's directory, whose data offset is the PO's end.
last_obj_dir_from(p) == IdentifierSize + HeaderSize + Packs[p].num * DirSize
last_obj_dir_to(p)   == last_obj_dir_from(p) + DirSize

\* Mutant: the second part is taken from the block of the first.
SecondPartSame(p) == last_obj_dir_from(p) \div BlockSize

SecondPart(p) == last_obj_dir_to(p) \div BlockSize

\* Byte i of the entry, put together of the rest of one block and the beginning
\* of another.
EntryByte(p, i) ==
  LET first == BlockSize - (last_obj_dir_from(p) % BlockSize)
  IN  IF i < first THEN last_obj_dir_from(p) + i
      ELSE SecondPart(p) * BlockSize + (i - first)

\* Bytes from anywhere else make no offset.
last_data_offset(p) ==
  IF \A i \in 0..(DirSize - 1) : EntryByte(p, i) = last_obj_dir_from(p) + i
  THEN Packs[p].size - IdentifierSize ELSE 0

po_size(p) == IdentifierSize + last_data_offset(p)

-----------------------------------------------------------------------------
(* A run *)

Init ==
  /\ files = [m \in ObjectNumbers |-> Nothing]
  /\ packs = [p \in PackNumbers |-> [bytes |-> 0, opened |-> FALSE]]
  /\ pc = "off" /\ level = 0 /\ chosen = << >> /\ todo = << >> /\ left = 0
  /\ torn = {} /\ said = {} /\ runs = 0

Start ==
  /\ pc = "off" /\ runs < MaxRuns
  /\ pc' = "object" /\ runs' = runs + 1
  /\ level' \in {0, 1} /\ chosen' \in Selections /\ todo' = chosen'
  /\ UNCHANGED <<files, packs, left, torn, said>>

Object == Head(todo)
Pack   == Objects[Head(chosen)].pack

\* Mutant: the .meta file is not looked for.
MetaExistsNever(m) == FALSE

MetaExists(m) == files[m].meta # << >>

\* Its .meta file exists: the object is left as it is.
SkipObject ==
  /\ pc = "object" /\ todo # << >> /\ MetaExists(Object)
  /\ todo' = Tail(todo)
  /\ UNCHANGED <<files, packs, pc, level, chosen, left, torn, said, runs>>

WriteMeta ==
  /\ pc = "object" /\ todo # << >> /\ ~MetaExists(Object)
  /\ files' = [files EXCEPT ![Object].meta = Append(@, Located(Object))]
  /\ pc' = "data"
  /\ UNCHANGED <<packs, level, chosen, todo, left, torn, said, runs>>

\* The data that share a block with the metadata; none are written if there are
\* none, but the file is made.  One that exists would be left as it is, but no run
\* leaves a .data file without its .meta file (DataAfterMeta in ObjectRead_proofs).
WriteFirst ==
  /\ pc = "data"
  /\ LET n == Min({Objects[Object].size, remained_tape_data_size(Object)})
     IN  /\ files' = [files EXCEPT ![Object] = [meta |-> @.meta, data |-> @.data + n, opened |-> TRUE]]
         /\ left' = Objects[Object].size - n
  /\ pc' = "block"
  /\ UNCHANGED <<packs, level, chosen, todo, torn, said, runs>>

WriteBlock ==
  /\ pc = "block" /\ left > 0
  /\ LET n == Min({left, BlockSize})
     IN  /\ files' = [files EXCEPT ![Object].data = @ + n]
         /\ left' = left - n
  /\ UNCHANGED <<packs, pc, level, chosen, todo, torn, said, runs>>

NextObject ==
  /\ pc = "block" /\ left = 0
  /\ pc' = "object" /\ todo' = Tail(todo)
  /\ UNCHANGED <<files, packs, level, chosen, left, torn, said, runs>>

Complete == said' = said \cup {<<level, chosen>>} /\ pc' = "off"

Finish ==
  /\ pc = "object" /\ todo = << >> /\ level = 0
  /\ Complete
  /\ UNCHANGED <<files, packs, level, chosen, todo, left, torn, runs>>

\* The PO of the first object chosen.
SizePack ==
  /\ pc = "object" /\ todo = << >> /\ level = 1
  /\ pc' = "pack" /\ left' = po_size(Pack)
  /\ UNCHANGED <<files, packs, level, chosen, todo, torn, said, runs>>

SkipPack ==
  /\ pc = "pack" /\ packs[Pack].opened
  /\ Complete
  /\ UNCHANGED <<files, packs, level, chosen, todo, left, torn, runs>>

WritePack ==
  /\ pc \in {"pack", "packblock"} /\ left > 0
  /\ pc = "pack" => ~packs[Pack].opened
  /\ LET n == Min({left, BlockSize})
     IN  /\ packs' = [packs EXCEPT ![Pack] = [bytes |-> @.bytes + n, opened |-> TRUE]]
         /\ left' = left - n
  /\ pc' = "packblock"
  /\ UNCHANGED <<files, level, chosen, todo, torn, said, runs>>

FinishPack ==
  /\ pc = "packblock" /\ left = 0
  /\ Complete
  /\ UNCHANGED <<files, packs, level, chosen, todo, left, torn, runs>>

Stop ==
  /\ pc # "off"
  /\ pc' = "off"
  /\ torn' = torn \cup (CASE pc \in {"data", "block"} -> {<<"object", Object>>}
                          [] pc = "packblock"         -> {<<"pack", Pack>>}
                          [] OTHER                    -> {})
  /\ UNCHANGED <<files, packs, level, chosen, todo, left, said, runs>>

Next ==
  \/ Start \/ SkipObject \/ WriteMeta \/ WriteFirst \/ WriteBlock
  \/ NextObject \/ Finish \/ SizePack \/ SkipPack \/ WritePack \/ FinishPack \/ Stop

Spec == Init /\ [][Next]_vars

-----------------------------------------------------------------------------
(* Properties *)

ObjectWhole(m) ==
  files[m] = [meta |-> <<<<BlockOf(m), OffsetOf(m)>>>>, data |-> Objects[m].size, opened |-> TRUE]
PackWhole(p)   == packs[p].bytes = Packs[p].size

\* The state keeps its shape.
TypeOK ==
  /\ files \in [ObjectNumbers -> [meta : Seq(Nat \X Nat), data : Nat, opened : BOOLEAN]]
  /\ packs \in [PackNumbers -> [bytes : Nat, opened : BOOLEAN]]
  /\ pc \in {"off", "object", "data", "block", "pack", "packblock"}
  /\ level \in {0, 1} /\ chosen \in Selections \cup {<< >>} /\ todo \in Seq(ObjectNumbers)
  /\ left \in Nat /\ said \subseteq {0, 1} \X Selections /\ runs \in 0..MaxRuns
  /\ pc \in {"data", "block"} => todo # << >>

\* Whatever has been stopped and asked for again, in whatever combination of
\* objects and packed objects, nothing is appended to a file twice.
NothingTwice ==
  /\ \A m \in ObjectNumbers : Len(files[m].meta) <= 1 /\ files[m].data <= Objects[m].size
  /\ \A p \in PackNumbers : packs[p].bytes <= Packs[p].size

\* When a run has said that it is complete, its objects, and the packed object,
\* are whole, unless a run was stopped while it wrote the very file.
WholeUnlessTorn ==
  \A s \in said :
    /\ \A i \in DOMAIN s[2] : ObjectWhole(s[2][i]) \/ <<"object", s[2][i]>> \in torn
    /\ s[1] = 1 => LET p == Objects[s[2][1]].pack IN PackWhole(p) \/ <<"pack", p>> \in torn

\* When a run has said that it is complete, everything it was asked for is whole.
CompleteMeansRead ==
  \A s \in said :
    /\ \A i \in DOMAIN s[2] : ObjectWhole(s[2][i])
    /\ s[1] = 1 => PackWhole(Objects[s[2][1]].pack)
=============================================================================
