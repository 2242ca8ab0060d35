---------------------------- MODULE MCObjectDump ----------------------------
(***************************************************************************)
(* ObjectDump on a small tape.  Blocks:                                    *)
(*                                                                         *)
(*    1 PO1 of b1: object 1 in block 2, object 2 in blocks 2 and 3         *)
(*    4 FM   5 OCM1   6 FM                                                 *)
(*    7 PO2 of b2: object 3 in block 8                                     *)
(*    9 PO3 of b1: object 4 in blocks 9 and 10, object 5 in block 10       *)
(*   11 FM  12 OCM2  13 FM  14 PR1  15 FM                                  *)
(*   16 PO4 of b1: object 6 in block 17                                    *)
(*   18 FM  19 OCM3  20 FM  21 PR2  22 FM                                  *)
(*                                                                         *)
(* With MaxSave = 2 bucket b1 has room for four subdirectories of two      *)
(* objects: its second run rolls over to directory 2 and its third is full.*)
(***************************************************************************)
EXTENDS ObjectDump

TapeAddress ==
  [t \in MarkerTypes |-> CASE t = "PR"   -> <<14, 21>>
                           [] t = "OCM"  -> <<5, 12, 19>>
                           [] t = "PO"   -> <<1, 7, 9, 16>>
                           [] t = "META" -> <<2, 2, 8, 9, 10, 17>>]

TapePoBucket == <<"b1", "b2", "b1", "b1">>
TapeDataEnd  == <<2, 3, 8, 10, 10, 17>>

\* What the theorems about the order of the walk ask of a tape.
ASSUME TapeInFormat == InFormat
=============================================================================
