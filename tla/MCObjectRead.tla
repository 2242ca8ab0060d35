---------------------------- MODULE MCObjectRead ----------------------------
(***************************************************************************)
(* ObjectRead with blocks of 8 bytes: an identifier of 3, a header of 6,   *)
(* directory entries of 4.  The last entry of the first PO begins in one   *)
(* block and ends in the next; that of the second lies inside a block; that*)
(* of the third ends with one.                                             *)
(***************************************************************************)
EXTENDS ObjectRead

TapePacks ==
  <<[block |-> 2, num |-> 3, size |-> 46], [block |-> 8, num |-> 2, size |-> 36],
    [block |-> 13, num |-> 1, size |-> 23]>>

\* Of the first PO: metadata in the middle, data of one block and two; metadata
\* that end with a block.  Of the second: metadata over two blocks.  Of the
\* third: no data.
TapeObjects ==
  <<[pack |-> 1, place |-> 25, metaSize |-> 4, size |-> 1],
    [pack |-> 1, place |-> 30, metaSize |-> 2, size |-> 14],
    [pack |-> 2, place |-> 22, metaSize |-> 5, size |-> 9],
    [pack |-> 3, place |-> 17, metaSize |-> 6, size |-> 0]>>

TapeSelections == {<<1>>, <<2>>, <<1, 2>>, <<3>>, <<4>>, <<2, 3, 4>>}
=============================================================================
