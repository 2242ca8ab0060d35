--------------------------- MODULE MCDumpProgress ---------------------------
(***************************************************************************)
(* Two runs on a tape of three POs, with the sizes scaled down: intervals  *)
(* of 2 and 3 seconds in four bits, POs that take up to two, 2 GiB of disk *)
(* space required, and disks that have just that when a run begins.        *)
(***************************************************************************)
EXTENDS DumpProgress

AllLetters == {"b", "d", "F", "f", "h", "i", "L", "l", "o", "O", "r", "s"}
DumpLetters == {"d", "F", "f", "r", "i", "s"}
ObjectAndDump == {"b", "d", "f", "o", "O"}

\* One below, at and above both limits.
Typed == 1..4
\* One of them is 2^w more than a valid interval.
TypedLong == {1, 18}

Ample == {[p \in Paths |-> 2]}
LargeObjects == {1}
=============================================================================
