---------------------------- MODULE HistoryStore ----------------------------
(***************************************************************************)
(* What a run may take history.log for: a table of one number per tape and *)
(* key, in which a run changes only its own tape's numbers, one at a time  *)
(* and only to what it means to write.                                     *)
(***************************************************************************)
EXTENDS Naturals

CONSTANTS Tapes, Keys

VARIABLES
  store,    \* the numbers; 0 for a key that is not there
  tape,     \* the tape in the drive
  asked,    \* [key, value] of the write under way; no key between writes
  exposed   \* between the removal of the old file and the renaming of the new

storeVars == <<store, tape, asked, exposed>>

Empty == [t \in Tapes |-> [k \in Keys |-> 0]]

StoreInit == store = Empty

Put ==
  /\ asked.key \in Keys
  /\ store' = [store EXCEPT ![tape][asked.key] = asked.value]

\* The file has been removed and its replacement has not got its name.
Lose == exposed /\ store' = Empty

Keep == UNCHANGED store

StoreSpec == StoreInit /\ [][Put \/ Lose \/ Keep]_storeVars
=============================================================================
