---------------------------- MODULE DumpPromise -----------------------------
(***************************************************************************)
(* What a dump promises its operator, whatever interrupts it: objects get  *)
(* saved and stay saved, the point recorded for a later resume is never    *)
(* past an object that is not saved, and a dump that says it is complete   *)
(* has saved every object of the tape.                                     *)
(***************************************************************************)
EXTENDS Naturals

CONSTANT Object  \* the objects of the tape, numbered in tape order from 1

VARIABLES
  saved,     \* the objects that are saved
  point,     \* the object a resume would go on from; 0 when none is recorded
  complete   \* a dump of this tape has ended normally

promised == <<saved, point, complete>>

PromiseInit == saved = {} /\ point = 0 /\ complete = FALSE

SaveObject ==
  /\ \E m \in Object : saved' = saved \union {m}
  /\ UNCHANGED <<point, complete>>

\* Objects before the recorded point are not looked at again.
RecordPoint ==
  /\ point' \in Nat
  /\ \A m \in Object : m < point' => m \in saved
  /\ UNCHANGED <<saved, complete>>

CompleteDump ==
  /\ Object \subseteq saved
  /\ complete' = TRUE
  /\ UNCHANGED <<saved, point>>

PromiseNext == SaveObject \/ RecordPoint \/ CompleteDump

Promise == PromiseInit /\ [][PromiseNext]_promised
=============================================================================
