---------------------------- MODULE MCObjectCopy ----------------------------
(***************************************************************************)
(* Every place, metadata length and data length an object can have with    *)
(* blocks of four bytes, up to three blocks of data.                       *)
(***************************************************************************)
EXTENDS ObjectCopy

CONSTANTS MaxMeta, MaxSize

SmallObjects == [offset : 0..(BlockSize - 1), metaLen : 1..MaxMeta, size : 0..MaxSize,
                 last : BOOLEAN, check : BOOLEAN]
=============================================================================
