---------------------------- MODULE MCHistoryLog ----------------------------
(***************************************************************************)
(* Two tapes whose dumps share one history.log.                            *)
(***************************************************************************)
EXTENDS HistoryLog
=============================================================================
