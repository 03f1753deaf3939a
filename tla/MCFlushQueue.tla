---------------------------- MODULE MCFlushQueue ----------------------------
(* Constant values for the runs of FlushQueue. *)
EXTENDS FlushQueue

AllCalls == {"add", "flush", "stop", "start"}
NoFlush == {"add", "stop", "start"}
=============================================================================
