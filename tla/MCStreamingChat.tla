-------------------------- MODULE MCStreamingChat --------------------------
(***************************************************************************)
(* Small instances of StreamingChat for TLC.                               *)
(***************************************************************************)
EXTENDS StreamingChat, TLC

CONSTANTS talk, ping
=============================================================================
