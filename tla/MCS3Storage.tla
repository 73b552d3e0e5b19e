---------------------------- MODULE MCS3Storage ----------------------------
(***************************************************************************)
(* A bucket with two reservations of one server, which may be stopped, on  *)
(* two pages, and an object that is none of theirs behind them.  Another   *)
(* server only removes what has expired.                                  *)
(***************************************************************************)
EXTENDS S3Storage

CONSTANTS s1, s2

MCBatches == [s \in Servers |-> IF s = s1 THEN <<2, 1>> ELSE <<>>]
=============================================================================
