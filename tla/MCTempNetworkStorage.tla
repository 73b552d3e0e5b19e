------------------------ MODULE MCTempNetworkStorage ------------------------
(***************************************************************************)
(* A small instance of TempNetworkStorage for TLC: one session thread that *)
(* deploys "mine" and "other", alone or together, one network "theirs"     *)
(* that another server puts into the base storage, the expirer and a       *)
(* request that looks up "mine" or "theirs".  "mine" expires within the    *)
(* bounds and may be deployed again; the other two outlive it, so that     *)
(* "other" is still valid when an error meets the deployment of both.      *)
(***************************************************************************)
EXTENDS TempNetworkStorage, TLC

CONSTANTS d1, r1, mine, other, theirs

MCOwner == [a \in Agents |-> IF a = theirs THEN Elsewhere ELSE d1]
MCLifetime == [a \in Agents |-> IF a = mine THEN 1 ELSE 3]
=============================================================================
