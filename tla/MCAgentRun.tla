----------------------------- MODULE MCAgentRun -----------------------------
(***************************************************************************)
(* A small instance of AgentRun for TLC: a front man with an agent and a   *)
(* coded tool, which the agent may call too.                               *)
(***************************************************************************)
EXTENDS AgentRun, TLC

CONSTANTS front, helper, coded

MCTools == front :> {helper, coded} @@ helper :> {coded} @@ coded :> {}
=============================================================================
