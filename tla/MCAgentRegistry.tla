-------------------------- MODULE MCAgentRegistry --------------------------
(***************************************************************************)
(* Small instances of AgentRegistry for TLC.                               *)
(***************************************************************************)
EXTENDS AgentRegistry, TLC

CONSTANTS math, music

MCMayGo == [a \in Agents |-> IF a = music THEN Storages ELSE {"public"}]
=============================================================================
