------------------------------ MODULE MCMcpServer -----------------------------
(* McpServer with two requests, an agent and a temporary network.              *)
EXTENDS McpServer

CONSTANTS r1, r2, agent, temp

MCRequests == {r1, r2}
MCAgents == {agent, temp}
MCTempAgents == {temp}
===============================================================================
