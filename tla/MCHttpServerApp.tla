-------------------------- MODULE MCHttpServerApp --------------------------
(***************************************************************************)
(* A small instance of HttpServerApp for TLC.                              *)
(***************************************************************************)
EXTENDS HttpServerApp, TLC

CONSTANTS first, second, third, fourth, mcp
=============================================================================
