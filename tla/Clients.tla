------------------------------- MODULE Clients -------------------------------
(* The clients of sessions that the repository has: the command line client    *)
(* and the driver of tests. They are programs of their own; a behaviour is one *)
(* of the one or of the other.                                                 *)
EXTENDS ChatClient, TestDriver

ClientIdle ==
  /\ args = [kind |-> "direct", minimal |-> FALSE, output |-> FALSE]
  /\ cli = [pc |-> "ended", input |-> None, count |-> 0, context |-> NoContext,
            answer |-> None, sly |-> {}]
  /\ locals = NoReply /\ processor = NoReply
  /\ run = NoRun /\ channel = NewChannel /\ log = <<>>

ClientsInit == \/ ChatInit /\ TestIdle
               \/ ClientIdle /\ TestInit

ClientsNext == \/ ChatNext /\ UNCHANGED testVars
               \/ TestNext /\ UNCHANGED chatVars

ClientsSpec == ClientsInit /\ [][ClientsNext]_<<chatVars, testVars>> /\ ChatFairness /\ TestFairness

(* Both kinds of clients come to an end: see ClientLeaves and TestEnds.        *)
ClientsLeave == ClientLeaves /\ TestEnds
===============================================================================
