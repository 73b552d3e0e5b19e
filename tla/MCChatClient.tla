----------------------------- MODULE MCChatClient -----------------------------
(* ChatClient with three exchanges, two inputs and the one that is ignored;    *)
(* TestDriver with up to three samples, two connections and two interactions.  *)
EXTENDS Clients

CONSTANTS hello, bye, default, key

MCInputs == {hello, bye, default}
MCSlyKeys == {key}

-------------------------------------------------------------------------------
Test(type, negate) == [type |-> type, negate |-> negate, verify |-> 1]
Interaction(sly, tests, goes_on) == [sly |-> sly, tests |-> tests, continue |-> goes_on]
TestCase(need, of, interactions, connections, replies, timeout, assessed, malformed) ==
  [need |-> need, of |-> of, interactions |-> interactions, connections |-> connections,
   replies |-> replies, timeout |-> timeout, assessed |-> assessed, malformed |-> malformed,
   sly |-> [k \in DOMAIN interactions |-> IF interactions[k].sly THEN {0} ELSE {}]]

OneTestOf(need, of, type, negate, timeout, assessed) ==
  TestCase(need, of, <<Interaction(FALSE, <<Test(type, negate)>>, TRUE)>>, 1,
           {NoValue, 1, 2}, timeout, assessed, FALSE)

MCTestCases ==
  {OneTestOf(1, 2, type, negate, FALSE, assessed) :
     type \in AgentEvaluators \cup {"unknown"}, negate \in BOOLEAN, assessed \in BOOLEAN}
  \cup {OneTestOf(need, of, "keywords", FALSE, timeout, FALSE) :
     need \in 0 .. 3, of \in 0 .. 2, timeout \in BOOLEAN}
  \cup {OneTestOf(2, 3, type, FALSE, FALSE, FALSE) : type \in {"value", "keywords"}}
  \cup {TestCase(1, 2, <<Interaction(first, <<Test("value", FALSE), Test("gist", TRUE)>>, goes_on),
                         Interaction(second, <<>>, goes_on)>>, connections, {1},
                 FALSE, FALSE, FALSE) :
     first \in BOOLEAN, second \in BOOLEAN, goes_on \in BOOLEAN, connections \in 0 .. 2}
  \cup {TestCase(1, 1, <<>>, 1, {1}, FALSE, FALSE, malformed) : malformed \in BOOLEAN}
===============================================================================
