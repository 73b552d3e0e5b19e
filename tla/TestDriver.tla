----------------------------- MODULE TestDriver -----------------------------
(* The driver of data-driven tests: the other client of a session.             *)
(*                                                                             *)
(* One test case is run in as many samples as the denominator of its           *)
(* success_ratio says, each in a thread of its own. A sample has a             *)
(* conversation over each connection; what an answer brings is tested, and     *)
(* every assert that fails is captured. The thread of the test takes the       *)
(* samples as they complete, and leaves off as soon as enough are successful.  *)
(*                                                                             *)
(* A value is a number, or None; an agent may answer anything. Sly data is the *)
(* set of those who brought its values: 0 for the test case, or the sample     *)
(* that was answered. That of the test case is one dictionary for all samples. *)
EXTENDS Naturals, FiniteSets, Sequences

CONSTANTS Samples,      \* the indices of the threads there may be
          TestCases,    \* the test cases
          NoValue       \* the None of what is tested

(* There is a thread for each sample that any test case asks for.              *)
ASSUME SamplesAssumption ==
  /\ IsFiniteSet(Samples) /\ Samples \subseteq Nat \ {0}
  /\ \A c \in TestCases :
       /\ DOMAIN c = {"need", "of", "interactions", "connections", "replies", "timeout",
                      "assessed", "malformed", "sly"}
       /\ c.need \in Nat /\ c.of \in Nat
       /\ {1} \cup 1 .. c.of \subseteq Samples

VARIABLES case,         \* the test case: what it says, and its sly data
          test,         \* one_test(): what it has counted, and its verdict
          sample        \* one_iteration() of each thread

testVars == <<case, test, sample>>

NoSly == {}
NotStarted == [pc |-> "none", connection |-> 0, interaction |-> 0,
               carried |-> NoSly, shares |-> 0, \* or the interaction whose sly data it is
               to_test |-> <<>>, reply |-> NoValue, brings |-> FALSE, failed |-> FALSE]

(* The numerator is at most the denominator, and that at least one. *)
Iterations == IF case.of > 1 THEN case.of ELSE 1
NumNeedSuccess == IF case.need < Iterations THEN case.need ELSE Iterations

TestInit == /\ case \in TestCases
            /\ test = [pc |-> "start", num_successful |-> 0, seen |-> {}, verdict |-> "none",
                       num_total |-> 0, fail |-> 0]
            /\ sample = [i \in Samples |-> NotStarted]

TestIdle == /\ case = [of |-> 0, need |-> 0]
            /\ test = [pc |-> "idle", num_successful |-> 0, seen |-> {}, verdict |-> "none",
                       num_total |-> 0, fail |-> 0]
            /\ sample = [i \in Samples |-> NotStarted]

TestStep == UNCHANGED case
Now(i, pc) == sample' = [sample EXCEPT ![i].pc = pc]

-------------------------------------------------------------------------------
(* The asserts                                                                 *)

(* An assert of a unit test raises if it fails. Those of the assessor do not   *)
(* even compare what they are given.                                           *)
AssertRaises(failed) == failed /\ ~case.assessed

(* What an assert raises is kept, and the sample goes on. *)
Captured(s, failed) == [s EXCEPT !.failed = @ \/ AssertRaises(failed)]

(* The assessor counts its asserts on the gist of a text, and those that fail. *)
HandleAssert(t, holds) ==
  test' = IF ~case.assessed \/ t.type # "gist" THEN test
          ELSE [test EXCEPT !.num_total = @ + 1, !.fail = IF holds THEN @ ELSE @ + 1]

-------------------------------------------------------------------------------
(* The evaluators. What is less or greater than None raises no assert, and     *)
(* neither does an LLM that gives no answer on what the gist of a text is: the *)
(* sample ends. Keywords are not in None, which is an assert.                  *)
Keywords(t, value) == t.verify = value
Value(t, value) == t.verify = value
Less(t, value) == t.verify < value
Greater(t, value) == t.verify > value
Gist(opinion) == opinion = "pass"

(* An LLM's answer may also speak of neither pass nor fail, or of both. *)
Opinions(t) == IF t.type = "gist" THEN {"pass", "fail", "equivocal", "no answer"} ELSE {"none"}

Raises(t, value, opinion) ==
  \/ opinion = "no answer"
  \/ value = NoValue /\ AssertRaises(TRUE) /\ t.type \in {"less", "greater"}

TestOne(t, value, opinion) ==
  CASE t.type = "keywords" -> Keywords(t, value)
    [] t.type = "value" -> Value(t, value)
    [] t.type = "less" -> Less(t, value)
    [] t.type = "greater" -> Greater(t, value)
    [] t.type = "gist" -> Gist(opinion)

AgentEvaluators == {"value", "keywords", "less", "greater", "gist"}

-------------------------------------------------------------------------------
(* one_test()                                                                  *)

(* A unit test without an agent or a ratio fails at once. *)
OneTest ==
  /\ test.pc = "start"
  /\ IF case.malformed
     THEN /\ test' = [test EXCEPT !.pc = "done", !.verdict = "raised"]
          /\ UNCHANGED sample
     ELSE /\ test' = [test EXCEPT !.pc = "collect"]
          /\ sample' = [i \in Samples |-> IF i <= Iterations
                                          THEN [NotStarted EXCEPT !.pc = "submitted"]
                                          ELSE NotStarted]
  /\ TestStep

(* Mutant: a sample counts when it has ended, whatever its asserts. *)
SuccessfulWhenDone(i) == sample[i].pc = "done"
Successful(i) == sample[i].pc = "done" /\ ~sample[i].failed

(* as_completed(): the next sample in the order in which they end. What it has *)
(* raised, future.result() raises here. Enough of them end the loop, and those *)
(* that no thread has begun are cancelled.                                     *)
Collect(i) ==
  /\ test.pc = "collect" /\ i \notin test.seen
  /\ sample[i].pc \in {"done", "raised"}
  /\ LET successful == test.num_successful + (IF Successful(i) THEN 1 ELSE 0)
         enough == Successful(i) /\ successful = NumNeedSuccess
     IN  /\ test' = [test EXCEPT !.num_successful = successful, !.seen = @ \cup {i},
                                 !.pc = IF sample[i].pc = "raised" \/ enough THEN "leave" ELSE @,
                                 !.verdict = IF sample[i].pc = "raised" THEN "raised" ELSE @]
         /\ sample' = IF ~enough THEN sample
                      ELSE [k \in Samples |-> IF sample[k].pc = "submitted"
                                              THEN [sample[k] EXCEPT !.pc = "cancelled"]
                                              ELSE sample[k]]
  /\ TestStep

CollectedAll ==
  /\ test.pc = "collect" /\ test.seen = {i \in Samples : i <= Iterations}
  /\ test' = [test EXCEPT !.pc = "leave"]
  /\ UNCHANGED sample /\ TestStep

(* The end of the with-block waits for the threads. Then the ratio decides: a  *)
(* test is ended by the first assert of the samples that were taken.           *)
Verdict ==
  /\ test.pc = "leave"
  /\ \A i \in Samples : sample[i].pc \in {"none", "done", "raised", "cancelled"}
  /\ test' = [test EXCEPT
        !.pc = IF case.assessed THEN "assess" ELSE "done",
        !.verdict = IF test.verdict # "none" THEN @
                    ELSE IF test.num_successful >= NumNeedSuccess THEN "passed" ELSE "failed"]
  /\ UNCHANGED sample /\ TestStep

(* The assessor puts each failure to an agent, one after the other, if there   *)
(* are any; a test that raised has ended it.                                   *)
AssessFailures ==
  /\ test.pc = "assess"
  /\ test' = IF test.verdict = "raised" \/ test.fail = 0 THEN [test EXCEPT !.pc = "done"]
             ELSE [test EXCEPT !.fail = @ - 1]
  /\ UNCHANGED sample /\ TestStep

-------------------------------------------------------------------------------
(* one_iteration() and interact()                                              *)

(* Each connection begins a conversation: no context and no sly data. A case   *)
(* without connections or interactions fails an assert, and does nothing else. *)
NextConnection(s) ==
  IF s.connection = case.connections THEN [s EXCEPT !.pc = "done"]
  ELSE [s EXCEPT !.pc = IF case.interactions = <<>> THEN "next" ELSE "send",
                 !.connection = @ + 1, !.interaction = 1, !.carried = NoSly, !.shares = 0]

BeginIteration(i) ==
  /\ sample[i].pc = "submitted"
  /\ sample' = [sample EXCEPT ![i] =
        Captured(NextConnection(@), case.connections = 0 \/ case.interactions = <<>>)]
  /\ UNCHANGED test /\ TestStep

(* The sly data of the interaction is sent, or else what was carried on. *)
FormulateChatRequest(s) ==
  IF case.interactions[s.interaction].sly
  THEN [s EXCEPT !.pc = "receive", !.carried = case.sly[s.interaction], !.shares = s.interaction]
  ELSE [s EXCEPT !.pc = "receive",
                 !.carried = IF s.shares = 0 THEN @ ELSE case.sly[s.shares]]

Interact(i) ==
  /\ sample[i].pc = "send"
  /\ sample' = [sample EXCEPT ![i] = FormulateChatRequest(@)]
  /\ UNCHANGED test /\ TestStep

(* The stream has come to its end, with or without an answer and sly data. *)
Receive(i) ==
  /\ sample[i].pc = "receive"
  /\ \E reply \in case.replies, brings \in BOOLEAN :
       sample' = [sample EXCEPT ![i] =
         [@ EXCEPT !.pc = "evaluate", !.reply = reply, !.brings = brings,
                   !.to_test = case.interactions[sample[i].interaction].tests]]
  /\ UNCHANGED test /\ TestStep

(* test_response_keys(): one evaluator after the other. What is tested must    *)
(* not be None, which is an assert of its own.                                 *)
Evaluate(i) ==
  /\ sample[i].pc = "evaluate" /\ sample[i].to_test # <<>>
  /\ LET t == Head(sample[i].to_test)
         value == sample[i].reply
         next == [sample[i] EXCEPT !.to_test = Tail(@)]
     IN  IF t.type \notin AgentEvaluators
         THEN sample' = [sample EXCEPT ![i] = next] /\ UNCHANGED test
         ELSE \E opinion \in Opinions(t) :
                LET holds == TestOne(t, value, opinion) # t.negate
                    failed == value = NoValue \/ ~holds \/ opinion = "equivocal"
                IN  IF Raises(t, value, opinion) THEN Now(i, "raised") /\ UNCHANGED test
                    ELSE /\ sample' = [sample EXCEPT ![i] = Captured(next, failed)]
                         /\ HandleAssert(t, holds)
  /\ TestStep

(* _merge_sly_data(): what came back updates the dictionary that was sent.     *)
(* That may be the one of the test case.                                       *)
MergeSlyData(i) ==
  LET s == sample[i] IN
  IF s.shares = 0 \/ ~s.brings THEN UNCHANGED case
  ELSE case' = [case EXCEPT !.sly[s.shares] = @ \cup {i}]

(* What is carried on; without continue_conversation it is what was sent. *)
NextInteraction(i) ==
  /\ sample[i].pc = "evaluate" /\ sample[i].to_test = <<>>
  /\ LET s == sample[i]
         goes_on == case.interactions[s.interaction].continue
         carried == IF goes_on /\ s.brings THEN s.carried \cup {i} ELSE s.carried
     IN  /\ sample' = [sample EXCEPT ![i] =
              IF s.interaction < Len(case.interactions)
              THEN [s EXCEPT !.pc = "send", !.interaction = @ + 1, !.carried = carried]
              ELSE [s EXCEPT !.pc = "next", !.carried = carried]]
         /\ IF goes_on THEN MergeSlyData(i) ELSE UNCHANGED case
  /\ UNCHANGED test

EndConversation(i) ==
  /\ sample[i].pc = "next"
  /\ sample' = [sample EXCEPT ![i] = NextConnection(@)]
  /\ UNCHANGED test /\ TestStep

(* check_timeouts() finds that the time is up, for the test or the interaction. *)
CheckTimeouts(i) ==
  /\ sample[i].pc \in {"receive", "evaluate"} /\ case.timeout
  /\ Now(i, "raised")
  /\ UNCHANGED test /\ TestStep

(* A stream may bring nothing more and not end either: time is looked at when  *)
(* something has come.                                                         *)
FallSilent(i) ==
  /\ sample[i].pc = "receive"
  /\ Now(i, "silent")
  /\ UNCHANGED test /\ TestStep

-------------------------------------------------------------------------------
OneIteration(i) == \/ BeginIteration(i) \/ Interact(i) \/ Receive(i) \/ Evaluate(i)
                   \/ NextInteraction(i) \/ EndConversation(i) \/ CheckTimeouts(i)

Main == \/ OneTest \/ CollectedAll \/ Verdict \/ AssessFailures
        \/ \E i \in Samples : Collect(i)

TestNext == \/ Main
            \/ \E i \in Samples : OneIteration(i) \/ FallSilent(i)

(* The thread of the test and each thread of the executor go on.               *)
TestFairness == /\ WF_testVars(Main)
                /\ \A i \in Samples : WF_testVars(OneIteration(i))

TestSpec == TestInit /\ [][TestNext]_testVars /\ TestFairness

-------------------------------------------------------------------------------
(* "The numerator is an integer indicating how many of those test samples need *)
(* to execute without failure in order to call the test passing": in whatever  *)
(* order the samples end, and although not all of them may be looked at, the   *)
(* test passes only if that many were without failure, and it fails only if    *)
(* fewer were. A test that raises has a sample that raised: enough others may  *)
(* have been without failure, and the order in which they end decides.         *)
VerdictIsTheRatio ==
  LET without_failure == {i \in Samples : sample[i].pc = "done" /\ ~sample[i].failed}
  IN  test.pc \in {"assess", "done"} /\ ~case.malformed =>
        /\ test.verdict = "passed" => Cardinality(without_failure) >= NumNeedSuccess
        /\ test.verdict = "failed" => /\ Cardinality(without_failure) < NumNeedSuccess
                                      /\ \A i \in Samples : i <= Iterations => sample[i].pc = "done"
        /\ test.verdict = "raised" => \E i \in Samples : sample[i].pc = "raised"

(* A test comes to its verdict, whatever its samples raise and however many of *)
(* them are cancelled, unless one of them has a stream that falls silent: the  *)
(* end of the with-block waits for that one too.                               *)
TestEnds == <>(test.pc \in {"done", "idle"} \/ \E i \in Samples : sample[i].pc = "silent")
===============================================================================
