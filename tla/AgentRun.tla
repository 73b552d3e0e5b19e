------------------------------ MODULE AgentRun ------------------------------
(***************************************************************************)
(* A conversation with an agent network.  Each request of it is a turn:    *)
(* the front man's LLM is asked, the tools it wants are called at the same *)
(* time, each one an agent with an LLM and tools of its own or code that   *)
(* just returns, and the front man's chat history goes back to the client  *)
(* to come with the next request.                                          *)
(*                                                                         *)
(* A call is an activation of an agent: call 1 is the front man's.  All of *)
(* them are coroutines of one event loop, so what stands between two       *)
(* awaits is one step.  The LLM, and langgraph which runs the loop of      *)
(* replies and tool calls, are not part of the repository: any reply, any  *)
(* error and no reply at all are possible.                                 *)
(***************************************************************************)
EXTENDS Naturals, Sequences, FiniteSets

CONSTANTS
    Agents,         \* the agents of the network
    FrontMan,       \* the one the user talks to
    Code,           \* those without an LLM: coded tools, toolbox, external agents
    Tools,          \* the down-chains of an agent
    Slow,           \* agents whose max_execution_seconds may elapse
    Retries,        \* attempts at an agent's chain: 3
    MaxIterations,  \* replies with tool calls in one attempt, max_iterations
    MaxHistory,     \* max_message_history of the front man; 0: None
    MaxCalls,       \* bound: calls in one turn
    MaxTurns        \* bound: turns of the conversation

ASSUME ConstantsAssumption ==
    /\ FrontMan \in Agents \ Code
    /\ Code \subseteq Agents
    /\ Tools \in [Agents -> SUBSET (Agents \ {FrontMan})]
    /\ Slow \subseteq Agents \ Code
    /\ Retries \in Nat \ {0}
    /\ MaxIterations \in Nat \ {0}
    /\ MaxHistory \in Nat
    /\ MaxCalls \in Nat \ {0}
    /\ MaxTurns \in Nat \ {0}

Calls == 1 .. MaxCalls
Front == 1
NoAgent == "no agent"

VARIABLES
    turn,         \* the number of the request
    phase,        \* "idle", "running" or "over"
    context,      \* the chat context the client has
    answer,       \* the content of the last message of the turn
    used,         \* calls of this turn so far
    place,        \* where a call is
    agent,        \* whose call it is
    callers,      \* the calls that wait for it, the front man's first
    tool_to_index_map,
    index,        \* the call's instantiation_index; 0: not known yet
    attempts,     \* attempts at the chain that have failed
    iterations,   \* replies with tool calls in this attempt
    chat_history, \* the messages of the call's agent
    replies,      \* LLM replies counted by the call's token callback
    token_accounting, \* replies of each call in the request's report
    late,         \* calls whose time was up
    open          \* calls that hold LLM resources

request == <<turn, phase, context, answer>>
chain == <<attempts, iterations>>
tokens == <<replies, token_accounting>>
origins == <<tool_to_index_map, index>>
vars == <<request, used, place, agent, callers, origins, chain, chat_history, tokens,
          late, open>>

Set(f, x, v) == [f EXCEPT ![x] = v]
None(v) == [c \in Calls |-> v]

\* A message of a chat history: whose it is, and whether its content asks or
\* answers.  A tool's result is an AIMessage there, like the agent's own.
Message(by, says) == [by |-> by, says |-> says, turn |-> turn]
NoMessage == [by |-> "nobody", says |-> "nothing", turn |-> 0]
LastOf(h) == h[Len(h)]

Live(c) == place[c] \in {"asked", "running", "answered", "timed out", "closing"}
Caller(c) == CHOOSE s \in callers[c] : \A t \in callers[c] : t <= s
Callees(s) == {c \in Calls : s \in callers[c]}
Waiting(s) == \E c \in Callees(s) : Live(c)
Thinking(s) ==
    /\ place[s] = "running"
    /\ agent[s] \notin Code
    /\ ~Waiting(s)

Init ==
    /\ turn = 1 /\ phase = "idle" /\ context = <<>> /\ answer = NoMessage
    /\ used = 0 /\ place = None("free") /\ agent = None(NoAgent) /\ callers = None({})
    /\ tool_to_index_map = [a \in Agents |-> 1] /\ index = None(0)
    /\ attempts = None(0) /\ iterations = None(0) /\ chat_history = None(<<>>)
    /\ replies = None(0) /\ token_accounting = None(0)
    /\ late = {} /\ open = {}

-----------------------------------------------------------------------------
(* The start of a call                                                     *)

\* Mutant: the index is not incremented for the next one.
AddSpecNameToOriginOnce(c, a) ==
    /\ index' = Set(index, c, tool_to_index_map[a])
    /\ UNCHANGED tool_to_index_map

\* add_spec_name_to_origin(), in the constructor of the run context
AddSpecNameToOrigin(c, a) ==
    /\ index' = Set(index, c, tool_to_index_map[a])
    /\ tool_to_index_map' = [tool_to_index_map EXCEPT ![a] = @ + 1]

\* create_resources() makes the tools, the LLM and the agent of a run context.
CreateResources(c) == open' = open \cup {c}

\* Mutant: the resources are those of the caller.
KeepResources(c) == UNCHANGED open

\* delete_resources() closes the LLM clients of a run context.
DeleteResources(c) == open' = open \ {c}

\* A run context has the history that the chat context holds for its origin, and the
\* chat context of a request holds that of the front man.
HistoryAtFirst(c) == IF c = Front THEN context ELSE <<>>

\* submit_message() and wait_on_run() up to the chain: the message goes to the LLM
\* with the history and is written to the journal.
SubmitMessage(c) ==
    chat_history' = Set(chat_history, c, Append(HistoryAtFirst(c), Message("user", "question")))

\* The session makes its front man, whose run context writes the question and starts
\* the chain.
StartTurn ==
    /\ phase = "idle"
    /\ phase' = "running"
    /\ used' = Front
    /\ agent' = Set(agent, Front, FrontMan)
    /\ AddSpecNameToOrigin(Front, FrontMan)
    /\ place' = Set(place, Front, "running")
    /\ CreateResources(Front)
    /\ SubmitMessage(Front)
    /\ UNCHANGED <<turn, context, answer, callers, chain, tokens, late>>

\* set_up() raises a ValueError, say for an API key: the turn ends with its text.
SetUpFails ==
    /\ phase = "idle"
    /\ phase' = "over"
    /\ answer' = Message("framework", "answer")
    /\ UNCHANGED <<turn, context, used, place, agent, callers, origins, chain, chat_history,
                   tokens, late, open>>

\* on_llm_end() of the call's callback handler: a reply, its tokens and their cost
CountReply(s) == replies' = [replies EXCEPT ![s] = @ + 1]

\* run_it() lets the chain have so many replies and results, and no more.
WithinRecursionLimit(s) == iterations[s] < MaxIterations

\* The LLM replies that it wants tools: a task is made for each of the calls,
\* any number of them at the same time and of the same tool.
AskForTools(s) ==
    /\ Thinking(s)
    /\ WithinRecursionLimit(s)
    /\ \E n \in 1 .. MaxCalls - used : \E f \in [1 .. n -> Tools[agent[s]]] :
          LET Made(c) == c \in used + 1 .. used + n IN
          /\ used' = used + n
          /\ agent' = [c \in Calls |-> IF Made(c) THEN f[c - used] ELSE agent[c]]
          /\ callers' = [c \in Calls |-> IF Made(c) THEN callers[s] \cup {s} ELSE callers[c]]
          /\ place' = [c \in Calls |-> IF Made(c) THEN "asked" ELSE place[c]]
    /\ iterations' = [iterations EXCEPT ![s] = @ + 1]
    /\ CountReply(s)
    /\ UNCHANGED <<request, origins, attempts, chat_history, token_accounting, late, open>>

\* The task of a tool call begins: make_one_tool_function_call() makes the
\* activation and builds it, up to its first await.
StartCall(c) ==
    /\ place[c] = "asked"
    /\ AddSpecNameToOrigin(c, agent[c])
    /\ place' = Set(place, c, "running")
    /\ IF agent[c] \in Code THEN UNCHANGED <<chat_history, open>>
       ELSE CreateResources(c) /\ SubmitMessage(c)
    /\ UNCHANGED <<request, used, agent, callers, chain, tokens, late>>

\* The activation cannot be made or built, or an external agent is cut off: the
\* text of the exception is the tool's result, and is no message of the caller.
\* An LLM that was made before another one of its fallbacks failed stays open.
CallRaises(c) ==
    /\ \/ /\ place[c] = "asked"
          /\ AddSpecNameToOrigin(c, agent[c])
       \/ /\ place[c] = "running" /\ agent[c] \in Code
          /\ UNCHANGED origins
    /\ place' = Set(place, c, "raised")
    /\ open' \in IF agent[c] \in Code THEN {open} ELSE {open, open \cup {c}}
    /\ UNCHANGED <<request, used, agent, callers, chain, chat_history, tokens, late>>

-----------------------------------------------------------------------------
(* The end of an agent's chain                                             *)

\* write_message() of the call's journal
WriteMessage(s, message) == chat_history' = Set(chat_history, s, Append(chat_history[s], message))

\* The LLM gives its answer.
Answer(s) ==
    /\ Thinking(s)
    /\ place' = Set(place, s, "answered")
    /\ WriteMessage(s, Message("agent", "answer"))
    /\ CountReply(s)
    /\ UNCHANGED <<request, used, agent, callers, origins, chain, token_accounting, late, open>>

\* A KeyError, a ValueError or an error of the API: the chain is invoked again,
\* with the same inputs.
Retry(s) ==
    /\ Thinking(s)
    /\ attempts[s] + 1 < Retries
    /\ attempts' = [attempts EXCEPT ![s] = @ + 1]
    /\ iterations' = Set(iterations, s, 0)
    /\ UNCHANGED <<request, used, place, agent, callers, origins, chat_history, tokens,
                   late, open>>

\* Mutant: the exception is logged and no message is written.
GiveUpSilently(s) ==
    /\ Thinking(s)
    /\ place' = Set(place, s, "answered")
    /\ UNCHANGED <<request, used, agent, callers, origins, chain, chat_history, tokens, late, open>>

\* The last retry, an API key that does not work, the recursion limit or any
\* other exception: the answer says so.
GiveUp(s) ==
    /\ Thinking(s)
    /\ place' = Set(place, s, "answered")
    /\ WriteMessage(s, Message("agent", "answer"))
    /\ UNCHANGED <<request, used, agent, callers, origins, chain, tokens, late, open>>

\* The content of the LLM's answer is an empty list: parse_chain_result() raises,
\* and nothing of the call is reported. For a tool it goes on as with CallRaises; a
\* front man's request ends without an answer, and its client may have lost its
\* context with that.
AnswerRaises(s) ==
    /\ Thinking(s)
    /\ place' = Set(place, s, "raised")
    /\ CountReply(s)
    /\ IF s # Front THEN UNCHANGED request
       ELSE /\ phase' = "over"
            /\ context' \in {context, <<>>}
            /\ UNCHANGED <<turn, answer>>
    /\ UNCHANGED <<used, agent, callers, origins, chain, chat_history, token_accounting, late, open>>

\* Mutant: the time of the tools does not count.
TimeUpWithoutTools(s) ==
    /\ Thinking(s)
    /\ agent[s] \in Slow
    /\ place' = Set(place, s, "timed out")
    /\ late' = late \cup {s}
    /\ UNCHANGED <<request, used, agent, callers, origins, chain, chat_history, tokens, open>>

\* Mutant: only the calls that this one waits for itself are cancelled.
TimeUpOneLevel(s) ==
    /\ place[s] = "running" /\ agent[s] \in Slow
    /\ place' = [c \in Calls |->
                   IF c = s THEN "timed out"
                   ELSE IF c \in Callees(s) /\ Caller(c) = s /\ Live(c) THEN "cancelled"
                   ELSE place[c]]
    /\ late' = late \cup {s}
    /\ UNCHANGED <<request, used, agent, callers, origins, chain, chat_history, tokens, open>>

\* wait_for() cancels the task of the chain after max_execution_seconds, and with
\* it every call that it waits for: they are left where they are.
TimeUp(s) ==
    /\ place[s] = "running" /\ agent[s] \in Slow
    /\ place' = [c \in Calls |->
                   IF c = s THEN "timed out"
                   ELSE IF c \in Callees(s) /\ Live(c) THEN "cancelled" ELSE place[c]]
    /\ late' = late \cup {s}
    /\ UNCHANGED <<request, used, agent, callers, origins, chain, chat_history, tokens, open>>

\* report(): what the callback has counted is added to the request's accounting.
Report(s) ==
    /\ place[s] \in {"answered", "timed out"}
    /\ token_accounting' = [token_accounting EXCEPT ![s] = @ + replies[s]]
    /\ place' = Set(place, s, "closing")
    /\ UNCHANGED <<request, used, agent, callers, origins, chain, chat_history, replies, late, open>>

-----------------------------------------------------------------------------
(* The end of a call                                                       *)

\* submit_tool_outputs(): the content of the callee's last message
ToolResult(c) ==
    Message("tool", IF agent[c] \in Code THEN "answer" ELSE LastOf(chat_history[c]).says)

\* build() returns: the activation releases its resources, and its result is
\* written to the caller's journal.
Return(c) ==
    /\ c # Front
    /\ \/ place[c] = "closing"
       \/ place[c] = "running" /\ agent[c] \in Code
    /\ WriteMessage(Caller(c), ToolResult(c))
    /\ place' = Set(place, c, "returned")
    /\ DeleteResources(c)
    /\ UNCHANGED <<request, used, agent, callers, origins, chain, tokens, late>>

\* The answer of the turn: the last message that the filter takes for one.
AnswerMessage(h) ==
    LET said == {i \in 1 .. Len(h) : h[i].by # "user"}
    IN  IF said = {} THEN NoMessage ELSE h[CHOOSE i \in said : \A j \in said : j <= i]

\* The client gets the first message of the history and the most recent ones of
\* the rest, max_message_history in number.
PrepareChatContext(h) ==
    IF MaxHistory <= 1 \/ Len(h) <= MaxHistory + 1 THEN h
    ELSE <<Head(h)>> \o SubSeq(h, Len(h) - MaxHistory + 1, Len(h))

\* The front man's run is over: the last message has the answer and the chat
\* context, and the session releases the front man.
EndTurn ==
    /\ place[Front] = "closing"
    /\ place' = Set(place, Front, "returned")
    /\ phase' = "over"
    /\ answer' = AnswerMessage(chat_history[Front])
    /\ context' = PrepareChatContext(chat_history[Front])
    /\ DeleteResources(Front)
    /\ UNCHANGED <<turn, used, agent, callers, origins, chain, chat_history, tokens, late>>

\* The client goes on with a request that brings the chat context along: it is
\* served by a session, and an Origination, of its own.
NextTurn ==
    /\ phase = "over"
    /\ turn < MaxTurns
    /\ turn' = turn + 1
    /\ phase' = "idle"
    /\ answer' = NoMessage
    /\ used' = 0 /\ place' = None("free") /\ agent' = None(NoAgent) /\ callers' = None({})
    /\ tool_to_index_map' = [a \in Agents |-> 1] /\ index' = None(0)
    /\ attempts' = None(0) /\ iterations' = None(0) /\ chat_history' = None(<<>>)
    /\ replies' = None(0) /\ token_accounting' = None(0)
    /\ late' = {} /\ open' = {}
    /\ UNCHANGED context

CallStep(c) ==
    \/ AskForTools(c) \/ StartCall(c) \/ CallRaises(c)
    \/ Answer(c) \/ AnswerRaises(c) \/ Retry(c) \/ GiveUp(c) \/ TimeUp(c) \/ Report(c)
    \/ Return(c)

Next ==
    \/ StartTurn \/ SetUpFails \/ EndTurn \/ NextTurn
    \/ \E c \in Calls : CallStep(c)

Spec == Init /\ [][Next]_vars

\* The loop runs what can run, and its timers.  Nothing makes an LLM reply or a
\* tool return, and nobody has to go on with the conversation.
Fairness ==
    /\ WF_vars(EndTurn)
    /\ \A c \in Calls : WF_vars(TimeUp(c)) /\ WF_vars(Report(c))

FairSpec == Spec /\ Fairness

-----------------------------------------------------------------------------
(* Properties                                                              *)

\* Two activations of a turn have different origins, whichever of the tasks that
\* were made together begins first: origins identify the senders of messages.
OriginsAreUnique ==
    \A c, d \in Calls : c # d /\ index[c] # 0 /\ agent[c] = agent[d] => index[c] # index[d]

\* No call goes on without the calls that wait for it: those are all running,
\* so a tool's result finds its caller's journal, and after the answer of an
\* agent, or of the turn, nothing of its tools is still in motion.
NoOrphans ==
    \A c \in Calls : Live(c) =>
        phase = "running" /\ \A s \in callers[c] : place[s] = "running"

\* An agent whose time is not up has the last word in its history, whatever its
\* tools do and however its LLM fails.  If no time is up in a turn, its answer is
\* the front man's, is not left over from an earlier turn, and no tool has
\* answered with its own question; a front man that raised has no answer.
InTimeAnswersCount ==
    /\ \A s \in Calls \ late :
          place[s] \in {"answered", "closing", "returned"} /\ agent[s] \notin Code =>
              LastOf(chat_history[s]) = Message("agent", "answer")
    /\ late = {} => \A s \in Calls : \A i \in 1 .. Len(chat_history[s]) :
          LET m == chat_history[s][i]
          IN  m.by = "tool" /\ m.turn = turn => m.says = "answer"
    /\ phase = "over" /\ late = {} =>
          IF place[Front] = "raised" THEN answer = NoMessage
          ELSE answer.turn = turn /\ answer.by # "tool"

\* When the front man reports, the accounting has each LLM reply of the turn
\* once, those of attempts that failed too, except for calls that were cancelled
\* or that an exception ended; LLM resources are held only by such calls; and what
\* the client takes to the next turn ends with the front man's answer, if it was in
\* time and gave one.
TurnCleansUp ==
    phase = "over" =>
        /\ \A c \in Calls : place[c] \notin {"cancelled", "raised"} =>
              token_accounting[c] = replies[c]
        /\ \A c \in open : place[c] \in {"cancelled", "raised"}
        /\ used > 0 /\ Front \notin late /\ place[Front] # "raised" =>
              LastOf(context) = Message("agent", "answer")

\* A turn comes to its end although LLMs and tools may never answer: the time of
\* the front man covers all that it waits for.
TurnEnds == phase = "running" ~> phase = "over"
=============================================================================
