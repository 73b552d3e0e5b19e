------------------------------ MODULE ChatClient ------------------------------
(* The command line client and its conversation with one agent network.        *)
(*                                                                             *)
(* AgentCli takes inputs in turn; StreamingInputProcessor sends each one with  *)
(* the chat context and the sly data the exchange before has brought, and      *)
(* gathers what the stream brings with message processors that are reset for   *)
(* every exchange. A session is "direct" (the network runs in this process,    *)
(* all exchanges share one SessionInvocationContext: its origination and its   *)
(* queue), "http" (a stream of lines) or "mcp" (one tool result). The server   *)
(* keeps nothing: the memory of the front man is what the context says, if its *)
(* origin is the origin the front man gets this time.                          *)
(*                                                                             *)
(* A text is the member of Inputs it answers; a history is the sequence of the *)
(* inputs it holds; sly data is the set of its keys.                           *)
EXTENDS Naturals, Sequences, SequencesExt

CONSTANTS Inputs,       \* what a person may type
          DefaultInput, \* AgentCli.DEFAULT_INPUT
          SlyKeys,      \* the sly data that a front man lets go upstream
          MaxInput,     \* --max_input
          MaxProgress,  \* bound: messages of a run before the last one
          None

VARIABLES args,      \* of the command line: session kind, filter, output file
          cli,       \* where the loop is, and its state dictionary
          locals,    \* of process_once(): what the state will be updated with
          processor, \* what the message processors hold
          run,       \* the run of the exchange: a DataDrivenChatSession
          channel,   \* the queue of the run and the context it belongs to
          log        \* history: the exchanges that have come to their end

chatVars == <<args, cli, locals, processor, run, channel, log>>

Kinds == {"direct", "http", "mcp"}

NoContext == [origin |-> 0, history |-> <<>>]
NoReply == [context |-> NoContext, answer |-> None, sly |-> None, heard |-> FALSE]

Progress == [type |-> "progress"]
Aloud == [type |-> "aloud"]                    \* the front man's own AI message
Answer(i, context, sly) ==
  [type |-> "answer", text |-> i, context |-> context, sly |-> sly]
Refusal == [type |-> "refusal"]
EndMessage == [type |-> "end"]

NewChannel == [queue |-> <<>>, last_item_sent |-> FALSE, next_index |-> 1]
NoRun == [pc |-> "none", input |-> None, context |-> NoContext,
          sly |-> {}, origin |-> 0, memory |-> <<>>, told |-> 0]

ChatInit ==
  /\ args \in [kind : Kinds, minimal : BOOLEAN, output : BOOLEAN]
  /\ \E i \in Inputs \cup {None} :
       cli = [pc |-> "open", input |-> i, count |-> 0,
              context |-> NoContext, answer |-> None, sly |-> {}]
  /\ locals = NoReply /\ processor = NoReply
  /\ run = NoRun /\ channel = NewChannel /\ log = <<>>

-------------------------------------------------------------------------------
(* Opening the session *)

OpenWith(next, ok) ==
  /\ cli' = [cli EXCEPT !.pc = IF ok THEN next ELSE "failed"]
  /\ UNCHANGED <<args, locals, processor, run, channel, log>>

(* The factory knows the kinds; an MCP session begins with a handshake. *)
CreateSession == /\ cli.pc = "open"
                 /\ OpenWith(IF args.kind = "mcp" THEN "handshake" ELSE "function", TRUE)

(* "initialize", a version both know, "notifications/initialized": all or none. *)
Handshake == /\ cli.pc = "handshake"
             /\ \E ok \in BOOLEAN : OpenWith("function", ok)

(* An MCP server has to list the agent as a tool; an HTTP one has to answer. *)
Function == /\ cli.pc = "function" /\ args.kind # "direct"
            /\ \E ok \in BOOLEAN : OpenWith("prompt", ok)

DirectFunction == /\ cli.pc = "function" /\ args.kind = "direct"
                  /\ OpenWith("prompt", TRUE)

-------------------------------------------------------------------------------
(* The loop of the client *)

IsDone == cli.count >= MaxInput

Leave == /\ cli.pc = "prompt" /\ IsDone
         /\ cli' = [cli EXCEPT !.pc = "ended"]
         /\ UNCHANGED <<args, locals, processor, run, channel, log>>

TakeInput ==
  /\ cli.pc = "prompt" /\ ~IsDone /\ cli.input = None
  /\ \/ \E i \in Inputs : cli' = [cli EXCEPT !.input = i]
     \/ cli' = [cli EXCEPT !.pc = "ended"]       \* "quit", or nobody is there
  /\ UNCHANGED <<args, locals, processor, run, channel, log>>

(* Mutant: the queue, or the origination, is not reset. *)
ResetQueueOnly(c) == [c EXCEPT !.last_item_sent = FALSE]
ResetOriginationOnly(c) == [c EXCEPT !.next_index = 1]

(* SessionInvocationContext.reset() *)
ResetInvocationContext(c) ==
  [c EXCEPT !.last_item_sent = FALSE, !.next_index = 1]

(* StreamingInputProcessor.reset(). A server makes a new context by itself. *)
ResetChannel ==
  channel' = IF args.kind = "direct" THEN ResetInvocationContext(channel) ELSE NewChannel

(* The request: an empty context or empty sly data is not sent. *)
ChatRequest == [NoRun EXCEPT !.pc = "set_up", !.input = cli.input,
                             !.context = cli.context, !.sly = cli.sly]

(* The loop writes the last answer to --response_output_file, if there is one: *)
(* None is no string.                                                          *)
WriteResponse(answer) == IF args.output /\ answer = None THEN "failed" ELSE "prompt"

(* The text that stands for no input is not sent, and it is not taken out of   *)
(* the state either: the loop comes back to it for ever.                       *)
IgnoreDefault == /\ cli.pc = "prompt" /\ ~IsDone /\ cli.input = DefaultInput
                 /\ cli' = [cli EXCEPT !.pc = WriteResponse(cli.answer)]
                 /\ UNCHANGED <<args, locals, processor, run, channel, log>>

Send == /\ cli.pc = "prompt" /\ ~IsDone /\ cli.input \notin {None, DefaultInput}
        /\ cli' = [cli EXCEPT !.pc = "receive"]
        /\ processor' = NoReply
        /\ locals' = [NoReply EXCEPT !.context = cli.context, !.answer = cli.answer]
        /\ ResetChannel
        /\ run' = ChatRequest
        /\ UNCHANGED <<args, log>>

-------------------------------------------------------------------------------
(* The run of the network *)

Put(m) == channel' = IF channel.last_item_sent THEN channel
                     ELSE [channel EXCEPT !.queue = Append(@, m)]

PutFinalItem ==
  channel' = IF channel.last_item_sent THEN channel
             ELSE [channel EXCEPT !.queue = Append(@, EndMessage), !.last_item_sent = TRUE]

(* The history of the context whose origin is the front man's. *)
ChatHistory(context, origin) ==
  IF context.origin = origin THEN context.history ELSE <<>>

SetUp ==
  /\ run.pc = "set_up"
  /\ \E pc \in {"running", "refusing"} :
       run' = [run EXCEPT !.pc = pc, !.origin = channel.next_index,
                          !.memory = ChatHistory(run.context, channel.next_index)]
  /\ channel' = [channel EXCEPT !.next_index = @ + 1]
  /\ UNCHANGED <<args, cli, locals, processor, log>>

(* A message of an agent, the front man's own one, or a keep-alive. *)
Tell == /\ run.pc = "running" /\ run.told < MaxProgress
        /\ run' = [run EXCEPT !.told = @ + 1]
        /\ \E m \in {Progress, Aloud} : Put(m)
        /\ UNCHANGED <<args, cli, locals, processor, log>>

PrepareChatContext == [origin |-> run.origin, history |-> Append(run.memory, run.input)]

(* The last message: the answer with the context, or what set_up() refused. *)
WriteAnswer ==
  /\ run.pc = "running"
  /\ run' = [run EXCEPT !.pc = "answered"]
  /\ \E back \in SUBSET SlyKeys :
       Put(Answer(run.input, PrepareChatContext, IF back = {} THEN None ELSE back))
  /\ UNCHANGED <<args, cli, locals, processor, log>>

WriteRefusal == /\ run.pc = "refusing"
                /\ run' = [run EXCEPT !.pc = "refused"]
                /\ Put(Refusal)
                /\ UNCHANGED <<args, cli, locals, processor, log>>

FinalizeRun == /\ run.pc \in {"answered", "refused"}
               /\ PutFinalItem
               /\ UNCHANGED <<args, cli, locals, processor, run, log>>

(* Any other exception ends the run, and nobody writes an end. *)
Crash == /\ run.pc = "running"
         /\ run' = [run EXCEPT !.pc = "dead"]
         /\ UNCHANGED <<args, cli, locals, processor, channel, log>>

(* A server cuts such a stream off when its request has timed out, after a     *)
(* line that says so or without one.                                           *)
CutOff == /\ run.pc = "dead" /\ args.kind # "direct" /\ ~channel.last_item_sent
          /\ \E line \in {<<>>, <<Progress>>} :
               channel' = [channel EXCEPT !.queue = @ \o line \o <<EndMessage>>,
                                          !.last_item_sent = TRUE]
          /\ UNCHANGED <<args, cli, locals, processor, run, log>>

-------------------------------------------------------------------------------
(* What the client makes of the stream *)

(* MessageFilterFactory: the minimal filter allows what has a chat context. *)
AllowMessage(m) == args.minimal => m.type = "answer"

AnswerAllowed(m) == m.type \in {"aloud", "answer", "refusal"}
ContextAllowed(m) == m.type = "answer"

ProcessAnswer(p, m) == IF AnswerAllowed(m) THEN [p EXCEPT !.answer = run.input] ELSE p
ProcessContext(p, m) ==
  IF ~ContextAllowed(m) THEN p
  ELSE [p EXCEPT !.context = m.context, !.sly = IF m.sly = None THEN @ ELSE m.sly]

ProcessMessage(m) ==
  /\ processor' = ProcessContext(ProcessAnswer([processor EXCEPT !.heard = TRUE], m), m)
  /\ locals' = processor'

(* One message of the queue, or one line of the response. *)
ReadMessage ==
  /\ cli.pc = "receive" /\ args.kind \in {"direct", "http"}
  /\ channel.queue # <<>> /\ Head(channel.queue).type # "end"
  /\ channel' = [channel EXCEPT !.queue = Tail(@)]
  /\ IF AllowMessage(Head(channel.queue)) THEN ProcessMessage(Head(channel.queue))
     ELSE UNCHANGED <<locals, processor>>
  /\ UNCHANGED <<args, cli, run, log>>

(* McpToolsProcessor: the messages of a stream become one result. It has the   *)
(* texts, and of the structured parts the last chat context alone.             *)
ToolResult(messages) ==
  LET answers == {i \in DOMAIN messages : AllowMessage(messages[i]) /\ ContextAllowed(messages[i])}
      last == CHOOSE i \in answers : \A j \in answers : j <= i
  IN  IF run.pc = "dead" THEN Progress           \* an error: converted to {}
      ELSE IF answers = {} THEN Refusal
      ELSE [messages[last] EXCEPT !.sly = None]

ReadToolResult ==
  /\ cli.pc = "receive" /\ args.kind = "mcp"
  /\ channel.queue # <<>> /\ channel.queue # <<EndMessage>>
  /\ Last(channel.queue) = EndMessage
  /\ ProcessMessage(ToolResult(Front(channel.queue)))
  /\ channel' = [channel EXCEPT !.queue = <<EndMessage>>]
  /\ UNCHANGED <<args, cli, run, log>>

(* The end of process_once(), and what the loop does with its state. *)
Finish ==
  /\ cli.pc = "receive" /\ channel.queue # <<>> /\ Head(channel.queue) = EndMessage
  /\ channel' = [channel EXCEPT !.queue = Tail(@)]
  /\ cli' = [pc |-> WriteResponse(locals.answer),
             input |-> None, count |-> cli.count + 1,
             context |-> locals.context, answer |-> locals.answer,
             sly |-> IF locals.sly = None THEN cli.sly ELSE cli.sly \cup locals.sly]
  /\ log' = Append(log, [input |-> run.input, fate |-> run.pc, heard |-> locals.heard])
  /\ UNCHANGED <<args, locals, processor, run>>

(* A connection that breaks raises ValueError, and nothing catches it. *)
Break == /\ cli.pc = "receive" /\ args.kind # "direct"
         /\ cli' = [cli EXCEPT !.pc = "failed"]
         /\ UNCHANGED <<args, locals, processor, run, channel, log>>

-------------------------------------------------------------------------------
Opening == CreateSession \/ Handshake \/ Function \/ DirectFunction
RunStep == SetUp \/ Tell \/ WriteAnswer \/ WriteRefusal \/ FinalizeRun \/ Crash \/ CutOff
ReadStep == ReadMessage \/ ReadToolResult \/ Finish \/ Break

ChatNext == \/ Opening
            \/ Leave \/ TakeInput \/ IgnoreDefault \/ Send
            \/ RunStep
            \/ ReadStep

ChatSpec == ChatInit /\ [][ChatNext]_chatVars

(* timedinput() gives up after its time, a run goes on, a reader reads.        *)
ChatFairness ==
  /\ WF_chatVars(Opening) /\ WF_chatVars(Leave) /\ WF_chatVars(TakeInput)
  /\ WF_chatVars(Send) /\ WF_chatVars(RunStep)
  /\ WF_chatVars(ReadMessage) /\ WF_chatVars(ReadToolResult) /\ WF_chatVars(Finish)

-------------------------------------------------------------------------------
Answered(e) == e.fate = "answered"

(* An exchange takes the memory away when its stream has brought something but *)
(* no context: a run that was refused, or that died.                           *)
TookMemoryAway(e) == e.heard /\ ~Answered(e)

(* The answered exchanges since the last one that took the memory away.        *)
Kept == {i \in DOMAIN log : /\ Answered(log[i])
                           /\ \A j \in i .. Len(log) : ~TookMemoryAway(log[j])}

(* A history says what was said in these exchanges, in order and nothing else. *)
IsWhatWasSaid(history) ==
  \E at \in [DOMAIN history -> DOMAIN log] :
     /\ \A k \in DOMAIN history : history[k] = log[at[k]].input
     /\ \A k, l \in DOMAIN history : k < l => at[k] < at[l]
     /\ Range(at) = Kept

(* However the exchanges of a session went and whatever its kind, the front    *)
(* man remembers what the user said in every answered exchange since the last  *)
(* one that broke the conversation off, in order and nothing else: the origin  *)
(* under which a history is filed and the origin under which it is looked up   *)
(* agree in every exchange, and no exchange sees what another one has left in  *)
(* the processors.                                                             *)
ConversationGoesOn ==
  cli.pc = "receive" /\ run.pc # "set_up" => IsWhatWasSaid(run.memory)

(* A direct session whose run has died waits for ever, and so does the loop    *)
(* with the default input. Nothing else stops the conversation: every input is *)
(* taken to an end of its exchange, and the client leaves.                     *)
Stuck == \/ run.pc = "dead" /\ args.kind = "direct"
         \/ cli.input = DefaultInput
ClientLeaves == <>(cli.pc \in {"ended", "failed"} \/ Stuck)
===============================================================================
