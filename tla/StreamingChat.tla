--------------------------- MODULE StreamingChat ---------------------------
(***************************************************************************)
(* The life of streaming_chat() requests and of the temporary networks     *)
(* they deploy:                                                            *)
(*                                                                         *)
(*   consumer  the generators of AsyncAgentService and                     *)
(*             AsyncDirectAgentSession on the server's event loop          *)
(*   run       DataDrivenChatSession.run_it() on the event loop of an      *)
(*             executor of its own                                         *)
(*   workers   the thread pool of TempNetworkStorageUpdater: one thread    *)
(*             hands the sessions' queues out, the others process one      *)
(*             queue each until its end                                    *)
(*                                                                         *)
(* They are joined by AsyncCollatingQueues: a response queue and, where    *)
(* the network may reserve, the queue of a ServiceAgentReservationist.     *)
(***************************************************************************)
EXTENDS Naturals, Sequences, FiniteSets

CONSTANTS
    Requests,       \* requests
    Events,         \* those that invoke their agent as an event
    Reserving,      \* those whose network may have reservations
    PoolSize,       \* THREAD_POOL_SIZE
    MaxMessages,    \* bound: messages a run writes before its answer
    MaxDeploys,     \* bound: deployments of one run
    MayCut,         \* those whose client may go away, or that may time out
    MayBreak        \* those whose run, or deployment, may raise an exception

ASSUME ConstantsAssumption ==
    /\ IsFiniteSet(Requests)
    /\ Events \subseteq Requests
    /\ Reserving \subseteq Requests
    /\ PoolSize \in Nat \ {0}
    /\ MaxMessages \in Nat
    /\ MaxDeploys \in Nat
    /\ MayCut \subseteq Requests
    /\ MayBreak \subseteq Requests

VARIABLES
    consumer,        \* where the consumer is
    stream,          \* how its stream came to its end
    got,             \* the messages it has got
    active,          \* AsyncAgentService.request_counter
    run,             \* where the run is
    then,            \* where finalize_run() returns to
    front_man,       \* is there a front man?
    last_message_sent,
    responses,       \* the response queue
    responses_last,  \* its last_item_sent
    responses_closed,\* has its janus queue been closed?
    queue,           \* the queue of the reservationist
    queue_last,      \* its last_item_sent
    deploys,         \* deployments put on it so far
    event,           \* is the confirmation event of the last one set?
    incoming,        \* queues that wait for a thread of the updater's pool
    serving,         \* queues that have one
    finished,        \* queues processed to their end
    broken           \* queues whose processing was ended by an exception

session == <<run, then, front_man, last_message_sent>>
response == <<responses, responses_last, responses_closed>>
reservation == <<queue, queue_last, deploys>>
handler == <<consumer, stream, got, active>>
updater == <<incoming, serving, finished, broken>>
vars == <<handler, session, response, reservation, event, updater>>

All(v) == [r \in Requests |-> v]
Set(f, r, v) == [f EXCEPT ![r] = v]
Goto(r, place) == run' = Set(run, r, place)

Over == {"none", "done", "failed", "cancelled"}

Init ==
    /\ consumer = All("new") /\ stream = All("open") /\ got = All(<<>>) /\ active = 0
    /\ run = All("none") /\ then = All("done") /\ front_man = All(FALSE)
    /\ last_message_sent = All(FALSE)
    /\ responses = All(<<>>) /\ responses_last = All(FALSE) /\ responses_closed = All(FALSE)
    /\ queue = All(<<>>) /\ queue_last = All(FALSE) /\ deploys = All(0)
    /\ event = All(FALSE)
    /\ incoming = <<>> /\ serving = {} /\ finished = {} /\ broken = {}

-----------------------------------------------------------------------------
(* AsyncCollatingQueue                                                     *)

\* Mutant: put() does not look at last_item_sent.
PutUnchecked(q, last, r, item) == q' = Set(q, r, Append(q[r], item))

\* put(): nothing follows the final item.
Put(q, last, r, item) ==
    q' = IF last[r] THEN q ELSE Set(q, r, Append(q[r], item))

\* Mutant: the final item is put like any other, after last_item_sent is set.
PutFinalItemChecked(q, last, r) ==
    /\ last' = Set(last, r, TRUE)
    /\ q' = q

\* put_final_item()
PutFinalItem(q, last, r) ==
    /\ last' = Set(last, r, TRUE)
    /\ q' = IF last[r] THEN q ELSE Set(q, r, Append(q[r], "end"))

-----------------------------------------------------------------------------
(* The consumer                                                            *)

AnnounceQueue(r) ==
    incoming' = IF r \in Reserving THEN Append(incoming, r) ELSE incoming

\* Mutant: the request is not counted.
StartUncounted(r) ==
    /\ consumer[r] = "new"
    /\ AnnounceQueue(r)
    /\ consumer' = Set(consumer, r, "waiting")
    /\ Goto(r, "set_up")
    /\ UNCHANGED <<stream, got, active, then, front_man, last_message_sent, response,
                   reservation, event, serving, finished, broken>>

\* streaming_chat() submits the run to an executor.
Start(r) ==
    /\ consumer[r] = "new"
    /\ AnnounceQueue(r)
    /\ active' = active + 1
    /\ consumer' = Set(consumer, r, "waiting")
    /\ Goto(r, "set_up")
    /\ UNCHANGED <<stream, got, then, front_man, last_message_sent, response,
                   reservation, event, serving, finished, broken>>

\* A request without a text is answered at once, with an empty message.
StartWithoutText(r) ==
    /\ consumer[r] = "new"
    /\ r \in MayBreak
    /\ AnnounceQueue(r)
    /\ active' = active + 1
    /\ consumer' = Set(consumer, r, "close")
    /\ stream' = Set(stream, r, "refused")
    /\ UNCHANGED <<got, session, response, reservation, event,
                   serving, finished, broken>>

Receive(r) ==
    /\ consumer[r] = "waiting"
    /\ responses[r] # <<>>
    /\ responses' = Set(responses, r, Tail(responses[r]))
    /\ IF Head(responses[r]) = "end"
       THEN /\ consumer' = Set(consumer, r, "release")
            /\ stream' = Set(stream, r, "ended")
            /\ UNCHANGED got
       ELSE /\ got' = Set(got, r, Append(got[r], Head(responses[r])))
            /\ UNCHANGED <<consumer, stream>>
    /\ UNCHANGED <<active, session, responses_last, responses_closed,
                   reservation, event, updater>>

\* asyncio.timeout() or a StreamClosedError closes the generators.
CutOff(r) ==
    /\ r \in MayCut
    /\ consumer[r] = "waiting"
    /\ consumer' = Set(consumer, r, "release")
    /\ stream' = Set(stream, r, "cut")
    /\ UNCHANGED <<got, active, session, response, reservation, event, updater>>

\* delete_resources()
DeleteResources(r) ==
    /\ consumer[r] = "release"
    /\ front_man' = Set(front_man, r, FALSE)
    /\ consumer' = Set(consumer, r, "close")
    /\ UNCHANGED <<stream, got, active, run, then, last_message_sent, response,
                   reservation, event, updater>>

\* SessionInvocationContext.close() gives the executor back, which may cancel
\* the run, and closes the queue.  A stream that was cut off stays counted.
CloseContext(r) ==
    /\ consumer[r] = "close"
    /\ responses_closed' = Set(responses_closed, r, TRUE)
    /\ consumer' = Set(consumer, r, "closed")
    /\ active' = IF stream[r] = "cut" THEN active ELSE active - 1
    /\ \/ UNCHANGED run
       \/ run[r] \notin Over /\ Goto(r, "cancelled")
    /\ UNCHANGED <<stream, got, then, front_man, last_message_sent, responses,
                   responses_last, reservation, event, updater>>

-----------------------------------------------------------------------------
(* The run                                                                 *)

\* Mutant: the end-marker is put without the last message.
FinalizeSilently(r, next) == Goto(r, "put_final") /\ then' = Set(then, r, next)

\* finalize_run(), with where it returns to.
Finalize(r, next) == Goto(r, "write_last") /\ then' = Set(then, r, next)

SetUp(r) ==
    /\ run[r] = "set_up"
    /\ front_man' = Set(front_man, r, TRUE)
    /\ IF r \in Events THEN Finalize(r, "chat_start")
                       ELSE Goto(r, "chat_start") /\ UNCHANGED then
    /\ UNCHANGED <<handler, last_message_sent, response, reservation, event, updater>>

\* A ValueError is the answer; any other exception ends the run.
SetUpFails(r) ==
    /\ r \in MayBreak
    /\ run[r] = "set_up"
    /\ \/ Finalize(r, "done")
       \/ Goto(r, "failed") /\ UNCHANGED then
    /\ UNCHANGED <<handler, front_man, last_message_sent, response,
                   reservation, event, updater>>

\* chat() sets the session up again when its front man is gone.
ChatStart(r) ==
    /\ run[r] = "chat_start"
    /\ front_man' = Set(front_man, r, TRUE)
    /\ Goto(r, "chat")
    /\ UNCHANGED <<handler, then, last_message_sent, response,
                   reservation, event, updater>>

\* Putting something on a queue that was closed raises, but nothing is put when
\* the final item was.
PutRaises(r) == responses_closed[r] /\ ~responses_last[r]

\* A message of the journal.
WriteMessage(r) ==
    /\ run[r] = "chat"
    /\ Len(got[r]) + Len(responses[r]) < MaxMessages
    /\ IF PutRaises(r)
       THEN Goto(r, "failed") /\ UNCHANGED responses
       ELSE Put(responses, responses_last, r, "message") /\ UNCHANGED run
    /\ UNCHANGED <<handler, then, front_man, last_message_sent, responses_last,
                   responses_closed, reservation, event, updater>>

\* A coded tool leaves the with-block of its reservationist and waits.
Deploy(r) ==
    /\ run[r] = "chat"
    /\ r \in Reserving
    /\ deploys[r] < MaxDeploys
    /\ Put(queue, queue_last, r, "item")
    /\ deploys' = Set(deploys, r, deploys[r] + 1)
    /\ event' = Set(event, r, FALSE)
    /\ Goto(r, "wait")
    /\ UNCHANGED <<handler, then, front_man, last_message_sent, response,
                   queue_last, updater>>

Confirmed(r) ==
    /\ run[r] = "wait"
    /\ event[r]
    /\ Goto(r, "chat")
    /\ UNCHANGED <<handler, then, front_man, last_message_sent, response,
                   reservation, event, updater>>

\* The front man's spec says what goes into the answer: without a front man
\* that is an exception.
EndChat(r) ==
    /\ run[r] = "chat"
    /\ IF front_man[r] THEN Finalize(r, "done")
                       ELSE Goto(r, "failed") /\ UNCHANGED then
    /\ UNCHANGED <<handler, front_man, last_message_sent, response,
                   reservation, event, updater>>

ChatFails(r) ==
    /\ r \in MayBreak
    /\ run[r] \in {"chat_start", "chat"}
    /\ Goto(r, "failed")
    /\ UNCHANGED <<handler, then, front_man, last_message_sent, response,
                   reservation, event, updater>>

\* finalize_run() does nothing the second time.
WriteLastMessage(r) ==
    /\ run[r] = "write_last"
    /\ last_message_sent' = Set(last_message_sent, r, TRUE)
    /\ IF last_message_sent[r]
       THEN Goto(r, then[r]) /\ UNCHANGED responses
       ELSE IF PutRaises(r)
       THEN Goto(r, "failed") /\ UNCHANGED responses
       ELSE Put(responses, responses_last, r, "answer") /\ Goto(r, "put_final")
    /\ UNCHANGED <<handler, then, front_man, responses_last, responses_closed,
                   reservation, event, updater>>

PutFinal(r) ==
    /\ run[r] = "put_final"
    /\ IF PutRaises(r)
       THEN /\ responses_last' = Set(responses_last, r, TRUE)
            /\ Goto(r, "failed")
            /\ UNCHANGED responses
       ELSE /\ PutFinalItem(responses, responses_last, r)
            /\ Goto(r, "close_reservationist")
    /\ UNCHANGED <<handler, then, front_man, last_message_sent, responses_closed,
                   reservation, event, updater>>

CloseReservationist(r) ==
    /\ run[r] = "close_reservationist"
    /\ IF r \in Reserving THEN PutFinalItem(queue, queue_last, r)
                          ELSE UNCHANGED <<queue, queue_last>>
    /\ Goto(r, then[r])
    /\ UNCHANGED <<handler, then, front_man, last_message_sent, response,
                   deploys, event, updater>>

-----------------------------------------------------------------------------
(* The updater                                                             *)

\* A thread of the pool begins with a queue.  Another one runs
\* add_new_queues_to_processing() for good, and so the pool has one less.
ProcessQueue ==
    /\ incoming # <<>>
    /\ Cardinality(serving) < PoolSize - 1
    /\ serving' = serving \cup {Head(incoming)}
    /\ incoming' = Tail(incoming)
    /\ UNCHANGED <<handler, session, response, reservation, event, finished, broken>>

\* Mutant: the event is set only for the first deployment.
ProcessItemOnce(r) ==
    /\ r \in serving
    /\ queue[r] # <<>> /\ Head(queue[r]) = "item"
    /\ queue' = Set(queue, r, Tail(queue[r]))
    /\ event' = IF deploys[r] = 1 THEN Set(event, r, TRUE) ELSE event
    /\ UNCHANGED <<handler, session, response, queue_last, deploys,
                   incoming, serving, finished, broken>>

ProcessItem(r) ==
    /\ r \in serving
    /\ queue[r] # <<>> /\ Head(queue[r]) = "item"
    /\ queue' = Set(queue, r, Tail(queue[r]))
    /\ event' = Set(event, r, TRUE)
    /\ UNCHANGED <<handler, session, response, queue_last, deploys,
                   incoming, serving, finished, broken>>

\* deploy_together() raises: nobody goes on with this queue.
ProcessItemFails(r) ==
    /\ r \in MayBreak
    /\ r \in serving
    /\ queue[r] # <<>> /\ Head(queue[r]) = "item"
    /\ queue' = Set(queue, r, Tail(queue[r]))
    /\ serving' = serving \ {r}
    /\ broken' = broken \cup {r}
    /\ UNCHANGED <<handler, session, response, queue_last, deploys, event,
                   incoming, finished>>

FinishQueue(r) ==
    /\ r \in serving
    /\ queue[r] # <<>> /\ Head(queue[r]) = "end"
    /\ queue' = Set(queue, r, Tail(queue[r]))
    /\ serving' = serving \ {r}
    /\ finished' = finished \cup {r}
    /\ UNCHANGED <<handler, session, response, queue_last, deploys, event,
                   incoming, broken>>

-----------------------------------------------------------------------------

Consume(r) == Receive(r) \/ DeleteResources(r) \/ CloseContext(r)

Run(r) ==
    \/ SetUp(r) \/ ChatStart(r)
    \/ WriteMessage(r) \/ Deploy(r) \/ Confirmed(r) \/ EndChat(r)
    \/ WriteLastMessage(r) \/ PutFinal(r) \/ CloseReservationist(r)

Work(r) == ProcessItem(r) \/ FinishQueue(r)

Next ==
    \/ \E r \in Requests :
        \/ Start(r) \/ StartWithoutText(r) \/ CutOff(r)
        \/ SetUpFails(r) \/ ChatFails(r) \/ ProcessItemFails(r)
        \/ Consume(r) \/ Run(r) \/ Work(r)
    \/ ProcessQueue

Spec == Init /\ [][Next]_vars

\* Event loops and threads go on when they can, and a chat comes to an end.
\* Nothing is assumed of clients and of exceptions.
Fairness ==
    /\ \A r \in Requests : WF_vars(Consume(r)) /\ WF_vars(Run(r)) /\ WF_vars(Work(r))
    /\ WF_vars(ProcessQueue)

FairSpec == Spec /\ Fairness

-----------------------------------------------------------------------------

Items == {"message", "answer", "item", "end"}

\* Every variable holds a value of its kind.
TypeOK ==
    /\ consumer \in [Requests -> {"new", "waiting", "release", "close", "closed"}]
    /\ stream \in [Requests -> {"open", "ended", "cut", "refused"}]
    /\ got \in [Requests -> Seq(Items)]
    /\ active \in Nat
    /\ run \in [Requests -> Over \cup {"set_up", "chat_start", "chat", "wait", "write_last",
                                       "put_final", "close_reservationist"}]
    /\ then \in [Requests -> {"chat_start", "done"}]
    /\ front_man \in [Requests -> BOOLEAN]
    /\ last_message_sent \in [Requests -> BOOLEAN]
    /\ responses \in [Requests -> Seq(Items)]
    /\ responses_last \in [Requests -> BOOLEAN]
    /\ responses_closed \in [Requests -> BOOLEAN]
    /\ queue \in [Requests -> Seq(Items)]
    /\ queue_last \in [Requests -> BOOLEAN]
    /\ deploys \in [Requests -> Nat]
    /\ event \in [Requests -> BOOLEAN]
    /\ incoming \in Seq(Requests)
    /\ serving \in SUBSET Requests
    /\ finished \in SUBSET Requests
    /\ broken \in SUBSET Requests

\* put() and put_final_item() let nothing follow the final item, also when an
\* event run is finalized before its chat and again after it.
NothingAfterTheEnd ==
    \A r \in Requests :
        /\ \A i \in 1 .. Len(responses[r]) : responses[r][i] = "end" => i = Len(responses[r])
        /\ \A i \in 1 .. Len(queue[r]) : queue[r][i] = "end" => i = Len(queue[r])

\* What the client gets is an AnswerStream: whatever is cut, fails or is
\* finalized twice, a stream that ends by itself has brought every message and
\* then the answer.
Messages(q) == IF q # <<>> /\ q[Len(q)] = "end" THEN SubSeq(q, 1, Len(q) - 1) ELSE q
Written == [r \in Requests |-> got[r] \o Messages(responses[r])]
StreamState == [r \in Requests |-> IF stream[r] = "refused" THEN "cut" ELSE stream[r]]
Client == INSTANCE AnswerStream WITH written <- Written, received <- got, stream <- StreamState
StreamIsAnswered == Client!Spec

\* A coded tool that waits is told: once a thread has the request's queue, the
\* deployment is confirmed unless it fails or the run was an event's, whose
\* reservationist is closed already.
ServedDeployIsConfirmed ==
    \A r \in Requests \ Events :
        (run[r] = "wait" /\ r \in serving) ~> (run[r] # "wait" \/ r \in broken)

\* A run that comes to its end lets go of the request that waits for its messages,
\* and, while there are as many threads as requests, each queue gets a thread ("we
\* avoid potential locking out of different queues").
RequestEnds ==
    \A r \in Requests :
        /\ (run[r] = "done") ~> (consumer[r] = "closed")
        /\ (consumer[r] # "new" /\ r \in Reserving) ~> (r \in serving \cup finished \cup broken)
=============================================================================
