# neuro-san: a verification development

TLA+ models of neuro-san, its server, its clients and what they make of their files,
model-checked with TLC and, for sixteen of the modules, proved with TLAPS. The reference is the
code under `src/neuro_san/`; every operator of a model stands for the lines that
`PROJECT.json` ("map") names.

## 1. The system

A neuro-san server answers HTTP and MCP requests for *agent networks*. A network is data: a
file that lists agents (LLM prompts or coded tools) and the tools each of them may call, its
"down-chains". The server reads the networks that manifests list, re-reads them when the
files change, and lets a running network deploy further, *temporary* networks. Networks call
each other, on one server or across servers.

| component | state it keeps | operations | talks to |
|---|---|---|---|
| **Temporary networks** (`internals/network_providers/expiring_agent_network_storage.py`, `abstract_reservations_storage.py`) | two tables by reservation id (network, reservation) under a `threading.Lock`; a base storage shared by servers | `add_reservations`, `expire_reservations`, `get_agent_network_provider` | tells its listener, the HTTP server, outside the lock; called by pool threads, lookup threads and an expiration thread |
| **S3 reservations storage** (`s3_reservations_storage.py`) | objects of a bucket | put, get, list, compare and delete, each call but put retried | several servers over one bucket |
| **Agent registry** (`agent_network_storage.py`, `service/watcher/...`, `http_server.py`, `async_agent_service_provider.py`, `internals/graph/persistence/`) | a table per storage ("public", "protected"), `allowed_agents`, one cached service per agent | reading of manifests and network files, reload, `agent_added/removed/modified`, `get_service`, `reset_service` | a polling observer and a watcher thread on one side, the event loop on the other |
| **Validation** (`internals/validation/network/`) | none beyond a call | searches for cycles, missing and unreachable nodes; names, URLs, instructions | used when networks are read, designed or deployed |
| **LLM and toolbox factories** (`langchain/llms`, `langchain/toolbox`) | files with infos of classes, models and tools | from an agent's settings to an LLM or a tool | third-party classes |
| **Streaming chat** (`async_agent_service.py`, `async_direct_agent_session.py`, `data_driven_chat_session.py`, `async_collating_queue.py`) | a response queue, the session with its front man, a counter of requests | `streaming_chat` on the server's event loop, `run_it` on another one, clean-up when a stream ends or is cut off | joined by `AsyncCollatingQueue`s |
| **Reservations of a request** (`accumulating_agent_reservationist.py`, `service_agent_reservationist.py`, `temp_network_storage_updater.py`) | a queue of deployments per request, a pool of 32 threads | `deploy`, `close`, `process_one_queue` | from the run to the temporary networks, and back by an `asyncio.Event` |
| **HTTP server** (`http_server_app.py`, `base_request_handler.py`) | counts of requests in execution and served, a `serving` flag | `start_client_request`, `finish_client_request`, shutdown at a limit | handlers on the loop, a shutdown thread |
| **MCP server** (`service/mcp/`) | none: it is built without sessions | tools/list, tools/call | the authorizer, the storages, the services of the registry |
| **Authorization** (`internals/authorization/`, `agent_authorization_policy.py`) | one client, a cache of store ids under a lock | `authorize`, `list`, within `async with` | OpenFGA, or nothing (the default says yes) |
| **Agent runs** (`internals/run_context/`, `internals/graph/activations/`) | a chat history and LLM resources per call, one index map and one token accounting per request, one `sly_data` per session | LLM chain with retries and a time-out, tool calls in parallel, other networks as tools | LLM providers, coded tools, other servers |
| **Journals and filters** (`internals/journals`, `internals/messages`, `internals/filters`, `message_processing`) | origin of messages | pass messages on in order | the response queue, the client |
| **Client** (`client/`, `session/`) | a state dictionary with context and sly data, message processors | inputs in turn, a stream or a tool result for each | a server by HTTP or MCP, or a session in its own process |
| **Test driver** (`test/`) | counts of samples, captured asserts, one test case | samples in threads, evaluators, assessment of failures | sessions of any kind |

What is hard in it is concurrency: threads of a pool, a watcher thread, an expiration
thread, a shutdown thread and several event loops share tables, queues and flags; most
notifications are made after the lock is released; what a request read before an `await` may
have changed after it; clients go away in the middle of a stream; a queue ends only if
somebody puts its end; and all calls of a session write one dictionary. Where nothing runs at
the same time it is order and names: layers that override each other, filters that go over a
text once, and two lookups of a tool that agree only if the names do. `PROJECT.json`
("hazards") lists each such place at its line, with the property that covers it or the reason
why none does.

What makes each component correct:

* *temporary networks*: the tables agree; a valid network is served and is never taken
  away; an expired one is dropped; nobody waits for ever on the lock;
* *S3*: whatever servers, stops and lost answers come between the calls, an object stays
  until it expires and then goes;
* *agent registry*: what is served is what the files say; no cached service outlives
  its network; a reload withdraws no agent that stays; every edit is taken up; the last
  manifest that speaks of a network decides about it;
* *validation*: the searches find what their names say, and end;
* *factories*: the most specific setting wins; what is called is what was offered; each agent
  has its middleware, and connections are closed with it;
* *streaming chat and reservations*: a stream that ends by itself has brought all messages
  and the answer; nothing follows the end; a deployment is confirmed; queues are served;
* *HTTP and MCP server*: it stops when, and only when, its limit is exceeded, and waits for
  the requests it counts; a request gives away nothing its actor was never granted, and is
  answered;
* *agent runs*: an agent that is in time has the last word; nothing goes on after its
  caller has ended; reports and origins are right in whatever order calls end; a turn ends;
  private data goes only where each agent on the way lets it;
* *client*: the front man remembers what was said, and nothing else;
* *test driver*: the verdict is what the test case's ratio says of its samples.

## 2. The modules

`X.tla` is a component, `MCX.tla` its instance for TLC and `X_proofs.tla` its proofs; those of
HttpServerApp, StructureValidation and TestDriver are in `Components_proofs.tla`. A
definition marked "Mutant:" is a wrong variant of one in its module; no specification uses
it, it is there to show that a property can tell it from the code.

### TempNetworkStorage

One server's `ExpiringAgentNetworkStorage`, the threads that work on it and the
`allowed_agents` of the HTTP server that listens to it. Every access to a table that another
thread can come between is a step of its own: `pc` says where a thread is, `lock` who holds
the lock, and `work`, `added`, `replaced`, `gone` are the loop variables of the method it
runs. A `Reservation` in the table is either the deployer's own object, whose expiration
time a later deployment renews (`Own`), or a copy read from the base storage (`Copy`); the
difference matters because the expirer looks at the former through the object. A network
is the number of its deployment. `get_agent_network_provider()` can call itself through
`agent_added()`; `frames` is that call stack. `Wanted` are the agents that a request asks for.
An error that nobody catches ends the thread of a deployment where it is (`Die`): a put fails
(`BaseAddFails`), a network cannot be made (`AddAgentRaises`), or the base storage that the listener's
lookup reads raises something else than a miss (`FetchRaises`), which a request answers with an error. The base storage is a table of objects with an
expiration time that another server may put and that expire by themselves.

### S3Storage and BaseStorage

`BaseStorage` is the abstract specification of a storage that servers share: a reservation
that was put stays until the expiration it was first put with, and then goes. `S3Storage` is
the bucket: each call of S3 is a step that may succeed, fail before it had its effect, or fail
after it; `_do_with_retries()` tries again, for every call but put. A deployment of a batch puts one object after the
other; a pass of the expirer lists page by page, gets each object and deletes it in a second
call; a page is the set of keys that are left of it, taken in order. Servers may be stopped
between any two calls. Batches of different servers have different keys, as ids end in a
uuid4: if two servers could put one key, the second one would be promised a time that the
object of the first does not have. `Base` is the instance of BaseStorage with
`stored` read off the bucket, for the keys in `Reached`: what is listed after an object that
is not a reservation is never looked at again, as the pass ends there with an exception.

### AgentRegistry

From the files to the service that a request gets. `files` is what the manifest says and
the version of each network file; edits change it at any time, also between two reads of a
reload. `changed` and `events` are the observer and the counters of `RegistryChangeHandler`;
`watcher` is the place of the thread that reloads, storage by storage and agent by agent,
with the listener's notifications as steps. `loop` is the place of the one request on the
event loop: `get_service()` has no `await`, but the watcher can come between any two of its
steps. A provider is a record with the service it has cached and its lock; the providers
ever made are kept, since a request may hold one that is no longer in the table.

### NetworkSetup over Manifests, AgentNetworks, LlmConfig, StructureValidation, ToolCalls, AgentResources, Dictionaries

How files become something that runs. `NetworkSetup` is a machine that takes one input
(`given`) of one of six kinds through its stages; a behaviour is one pipeline.

* *manifests* (`Manifests`): the filters of a manifest's entries, the validators of the
  networks it names, and the overlay of one manifest after the other into the two storages.
* *file* (`AgentNetworks`): definitions are replaced, names corrected, agents registered
  (twice the same name raises), and the connectivity of the network is reported, agent
  by agent: `pending` is what the nested calls of `report_node_connectivity()` have still to go
  through. A text is a sequence of words, and a definition is a word that stands for one.
* *settings* (`LlmConfig`): an agent's settings over its network's, over the user's and the
  default file, with the arguments of a class under those of the class that extends it; then
  the factories, asked one after the other (`TryFactory`) until one ends the search.
* *graph* (`StructureValidation`): `StructureNetworkValidator` as a machine: the recursion of
  its two depth-first searches is a `stack` of calls, each with the children its loop still
  has to visit. What the searches are to find is defined without them, by the sets that are
  closed under the down-chains.
* *tools* (`ToolCalls`): the references of one agent become langchain tools with names of
  their own; a call of one of them by the model is resolved by name a second time, by the
  run context, `CallingActivation` and `ActivationFactory`, and ends at a branch, a coded
  tool in one of the folders, another network, an MCP server, a toolbox or an exception.
* *resources* (`AgentResources`): what a run context makes for an agent: one LLM after the
  other for the `fallbacks` of its configuration, each with a chain and middleware of its own.
  A `Policy` is what an `LlmPolicy` decides: does it make the network client or reach for the
  model's, where may the API key be, what does it close, and is an exception of that
  suppressed. `open` are the clients that are open, `kept` the LLM whose policy
  `delete_resources()` will ask. The arguments that are passed on as they are, are left out.

The first three are operators, and each step applies one of them as the code calls the
corresponding method; the order of the steps and where one raises are the machine's.
A dictionary is a function on its keys, and `Overlay` (`Dictionaries`) favours the second of two.
The assumptions on what is given (`ManifestsAssumption`, `FilesAssumption`, `LlmsAssumption`,
`ToolsAssumption`, `ResourcesAssumption`) say that lists are lists and that records have the
fields that are read, of the kinds the code can read.

### StreamingChat and AnswerStream

A request from the handler to its end. `consumer` is the generator on the server's loop,
`run` the run on the executor's loop, `serving` the queues that have a thread of the pool.
`responses` and `queue` are the two `AsyncCollatingQueue`s, each with its `last_item_sent`.
`finalize_run()` is four steps (last message, end, end for the reservationist, return) since
the consumer can see the end before the run has gone on. `CloseContext` may cancel the run
or leave it; giving an executor back to its pool is a library's affair.

`AnswerStream` is the abstract specification: messages are written and received in order,
the answer is the last one, and a stream ends by itself only after it. `Client` is
`StreamingChat`'s instance of it, where what was written is what was received with what is
still in the queue. That `StreamingChat` implements it is the property `StreamIsAnswered`.

### HttpServerApp

The counters, the flag, and the shutdown thread. A request is let in (`Prepare`), counted
(`StartClientRequest`), counted out (`FinishClientRequest`) or, when an exception comes
where no `finally` counts it out, left counted (`FailUncaught`). MCP requests are in
`Uncounted`: their handler does not call either method.

### McpServer over OpenFgaAuthorizer

`OpenFgaAuthorizer` is the one authorizer object that all handlers of a server share, and a
session of it (`async with`) per request: opening closes the client of whoever came before,
the store is looked up under a `threading.Lock` that is held across awaits, and leaving closes
the client that is there, whose ever it is. All requests are coroutines of one loop: `MayRun`
lets a request go on only if no other one is between two awaits, and `blocked` says that the
loop waits for the lock. `McpServer` extends it with the handlers: tools/list, tools/call, the
concierge's list and `get_service()`, each of which asks, awaits and then reads the storages
and the policy's table, which other threads change, as an administrator changes the grants.
A lookup may raise (`LookUpRaises`), which the request answers with an error. `seen` is history: what
was granted and known at some time since a request came.

### AgentRun

A conversation, turn by turn. In a turn each activation is a call; call 1 is the front man's
and `callers` are the calls above one. `place` is where a call is, from the task that
langgraph makes for it ("asked") to what it returned. All calls are coroutines of one event
loop, so a step is what stands between two awaits: `StartCall` is the constructor of the run
context (which takes the origin's index), `AskForTools` and `Answer` are replies of the LLM,
`Retry` and `GiveUp` are the `except` clauses of `invoke_agent_chain()`, `AnswerRaises` is a reply that
`parse_chain_result()` stumbles over after them, `TimeUp` is
`wait_for()` of the token counter, which cancels a chain with all that it awaits. `late` and
`callers` are history: they say which calls were cut off by whom. A message is who it is from,
whether it asks or answers, and its turn; that a tool's result becomes an `AIMessage` in its
caller's history is why `AnswerMessage` looks for any message but the user's. The context that
the client brings back is the only state that a turn leaves to the next.

### SlyData

The private dictionary of a session, and what of it goes along when a network calls another.
A session and the call that it serves have one number. `CallNetwork` is what the calling
agent allows downstream, `StreamingChat` and `RunIt` are the other network's session from its
request to the answer its front man allows upstream, `Return` merges what the caller accepts.
`SlyDataRedactor` is `FilterConfig`, over the forms that an `allow` block can have. Several
calls of a session are in motion at once, and each may be lost. A value is where it was made,
so that a property can ask how it came to where it is; `Ways` is the set of all ways the
`allow` blocks leave open, from the blocks alone: the least set of steps from a session to
another that has where values are made and is closed under what each block lets through.

### Clients over ChatClient and TestDriver

The two programs of the repository that use sessions. `ChatClient` is `AgentCli`: inputs,
the exchange with a session of one of three kinds, the processors that gather what a stream
brings, and the state that goes to the next exchange. A direct session shares one context and
its queue over all exchanges, an HTTP session reads lines, an MCP session gets one result.
`TestDriver` is `DataDrivenAgentTestDriver`: samples of one test case in threads of their own,
each with its interactions over its connections, asserts that pass, are captured or raise, the
thread that collects what completes and leaves off early, and the assessment of failures.
The samples share the test case's sly data, as in the code. `Clients` is either of them.

## 3. What is model-checked

| run | instance | what it shows |
|---|---|---|
| `temp_networks` | three agents, two deployed here, one of them up to twice, and one by another server; a deployer and a lookup, either of which an error may end; the expirer, 3 units of time | the tables agree whenever the lock is free; a network deployed once is served until it expires, unless an error ended its deployer first, and never removed before; what is expired is dropped; deployments and lookups end |
| `s3_bucket` | two servers, one of which may stop, two reservations of a batch and a foreign object, pages of one, two attempts, two errors | the bucket implements `BaseStorage` |
| `registry_reload` | two agents, one that may move from public to protected, two edits at any time, requests in between | services and tables follow the files; no needless outage |
| `registry_move_back` (violated) | one agent, one edit from protected to public | the agent is registered and listed but not served |
| `network_setup` | two manifests, small files with definitions, tools in lists and dictionaries, every level that can set an LLM's argument, all graphs of three agents with up to two down-chains in every order, agents with one or two tools of each kind, with one or two LLMs of each class and up to two entries of middleware | who decides what is served; what filters leave; the report; the setting and the factory that win; the searches against their definitions; what a call reaches; keys and connections of LLMs; the middleware of each fallback |
| `chat_streams` | a chat that may be cut off and an event, both may fail, two deployments each, a pool of 3 | streams implement `AnswerStream`; deployments that have a thread are confirmed; each queue gets its thread |
| `http_shutdown` | four counted requests, one that may fail, one MCP request, limit 1, time-out 2 rounds | the server closes its door, waits, and stops |
| `mcp_requests` | two requests of each kind, an agent and a temporary network, either authorizer, one change by others | nothing is given away that was not granted; every request is answered, or two came first at the same time |
| `openfga_requests` (violated) | the same, nobody changes anything | two requests that are the first to need the store stop the loop for good |
| `agent_turns` | two turns, three calls each, of a front man with an agent and a coded tool, which the agent may call too | the answer of an agent in time is its own; origins differ; accounting and resources at the end of a turn; no call outlives its caller; turns end |
| `sly_data` | a client, a network of two agents that call two others, one of which calls the other; sixty choices of `allow` blocks, three calls | each private value came by a way that is allowed; nothing is lost or overwritten but by what may be accepted |
| `client_chat` | three exchanges with each kind of session and filter; or tests of up to three samples, two connections and two interactions | what the front man remembers; what a verdict says of the samples; that both end |

The violated runs are disagreements of the code with its own comments or documentation;
`PROJECT.json` ("findings") quotes them.

**Bounds.** `MaxTime`, `MaxDeploys`: two deployments with lifetimes 1 and 2 on a clock of 3
have each order of renewal, expiry and lookup; a third one repeats the second. `Wanted`: requests ask
for one agent of this server and the one of the other. S3: pages of
one object are the most there can be between two lists; two attempts and two errors are a
call that is repeated and one that is given up; the foreign object is last, so that what
comes before it is reachable. `MaxEdits`: the second edit is the one that falls into the reload
the first has prompted. `MaxMessages`,
`MaxDeploys` of the chat: one message makes the stream's order visible, the second
deployment follows a confirmed one. The pool has one thread per queue, and one that hands
them out; the code's 32 threads behave alike with 31 queues. `MaxPolls`: 2 instead of 15
rounds. Three agents are the least in which a cycle goes through an agent that is processed
already, and two tools the least that can have one name. A second LLM is the first fallback,
and a second entry of middleware the first that can offer another checkpointer. `MaxCalls` of AgentRun: three calls
are a chain of two below the front man, two in parallel, or
the same tool twice; `Retries` and `MaxIterations` are 2 (the code has 3, and 20 by default),
so that each can be used up and started again; `MaxTurns` is 2, as only the context goes from
one turn to the next, and `MaxHistory` 2 is less than one turn can say. `MaxCalls` of SlyData:
three calls are a chain through both other networks, or two at the same time that fill one
key. `MaxChanges` of McpServer: one change between any two steps of a request; two requests
suffice for whatever one does to another's client. `MaxInput` of the client: the third exchange
is the first one that follows an exchange which followed another. `MaxProgress`: one message
before the last. Three samples are the least of which one is not looked at and one fails.
Bounds are guards of the actions or sizes of constants, never constraints.

**Constants that leave behaviour out.** `Redeploy` of TempNetworkStorage are the agents
whose reservation may be deployed again. `ValidIsServed` and `NeverRemovedEarly` speak of the
others (`Once`): a renewed reservation can be popped by an expirer that saw the old one, which
the hazards note. `ValidIsServed` makes one more exception (`Untold`): agents that a deployment had
put into the tables when an error ended its thread, before the listener was told of them. `MayMoveBack` and `EditsDuringBoot` of AgentRegistry
are FALSE in `registry_reload`: each of them breaks one of its properties, as
`registry_move_back` and the notes of the hazards say. A manifest that cannot be read may be
met there; it ends the watcher thread for good, so `EditsAreUptaken` speaks of servers whose
thread is alive. `MayCut` and
`MayBreak` of StreamingChat are the requests that may be cut off or fail.

**Fairness.** Weak fairness of each thread and event loop: the interpreter schedules every
thread, and a loop runs every callback. For locks it says that who waits gets in, which
holds because each holder releases after finitely many steps. The chat assumes that a run
comes to the end of its chat (LLM calls have time-outs), never that a client stays, that a
deployment succeeds or that a request is cut off. HttpServerApp assumes that a handler ends.
AgentRun assumes of a call only that its time elapses (`max_execution_seconds` is two minutes
if a network does not say otherwise) and that the loop then runs what is ready; no LLM or tool
has to answer. The front man is in `Slow`, and the other agents are too, but `TurnEnds` rests
on the front man's time alone. S3Storage assumes that the expiration loop of the servers that
live goes on; calls fail at most `MaxErrors` times. McpServer assumes that the loop goes on and
that every call outside is answered or fails, as HTTP clients time out; that does not help a
loop which waits for a lock. Of the client's parts each goes on: `timedinput()` gives up after
its time, a run ends (answered, refused or dead), a reader reads what there is. The thread of a
test and its samples go on, but a stream may fall silent for ever (`FallSilent`), as no time-out
is looked at between messages. NetworkSetup and SlyData have no fairness and no liveness.
No action of the environment (files, clients, other servers, time) is fair, except that
`Expire` of the temporary networks goes round as its thread does.

## 4. What is proved

For all values of the constants, from the assumption that each module makes on them only
(`ConstantsAssumption`; `StructureAssumption` and `SamplesAssumption` of StructureValidation and
TestDriver; the five of NetworkSetup's parts in section 2), except where another is named. Each inductive
invariant below was also checked by TLC on the instance of its module's run, for NetworkSetup one kind
of input after the other. Theorems are in `X_proofs.tla`, beside the module `X` they are
about, and those of the other modules in `Components_proofs.tla`.

*TempNetworkStorage_proofs.* `TypeCorrect`: `TypeOK` is an invariant. `TablesAgree`: so is
`TablesTogether`. The latter is not inductive, as the tables do disagree while somebody writes
them. The invariant `IInv` adds who holds the lock (`LockInv`: exactly the thread at one of
the places inside a with-block), and which half of which pair the holder has written
(`HalfInv`, `AgreeInv`: for each agent the tables agree, or the lock's holder is at the place
between the two writes for that agent). A step outside the lock changes neither table; a step
of the holder writes one half of one pair; when the holder releases, nothing is half written.

`ValidAreServed` and `ValidStays` are `ValidIsServed` and `NeverRemovedEarly`. Their invariant
`FullInv` says for each agent that it is unknown everywhere before it is deployed and that, while it
is deployed once, the table, the base storage, the expirer's snapshot and whatever a thread has
fetched all hold the one expiration time (`KnownInv`, `ThreadInv`). Hence who is about to drop the
agent, or to tell the listener that it is gone, does so after its time. `TellInv` says that a valid
agent has a provider, or its deployer died on the way to the listener (`Untold`), or some thread is
going to make one (`Telling`): it has the agent among those it
has added, has cached it, or is in the lookup that the listener made. The interesting step is a
lookup that finds the reservation without the network: it looks between the two writes of another
thread, and that thread is at `cache_agent`, so it is the other one that is telling. `ThreadStep`
states once what a step of one thread has to show.

*HttpServerApp* (in Components_proofs). `ServerInv` is `TypeOK` with `NoneUncounted` (the number of counted
requests in execution is at most `num_processing`), which is what keeps `num_processing` a
natural number: a request that is counted out is one of them. `StopsAtTheLimit` and "the
limit is reached only when `serving` is false" are inductive with it. From it follow the two
action properties: `ShutdownWaits` (the thread that finds `num_processing` at 0 finds no
counted request in execution) and `LimitClosesTheDoor`.

*StreamingChat_proofs.* `ChatImplementsStream`: the refinement of `AnswerStream`, for any
finite set of requests. `IInv` says of each request how its run, its flags and its queue go
together: the answer is written before the final item and at most once, because who has sent
it either has marked the queue as finished or is just about to (`AnswerIsLast`), also when
`finalize_run()` runs twice; and a final item is the last of its queue (`Closes`), which is
`NothingFollowsTheEnd`. The lemmas `SaidPut` and `SaidTake` say what putting and taking an
item does to the sequence of all that was written. `TypeCorrect` needs more than types:
`request_counter` is a natural number because it equals the number of the requests that are
counted and not counted out (`Counting`), those whose streams were cut off among them.

*AgentRegistry_proofs.* `CachedIsCurrent` is `CachedServiceIsCurrent`, with no assumption on the
edits. Its `CachedInv` has a provider belong to one agent at most (`OwnersInv`), its lock held
exactly while the request is between creating the service and storing it (`LockInv`), and what is
cached, or about to be stored by a provider that is still the agent's, be of the registered network
unless the watcher is about to notify of that agent (`CacheInv`). `ServedAreRegistered`
(`ServedIffRegistered`) and `NoneIsWithdrawn` (`NoNeedlessOutage`) assume
`MayMoveBack = FALSE`: the run `registry_move_back` shows that they do not hold otherwise. Their
`ServedInv` follows a reload through its phases: what was read of the manifest, and is still to be
read, is for one storage (`ReadInv`, `NoWayBackInv`), each storage loses what the manifest lacks
before it gets what it has (`SetUpInv`), and the tables and the server's providers agree but for the
agent whose notification is due (`AgreeInv`).

*AgentRun_proofs.* One `IInv` for the four invariants of a turn, any network and any number of
calls, retries and turns. `OriginsIdentifySenders`: each activation's index is below the next one
of its agent's name (`OriginInv`). `NothingRunsOn`: everything that is in motion has callers that
are all running, up to the front man (`CallInv`, `MotionInv`), so that a time that is up finds the
whole subtree and cancels it. `AnswersInTimeCount`: what an agent in time says last is its answer
(`SpeechInv`), a tool's message of this turn is an answer while nobody was late (`HistoryInv`), and
the context of the front man has only earlier turns until the turn is over (`TurnInv`).
`TurnsCleanUp`: replies are counted and resources open only at the places where they may be
(`TokenInv`).

*SlyData_proofs.* `ValuesGoWhereAllowed` (`SlyDataIsAllowed`) and `OwnKeysAreKept`
(`OwnDataStays`). `IInv` says where a dictionary is on its way: in a call that is made it may be in
the network it goes to, or it is the caller's own, shared because everything may go (`SentInv`); in
a call that is over it may come up under the names the front man's block gives (`BackInv`). `ways`
is the least set that holds what each network has and is closed under the blocks (`WaysAreClosed`);
that a redactor's result stays in it is `FilterLets`, for each form of a rule.

*McpServer_proofs.* `OnlyAllowedIsGiven` (`AnswersWereAllowed`), for any number of requests, agents
and any sessions with the authorization server. `Sound` says at each place of a handler that what it
has listed, what its session has been told, the agent it goes on with and what it has given away were
granted, or known, at some moment since the request began (`saw`). Only the handler's own steps
change what it holds, and what it has seen grows until it is over.

*S3Storage_proofs.* `BucketIsBaseStorage`: each step of a server is a step of `BaseStorage` or none,
so its safety part (`Base!Safety`) is implemented, whatever pages, retries, errors and crashes. An
object is deleted after the server has seen it expired, with a time that is not ahead (`ServerInv`),
and a reservation is never replaced by one that goes earlier (`KeyInv`). The proof needs that two
servers do not deploy the same reservation (in `ConstantsAssumption`; an id ends in a new UUID,
`src/neuro_san/internals/reservations/agent_reservation.py:41`): without it a put that was delayed by its retries can overwrite a later
deployment of another server with an earlier expiration.

*StructureValidation* (in Components_proofs). `CyclesAreReported` (`CyclesAreFound`) and
`ReachableIsFound` (`ReachableIsExact`), for any network. Each call on the stack was made for a tool of
the one below it (`PathInv`), and the agents in processing are those on the stack, once each
(`ProcessingInv`). What is reported is on a cycle: an agent of the path that is met again leads along
the path to itself (`PathIsCyclical`; `PathStaysIn` finds the first call outside a closed set, which
does the work of an induction along the path). Nothing is passed: as long as no cycle was met, what is
processed leads only to what is processed and not back to itself (`VisitedInv`), and when no agent
is left unvisited (`StartedInv`) and none is on the stack, all are processed. An agent that becomes
processed does so when all its tools are; a processed set that is closed and lacks the agent keeps it
off a cycle (`NotCyclical`). For the search from the top agent: what it has reached can be reached, and
what that leads to was reached too or is still to be visited by a call in progress (`ReachInv`); in the
end there is no call, so the set is closed and is all of `Reached` (`ReachedIsClosed`).

*TestDriver* (in Components_proofs). `TheRatioDecides` (`VerdictIsTheRatio`), for any test cases and
samples. A sample that was taken has ended and does not change any more, so `num_successful` is the
number of the taken ones without failure (`TakenInv`). The test leaves off for one of three reasons:
a sample raised, enough were without failure, or all were taken (`DecisionInv`); a test can fail for
the last one only, and then what was taken is what there is. Samples that are cancelled were not
taken before.

*ChatClient* (in Components_proofs). `WhatWasSaidIsRemembered` (`ConversationGoesOn`), for any inputs,
kinds of session and fates of the exchanges. The invariant follows the conversation: the context that the
client keeps has what was said (`Remembered`); the run of an exchange got that context and, once it is
set up, remembers its history and has the origin 1 (`ExchangeInv`); only a run that has ended closes the
queue, and the end is its last item (`EndInv`), so that between exchanges the queue is empty and nobody
puts anything (`IdleInv`); an answer in the queue has this run's context (`AnswerInv`); and of a run
that has answered, the client has heard that context or will find it in the queue (`HeardInv`). That a
history is what was said is an increasing function onto the exchanges that count; it grows by one with
an exchange that is answered (`OneMoreIsSaid`) and is empty after one that took the memory away.

*What networks are set up from* (in Components_proofs). A loop of the code that builds up a value
is a recursive function here, and induction over data is out of the prover's reach. What takes its
place: such a function has a value at each step (`Iterates`), and what holds at the first and is kept
by each step holds at all of them (`HoldsStepwise`), both by way of the least step where it would fail
(`LeastNumber`).

* *Manifests.* `LastOneDecides` (`LastManifestDecides`), for any number of manifests: before one is
  overlaid, each storage has every name that those before it gave, as the last of them gave it
  (`ManifestInv`, `HasLatest`); what is not to be served is dropped in the end (`DroppedServesLatest`).
* *AgentNetworks.* `NothingLeft` (`NothingLeftToReplace`), for definitions in any order and texts of
  any length. The lemmas say which words a text can have after each replacement (`FlattenedHas`,
  `ValuesReplaced`, `StringsReplaced`): a definition that is used by none that is still to come is
  gone after its turn, and the one replacement that may bring it back has been made before
  (`NothingIsLeft`). `ReportIsComplete` (`ReportIsExact`), for networks of any shape: no agent is
  reported twice, what is reported or pending can be reached and was a tool of a reported one, and what a
  reported agent leads to, by the tools that the code lists, is reported or pending (`Reporting`); in the
  end nothing is pending, so what is reported is closed. An agent without tools and one of another
  server have the list that `ToolListIs` says. What the front man leads to by all the tools that agents
  name (`LedTo`) is more only if an agent in the report names some in a dictionary (`LedToIs`).
* *LlmConfig.* `SpecificWins` (`MostSpecificWins`), for any files, classes and factories: each key of
  the configuration comes from the first of its levels that has it (`ConfigIsMostSpecific`), through
  any chain of classes; the factories before the one that is asked did not end the search
  (`WasAsked`).
* *ToolCalls.* `CallsReachTheRightTool` (`RightToolIsCalled`): every tool that is offered is of one of
  the agent's references, with the safe name of it if it is a function (`ToolsInv`, `IsOffer`). The
  search among the folders finds the nearest one that has the class (`NearestIsFound`, `ClassIsCalled`),
  for paths of any length; a call by a name that only one reference has (`OnlyOne`) gets to it
  (`IsRight`).
* *AgentResources.* `ConnectionsReleased` (`ConnectionsAreReleased`): each LLM that was made has got its key
  (`KeyInv`), has its clients open until the resources are deleted (`OpenInv`), and those of the first one
  are from then on still to be closed, closed or do not let themselves be closed (`ClosingInv`).
  `MiddlewareListed` (`MiddlewareIsAsListed`): an agent's middleware is what its list says up to the
  entry at hand (`IsBuilt`), and every object has a number below the next one of its class, so that
  none is given twice (`HasNumbers`).

StructureValidation, TestDriver, ChatClient and AgentResources have `StructureTypes`, `TestTypes`,
`ChatTypes` and `ResourcesTypes`, the modules of the other runs but NetworkSetup a `TypeCorrect`.

**Only model-checked.** Every invariant that a run checks is proved, for all values of the constants
or under the assumption that is named with it. What stays with TLC is what is under fairness, which is
out of the prover's reach: the properties with `~>` or `[]<>` (`RequestEnds`, `TurnEnds`,
`ThreadsReturn`, `EditsAreUptaken`, `LimitStopsTheServer`, `ServedDeployIsConfirmed`,
`RequestsAreAnswered`, `ClientsLeave`), and the eventual removal in `ImplementsBaseStorage` (whose
safety part is `BucketIsBaseStorage`) and `ExpiredIsDropped`. What a recursive definition computes
for every input is proved only as far as the theorems above say.

## 5. What is not modelled

`PROJECT.json` ("components") lists every part with its status and the reason. In short: the
text of messages and prompts, LLMs and langgraph themselves (any reply, error or silence is
possible), include files, what middleware does, the schema checks of MCP, HTTP headers, health checks and
usage reports, tracing, example networks and tools, generated API code and deployment files. MCP
sessions are in the code but not in the server, which is built with `McpNoSessionsPolicy`
(`mcp_server_context.py:61`). A request that the HTTP server does not count (an MCP request, or
one between `prepare()` and its handler) is in HttpServerApp, but nothing is claimed about its
being cut by a shutdown. Of the rest, direct reservations are one step of TempNetworkStorage
for one caller.

**What the models have and no property forbids.** The properties say what holds. These are
places where the code, and so its model, does something that a reader may not expect; a property
makes an exception for it, or no property speaks of it:

* *temporary networks*: after a second deployment of a reservation the provider that the server
  serves still has the first network; S3 objects listed after one that is no reservation are
  never looked at; an error that ends a deployment's thread leaves the session's later deployments
  undone, and networks in the tables that nobody told the listener of: a request for one of them finds
  it there and answers 404 all the same, until it expires.
* *chat*: an event is finalized before its own run, so that a deployment of its tools can be
  dropped and the tool then waits for ever; the thread of a stream that was cut off is not given
  back to the pool; the counter of requests keeps each interrupted stream
  (`async_agent_service.py:337`), which is only reported.
* *agent runs*: when the time of a front man is up while its tools are at work, the answer of the
  turn is what a tool said last, or an earlier turn's; a reply of an LLM whose content is an empty list
  raises after the `try` of `invoke_agent_chain()` (`run_context_runnable.py:273`), and ends its call, or
  the turn, without an answer and without its accounting.
* *manifests and files*: a list in `args.tools`, which `assemble_tool_list()` takes, raises in the search
  for unreachable agents (`unreachable_nodes_network_validator.py:160`) and ends the restore; the tools
  of a dictionary there, of which a comment says that they are checked (`connectivity_reporter.py:201`),
  are not in the connectivity report, as the `values()` of a dictionary are no `List` (`:207-210`).
  `ReportIsExact` excepts reports of agents with such a dictionary.
* *validation*: without any `args`, an agent on a cycle that was processed from elsewhere is not
  reported, depending on the order of the agents.
* *tools*: one dictionary among the references of an agent makes each call of its function tools
  raise; two references whose safe names agree both go to one of them; a toolbox that is
  an empty text is offered, and raises when it is called; the folder of coded tools is compared
  with the network's name as a text; an empty list of tools of an MCP server means all of them;
  the name of a front man is set in the dictionary that all activations share.
* *LLMs and middleware*: the run context keeps the first of its LLMs (`langchain_run_context.py:221`),
  so the network clients of fallbacks, and of an LLM whose agent could not be made, stay open; a
  Bedrock client that does not close keeps the next one open. "Skipping it" is said of an entry
  of middleware that is no dictionary (`middleware_factory.py:165`), which then raises when it is
  asked for its checkpointer (`:119`).
* *sly data*: a key that goes out and is accepted back overwrites, with the value it had when
  it went out, what was written in the meantime.
* *MCP and authorization*: an agent that vanishes between the list and its description leaves a
  None in the list of tools; two servers that start together may each create a store.
* *client*: an exchange that is refused or dies takes the conversation's memory away; a direct
  session whose run dies is read for ever; so is the loop whose input is the default one.
* *test driver*: all samples and connections share one dictionary of the test case's sly data; a
  time-out is looked at only when a message comes, not for "the test as a whole"
  (`docs/test_case_hocon_reference.md:128`); an answer that `less` or `greater` cannot compare,
  or a gist without a verdict, ends the test whatever its ratio (`:90-95`); `less` passes if the value of the test case
  is less than the answer, and `greater` likewise, which is the other way round than `:395` and
  `:406` say; samples still running when enough have passed are not assessed, although the
  denominator is to be "how many test samples should be taken" (`:98`).

Type invariants are stated in the proof modules, which rest on them; only StreamingChat's is checked by
a run as well. The runs' properties are spent on what can go wrong.

## 6. Plan

In order of what a failure would cost:

1. *done* the modules of section 2 with their runs, and the proofs of section 4.
2. *done* the invariants of ChatClient and of what NetworkSetup is made of, for all values of the
   constants.
3. *next* AgentRun as the run of StreamingChat: its turn writes the messages, and its front man's
   answer is the one that `AnswerStream` promises. SlyData over AgentRun in the same way.
