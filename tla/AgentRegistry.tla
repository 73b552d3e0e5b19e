--------------------------- MODULE AgentRegistry ---------------------------
(***************************************************************************)
(* The agent networks a server reads from its manifest: the files, the     *)
(* polling observer that notices edits, the StorageWatcher thread that     *)
(* reloads the manifest into the "public" and "protected"                  *)
(* AgentNetworkStorages, the HttpServer that listens to both and the event *)
(* loop that gets an agent's service for a request.                        *)
(*                                                                         *)
(* Only the watcher thread writes the storages, so their lock is never     *)
(* waited for and each write under it is one step.  get_service() has no   *)
(* await: on the event loop one request runs it at a time, while the       *)
(* watcher can come between any two of its steps.                          *)
(***************************************************************************)
EXTENDS Naturals, Sequences

CONSTANTS
    Agents,             \* names a manifest can list
    MaxEdits,           \* bound: number of edits of the files
    MayGo,              \* the storages an agent's manifest entry can name
    MayMoveBack,        \* may an entry go from protected to public in one reload?
    MayBreakManifest,   \* may the manifest be missing or impossible to parse?
    EditsDuringBoot     \* may files change before the observer watches them?

Storages == {"public", "protected"}

ASSUME ConstantsAssumption ==
    /\ Agents # {}
    /\ MaxEdits \in Nat
    /\ MayGo \in [Agents -> SUBSET Storages]
    /\ MayMoveBack \in BOOLEAN
    /\ MayBreakManifest \in BOOLEAN
    /\ EditsDuringBoot \in BOOLEAN

VARIABLES
    files,           \* what the manifest says of an agent, and its network file
    manifest_ok,     \* can the manifest be read?
    edits,           \* how many edits so far
    observing,       \* has the observer been started?
    changed,         \* is there an edit the observer has not polled yet?
    events,          \* is a counter of RegistryChangeHandler above 0?
    watcher,         \* where the thread that sets the storages up is
    listed,          \* manifest entries whose network is still to be read
    networks,        \* storage -> agent -> network read from the files
    storage,         \* the storage that is being set up
    todo,            \* agents the loop has still to remove, or to add
    cur,             \* the agent the listener is told about
    agents_table,    \* storage -> agent -> network
    allowed_agents,  \* HttpServer: agent -> its AsyncAgentServiceProvider
    providers,       \* every provider made: its storage, service and lock
    loop,            \* where the request on the event loop is
    asked,           \* the agent it asks for,
    held,            \* its provider,
    service,         \* the service got from it
    chat_network     \* and the network that it chats with

disk == <<files, manifest_ok, edits>>
observer == <<observing, changed, events>>
reload == <<listed, networks, storage, todo, cur>>
request == <<asked, held, service, chat_network>>
vars == <<disk, observer, watcher, reload, agents_table, allowed_agents,
          providers, loop, request>>

\* A network is the version of the file it was read from; a service is the
\* version of the network whose factories it has loaded.
Version == 0 .. MaxEdits + 1
Nothing == 0

File == [entry : Storages \cup {"none"}, version : Version]
Unlisted == [entry |-> "none", version |-> Nothing]
Provider == [source : Storages, instance : Version, locked : BOOLEAN]

AnyAgent == CHOOSE a \in Agents : TRUE
NoNetworks == [s \in Storages |-> [a \in Agents |-> Nothing]]

\* A network whose file is missing, does not parse or is invalid is skipped.
NetworksOnDisk ==
    [s \in Storages |-> [a \in Agents |->
        IF files[a].entry = s THEN files[a].version ELSE Nothing]]

\* parse_args() has read the manifest; main_loop() is to set the storages up.
Init ==
    /\ files \in [Agents -> {Unlisted} \cup [entry : Storages, version : {1}]]
    /\ \A a \in Agents : files[a].entry \in MayGo[a] \cup {"none"}
    /\ manifest_ok = TRUE
    /\ edits = 0
    /\ observing = FALSE /\ changed = FALSE /\ events = FALSE
    /\ watcher = "setup"
    /\ listed = [a \in Agents |-> "none"]
    /\ networks = NetworksOnDisk
    /\ storage = "public"
    /\ todo = {}
    /\ cur = AnyAgent
    /\ agents_table = NoNetworks
    /\ allowed_agents = [a \in Agents |-> 0]
    /\ providers = <<>>
    /\ loop = "idle"
    /\ asked = AnyAgent
    /\ held = 0 /\ service = Nothing /\ chat_network = Nothing

-----------------------------------------------------------------------------
(* Edits, and the thread of the PollingObserver                            *)

Changing ==
    /\ edits < MaxEdits
    /\ EditsDuringBoot \/ observing
    /\ edits' = edits + 1
    /\ changed' = TRUE

\* The server still has the network as a protected one.
LoadedProtected(a) ==
    \/ agents_table["protected"][a] # Nothing
    \/ networks["protected"][a] # Nothing
    \/ listed[a] = "protected"

EditFile(a) ==
    /\ Changing
    /\ \E f \in {Unlisted} \cup [entry : MayGo[a], version : {Nothing, edits + 2}] :
        /\ f # files[a]
        /\ f.entry = "public" => MayMoveBack \/ ~LoadedProtected(a)
        /\ files' = [files EXCEPT ![a] = f]
    /\ UNCHANGED <<manifest_ok, observing, events, watcher, reload, agents_table,
                   allowed_agents, providers, loop, request>>

EditManifest ==
    /\ MayBreakManifest
    /\ Changing
    /\ manifest_ok' = ~manifest_ok
    /\ UNCHANGED <<files, observing, events, watcher, reload, agents_table,
                   allowed_agents, providers, loop, request>>

\* on_modified(), on_created(), on_deleted() for what differs from the last poll.
HandleEvent ==
    /\ observing /\ changed
    /\ changed' = FALSE
    /\ events' = TRUE
    /\ UNCHANGED <<disk, observing, watcher, reload, agents_table,
                   allowed_agents, providers, loop, request>>

-----------------------------------------------------------------------------
(* RegistryStorageUpdater.update_storage()                                 *)

\* Nothing happens when all counters are 0.
ResetEventCounters ==
    /\ watcher = "asleep"
    /\ events
    /\ events' = FALSE
    /\ watcher' = "read_manifest"
    /\ UNCHANGED <<disk, observing, changed, reload, agents_table,
                   allowed_agents, providers, loop, request>>

\* Nobody catches what the manifest's restorer raises: the thread ends.
ReadManifest ==
    /\ watcher = "read_manifest"
    /\ IF manifest_ok
       THEN watcher' = "read_networks" /\ listed' = [a \in Agents |-> files[a].entry]
       ELSE watcher' = "dead" /\ UNCHANGED listed
    /\ UNCHANGED <<disk, observer, networks, storage, todo, cur, agents_table,
                   allowed_agents, providers, loop, request>>

ReadNetwork(a) ==
    /\ watcher = "read_networks"
    /\ listed[a] # "none"
    /\ networks' = [networks EXCEPT ![listed[a]][a] = files[a].version]
    /\ listed' = [listed EXCEPT ![a] = "none"]
    /\ UNCHANGED <<disk, observer, watcher, storage, todo, cur, agents_table,
                   allowed_agents, providers, loop, request>>

Restored ==
    /\ watcher = "read_networks"
    /\ \A a \in Agents : listed[a] = "none"
    /\ watcher' = "setup"
    /\ storage' = "public"
    /\ UNCHANGED <<disk, observer, listed, networks, todo, cur, agents_table,
                   allowed_agents, providers, loop, request>>

\* Mutant: every agent is removed before the new ones are added.
AgentsToRemoveAll == {a \in Agents : agents_table[storage][a] # Nothing}

AgentsToRemove ==
    {a \in Agents : agents_table[storage][a] # Nothing /\ networks[storage][a] = Nothing}

SetupAgentNetworks ==
    /\ watcher = "setup"
    /\ todo' = AgentsToRemove
    /\ watcher' = "remove"
    /\ UNCHANGED <<disk, observer, listed, networks, storage, cur, agents_table,
                   allowed_agents, providers, loop, request>>

RemoveAgentNetwork ==
    /\ watcher = "remove"
    /\ \E a \in todo :
        /\ agents_table' = [agents_table EXCEPT ![storage][a] = Nothing]
        /\ todo' = todo \ {a}
        /\ cur' = a
    /\ watcher' = "notify_removed"
    /\ UNCHANGED <<disk, observer, listed, networks, storage,
                   allowed_agents, providers, loop, request>>

\* Mutant: the removed agent stays allowed.
AgentRemovedIgnored ==
    /\ watcher = "notify_removed"
    /\ watcher' = "remove"
    /\ UNCHANGED <<disk, observer, reload, agents_table, allowed_agents,
                   providers, loop, request>>

\* agent_removed() does not ask which storage the agent is removed from.
AgentRemoved ==
    /\ watcher = "notify_removed"
    /\ allowed_agents' = [allowed_agents EXCEPT ![cur] = 0]
    /\ watcher' = "remove"
    /\ UNCHANGED <<disk, observer, reload, agents_table, providers, loop, request>>

AllRemoved ==
    /\ watcher = "remove"
    /\ todo = {}
    /\ todo' = {a \in Agents : networks[storage][a] # Nothing}
    /\ watcher' = "add"
    /\ UNCHANGED <<disk, observer, listed, networks, storage, cur, agents_table,
                   allowed_agents, providers, loop, request>>

AddAgentNetwork ==
    /\ watcher = "add"
    /\ \E a \in todo :
        /\ watcher' = IF agents_table[storage][a] = Nothing THEN "notify_added"
                                                            ELSE "notify_modified"
        /\ agents_table' = [agents_table EXCEPT ![storage][a] = networks[storage][a]]
        /\ todo' = todo \ {a}
        /\ cur' = a
    /\ UNCHANGED <<disk, observer, listed, networks, storage,
                   allowed_agents, providers, loop, request>>

AgentAdded ==
    /\ watcher = "notify_added"
    /\ providers' = Append(providers,
                           [source |-> storage, instance |-> Nothing, locked |-> FALSE])
    /\ allowed_agents' = [allowed_agents EXCEPT ![cur] = Len(providers) + 1]
    /\ watcher' = "add"
    /\ UNCHANGED <<disk, observer, reload, agents_table, loop, request>>

\* Mutant: the service is reset without the provider's lock.
ResetServiceUnlocked(p) == providers' = [providers EXCEPT ![p].instance = Nothing]

ResetService(p) ==
    /\ ~providers[p].locked
    /\ providers' = [providers EXCEPT ![p].instance = Nothing]

AgentModified ==
    /\ watcher = "notify_modified"
    /\ IF allowed_agents[cur] = 0 THEN UNCHANGED providers
                                  ELSE ResetService(allowed_agents[cur])
    /\ watcher' = "add"
    /\ UNCHANGED <<disk, observer, reload, agents_table, allowed_agents, loop, request>>

NextStorage ==
    /\ watcher = "add"
    /\ todo = {}
    /\ storage = "public"
    /\ storage' = "protected"
    /\ watcher' = "setup"
    /\ UNCHANGED <<disk, observer, listed, networks, todo, cur, agents_table,
                   allowed_agents, providers, loop, request>>

\* Mutant: the counters are reset when the update is done.
SetUpAndReset ==
    /\ watcher = "add" /\ todo = {} /\ storage = "protected"
    /\ watcher' = "asleep"
    /\ networks' = NoNetworks
    /\ observing' = TRUE
    /\ changed' = (observing /\ changed)
    /\ events' = FALSE
    /\ UNCHANGED <<disk, listed, storage, todo, cur, agents_table,
                   allowed_agents, providers, loop, request>>

\* After the first set-up the observer starts from the files as they are then.
SetUp ==
    /\ watcher = "add" /\ todo = {} /\ storage = "protected"
    /\ watcher' = "asleep"
    /\ networks' = NoNetworks
    /\ observing' = TRUE
    /\ changed' = (observing /\ changed)
    /\ cur' = AnyAgent
    /\ UNCHANGED <<disk, events, listed, storage, todo, agents_table,
                   allowed_agents, providers, loop, request>>

-----------------------------------------------------------------------------
(* A request on the event loop                                             *)

Source == providers[held].source
CurrentNetwork == agents_table[Source][asked]

\* allow_agent() finds a provider; without one the answer is 404.
AllowAgent(a) ==
    /\ loop = "idle"
    /\ observing
    /\ allowed_agents[a] # 0
    /\ asked' = a
    /\ held' = allowed_agents[a]
    /\ loop' = "get_service"
    /\ UNCHANGED <<disk, observer, watcher, reload, agents_table, allowed_agents,
                   providers, service, chat_network>>

CheckService ==
    /\ loop = "get_service"
    /\ loop' = IF providers[held].instance = Nothing THEN "lock" ELSE "return"
    /\ UNCHANGED <<disk, observer, watcher, reload, agents_table, allowed_agents,
                   providers, request>>

\* With the lock the check is repeated.
LockProvider ==
    /\ loop = "lock"
    /\ ~providers[held].locked
    /\ IF providers[held].instance = Nothing
       THEN loop' = "create" /\ providers' = [providers EXCEPT ![held].locked = TRUE]
       ELSE loop' = "return" /\ UNCHANGED providers
    /\ UNCHANGED <<disk, observer, watcher, reload, agents_table, allowed_agents, request>>

\* The request is over.
Answer ==
    /\ loop' = "idle"
    /\ asked' = AnyAgent /\ held' = 0 /\ service' = Nothing /\ chat_network' = Nothing

\* AsyncAgentService() loads the factories of the current network; there is an
\* exception when the network is gone.
CreateService ==
    /\ loop = "create"
    /\ IF CurrentNetwork = Nothing
       THEN Answer /\ providers' = [providers EXCEPT ![held].locked = FALSE]
       ELSE /\ service' = CurrentNetwork
            /\ loop' = "store"
            /\ UNCHANGED <<providers, asked, held, chat_network>>
    /\ UNCHANGED <<disk, observer, watcher, reload, agents_table, allowed_agents>>

StoreService ==
    /\ loop = "store"
    /\ providers' = [providers EXCEPT ![held].instance = service, ![held].locked = FALSE]
    /\ service' = Nothing
    /\ loop' = "return"
    /\ UNCHANGED <<disk, observer, watcher, reload, agents_table, allowed_agents,
                   asked, held, chat_network>>

\* "return self.service_instance" reads it once more, without the lock.
ReturnService ==
    /\ loop = "return"
    /\ service' = providers[held].instance
    /\ loop' = "got"
    /\ UNCHANGED <<disk, observer, watcher, reload, agents_table, allowed_agents,
                   providers, asked, held, chat_network>>

\* post() returns at once without a service, and fails in
\* get_request_timeout_seconds() without a network.
StartClientRequest ==
    /\ loop = "got"
    /\ IF service = Nothing \/ CurrentNetwork = Nothing
       THEN Answer
       ELSE loop' = "flush" /\ UNCHANGED request
    /\ UNCHANGED <<disk, observer, watcher, reload, agents_table, allowed_agents, providers>>

\* The headers are flushed, then streaming_chat() gets the network again.
StreamingChat ==
    /\ loop = "flush"
    /\ IF CurrentNetwork = Nothing
       THEN Answer
       ELSE /\ chat_network' = CurrentNetwork
            /\ loop' = "chat"
            /\ UNCHANGED <<asked, held, service>>
    /\ UNCHANGED <<disk, observer, watcher, reload, agents_table, allowed_agents, providers>>

FinishRequest ==
    /\ loop = "chat"
    /\ Answer
    /\ UNCHANGED <<disk, observer, watcher, reload, agents_table, allowed_agents, providers>>

-----------------------------------------------------------------------------

Watcher ==
    \/ ResetEventCounters
    \/ ReadManifest \/ (\E a \in Agents : ReadNetwork(a)) \/ Restored
    \/ SetupAgentNetworks
    \/ RemoveAgentNetwork \/ AgentRemoved \/ AllRemoved
    \/ AddAgentNetwork \/ AgentAdded \/ AgentModified
    \/ NextStorage \/ SetUp

Loop ==
    \/ CheckService \/ LockProvider \/ CreateService \/ StoreService \/ ReturnService
    \/ StartClientRequest \/ StreamingChat \/ FinishRequest

Next ==
    \/ \E a \in Agents : EditFile(a)
    \/ EditManifest
    \/ HandleEvent
    \/ Watcher
    \/ \E a \in Agents : AllowAgent(a)
    \/ Loop

Spec == Init /\ [][Next]_vars

\* Each thread goes on when it can.  Nothing is assumed of edits and requests.
Fairness == WF_vars(HandleEvent) /\ WF_vars(Watcher) /\ WF_vars(Loop)

FairSpec == Spec /\ Fairness

-----------------------------------------------------------------------------

AtRest == watcher = "asleep"

\* The agents a server answers for are those of its two storages: between
\* reloads what agent_added() and agent_removed() made of allowed_agents is what
\* setup_agent_networks() put in the tables, and the provider is of that storage.
ServedIffRegistered ==
    AtRest => \A a \in Agents, s \in Storages :
        agents_table[s][a] # Nothing <=>
            allowed_agents[a] # 0 /\ providers[allowed_agents[a]].source = s

\* A cached service is one of the network that is registered: a request that
\* creates the service while the watcher replaces the network does not leave the
\* old one behind for later requests.
CachedServiceIsCurrent ==
    AtRest => \A a \in Agents :
        allowed_agents[a] # 0 =>
            LET p == providers[allowed_agents[a]] IN
            p.instance # Nothing => p.instance = agents_table[p.source][a]

\* A reload keeps answering for the agents that stay: one is withdrawn only
\* when the storage that served it lacks it in the manifest that was read.
NoNeedlessOutage ==
    [][\A a \in Agents :
        allowed_agents[a] # 0 /\ allowed_agents'[a] = 0
            => networks[providers[allowed_agents[a]].source][a] = Nothing]_vars

\* What is in the files gets into the storages, however the edits, the polls and
\* the reload that reads one file after the other come together, unless a reload
\* has met a manifest that cannot be read: that ends the thread.
EditsAreUptaken ==
    (agents_table # NetworksOnDisk) ~> (agents_table = NetworksOnDisk \/ watcher = "dead")
=============================================================================
