------------------------ MODULE AgentRegistry_proofs ------------------------
(***************************************************************************)
(* Proofs about AgentRegistry: the services that providers have cached are *)
(* of the registered networks, whenever the watcher rests; and, if no      *)
(* entry goes from protected to public, those agents are served that are   *)
(* registered, and none is withdrawn that stays.                           *)
(***************************************************************************)
EXTENDS AgentRegistry, SequenceTheorems, TLAPS

WatcherPlaces ==
    {"asleep", "dead", "read_manifest", "read_networks", "setup", "remove",
     "notify_removed", "add", "notify_added", "notify_modified"}

LoopPlaces ==
    {"idle", "get_service", "lock", "create", "store", "return", "got", "flush", "chat"}

Tables == [Storages -> [Agents -> Version]]

TypeOK ==
    /\ files \in [Agents -> File]
    /\ manifest_ok \in BOOLEAN
    /\ edits \in 0 .. MaxEdits
    /\ observing \in BOOLEAN /\ changed \in BOOLEAN /\ events \in BOOLEAN
    /\ watcher \in WatcherPlaces
    /\ listed \in [Agents -> Storages \cup {"none"}]
    /\ networks \in Tables
    /\ storage \in Storages
    /\ todo \in SUBSET Agents
    /\ cur \in Agents
    /\ agents_table \in Tables
    /\ allowed_agents \in [Agents -> Nat]
    /\ providers \in Seq(Provider)
    /\ loop \in LoopPlaces
    /\ asked \in Agents
    /\ held \in Nat
    /\ service \in Version
    /\ chat_network \in Version

-----------------------------------------------------------------------------
(* Which provider is whose                                                 *)

\* A provider is of one agent at most, and what a request holds is or was its
\* agent's.
OwnersInv ==
    /\ \A a \in Agents : allowed_agents[a] <= Len(providers)
    /\ \A a, b \in Agents : allowed_agents[a] # 0 /\ allowed_agents[a] = allowed_agents[b] => a = b
    /\ held <= Len(providers)
    /\ loop # "idle" => held # 0
    /\ held # 0 => \A a \in Agents : allowed_agents[a] = held => a = asked

\* A provider's lock is held by the request, while it creates the service.
Creating == loop \in {"create", "store"}

LockInv ==
    /\ \A p \in DOMAIN providers : providers[p].locked => Creating /\ held = p
    /\ Creating => providers[held].locked
    /\ loop = "store" => service # Nothing

\* The watcher has changed the network of agent a in storage s, and is about to tell.
Pending(a, s) ==
    watcher \in {"notify_removed", "notify_modified"} /\ cur = a /\ storage = s

\* n is the registered network of the agent whose provider is p, or is about to go.
Current(n, a, p) ==
    n = agents_table[providers[p].source][a] \/ Pending(a, providers[p].source)

CacheInv ==
    /\ \A a \in Agents :
        allowed_agents[a] # 0 =>
            \/ providers[allowed_agents[a]].instance = Nothing
            \/ Current(providers[allowed_agents[a]].instance, a, allowed_agents[a])
    /\ loop = "store" /\ allowed_agents[asked] = held => Current(service, asked, held)

CachedInv == TypeOK /\ OwnersInv /\ LockInv /\ CacheInv

-----------------------------------------------------------------------------
(* A reload                                                                *)

SettingUp == watcher \in {"setup", "remove", "notify_removed", "add", "notify_added", "notify_modified"}
Removing == watcher \in {"remove", "notify_removed"}
Adding == watcher \in {"add", "notify_added", "notify_modified"}

\* What is read of a manifest is for one storage, and is used up in a reload.
ReadInv ==
    /\ watcher # "read_networks" => \A a \in Agents : listed[a] = "none"
    /\ \A a \in Agents, s \in Storages :
        networks[s][a] # Nothing =>
            /\ SettingUp \/ watcher = "read_networks"
            /\ listed[a] = "none"
            /\ \A t \in Storages \ {s} : networks[t][a] = Nothing

\* Without a way back: what is public in the files, or was when they were read, is not
\* in the table of protected networks.
NoWayBackInv ==
    \A a \in Agents :
        /\ files[a].entry = "public" => ~LoadedProtected(a)
        /\ listed[a] = "public" \/ networks["public"][a] # Nothing
            => agents_table["protected"][a] = Nothing

\* The storages are set up one after the other, and each loses what the manifest has
\* not before it gets what it has.
SetUpInv ==
    /\ Removing => todo = AgentsToRemove
    /\ watcher = "notify_removed" => networks[storage][cur] = Nothing
    /\ Adding => AgentsToRemove = {} /\ \A a \in todo : networks[storage][a] # Nothing
    /\ SettingUp /\ storage = "protected" =>
        \A a \in Agents : networks["public"][a] = Nothing => agents_table["public"][a] = Nothing

Served(a, s) == allowed_agents[a] # 0 /\ providers[allowed_agents[a]].source = s

\* The tables and the server agree, but for the agent that the server is about to be told of.
AgreeInv ==
    \A a \in Agents :
        IF watcher = "notify_removed" /\ cur = a
        THEN Served(a, storage) /\ \A s \in Storages : agents_table[s][a] = Nothing
        ELSE IF watcher = "notify_added" /\ cur = a
        THEN allowed_agents[a] = 0 /\ \A s \in Storages : agents_table[s][a] # Nothing <=> s = storage
        ELSE \A s \in Storages : agents_table[s][a] # Nothing <=> Served(a, s)

ServedInv == TypeOK /\ OwnersInv /\ ReadInv /\ NoWayBackInv /\ SetUpInv /\ AgreeInv

-----------------------------------------------------------------------------
(* Lemmas about the model's operators                                      *)

LEMMA AnyAgentIsOne == AnyAgent \in Agents
  BY ConstantsAssumption DEF AnyAgent

LEMMA VersionsAreNatural == Version \subseteq Nat /\ Nothing \in Version
  BY ConstantsAssumption DEF Version, Nothing

\* An entry of a table of networks is changed.
WithNetwork(table, s, a, v) == [table EXCEPT ![s][a] = v]

LEMMA SetNetwork ==
  ASSUME NEW table \in Tables, NEW s \in Storages, NEW a \in Agents, NEW v \in Version
  PROVE  /\ WithNetwork(table, s, a, v) \in Tables
         /\ \A t \in Storages, b \in Agents :
                WithNetwork(table, s, a, v)[t][b] = IF t = s /\ b = a THEN v ELSE table[t][b]
  BY DEF Tables, WithNetwork

LEMMA ProviderFields ==
  ASSUME NEW ps \in Seq(Provider), NEW p \in 1 .. Len(ps)
  PROVE  /\ ps[p].source \in Storages
         /\ ps[p].instance \in Version
         /\ ps[p].locked \in BOOLEAN
  <1> ps[p] \in Provider
    OBVIOUS
  <1> QED BY DEF Provider

\* The service and the lock of a provider are changed.
WithProvider(ps, p, v, b) ==
    [ps EXCEPT ![p] = [source |-> ps[p].source, instance |-> v, locked |-> b]]

SameSources(qs, ps) ==
    /\ qs \in Seq(Provider)
    /\ Len(qs) = Len(ps)
    /\ DOMAIN qs = 1 .. Len(ps) /\ DOMAIN ps = 1 .. Len(ps)
    /\ \A q \in 1 .. Len(ps) : qs[q].source = ps[q].source

LEMMA SetProvider ==
  ASSUME NEW ps \in Seq(Provider), NEW p \in 1 .. Len(ps), NEW v \in Version, NEW b \in BOOLEAN
  PROVE  /\ SameSources(WithProvider(ps, p, v, b), ps)
         /\ \A q \in 1 .. Len(ps) :
                /\ WithProvider(ps, p, v, b)[q].instance = IF q = p THEN v ELSE ps[q].instance
                /\ WithProvider(ps, p, v, b)[q].locked = IF q = p THEN b ELSE ps[q].locked
  <1> DEFINE new == [source |-> ps[p].source, instance |-> v, locked |-> b]
  <1>1. new \in Provider
    BY ProviderFields DEF Provider
  <1>2. new.source = ps[p].source /\ new.instance = v /\ new.locked = b
    OBVIOUS
  <1>3. WithProvider(ps, p, v, b) = [ps EXCEPT ![p] = new]
    BY DEF WithProvider
  <1> HIDE DEF new
  <1>4. /\ [ps EXCEPT ![p] = new] \in Seq(Provider)
        /\ Len([ps EXCEPT ![p] = new]) = Len(ps)
        /\ \A q \in 1 .. Len(ps) : [ps EXCEPT ![p] = new][q] = IF q = p THEN new ELSE ps[q]
    BY <1>1
  <1> QED BY <1>2, <1>3, <1>4 DEF SameSources

LEMMA SetInstance ==
  ASSUME NEW ps \in Seq(Provider), NEW p \in 1 .. Len(ps), NEW v
  PROVE  [ps EXCEPT ![p].instance = v] = WithProvider(ps, p, v, ps[p].locked)
  <1>1. ps[p] \in Provider
    OBVIOUS
  <1>2. [ps[p] EXCEPT !.instance = v] =
            [source |-> ps[p].source, instance |-> v, locked |-> ps[p].locked]
    BY <1>1 DEF Provider
  <1> QED BY <1>2 DEF WithProvider

LEMMA SetLocked ==
  ASSUME NEW ps \in Seq(Provider), NEW p \in 1 .. Len(ps), NEW b
  PROVE  [ps EXCEPT ![p].locked = b] = WithProvider(ps, p, ps[p].instance, b)
  <1>1. ps[p] \in Provider
    OBVIOUS
  <1>2. [ps[p] EXCEPT !.locked = b] =
            [source |-> ps[p].source, instance |-> ps[p].instance, locked |-> b]
    BY <1>1 DEF Provider
  <1> QED BY <1>2 DEF WithProvider

LEMMA SetBoth ==
  ASSUME NEW ps \in Seq(Provider), NEW p \in 1 .. Len(ps), NEW v \in Version
  PROVE  [ps EXCEPT ![p].instance = v, ![p].locked = FALSE] = WithProvider(ps, p, v, FALSE)
  <1>1. ps[p] \in Provider
    OBVIOUS
  <1>2. DOMAIN ps = 1 .. Len(ps)
    OBVIOUS
  <1>3. [ps[p] EXCEPT !.instance = v] =
            [source |-> ps[p].source, instance |-> v, locked |-> ps[p].locked]
    BY <1>1 DEF Provider
  <1>4. [ps EXCEPT ![p].instance = v][p] =
            [source |-> ps[p].source, instance |-> v, locked |-> ps[p].locked]
    BY <1>2, <1>3
  <1>5. [ps EXCEPT ![p].instance = v, ![p].locked = FALSE] =
            [[ps EXCEPT ![p].instance = v] EXCEPT ![p] =
                [[ps EXCEPT ![p].instance = v][p] EXCEPT !.locked = FALSE]]
    OBVIOUS
  <1>6. [[ps EXCEPT ![p].instance = v][p] EXCEPT !.locked = FALSE] =
            [source |-> ps[p].source, instance |-> v, locked |-> FALSE]
    <2>1. PICK r : r = [source |-> ps[p].source, instance |-> v, locked |-> ps[p].locked]
      OBVIOUS
    <2>2. r \in Provider
      BY <2>1, ProviderFields DEF Provider
    <2>3. \A b : [r EXCEPT !.locked = b] = [source |-> r.source, instance |-> r.instance, locked |-> b]
      BY <2>2 DEF Provider
    <2> QED BY <1>4, <2>1, <2>3
  <1> QED BY <1>5, <1>6 DEF WithProvider

\* What becomes of the providers when one is changed.
LEMMA ProviderChanges ==
  ASSUME TypeOK, NEW p \in 1 .. Len(providers), NEW v \in Version, NEW b \in BOOLEAN,
         providers' = WithProvider(providers, p, v, b)
  PROVE  /\ SameSources(providers', providers)
         /\ \A q \in 1 .. Len(providers) :
                /\ providers'[q].instance = IF q = p THEN v ELSE providers[q].instance
                /\ providers'[q].locked = IF q = p THEN b ELSE providers[q].locked
  <1>1. providers \in Seq(Provider)
    BY DEF TypeOK
  <1> QED BY <1>1, SetProvider

LEMMA LockChanges ==
  ASSUME TypeOK, NEW b \in BOOLEAN, held \in 1 .. Len(providers),
         providers' = [providers EXCEPT ![held].locked = b]
  PROVE  /\ SameSources(providers', providers)
         /\ \A q \in 1 .. Len(providers) :
                /\ providers'[q].instance = providers[q].instance
                /\ providers'[q].locked = IF q = held THEN b ELSE providers[q].locked
  <1>1. providers \in Seq(Provider)
    BY DEF TypeOK
  <1>2. [providers EXCEPT ![held].locked = b] =
            WithProvider(providers, held, providers[held].instance, b)
    BY ONLY held \in 1 .. Len(providers), <1>1, SetLocked
  <1>3. providers' = WithProvider(providers, held, providers[held].instance, b)
    BY <1>2
  <1>4. providers[held].instance \in Version
    BY <1>1, ProviderFields
  <1>5. /\ SameSources(providers', providers)
        /\ \A q \in 1 .. Len(providers) :
               /\ providers'[q].instance =
                      IF q = held THEN providers[held].instance ELSE providers[q].instance
               /\ providers'[q].locked = IF q = held THEN b ELSE providers[q].locked
    BY ONLY TypeOK, b \in BOOLEAN, held \in 1 .. Len(providers), <1>3, <1>4, ProviderChanges
  <1> QED BY <1>5

\* What becomes of the networks when the file of agent a is read.
LEMMA NetworkIsRead ==
  ASSUME TypeOK, NEW a \in Agents, ReadNetwork(a)
  PROVE  /\ listed[a] \in Storages
         /\ networks' \in Tables
         /\ \A t \in Storages, b \in Agents :
                networks'[t][b] = IF t = listed[a] /\ b = a THEN files[a].version ELSE networks[t][b]
         /\ \A b \in Agents : listed'[b] = IF b = a THEN "none" ELSE listed[b]
  <1>1. networks \in Tables /\ listed[a] \in Storages /\ files[a].version \in Version
    BY DEF TypeOK, File, ReadNetwork
  <1>2. networks' = WithNetwork(networks, listed[a], a, files[a].version)
    BY DEF ReadNetwork, WithNetwork
  <1>3. PICK table, s, v : table = networks /\ s = listed[a] /\ v = files[a].version
    OBVIOUS
  <1>4. /\ WithNetwork(table, s, a, v) \in Tables
        /\ \A t \in Storages, b \in Agents :
               WithNetwork(table, s, a, v)[t][b] = IF t = s /\ b = a THEN v ELSE table[t][b]
    BY <1>1, <1>3, SetNetwork
  <1>5. \A b \in Agents : listed'[b] = IF b = a THEN "none" ELSE listed[b]
    BY DEF ReadNetwork, TypeOK
  <1> QED BY <1>1, <1>2, <1>3, <1>4, <1>5

LEMMA TableChanges ==
  ASSUME TypeOK, NEW a \in Agents, NEW v \in Version,
         agents_table' = [agents_table EXCEPT ![storage][a] = v]
  PROVE  /\ agents_table' \in Tables
         /\ \A t \in Storages, b \in Agents :
                agents_table'[t][b] = IF t = storage /\ b = a THEN v ELSE agents_table[t][b]
  <1>1. agents_table \in Tables /\ storage \in Storages
    BY DEF TypeOK
  <1>2. agents_table' = WithNetwork(agents_table, storage, a, v)
    BY DEF WithNetwork
  <1>3. PICK table, s : table = agents_table /\ s = storage
    OBVIOUS
  <1>4. /\ WithNetwork(table, s, a, v) \in Tables
        /\ \A t \in Storages, b \in Agents :
               WithNetwork(table, s, a, v)[t][b] = IF t = s /\ b = a THEN v ELSE table[t][b]
    BY <1>1, <1>3, SetNetwork
  <1> QED BY <1>2, <1>3, <1>4

\* A provider is made.
LEMMA AddProvider ==
  ASSUME NEW ps \in Seq(Provider), NEW s \in Storages
  PROVE  LET p == [source |-> s, instance |-> Nothing, locked |-> FALSE]
             qs == Append(ps, p)
         IN  /\ qs \in Seq(Provider)
             /\ Len(qs) = Len(ps) + 1
             /\ \A q \in 1 .. Len(ps) : qs[q] = ps[q]
             /\ qs[Len(ps) + 1] = p
             /\ DOMAIN qs = 1 .. Len(ps) + 1 /\ DOMAIN ps = 1 .. Len(ps)
  <1> [source |-> s, instance |-> Nothing, locked |-> FALSE] \in Provider
    BY VersionsAreNatural DEF Provider
  <1> QED OBVIOUS

-----------------------------------------------------------------------------
(* Types and owners                                                        *)

LEMMA Typing ==
  ASSUME Init
  PROVE  TypeOK /\ OwnersInv
  <1>1. files \in [Agents -> File]
    BY ConstantsAssumption DEF Init, File, Unlisted, Version, Nothing, Storages
  <1>2. networks \in Tables
    BY <1>1, VersionsAreNatural DEF Init, NetworksOnDisk, Tables, File
  <1>3. agents_table \in Tables
    BY VersionsAreNatural DEF Init, NoNetworks, Tables
  <1>4. edits \in 0 .. MaxEdits
    BY ConstantsAssumption DEF Init
  <1>6. cur \in Agents /\ asked \in Agents
    BY AnyAgentIsOne DEF Init
  <1>7. service \in Version /\ chat_network \in Version
    BY VersionsAreNatural DEF Init
  <1>8. listed \in [Agents -> Storages \cup {"none"}]
    BY DEF Init
  <1>9. storage \in Storages /\ watcher \in WatcherPlaces /\ loop \in LoopPlaces
    BY DEF Init, Storages, WatcherPlaces, LoopPlaces
  <1>10. providers \in Seq(Provider) /\ todo \in SUBSET Agents
    BY DEF Init
  <1>11. allowed_agents \in [Agents -> Nat] /\ held \in Nat
    BY DEF Init
  <1>12. manifest_ok \in BOOLEAN /\ observing \in BOOLEAN /\ changed \in BOOLEAN /\ events \in BOOLEAN
    BY DEF Init
  <1>13. TypeOK
    BY <1>1, <1>2, <1>3, <1>4, <1>6, <1>7, <1>8, <1>9, <1>10, <1>11, <1>12 DEF TypeOK
  <1>5. OwnersInv
    BY DEF Init, OwnersInv
  <1> QED BY <1>5, <1>13

LEMMA TypeStep ==
  ASSUME TypeOK, OwnersInv, [Next]_vars
  PROVE  TypeOK' /\ OwnersInv'
  <1> USE DEF disk, observer, reload, request
  <1> Version \subseteq Nat /\ Nothing \in Version
    BY VersionsAreNatural
  <1>1. ASSUME NEW a \in Agents, EditFile(a)
        PROVE  TypeOK' /\ OwnersInv'
    <2>1. PICK f \in {Unlisted} \cup [entry : MayGo[a], version : {Nothing, edits + 2}] :
              files' = [files EXCEPT ![a] = f]
      BY <1>1 DEF EditFile
    <2>2. edits \in 0 .. MaxEdits /\ edits' \in 0 .. MaxEdits
      BY <1>1, ConstantsAssumption DEF EditFile, Changing, TypeOK
    <2>3. f \in File
      BY <2>1, <2>2, <1>1, ConstantsAssumption DEF File, Unlisted, Version, Nothing, EditFile, Changing
    <2>4. files' \in [Agents -> File]
      BY <2>1, <2>3 DEF TypeOK
    <2>5. TypeOK'
      BY <1>1, <2>2, <2>4 DEF EditFile, Changing, TypeOK
    <2>6. OwnersInv'
      BY <1>1 DEF EditFile, OwnersInv
    <2> QED BY <2>5, <2>6
  <1>2. CASE EditManifest
    <2>1. edits' \in 0 .. MaxEdits
      BY <1>2, ConstantsAssumption DEF EditManifest, Changing, TypeOK
    <2> QED BY <1>2, <2>1 DEF EditManifest, Changing, TypeOK, OwnersInv
  <1>3. CASE HandleEvent
    BY <1>3 DEF HandleEvent, TypeOK, OwnersInv
  <1>4. CASE ResetEventCounters
    BY <1>4 DEF ResetEventCounters, TypeOK, OwnersInv, WatcherPlaces
  <1>5. CASE ReadManifest
    <2>1. listed' \in [Agents -> Storages \cup {"none"}]
      BY <1>5 DEF ReadManifest, TypeOK, File
    <2> QED BY <1>5, <2>1 DEF ReadManifest, TypeOK, OwnersInv, WatcherPlaces
  <1>6. ASSUME NEW a \in Agents, ReadNetwork(a)
        PROVE  TypeOK' /\ OwnersInv'
    <2>2. networks' \in Tables
      BY <1>6, NetworkIsRead
    <2>3. listed' \in [Agents -> Storages \cup {"none"}]
      BY <1>6 DEF ReadNetwork, TypeOK
    <2> QED BY <1>6, <2>2, <2>3 DEF ReadNetwork, TypeOK, OwnersInv
  <1>7. CASE Restored
    BY <1>7 DEF Restored, TypeOK, OwnersInv, WatcherPlaces, Storages
  <1>8. CASE SetupAgentNetworks
    BY <1>8 DEF SetupAgentNetworks, AgentsToRemove, TypeOK, OwnersInv, WatcherPlaces
  <1>9. CASE RemoveAgentNetwork
    <2>1. PICK a \in todo :
              /\ agents_table' = [agents_table EXCEPT ![storage][a] = Nothing]
              /\ todo' = todo \ {a}
              /\ cur' = a
      BY <1>9 DEF RemoveAgentNetwork
    <2>2. agents_table' \in Tables
      BY <2>1, TableChanges, VersionsAreNatural DEF TypeOK
    <2> QED BY <1>9, <2>1, <2>2 DEF RemoveAgentNetwork, TypeOK, OwnersInv, WatcherPlaces
  <1>10. CASE AgentRemoved
    <2>1. /\ allowed_agents' \in [Agents -> Nat]
          /\ \A a \in Agents : allowed_agents'[a] = IF a = cur THEN 0 ELSE allowed_agents[a]
      BY <1>10 DEF AgentRemoved, TypeOK
    <2>2. TypeOK'
      BY <1>10, <2>1 DEF AgentRemoved, TypeOK, WatcherPlaces
    <2>3. OwnersInv'
      BY <1>10, <2>1 DEF AgentRemoved, OwnersInv, TypeOK
    <2> QED BY <2>2, <2>3
  <1>11. CASE AllRemoved
    BY <1>11 DEF AllRemoved, TypeOK, OwnersInv, WatcherPlaces
  <1>12. CASE AddAgentNetwork
    <2>1. PICK a \in todo :
              /\ watcher' = IF agents_table[storage][a] = Nothing THEN "notify_added"
                                                                  ELSE "notify_modified"
              /\ agents_table' = [agents_table EXCEPT ![storage][a] = networks[storage][a]]
              /\ todo' = todo \ {a}
              /\ cur' = a
      BY <1>12 DEF AddAgentNetwork
    <2>2. networks[storage][a] \in Version /\ a \in Agents
      BY DEF TypeOK, Tables
    <2>3. agents_table' \in Tables
      BY <2>1, <2>2, TableChanges
    <2>4. watcher' \in WatcherPlaces
      BY <2>1 DEF WatcherPlaces
    <2> QED BY <1>12, <2>1, <2>3, <2>4 DEF AddAgentNetwork, TypeOK, OwnersInv
  <1>13. CASE AgentAdded
    <2>1. /\ providers' \in Seq(Provider)
          /\ Len(providers') = Len(providers) + 1
      BY <1>13, AddProvider DEF AgentAdded, TypeOK
    <2>2. Len(providers) \in Nat
      BY DEF TypeOK
    <2>3. /\ allowed_agents' \in [Agents -> Nat]
          /\ \A a \in Agents :
                 allowed_agents'[a] = IF a = cur THEN Len(providers) + 1 ELSE allowed_agents[a]
      BY <1>13, <2>2 DEF AgentAdded, TypeOK
    <2>4. TypeOK'
      BY <1>13, <2>1, <2>3 DEF AgentAdded, TypeOK, WatcherPlaces
    <2>5. \A a \in Agents : allowed_agents[a] \in Nat
      BY DEF TypeOK
    <2>6. OwnersInv'
      BY <1>13, <2>1, <2>2, <2>3, <2>5 DEF AgentAdded, OwnersInv, TypeOK
    <2> QED BY <2>4, <2>6
  <1>14. CASE AgentModified
    <2>1. providers' \in Seq(Provider) /\ Len(providers') = Len(providers)
      <3>1. CASE allowed_agents[cur] = 0
        BY <1>14, <3>1 DEF AgentModified, TypeOK
      <3>2. CASE allowed_agents[cur] # 0
        <4>1. allowed_agents[cur] \in 1 .. Len(providers)
          BY <3>2 DEF TypeOK, OwnersInv
        <4>2. providers' = [providers EXCEPT ![allowed_agents[cur]].instance = Nothing]
          BY <1>14, <3>2 DEF AgentModified, ResetService
        <4>3. providers' = WithProvider(providers, allowed_agents[cur], Nothing,
                                        providers[allowed_agents[cur]].locked)
          BY <4>1, <4>2, SetInstance DEF TypeOK
        <4>4. providers[allowed_agents[cur]].locked \in BOOLEAN
          BY <4>1, ProviderFields DEF TypeOK
        <4>5. SameSources(providers', providers)
          BY <4>1, <4>3, <4>4, ProviderChanges
        <4> QED BY <4>5 DEF SameSources
      <3> QED BY <3>1, <3>2
    <2> QED BY <1>14, <2>1 DEF AgentModified, TypeOK, OwnersInv, WatcherPlaces
  <1>15. CASE NextStorage
    BY <1>15 DEF NextStorage, TypeOK, OwnersInv, WatcherPlaces, Storages
  <1>16. CASE SetUp
    <2>1. networks' \in Tables
      BY <1>16 DEF SetUp, NoNetworks, Tables
    <2> QED BY <1>16, <2>1, AnyAgentIsOne DEF SetUp, TypeOK, OwnersInv, WatcherPlaces
  <1>17. ASSUME NEW a \in Agents, AllowAgent(a)
         PROVE  TypeOK' /\ OwnersInv'
    BY <1>17 DEF AllowAgent, TypeOK, OwnersInv, LoopPlaces
  <1>18. CASE CheckService
    BY <1>18 DEF CheckService, TypeOK, OwnersInv, LoopPlaces
  <1>19. CASE LockProvider
    <2>1. held \in 1 .. Len(providers)
      BY <1>19 DEF LockProvider, TypeOK, OwnersInv
    <2>2. providers' \in Seq(Provider) /\ Len(providers') = Len(providers)
      <3>1. CASE providers[held].instance = Nothing
        <4>1. providers' = [providers EXCEPT ![held].locked = TRUE]
          BY <1>19, <3>1 DEF LockProvider
        <4>2. SameSources(providers', providers)
          BY <2>1, <4>1, LockChanges
        <4> QED BY <4>2 DEF SameSources
      <3>2. CASE providers[held].instance # Nothing
        BY <1>19, <3>2 DEF LockProvider, TypeOK
      <3> QED BY <3>1, <3>2
    <2> QED BY <1>19, <2>2 DEF LockProvider, TypeOK, OwnersInv, LoopPlaces
  <1>20. ASSUME Answer,
                UNCHANGED <<disk, observer, watcher, reload, agents_table, allowed_agents>>,
                providers' \in Seq(Provider), Len(providers') = Len(providers)
         PROVE  TypeOK' /\ OwnersInv'
    <2>1. asked' \in Agents /\ held' \in Nat /\ loop' \in LoopPlaces
      BY <1>20, AnyAgentIsOne DEF Answer, LoopPlaces
    <2>2. service' \in Version /\ chat_network' \in Version
      BY <1>20 DEF Answer
    <2>3. TypeOK'
      BY <1>20, <2>1, <2>2 DEF TypeOK
    <2>4. OwnersInv'
      BY <1>20 DEF Answer, TypeOK, OwnersInv
    <2> QED BY <2>3, <2>4
  <1>21. CASE CreateService
    <2>1. held \in 1 .. Len(providers)
      BY <1>21 DEF CreateService, TypeOK, OwnersInv
    <2>2. CASE CurrentNetwork = Nothing
      <3>1. providers' \in Seq(Provider) /\ Len(providers') = Len(providers)
        <4>1. providers' = [providers EXCEPT ![held].locked = FALSE]
          BY <1>21, <2>2 DEF CreateService
        <4>2. SameSources(providers', providers)
          BY <2>1, <4>1, LockChanges
        <4> QED BY <4>2 DEF SameSources
      <3>2. Answer /\ UNCHANGED <<disk, observer, watcher, reload, agents_table, allowed_agents>>
        BY <1>21, <2>2 DEF CreateService
      <3> QED BY <3>1, <3>2, <1>20
    <2>3. CASE CurrentNetwork # Nothing
      <3>1. CurrentNetwork \in Version
        BY <2>1, ProviderFields DEF CurrentNetwork, Source, TypeOK, Tables
      <3> QED BY <1>21, <2>3, <3>1 DEF CreateService, TypeOK, OwnersInv, LoopPlaces
    <2> QED BY <2>2, <2>3
  <1>22. CASE StoreService
    <2>1. held \in 1 .. Len(providers)
      BY <1>22 DEF StoreService, TypeOK, OwnersInv
    <2>2. service \in Version
      BY DEF TypeOK
    <2>3. providers' \in Seq(Provider) /\ Len(providers') = Len(providers)
      <3>1. providers' = WithProvider(providers, held, service, FALSE)
        BY <1>22, <2>1, SetBoth DEF StoreService, TypeOK
      <3>2. SameSources(providers', providers)
        BY <2>1, <2>2, <3>1, ProviderChanges
      <3> QED BY <3>2 DEF SameSources
    <2> QED BY <1>22, <2>3 DEF StoreService, TypeOK, OwnersInv, LoopPlaces
  <1>23. CASE ReturnService
    <2>1. held \in 1 .. Len(providers)
      BY <1>23 DEF ReturnService, TypeOK, OwnersInv
    <2>2. providers[held].instance \in Version
      BY <2>1, ProviderFields DEF TypeOK
    <2> QED BY <1>23, <2>2 DEF ReturnService, TypeOK, OwnersInv, LoopPlaces
  <1>24. CASE StartClientRequest
    <2>1. CASE service = Nothing \/ CurrentNetwork = Nothing
      BY <1>24, <2>1, <1>20 DEF StartClientRequest, TypeOK
    <2>2. CASE ~(service = Nothing \/ CurrentNetwork = Nothing)
      BY <1>24, <2>2 DEF StartClientRequest, TypeOK, OwnersInv, LoopPlaces
    <2> QED BY <2>1, <2>2
  <1>25. CASE StreamingChat
    <2>1. CASE CurrentNetwork = Nothing
      BY <1>25, <2>1, <1>20 DEF StreamingChat, TypeOK
    <2>2. CASE CurrentNetwork # Nothing
      <3>1. held \in 1 .. Len(providers)
        BY <1>25 DEF StreamingChat, TypeOK, OwnersInv
      <3>2. CurrentNetwork \in Version
        BY <3>1, ProviderFields DEF CurrentNetwork, Source, TypeOK, Tables
      <3> QED BY <1>25, <2>2, <3>2 DEF StreamingChat, TypeOK, OwnersInv, LoopPlaces
    <2> QED BY <2>1, <2>2
  <1>26. CASE FinishRequest
    BY <1>26, <1>20 DEF FinishRequest, TypeOK
  <1>27. CASE UNCHANGED vars
    BY <1>27 DEF vars, TypeOK, OwnersInv
  <1> QED
    BY <1>1, <1>2, <1>3, <1>4, <1>5, <1>6, <1>7, <1>8, <1>9, <1>10, <1>11, <1>12, <1>13,
       <1>14, <1>15, <1>16, <1>17, <1>18, <1>19, <1>21, <1>22, <1>23, <1>24, <1>25, <1>26,
       <1>27
       DEF Next, Watcher, Loop

\* Every reload and request keeps the types of the registry's state.
THEOREM TypeCorrect == Spec => []TypeOK
  <1>1. Init => TypeOK /\ OwnersInv
    BY Typing
  <1>2. TypeOK /\ OwnersInv /\ [Next]_vars => (TypeOK /\ OwnersInv)'
    BY TypeStep
  <1> QED BY <1>1, <1>2, PTL DEF Spec

-----------------------------------------------------------------------------
(* A cached service is of the registered network                           *)

\* Neither tables nor services change, and nobody is about to be told of a change.
LEMMA CacheIsKept ==
  ASSUME LockInv, CacheInv,
         UNCHANGED <<agents_table, allowed_agents, providers>>,
         \/ watcher \notin {"notify_removed", "notify_modified"}
         \/ UNCHANGED <<watcher, cur, storage>>,
         \/ UNCHANGED <<loop, asked, held, service>>
         \/ loop \notin {"create", "store"} /\ loop' \notin {"create", "store"}
  PROVE  LockInv' /\ CacheInv'
  BY DEF LockInv, CacheInv, Creating, Current, Pending

LEMMA CacheStep ==
  ASSUME TypeOK, OwnersInv, LockInv, CacheInv, [Next]_vars
  PROVE  LockInv' /\ CacheInv'
  <1> USE DEF disk, observer, reload, request
  <1>1. ASSUME NEW a \in Agents, EditFile(a)
        PROVE  LockInv' /\ CacheInv'
    BY <1>1, CacheIsKept DEF EditFile
  <1>2. CASE EditManifest
    BY <1>2, CacheIsKept DEF EditManifest
  <1>3. CASE HandleEvent
    BY <1>3, CacheIsKept DEF HandleEvent
  <1>4. CASE ResetEventCounters
    BY <1>4, CacheIsKept DEF ResetEventCounters
  <1>5. CASE ReadManifest
    BY <1>5, CacheIsKept DEF ReadManifest
  <1>6. ASSUME NEW a \in Agents, ReadNetwork(a)
        PROVE  LockInv' /\ CacheInv'
    BY <1>6, CacheIsKept DEF ReadNetwork
  <1>7. CASE Restored
    BY <1>7, CacheIsKept DEF Restored
  <1>8. CASE SetupAgentNetworks
    BY <1>8, CacheIsKept DEF SetupAgentNetworks
  <1>9. CASE RemoveAgentNetwork
    <2>1. PICK a \in todo :
              /\ agents_table' = [agents_table EXCEPT ![storage][a] = Nothing]
              /\ cur' = a
      BY <1>9 DEF RemoveAgentNetwork
    <2>2. \A t \in Storages, b \in Agents :
              agents_table'[t][b] = IF t = storage /\ b = a THEN Nothing ELSE agents_table[t][b]
      <3>1. a \in Agents
        BY DEF TypeOK
      <3> QED BY <2>1, <3>1, TableChanges, VersionsAreNatural
    <2>3. watcher = "remove" /\ watcher' = "notify_removed"
          /\ UNCHANGED <<storage, allowed_agents, providers, loop, request>>
      BY <1>9 DEF RemoveAgentNetwork
    <2>4. \A b \in Agents, p \in 1 .. Len(providers), n \in Version :
              Current(n, b, p) => Current(n, b, p)'
      BY <2>1, <2>2, <2>3, ProviderFields DEF Current, Pending, TypeOK
    <2>5. \A p \in 1 .. Len(providers) : providers[p].instance \in Version
      BY ProviderFields DEF TypeOK
    <2> QED BY <2>3, <2>4, <2>5 DEF LockInv, CacheInv, Creating, OwnersInv, TypeOK
  <1>10. CASE AgentRemoved
    <2>1. \A a \in Agents : allowed_agents'[a] = IF a = cur THEN 0 ELSE allowed_agents[a]
      BY <1>10 DEF AgentRemoved, TypeOK
    <2>2. UNCHANGED <<agents_table, providers, loop, request>>
      BY <1>10 DEF AgentRemoved
    <2>3. \A a \in Agents : \A p, n : a # cur /\ Current(n, a, p) => Current(n, a, p)'
      BY <1>10 DEF AgentRemoved, Current, Pending
    <2> QED BY <2>1, <2>2, <2>3 DEF LockInv, CacheInv, Creating, OwnersInv, TypeOK
  <1>11. CASE AllRemoved
    BY <1>11, CacheIsKept DEF AllRemoved
  <1>12. CASE AddAgentNetwork
    <2>1. PICK a \in todo :
              /\ watcher' = IF agents_table[storage][a] = Nothing THEN "notify_added"
                                                                  ELSE "notify_modified"
              /\ agents_table' = [agents_table EXCEPT ![storage][a] = networks[storage][a]]
              /\ cur' = a
      BY <1>12 DEF AddAgentNetwork
    <2>2. networks[storage][a] \in Version /\ a \in Agents
      BY DEF TypeOK, Tables
    <2>3. \A t \in Storages, b \in Agents :
              agents_table'[t][b] =
                  IF t = storage /\ b = a THEN networks[storage][a] ELSE agents_table[t][b]
      BY <2>1, <2>2, TableChanges
    <2>4. watcher = "add" /\ UNCHANGED <<storage, allowed_agents, providers, loop, request>>
      BY <1>12 DEF AddAgentNetwork
    <2>5. \A b \in Agents, p \in 1 .. Len(providers), n \in Version :
              n # Nothing /\ Current(n, b, p) => Current(n, b, p)'
      BY <2>1, <2>3, <2>4, ProviderFields DEF Current, Pending, TypeOK
    <2>6. \A p \in 1 .. Len(providers) : providers[p].instance \in Version
      BY ProviderFields DEF TypeOK
    <2> QED BY <2>4, <2>5, <2>6 DEF LockInv, CacheInv, Creating, OwnersInv, TypeOK
  <1>13. CASE AgentAdded
    <2>1. /\ Len(providers') = Len(providers) + 1
          /\ \A q \in 1 .. Len(providers) : providers'[q] = providers[q]
          /\ providers'[Len(providers) + 1] =
                 [source |-> storage, instance |-> Nothing, locked |-> FALSE]
          /\ DOMAIN providers' = 1 .. Len(providers) + 1
          /\ DOMAIN providers = 1 .. Len(providers)
      BY <1>13, AddProvider DEF AgentAdded, TypeOK
    <2>2. Len(providers) \in Nat
      BY DEF TypeOK
    <2>3. \A a \in Agents :
              allowed_agents'[a] = IF a = cur THEN Len(providers) + 1 ELSE allowed_agents[a]
      BY <1>13, <2>2 DEF AgentAdded, TypeOK
    <2>4. UNCHANGED <<agents_table, loop, request>>
      BY <1>13 DEF AgentAdded
    <2>5. \A a \in Agents, p \in 1 .. Len(providers) : \A n : Current(n, a, p) => Current(n, a, p)'
      BY <1>13, <2>1 DEF AgentAdded, Current, Pending
    <2>6. LockInv'
      <3>1. ASSUME NEW p \in DOMAIN providers', providers'[p].locked
            PROVE  Creating' /\ held' = p
        <4>1. p # Len(providers) + 1
          BY <2>1, <3>1
        <4>2. p \in DOMAIN providers
          BY <2>1, <2>2, <4>1
        <4>3. providers[p].locked
          BY <2>1, <3>1, <4>2
        <4> QED BY <2>4, <4>2, <4>3 DEF LockInv, Creating
      <3>2. ASSUME Creating'
            PROVE  providers'[held'].locked
        <4>1. Creating /\ held' = held
          BY <2>4, <3>2 DEF Creating
        <4>2. held \in 1 .. Len(providers)
          BY <4>1 DEF Creating, OwnersInv, TypeOK
        <4> QED BY <2>1, <4>1, <4>2 DEF LockInv
      <3> QED BY <2>4, <3>1, <3>2 DEF LockInv
    <2>7. ASSUME NEW a \in Agents, allowed_agents'[a] # 0
          PROVE  \/ providers'[allowed_agents'[a]].instance = Nothing
                 \/ Current(providers[allowed_agents[a]].instance, a, allowed_agents[a])'
      <3>1. CASE a = cur
        BY <2>1, <2>3, <3>1
      <3>2. CASE a # cur
        <4>1. allowed_agents'[a] = allowed_agents[a] /\ allowed_agents[a] \in 1 .. Len(providers)
          BY <2>3, <2>7, <3>2 DEF OwnersInv, TypeOK
        <4> QED BY <2>1, <2>5, <2>7, <4>1 DEF CacheInv
      <3> QED BY <3>1, <3>2
    <2>8. ASSUME loop' = "store", allowed_agents'[asked'] = held'
          PROVE  Current(service, asked, held)'
      <3>1. loop = "store" /\ held \in 1 .. Len(providers) /\ asked \in Agents
        BY <2>4, <2>8 DEF OwnersInv, TypeOK
      <3>2. allowed_agents[asked] = held
        BY <2>2, <2>3, <2>4, <2>8, <3>1
      <3> QED BY <2>4, <2>5, <3>1, <3>2 DEF CacheInv
    <2> QED BY <2>6, <2>7, <2>8 DEF CacheInv
  <1>14. CASE AgentModified
    <2>1. UNCHANGED <<agents_table, allowed_agents, loop, request>>
      BY <1>14 DEF AgentModified
    <2>2. CASE allowed_agents[cur] = 0
      <3>1. UNCHANGED providers
        BY <1>14, <2>2 DEF AgentModified
      <3>2. \A a \in Agents : \A p, n : a # cur /\ Current(n, a, p) => Current(n, a, p)'
        BY <1>14, <2>1, <3>1 DEF AgentModified, Current, Pending
      <3> QED BY <2>1, <2>2, <3>1, <3>2 DEF LockInv, CacheInv, Creating, OwnersInv, TypeOK
    <2>3. CASE allowed_agents[cur] # 0
      <3>1. allowed_agents[cur] \in 1 .. Len(providers)
        BY <2>3 DEF TypeOK, OwnersInv
      <3>2. /\ ~providers[allowed_agents[cur]].locked
            /\ providers' = [providers EXCEPT ![allowed_agents[cur]].instance = Nothing]
        BY <1>14, <2>3 DEF AgentModified, ResetService
      <3>3. /\ Len(providers') = Len(providers)
            /\ \A q \in 1 .. Len(providers) :
                   /\ providers'[q].source = providers[q].source
                   /\ providers'[q].locked = providers[q].locked
                   /\ providers'[q].instance =
                          IF q = allowed_agents[cur] THEN Nothing ELSE providers[q].instance
            /\ DOMAIN providers' = DOMAIN providers /\ DOMAIN providers = 1 .. Len(providers)
        <4>1. providers' = WithProvider(providers, allowed_agents[cur], Nothing,
                                        providers[allowed_agents[cur]].locked)
          BY <3>1, <3>2, SetInstance DEF TypeOK
        <4>2. providers[allowed_agents[cur]].locked \in BOOLEAN /\ Nothing \in Version
          BY <3>1, ProviderFields, VersionsAreNatural DEF TypeOK
        <4>3. /\ SameSources(providers', providers)
              /\ \A q \in 1 .. Len(providers) :
                     /\ providers'[q].instance =
                            IF q = allowed_agents[cur] THEN Nothing ELSE providers[q].instance
                     /\ providers'[q].locked =
                            IF q = allowed_agents[cur] THEN providers[allowed_agents[cur]].locked
                                                       ELSE providers[q].locked
          BY <3>1, <4>1, <4>2, ProviderChanges
        <4> QED BY <4>3 DEF SameSources
      <3>4. LockInv'
        BY <2>1, <3>3 DEF LockInv, Creating, OwnersInv, TypeOK
      <3>5. \A a \in Agents, p \in 1 .. Len(providers) : \A n :
                a # cur /\ Current(n, a, p) => Current(n, a, p)'
        BY <1>14, <2>1, <3>3 DEF AgentModified, Current, Pending
      <3>6. ASSUME NEW a \in Agents, allowed_agents'[a] # 0
            PROVE  \/ providers'[allowed_agents'[a]].instance = Nothing
                   \/ Current(providers[allowed_agents[a]].instance, a, allowed_agents[a])'
        <4>1. allowed_agents'[a] = allowed_agents[a] /\ allowed_agents[a] \in 1 .. Len(providers)
          BY <2>1, <3>6 DEF OwnersInv, TypeOK
        <4>2. CASE a = cur
          BY <3>3, <4>1, <4>2
        <4>3. CASE a # cur
          <5>1. allowed_agents[a] # allowed_agents[cur]
            BY <4>1, <4>3 DEF OwnersInv, TypeOK
          <5> QED BY <3>3, <3>5, <3>6, <4>1, <4>3, <5>1 DEF CacheInv
        <4> QED BY <4>2, <4>3
      <3>7. ASSUME loop' = "store", allowed_agents'[asked'] = held'
            PROVE  Current(service, asked, held)'
        <4>1. loop = "store" /\ allowed_agents[asked] = held /\ held \in 1 .. Len(providers)
              /\ asked \in Agents
          BY <2>1, <3>7 DEF OwnersInv, TypeOK
        <4>2. asked # cur
          BY <3>2, <4>1 DEF LockInv, Creating
        <4> QED BY <2>1, <3>5, <4>1, <4>2 DEF CacheInv
      <3> QED BY <3>4, <3>6, <3>7 DEF CacheInv
    <2> QED BY <2>2, <2>3
  <1>15. CASE NextStorage
    BY <1>15, CacheIsKept DEF NextStorage
  <1>16. CASE SetUp
    BY <1>16, CacheIsKept DEF SetUp
  <1>17. ASSUME NEW a \in Agents, AllowAgent(a)
         PROVE  LockInv' /\ CacheInv'
    BY <1>17, CacheIsKept DEF AllowAgent
  <1>18. CASE CheckService
    BY <1>18, CacheIsKept DEF CheckService
  \* Only a lock, and where the loop is, change.
  <1>19. ASSUME NEW b \in BOOLEAN,
                loop \in {"lock", "create"},
                loop' = IF b THEN "create" ELSE "idle",
                b => UNCHANGED held,
                held \in 1 .. Len(providers),
                providers' = [providers EXCEPT ![held].locked = b],
                UNCHANGED <<agents_table, allowed_agents, watcher, cur, storage>>
         PROVE  LockInv' /\ CacheInv'
    <2>1. /\ Len(providers') = Len(providers)
          /\ DOMAIN providers' = DOMAIN providers /\ DOMAIN providers = 1 .. Len(providers)
          /\ \A q \in 1 .. Len(providers) :
                 /\ providers'[q].source = providers[q].source
                 /\ providers'[q].instance = providers[q].instance
                 /\ providers'[q].locked = IF q = held THEN b ELSE providers[q].locked
      <3>1. /\ SameSources(providers', providers)
            /\ \A q \in 1 .. Len(providers) :
                   /\ providers'[q].instance = providers[q].instance
                   /\ providers'[q].locked = IF q = held THEN b ELSE providers[q].locked
        BY <1>19, LockChanges
      <3> QED BY <3>1 DEF SameSources
    <2>2. LockInv'
      BY <1>19, <2>1 DEF LockInv, Creating
    <2>3. \A a \in Agents, p \in 1 .. Len(providers) : \A n : Current(n, a, p) => Current(n, a, p)'
      BY <1>19, <2>1 DEF Current, Pending
    <2>4. \A a \in Agents : allowed_agents[a] # 0 => allowed_agents[a] \in 1 .. Len(providers)
      BY DEF OwnersInv, TypeOK
    <2>5. CacheInv'
      BY <1>19, <2>1, <2>3, <2>4 DEF CacheInv
    <2> QED BY <2>2, <2>5
  <1>20. CASE LockProvider
    <2>1. held \in 1 .. Len(providers)
      BY <1>20 DEF LockProvider, TypeOK, OwnersInv
    <2>2. CASE providers[held].instance = Nothing
      BY <1>19, <1>20, <2>1, <2>2 DEF LockProvider
    <2>3. CASE providers[held].instance # Nothing
      BY <1>20, <2>3, CacheIsKept DEF LockProvider
    <2> QED BY <2>2, <2>3
  <1>21. CASE CreateService
    <2>1. held \in 1 .. Len(providers) /\ asked \in Agents
      BY <1>21 DEF CreateService, TypeOK, OwnersInv
    <2>2. CASE CurrentNetwork = Nothing
      BY <1>19, <1>21, <2>1, <2>2 DEF CreateService, Answer
    <2>3. CASE CurrentNetwork # Nothing
      BY <1>21, <2>1, <2>3
         DEF CreateService, LockInv, CacheInv, Creating, Current, Pending, CurrentNetwork, Source
    <2> QED BY <2>2, <2>3
  <1>22. CASE StoreService
    <2>1. held \in 1 .. Len(providers) /\ asked \in Agents /\ service \in Version
      BY <1>22 DEF StoreService, TypeOK, OwnersInv
    <2>2. /\ loop = "store" /\ loop' = "return"
          /\ UNCHANGED <<watcher, cur, storage, agents_table, allowed_agents>>
          /\ providers' = [providers EXCEPT ![held].instance = service, ![held].locked = FALSE]
      BY <1>22 DEF StoreService
    <2>3. /\ Len(providers') = Len(providers)
          /\ DOMAIN providers' = DOMAIN providers /\ DOMAIN providers = 1 .. Len(providers)
          /\ \A q \in 1 .. Len(providers) :
                 /\ providers'[q].source = providers[q].source
                 /\ providers'[q].instance = IF q = held THEN service ELSE providers[q].instance
                 /\ providers'[q].locked = IF q = held THEN FALSE ELSE providers[q].locked
      <3>1. providers' = WithProvider(providers, held, service, FALSE)
        BY <2>1, <2>2, SetBoth DEF TypeOK
      <3>2. /\ SameSources(providers', providers)
            /\ \A q \in 1 .. Len(providers) :
                   /\ providers'[q].instance = IF q = held THEN service ELSE providers[q].instance
                   /\ providers'[q].locked = IF q = held THEN FALSE ELSE providers[q].locked
        BY <2>1, <3>1, ProviderChanges
      <3> QED BY <3>2 DEF SameSources
    <2>4. LockInv'
      BY <2>2, <2>3 DEF LockInv, Creating
    <2>5. \A a \in Agents, p \in 1 .. Len(providers) : \A n : Current(n, a, p) => Current(n, a, p)'
      BY <2>2, <2>3 DEF Current, Pending
    <2>6. ASSUME NEW a \in Agents, allowed_agents[a] # 0
          PROVE  \/ providers'[allowed_agents[a]].instance = Nothing
                 \/ Current(providers[allowed_agents[a]].instance, a, allowed_agents[a])'
      <3>1. allowed_agents[a] \in 1 .. Len(providers)
        BY <2>6 DEF OwnersInv, TypeOK
      <3>2. CASE allowed_agents[a] = held
        <4>1. a = asked
          BY <2>6, <3>2 DEF OwnersInv
        <4>2. PICK n : n = service
          OBVIOUS
        <4>3. Current(n, a, held)'
          <5>1. Current(n, a, held)
            BY <2>2, <3>2, <4>1, <4>2 DEF CacheInv
          <5>2. \A m : Current(m, a, held) => Current(m, a, held)'
            <6>1. held' = held
              BY <1>22 DEF StoreService
            <6> QED BY <2>1, <2>2, <2>3, <6>1 DEF Current, Pending
          <5> QED BY <5>1, <5>2
        <4>4. providers'[allowed_agents'[a]].instance = n
          BY <2>2, <2>3, <3>1, <3>2, <4>2
        <4>5. allowed_agents'[a] = held
          BY <2>2, <3>2
        <4>6. held' = held
          BY <1>22 DEF StoreService
        <4> QED BY <4>3, <4>4, <4>5, <4>6
      <3>3. CASE allowed_agents[a] # held
        BY <2>2, <2>3, <2>5, <2>6, <3>1, <3>3 DEF CacheInv
      <3> QED BY <3>2, <3>3
    <2> QED BY <2>2, <2>4, <2>6 DEF CacheInv
  <1>23. CASE ReturnService
    BY <1>23, CacheIsKept DEF ReturnService
  <1>24. CASE StartClientRequest
    BY <1>24, CacheIsKept DEF StartClientRequest, Answer
  <1>25. CASE StreamingChat
    BY <1>25, CacheIsKept DEF StreamingChat, Answer
  <1>26. CASE FinishRequest
    BY <1>26, CacheIsKept DEF FinishRequest, Answer
  <1>27. CASE UNCHANGED vars
    BY <1>27, CacheIsKept DEF vars
  <1> QED
    BY <1>1, <1>2, <1>3, <1>4, <1>5, <1>6, <1>7, <1>8, <1>9, <1>10, <1>11, <1>12, <1>13,
       <1>14, <1>15, <1>16, <1>17, <1>18, <1>20, <1>21, <1>22, <1>23, <1>24, <1>25, <1>26,
       <1>27
       DEF Next, Watcher, Loop

\* Whenever the watcher rests, a cached service is of the network that is registered,
\* however requests that create services and the reload that replaces networks interleave,
\* entries that go from protected to public and edits during the boot included.
THEOREM CachedIsCurrent == Spec => []CachedServiceIsCurrent
  <1>1. Init => CachedInv
    <2> SUFFICES ASSUME Init PROVE CachedInv
      OBVIOUS
    <2>1. LockInv /\ CacheInv
      BY DEF Init, LockInv, CacheInv, Creating
    <2> QED BY <2>1, Typing DEF CachedInv
  <1>2. CachedInv /\ [Next]_vars => CachedInv'
    BY TypeStep, CacheStep DEF CachedInv
  <1>3. CachedInv => CachedServiceIsCurrent
    BY DEF CachedInv, CacheInv, Current, Pending, CachedServiceIsCurrent, AtRest
  <1> QED BY <1>1, <1>2, <1>3, PTL DEF Spec

-----------------------------------------------------------------------------
(* Those agents are served that are registered                             *)

\* Nothing that a reload is about changes.
Quiet ==
    /\ UNCHANGED <<files, watcher, reload, agents_table, allowed_agents>>
    /\ \A q \in 1 .. Len(providers) : providers'[q].source = providers[q].source

LEMMA QuietSteps ==
  ASSUME TypeOK, OwnersInv, [Next]_vars
  PROVE  Quiet \/ (\E a \in Agents : EditFile(a)) \/ Watcher
  <1> USE DEF disk, observer, reload, request
  <1>1. CASE EditManifest \/ HandleEvent
    BY <1>1 DEF EditManifest, HandleEvent, Quiet
  <1>2. ASSUME NEW a \in Agents, AllowAgent(a)
        PROVE  Quiet
    BY <1>2 DEF AllowAgent, Quiet
  <1>3. CASE CheckService \/ ReturnService \/ StartClientRequest \/ StreamingChat \/ FinishRequest
    BY <1>3 DEF CheckService, ReturnService, StartClientRequest, StreamingChat, FinishRequest, Quiet
  <1>4. ASSUME NEW b \in BOOLEAN, held \in 1 .. Len(providers),
               providers' = [providers EXCEPT ![held].locked = b]
        PROVE  \A q \in 1 .. Len(providers) : providers'[q].source = providers[q].source
    <2>1. SameSources(providers', providers)
      BY <1>4, LockChanges
    <2> QED BY <2>1 DEF SameSources
  <1>5. CASE LockProvider
    <2>1. held \in 1 .. Len(providers)
      BY <1>5 DEF LockProvider, TypeOK, OwnersInv
    <2> QED BY <1>4, <1>5, <2>1 DEF LockProvider, Quiet
  <1>6. CASE CreateService
    <2>1. held \in 1 .. Len(providers)
      BY <1>6 DEF CreateService, TypeOK, OwnersInv
    <2> QED BY <1>4, <1>6, <2>1 DEF CreateService, Quiet
  <1>7. CASE StoreService
    <2>1. held \in 1 .. Len(providers) /\ service \in Version
      BY <1>7 DEF StoreService, TypeOK, OwnersInv
    <2>2. providers' = WithProvider(providers, held, service, FALSE)
      BY <1>7, <2>1, SetBoth DEF StoreService, TypeOK
    <2>3. SameSources(providers', providers)
      BY <2>1, <2>2, ProviderChanges
    <2> QED BY <1>7, <2>3 DEF StoreService, Quiet, SameSources
  <1>8. CASE UNCHANGED vars
    BY <1>8 DEF vars, Quiet
  <1> QED BY <1>1, <1>2, <1>3, <1>5, <1>6, <1>7, <1>8 DEF Next, Loop

LEMMA ReadStep ==
  ASSUME TypeOK, OwnersInv, ReadInv, [Next]_vars
  PROVE  ReadInv'
  <1> USE DEF disk, observer, reload
  <1>1. CASE Quiet
    BY <1>1 DEF Quiet, ReadInv, SettingUp
  <1>2. ASSUME NEW a \in Agents, EditFile(a)
        PROVE  ReadInv'
    BY <1>2 DEF EditFile, ReadInv, SettingUp
  <1>3. CASE ResetEventCounters
    BY <1>3 DEF ResetEventCounters, ReadInv, SettingUp
  <1>4. CASE ReadManifest
    BY <1>4 DEF ReadManifest, ReadInv, SettingUp
  <1>5. ASSUME NEW a \in Agents, ReadNetwork(a)
        PROVE  ReadInv'
    <2>1. watcher = "read_networks" /\ watcher' = "read_networks" /\ listed[a] # "none"
      BY <1>5 DEF ReadNetwork
    <2> QED BY <1>5, <2>1, NetworkIsRead DEF ReadInv
  <1>6. CASE Restored
    BY <1>6 DEF Restored, ReadInv, SettingUp
  <1>7. CASE SetUp
    BY <1>7 DEF SetUp, NoNetworks, ReadInv, SettingUp
  <1>8. CASE \/ SetupAgentNetworks \/ RemoveAgentNetwork \/ AgentRemoved \/ AllRemoved
             \/ AddAgentNetwork \/ AgentAdded \/ AgentModified \/ NextStorage
    <2>1. UNCHANGED <<listed, networks>>
      BY <1>8 DEF SetupAgentNetworks, RemoveAgentNetwork, AgentRemoved, AllRemoved,
                  AddAgentNetwork, AgentAdded, AgentModified, NextStorage
    <2>2. SettingUp /\ SettingUp' /\ watcher # "read_networks" /\ watcher' # "read_networks"
      BY <1>8 DEF SetupAgentNetworks, RemoveAgentNetwork, AgentRemoved, AllRemoved,
                  AddAgentNetwork, AgentAdded, AgentModified, NextStorage, SettingUp
    <2> QED BY <2>1, <2>2 DEF ReadInv
  <1> QED BY <1>1, <1>2, <1>3, <1>4, <1>5, <1>6, <1>7, <1>8, QuietSteps DEF Watcher

LEMMA NoWayBackStep ==
  ASSUME MayMoveBack = FALSE, TypeOK, OwnersInv, ReadInv, NoWayBackInv, SetUpInv, [Next]_vars
  PROVE  NoWayBackInv'
  <1> USE DEF disk, observer, reload
  <1>1. CASE Quiet
    BY <1>1 DEF Quiet, NoWayBackInv, LoadedProtected
  <1>2. ASSUME NEW a \in Agents, EditFile(a)
        PROVE  NoWayBackInv'
    <2>1. PICK f : (f.entry = "public" => ~LoadedProtected(a)) /\ files' = [files EXCEPT ![a] = f]
      BY <1>2 DEF EditFile
    <2>2. \A b \in Agents : files'[b] = IF b = a THEN f ELSE files[b]
      BY <2>1 DEF TypeOK
    <2>3. UNCHANGED <<agents_table, networks, listed>>
      BY <1>2 DEF EditFile
    <2> QED BY <2>1, <2>2, <2>3 DEF NoWayBackInv, LoadedProtected
  <1>3. CASE ReadManifest
    BY <1>3 DEF ReadManifest, NoWayBackInv, LoadedProtected
  <1>4. ASSUME NEW a \in Agents, ReadNetwork(a)
        PROVE  NoWayBackInv'
    <2>1. listed[a] # "none" /\ UNCHANGED <<files, agents_table>>
      BY <1>4 DEF ReadNetwork
    <2> QED BY <1>4, <2>1, NetworkIsRead DEF NoWayBackInv, LoadedProtected, Storages
  <1>5. CASE RemoveAgentNetwork
    <2>1. PICK a \in todo : agents_table' = [agents_table EXCEPT ![storage][a] = Nothing]
      BY <1>5 DEF RemoveAgentNetwork
    <2>2. a \in Agents
      BY DEF TypeOK
    <2>3. \A t \in Storages, b \in Agents :
              agents_table'[t][b] = IF t = storage /\ b = a THEN Nothing ELSE agents_table[t][b]
      BY <2>1, <2>2, TableChanges, VersionsAreNatural
    <2>4. UNCHANGED <<files, networks, listed>>
      BY <1>5 DEF RemoveAgentNetwork
    <2> QED BY <2>3, <2>4 DEF NoWayBackInv, LoadedProtected, Storages
  <1>6. CASE AddAgentNetwork
    <2>1. PICK a \in todo :
              agents_table' = [agents_table EXCEPT ![storage][a] = networks[storage][a]]
      BY <1>6 DEF AddAgentNetwork
    <2>2. a \in Agents /\ networks[storage][a] \in Version /\ storage \in Storages
      BY DEF TypeOK, Tables
    <2>3. \A t \in Storages, b \in Agents :
              agents_table'[t][b] =
                  IF t = storage /\ b = a THEN networks[storage][a] ELSE agents_table[t][b]
      BY <2>1, <2>2, TableChanges
    <2>4. UNCHANGED <<files, networks, listed>> /\ watcher = "add"
      BY <1>6 DEF AddAgentNetwork
    <2>5. networks[storage][a] # Nothing
      BY <2>4 DEF SetUpInv, Adding
    <2>6. listed[a] = "none" /\ \A t \in Storages \ {storage} : networks[t][a] = Nothing
      BY <2>2, <2>5 DEF ReadInv
    <2>7. ASSUME NEW b \in Agents, files[b].entry = "public"
          PROVE  ~LoadedProtected(b)'
      <3>1. ~LoadedProtected(b)
        BY <2>7 DEF NoWayBackInv
      <3> QED BY <2>3, <2>4, <3>1 DEF LoadedProtected, Storages
    <2>8. ASSUME NEW b \in Agents, listed[b] = "public" \/ networks["public"][b] # Nothing
          PROVE  agents_table'["protected"][b] = Nothing
      <3>1. agents_table["protected"][b] = Nothing
        BY <2>8 DEF NoWayBackInv
      <3>2. storage = "protected" => b # a
        BY <2>6, <2>8 DEF Storages
      <3> QED BY <2>3, <3>1, <3>2 DEF Storages
    <2> QED BY <2>4, <2>7, <2>8 DEF NoWayBackInv
  <1>7. CASE SetUp
    BY <1>7 DEF SetUp, NoNetworks, NoWayBackInv, LoadedProtected, Storages
  <1>8. CASE \/ ResetEventCounters \/ Restored \/ SetupAgentNetworks \/ AgentRemoved \/ AllRemoved
             \/ AgentAdded \/ AgentModified \/ NextStorage
    <2>1. UNCHANGED <<files, listed, networks, agents_table>>
      BY <1>8 DEF ResetEventCounters, Restored, SetupAgentNetworks, AgentRemoved, AllRemoved,
                  AgentAdded, AgentModified, NextStorage
    <2> QED BY <2>1 DEF NoWayBackInv, LoadedProtected
  <1> QED BY <1>1, <1>2, <1>3, <1>4, <1>5, <1>6, <1>7, <1>8, QuietSteps DEF Watcher

LEMMA SetUpStep ==
  ASSUME TypeOK, OwnersInv, ReadInv, SetUpInv, [Next]_vars
  PROVE  SetUpInv'
  <1> USE DEF disk, observer, reload
  <1>1. CASE Quiet
    BY <1>1 DEF Quiet, SetUpInv, Removing, Adding, SettingUp, AgentsToRemove
  <1>2. ASSUME NEW a \in Agents, EditFile(a)
        PROVE  SetUpInv'
    BY <1>2 DEF EditFile, SetUpInv, Removing, Adding, SettingUp, AgentsToRemove
  <1>3. ASSUME ~SettingUp'
        PROVE  SetUpInv'
    BY <1>3 DEF SetUpInv, Removing, Adding, SettingUp
  <1>4. CASE ResetEventCounters
    BY <1>3, <1>4 DEF ResetEventCounters, SettingUp
  <1>5. CASE ReadManifest
    BY <1>3, <1>5 DEF ReadManifest, SettingUp
  <1>6. ASSUME NEW a \in Agents, ReadNetwork(a)
        PROVE  SetUpInv'
    BY <1>3, <1>6 DEF ReadNetwork, SettingUp
  <1>7. CASE SetUp
    BY <1>3, <1>7 DEF SetUp, SettingUp
  <1>8. CASE Restored
    BY <1>8 DEF Restored, SetUpInv, Removing, Adding
  <1>9. CASE SetupAgentNetworks
    BY <1>9 DEF SetupAgentNetworks, SetUpInv, Removing, Adding, SettingUp, AgentsToRemove
  <1>10. CASE RemoveAgentNetwork
    <2>1. PICK a \in todo :
              /\ agents_table' = [agents_table EXCEPT ![storage][a] = Nothing]
              /\ todo' = todo \ {a}
              /\ cur' = a
      BY <1>10 DEF RemoveAgentNetwork
    <2>2. a \in Agents
      BY DEF TypeOK
    <2>3. \A t \in Storages, b \in Agents :
              agents_table'[t][b] = IF t = storage /\ b = a THEN Nothing ELSE agents_table[t][b]
      BY <2>1, <2>2, TableChanges, VersionsAreNatural
    <2>4. watcher = "remove" /\ watcher' = "notify_removed" /\ UNCHANGED <<networks, storage>>
      BY <1>10 DEF RemoveAgentNetwork
    <2>5. todo = AgentsToRemove /\ storage \in Storages
      BY <2>4 DEF SetUpInv, Removing, TypeOK
    <2>6. todo' = AgentsToRemove'
      <3>1. \A b \in Agents : b \in AgentsToRemove' <=> b \in AgentsToRemove /\ b # a
        BY <2>3, <2>4, <2>5 DEF AgentsToRemove
      <3> QED BY <2>1, <2>5, <3>1 DEF AgentsToRemove
    <2>7. networks'[storage'][cur'] = Nothing
      BY <2>1, <2>4, <2>5 DEF AgentsToRemove
    <2>8. SettingUp' /\ storage' = "protected" =>
              \A b \in Agents : networks'["public"][b] = Nothing => agents_table'["public"][b] = Nothing
      BY <2>3, <2>4 DEF SetUpInv, SettingUp, Storages
    <2> QED BY <2>4, <2>6, <2>7, <2>8 DEF SetUpInv, Removing, Adding
  <1>11. CASE AgentRemoved
    BY <1>11 DEF AgentRemoved, SetUpInv, Removing, Adding, SettingUp, AgentsToRemove
  <1>12. CASE AllRemoved
    BY <1>12 DEF AllRemoved, SetUpInv, Removing, Adding, SettingUp, AgentsToRemove
  <1>13. CASE AddAgentNetwork
    <2>1. PICK a \in todo :
              /\ watcher' = IF agents_table[storage][a] = Nothing THEN "notify_added"
                                                                  ELSE "notify_modified"
              /\ agents_table' = [agents_table EXCEPT ![storage][a] = networks[storage][a]]
              /\ todo' = todo \ {a}
      BY <1>13 DEF AddAgentNetwork
    <2>2. a \in Agents /\ networks[storage][a] \in Version /\ storage \in Storages
      BY DEF TypeOK, Tables
    <2>3. \A t \in Storages, b \in Agents :
              agents_table'[t][b] =
                  IF t = storage /\ b = a THEN networks[storage][a] ELSE agents_table[t][b]
      BY <2>1, <2>2, TableChanges
    <2>4. watcher = "add" /\ UNCHANGED <<networks, storage>>
          /\ watcher' \in {"notify_added", "notify_modified"}
      BY <1>13, <2>1 DEF AddAgentNetwork
    <2>5. AgentsToRemove = {} /\ \A b \in todo : networks[storage][b] # Nothing
      BY <2>4 DEF SetUpInv, Adding
    <2>6. AgentsToRemove' = {}
      <3>1. \A b \in Agents : b \in AgentsToRemove' => b \in AgentsToRemove
        BY <2>2, <2>3, <2>4, <2>5 DEF AgentsToRemove
      <3> QED BY <2>5, <3>1 DEF AgentsToRemove
    <2>7. SettingUp' /\ storage' = "protected" =>
              \A b \in Agents : networks'["public"][b] = Nothing => agents_table'["public"][b] = Nothing
      BY <2>3, <2>4 DEF SetUpInv, SettingUp, Storages
    <2> QED BY <2>1, <2>4, <2>5, <2>6, <2>7 DEF SetUpInv, Removing, Adding
  <1>14. CASE AgentAdded
    BY <1>14 DEF AgentAdded, SetUpInv, Removing, Adding, SettingUp, AgentsToRemove
  <1>15. CASE AgentModified
    BY <1>15 DEF AgentModified, SetUpInv, Removing, Adding, SettingUp, AgentsToRemove
  <1>16. CASE NextStorage
    <2>1. watcher' = "setup" /\ UNCHANGED <<networks, agents_table>>
      BY <1>16 DEF NextStorage
    <2>2. \A a \in Agents : networks["public"][a] = Nothing => agents_table["public"][a] = Nothing
      BY <1>16 DEF NextStorage, SetUpInv, Adding, AgentsToRemove
    <2> QED BY <2>1, <2>2 DEF SetUpInv, Removing, Adding
  <1> QED
    BY <1>1, <1>2, <1>4, <1>5, <1>6, <1>7, <1>8, <1>9, <1>10, <1>11, <1>12, <1>13, <1>14, <1>15,
       <1>16, QuietSteps
       DEF Watcher

\* The server agrees with the tables about agent a.
Agrees(a) == \A s \in Storages : agents_table[s][a] # Nothing <=> Served(a, s)

LEMMA AgreeIsKept ==
  ASSUME TypeOK, OwnersInv, AgreeInv,
         UNCHANGED <<agents_table, allowed_agents>>,
         \A q \in 1 .. Len(providers) : providers'[q].source = providers[q].source,
         \/ UNCHANGED <<watcher, cur, storage>>
         \/ /\ watcher \notin {"notify_removed", "notify_added"}
            /\ watcher' \notin {"notify_removed", "notify_added"}
  PROVE  AgreeInv'
  <1>1. \A a \in Agents : allowed_agents[a] # 0 => allowed_agents[a] \in 1 .. Len(providers)
    BY DEF OwnersInv, TypeOK
  <1>2. \A a \in Agents, s \in Storages : Served(a, s)' <=> Served(a, s)
    BY <1>1 DEF Served
  <1>3. storage \in Storages
    BY DEF TypeOK
  <1> QED BY <1>2, <1>3 DEF AgreeInv

LEMMA AgreeStep ==
  ASSUME TypeOK, OwnersInv, ReadInv, NoWayBackInv, SetUpInv, AgreeInv, [Next]_vars
  PROVE  AgreeInv'
  <1> USE DEF disk, observer, reload
  <1>1. CASE Quiet
    BY <1>1, AgreeIsKept DEF Quiet
  <1>2. ASSUME NEW a \in Agents, EditFile(a)
        PROVE  AgreeInv'
    BY <1>2, AgreeIsKept DEF EditFile
  <1>3. CASE \/ ResetEventCounters \/ ReadManifest \/ (\E a \in Agents : ReadNetwork(a)) \/ Restored
             \/ SetupAgentNetworks \/ AllRemoved \/ NextStorage \/ SetUp
    <2>1. UNCHANGED <<agents_table, allowed_agents, providers>>
      BY <1>3 DEF ResetEventCounters, ReadManifest, ReadNetwork, Restored, SetupAgentNetworks,
                  AllRemoved, NextStorage, SetUp
    <2>2. /\ watcher \notin {"notify_removed", "notify_added"}
          /\ watcher' \notin {"notify_removed", "notify_added"}
      BY <1>3 DEF ResetEventCounters, ReadManifest, ReadNetwork, Restored, SetupAgentNetworks,
                  AllRemoved, NextStorage, SetUp
    <2> QED BY <2>1, <2>2, AgreeIsKept
  <1>4. CASE RemoveAgentNetwork
    <2>1. PICK a \in todo :
              /\ agents_table' = [agents_table EXCEPT ![storage][a] = Nothing]
              /\ cur' = a
      BY <1>4 DEF RemoveAgentNetwork
    <2>2. a \in Agents /\ storage \in Storages
      BY DEF TypeOK
    <2>3. \A t \in Storages, b \in Agents :
              agents_table'[t][b] = IF t = storage /\ b = a THEN Nothing ELSE agents_table[t][b]
      BY <2>1, <2>2, TableChanges, VersionsAreNatural
    <2>4. watcher = "remove" /\ watcher' = "notify_removed"
          /\ UNCHANGED <<storage, allowed_agents, providers>>
      BY <1>4 DEF RemoveAgentNetwork
    <2>5. \A b \in Agents : Agrees(b)
      BY <2>4 DEF AgreeInv, Agrees
    <2>6. agents_table[storage][a] # Nothing
      BY <2>4 DEF SetUpInv, Removing, AgentsToRemove
    <2>7. Served(a, storage)
      BY <2>2, <2>5, <2>6 DEF Agrees
    <2>8. \A s \in Storages : agents_table'[s][a] = Nothing
      BY <2>2, <2>3, <2>5, <2>7 DEF Agrees, Served
    <2>9. ASSUME NEW b \in Agents, b # a
          PROVE  \A s \in Storages : agents_table'[s][b] # Nothing <=> Served(b, s)'
      BY <2>3, <2>4, <2>5, <2>9 DEF Agrees, Served
    <2>10. Served(a, storage)'
      BY <2>4, <2>7 DEF Served
    <2> QED BY <2>1, <2>4, <2>8, <2>9, <2>10 DEF AgreeInv
  <1>5. CASE AgentRemoved
    <2>1. watcher = "notify_removed" /\ watcher' = "remove"
          /\ UNCHANGED <<agents_table, providers>>
      BY <1>5 DEF AgentRemoved
    <2>2. \A a \in Agents : allowed_agents'[a] = IF a = cur THEN 0 ELSE allowed_agents[a]
      BY <1>5 DEF AgentRemoved, TypeOK
    <2> QED BY <2>1, <2>2 DEF AgreeInv, Served
  <1>6. CASE AddAgentNetwork
    <2>1. PICK a \in todo :
              /\ watcher' = IF agents_table[storage][a] = Nothing THEN "notify_added"
                                                                  ELSE "notify_modified"
              /\ agents_table' = [agents_table EXCEPT ![storage][a] = networks[storage][a]]
              /\ cur' = a
      BY <1>6 DEF AddAgentNetwork
    <2>2. a \in Agents /\ networks[storage][a] \in Version /\ storage \in Storages
      BY DEF TypeOK, Tables
    <2>3. \A t \in Storages, b \in Agents :
              agents_table'[t][b] =
                  IF t = storage /\ b = a THEN networks[storage][a] ELSE agents_table[t][b]
      BY <2>1, <2>2, TableChanges
    <2>4. watcher = "add" /\ UNCHANGED <<storage, allowed_agents, providers>>
      BY <1>6 DEF AddAgentNetwork
    <2>5. \A b \in Agents : Agrees(b)
      BY <2>4 DEF AgreeInv, Agrees
    <2>6. networks[storage][a] # Nothing
      BY <2>4 DEF SetUpInv, Adding
    <2>7. ASSUME NEW b \in Agents, b # a
          PROVE  \A s \in Storages : agents_table'[s][b] # Nothing <=> Served(b, s)'
      BY <2>3, <2>4, <2>5, <2>7 DEF Agrees, Served
    <2>8. CASE agents_table[storage][a] = Nothing
      \* The other storage has the agent neither: the public one is set up already, and
      \* none of its agents was a protected one.
      <3>1. \A s \in Storages \ {storage} : agents_table[s][a] = Nothing
        <4>1. CASE storage = "public"
          BY <2>2, <2>6, <4>1 DEF NoWayBackInv, Storages
        <4>2. CASE storage = "protected"
          <5>1. networks["public"][a] = Nothing
            BY <2>2, <2>6, <4>2 DEF ReadInv, Storages
          <5> QED BY <2>2, <2>4, <4>2, <5>1 DEF SetUpInv, SettingUp, Storages
        <4> QED BY <2>2, <4>1, <4>2 DEF Storages
      <3>2. allowed_agents[a] = 0
        <4>1. SUFFICES ASSUME allowed_agents[a] # 0 PROVE FALSE
          OBVIOUS
        <4>2. allowed_agents[a] \in 1 .. Len(providers)
          BY <2>2, <4>1 DEF OwnersInv, TypeOK
        <4>3. providers[allowed_agents[a]].source \in Storages
          BY <4>2, ProviderFields DEF TypeOK
        <4>4. \A s \in Storages : agents_table[s][a] = Nothing
          BY <2>8, <3>1
        <4> QED BY <2>2, <2>5, <4>1, <4>3, <4>4 DEF Agrees, Served
      <3>3. \A s \in Storages : agents_table'[s][a] # Nothing <=> s = storage
        BY <2>2, <2>3, <2>6, <3>1
      <3> QED BY <2>1, <2>4, <2>7, <2>8, <3>2, <3>3 DEF AgreeInv
    <2>9. CASE agents_table[storage][a] # Nothing
      <3>1. \A s \in Storages : agents_table'[s][a] # Nothing <=> Served(a, s)'
        BY <2>2, <2>3, <2>4, <2>5, <2>6, <2>9 DEF Agrees, Served
      <3>2. watcher' = "notify_modified"
        BY <2>1, <2>9
      <3> QED BY <2>7, <3>1, <3>2 DEF AgreeInv
    <2> QED BY <2>8, <2>9
  <1>7. CASE AgentAdded
    <2>1. /\ Len(providers') = Len(providers) + 1
          /\ \A q \in 1 .. Len(providers) : providers'[q] = providers[q]
          /\ providers'[Len(providers) + 1] =
                 [source |-> storage, instance |-> Nothing, locked |-> FALSE]
      BY <1>7, AddProvider DEF AgentAdded, TypeOK
    <2>2. Len(providers) \in Nat
      BY DEF TypeOK
    <2>3. \A a \in Agents :
              allowed_agents'[a] = IF a = cur THEN Len(providers) + 1 ELSE allowed_agents[a]
      BY <1>7, <2>2 DEF AgentAdded, TypeOK
    <2>4. watcher = "notify_added" /\ watcher' = "add" /\ UNCHANGED agents_table
      BY <1>7 DEF AgentAdded
    <2>5. cur \in Agents /\ storage \in Storages
      BY DEF TypeOK
    <2>6. \A s \in Storages : agents_table'[s][cur] # Nothing <=> Served(cur, s)'
      <3>1. /\ \A s \in Storages : agents_table'[s][cur] # Nothing <=> s = storage
        BY <2>4, <2>5 DEF AgreeInv
      <3>2. PICK c : c = cur
        OBVIOUS
      <3>3. \A s \in Storages : Served(c, s)' <=> s = storage
        BY <2>1, <2>2, <2>3, <2>5, <3>2 DEF Served
      <3>4. cur' = cur
        BY <1>7 DEF AgentAdded
      <3> QED BY <3>1, <3>2, <3>3, <3>4
    <2>7. ASSUME NEW a \in Agents, a # cur
          PROVE  \A s \in Storages : agents_table'[s][a] # Nothing <=> Served(a, s)'
      <3>1. \A s \in Storages : agents_table[s][a] # Nothing <=> Served(a, s)
        BY <2>4, <2>7 DEF AgreeInv
      <3>2. allowed_agents'[a] = allowed_agents[a]
        BY <2>3, <2>7
      <3>3. allowed_agents[a] # 0 => allowed_agents[a] \in 1 .. Len(providers)
        BY DEF OwnersInv, TypeOK
      <3> QED BY <2>1, <2>4, <3>1, <3>2, <3>3 DEF Served
    <2>8. cur' = cur
      BY <1>7 DEF AgentAdded
    <2> QED BY <2>4, <2>6, <2>7, <2>8 DEF AgreeInv
  <1>8. CASE AgentModified
    <2>1. \A q \in 1 .. Len(providers) : providers'[q].source = providers[q].source
      <3>1. CASE allowed_agents[cur] = 0
        BY <1>8, <3>1 DEF AgentModified
      <3>2. CASE allowed_agents[cur] # 0
        <4>1. allowed_agents[cur] \in 1 .. Len(providers)
          BY <3>2 DEF TypeOK, OwnersInv
        <4>2. providers' = WithProvider(providers, allowed_agents[cur], Nothing,
                                        providers[allowed_agents[cur]].locked)
          BY <1>8, <3>2, <4>1, SetInstance DEF AgentModified, ResetService, TypeOK
        <4>3. providers[allowed_agents[cur]].locked \in BOOLEAN /\ Nothing \in Version
          BY <4>1, ProviderFields, VersionsAreNatural DEF TypeOK
        <4>4. SameSources(providers', providers)
          BY <4>1, <4>2, <4>3, ProviderChanges
        <4> QED BY <4>4 DEF SameSources
      <3> QED BY <3>1, <3>2
    <2>2. UNCHANGED <<agents_table, allowed_agents>>
          /\ watcher = "notify_modified" /\ watcher' = "add"
      BY <1>8 DEF AgentModified
    <2> QED BY <2>1, <2>2, AgreeIsKept
  <1> QED BY <1>1, <1>2, <1>3, <1>4, <1>5, <1>6, <1>7, <1>8, QuietSteps DEF Watcher

LEMMA ServedInvariant ==
  ASSUME MayMoveBack = FALSE
  PROVE  Spec => []ServedInv
  <1>1. Init => ServedInv
    <2> SUFFICES ASSUME Init PROVE ServedInv
      OBVIOUS
    <2>1. \A s \in Storages, a \in Agents : networks[s][a] # Nothing => files[a].entry = s
      BY DEF Init, NetworksOnDisk
    <2>2. \A s \in Storages, a \in Agents : agents_table[s][a] = Nothing
      BY DEF Init, NoNetworks
    <2>3. watcher = "setup" /\ \A a \in Agents : listed[a] = "none"
      BY DEF Init
    <2>4. ReadInv
      BY <2>1, <2>3 DEF ReadInv, SettingUp
    <2>5. NoWayBackInv
      BY <2>1, <2>2, <2>3 DEF NoWayBackInv, LoadedProtected, Storages
    <2>6. SetUpInv
      BY <2>3 DEF Init, SetUpInv, Removing, Adding
    <2>7. AgreeInv
      <3>1. \A a \in Agents : allowed_agents[a] = 0
        BY DEF Init
      <3> QED BY <2>2, <2>3, <3>1 DEF AgreeInv, Served
    <2> QED BY <2>4, <2>5, <2>6, <2>7, Typing DEF ServedInv
  <1>2. ServedInv /\ [Next]_vars => ServedInv'
    BY TypeStep, ReadStep, NoWayBackStep, SetUpStep, AgreeStep DEF ServedInv
  <1> QED BY <1>1, <1>2, PTL DEF Spec

\* If no entry goes from protected to public, the server answers between reloads for those
\* agents that the tables have, with a provider for the storage that has the agent.  The
\* assumption is needed: agent_removed() does not ask which storage loses the agent.
THEOREM ServedAreRegistered ==
  ASSUME MayMoveBack = FALSE
  PROVE  Spec => []ServedIffRegistered
  <1>1. ServedInv => ServedIffRegistered
    BY DEF ServedInv, AgreeInv, Served, ServedIffRegistered, AtRest
  <1> QED BY <1>1, ServedInvariant, PTL

\* If no entry goes from protected to public, a reload withdraws an agent only when the
\* storage that served it lacks it in the manifest that was read.
THEOREM NoneIsWithdrawn ==
  ASSUME MayMoveBack = FALSE
  PROVE  Spec => NoNeedlessOutage
  <1> DEFINE Withdrawal ==
        \A a \in Agents :
            allowed_agents[a] # 0 /\ allowed_agents'[a] = 0
                => networks[providers[allowed_agents[a]].source][a] = Nothing
  <1>1. ServedInv /\ [Next]_vars => Withdrawal
    <2> SUFFICES ASSUME ServedInv, [Next]_vars,
                        NEW a \in Agents, allowed_agents[a] # 0, allowed_agents'[a] = 0
                 PROVE  networks[providers[allowed_agents[a]].source][a] = Nothing
      OBVIOUS
    <2> USE DEF disk, observer, reload
    <2>1. allowed_agents' # allowed_agents
      OBVIOUS
    <2>2. TypeOK /\ OwnersInv
      BY DEF ServedInv
    <2>3. ~Quiet /\ ~(\E b \in Agents : EditFile(b))
      BY <2>1 DEF Quiet, EditFile
    <2>4. AgentRemoved \/ AgentAdded
      <3>1. Watcher
        BY <2>2, <2>3, QuietSteps
      <3> QED BY <2>1, <3>1
              DEF Watcher, ResetEventCounters, ReadManifest, ReadNetwork, Restored,
                  SetupAgentNetworks, RemoveAgentNetwork, AllRemoved, AddAgentNetwork,
                  AgentModified, NextStorage, SetUp
    <2>5. CASE AgentRemoved
      <3>1. watcher = "notify_removed" /\ a = cur
        BY <2>2, <2>5 DEF AgentRemoved, TypeOK
      <3>2. providers[allowed_agents[a]].source = storage
        BY <3>1 DEF ServedInv, AgreeInv, Served
      <3>3. networks[storage][cur] = Nothing
        BY <3>1 DEF ServedInv, SetUpInv
      <3> QED BY <3>1, <3>2, <3>3
    <2>6. CASE AgentAdded
      <3>1. Len(providers) \in Nat
        BY <2>2 DEF TypeOK
      <3>2. allowed_agents'[a] = IF a = cur THEN Len(providers) + 1 ELSE allowed_agents[a]
        BY <2>2, <2>6, <3>1 DEF AgentAdded, TypeOK
      <3> QED BY <3>1, <3>2
    <2> QED BY <2>4, <2>5, <2>6
  <1>2. Spec => [][Withdrawal]_vars
    BY <1>1, ServedInvariant, PTL DEF Spec
  <1> QED BY <1>2 DEF NoNeedlessOutage

=============================================================================
