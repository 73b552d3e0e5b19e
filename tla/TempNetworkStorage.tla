------------------------- MODULE TempNetworkStorage -------------------------
(***************************************************************************)
(* ExpiringAgentNetworkStorage: the table of temporary agent networks of   *)
(* one server, the threads that work on it and the HttpServer that listens *)
(* to it.                                                                  *)
(*                                                                         *)
(*   Deployers  the pool threads of TempNetworkStorageUpdater, one per     *)
(*              chat session, which end in add_reservations()              *)
(*   Requests   HTTP requests for an agent that is not in allowed_agents;  *)
(*              they look it up with get_agent_network_provider() in a     *)
(*              thread of their own                                        *)
(*   Expirer    the thread of AbstractReservationsStorage._run_loop        *)
(*                                                                         *)
(* The two tables are written under one lock and read without it;          *)
(* listeners are told of a change after the lock is released.  Every read, *)
(* write and notification that another thread can come between is a step.  *)
(***************************************************************************)
EXTENDS Naturals, Sequences

CONSTANTS
    Agents,       \* reservation ids, which are also the agents' names
    Deployers,    \* threads that run deploy_together()
    Requests,     \* threads that run a lookup for an HTTP request
    Expirer,      \* the expiration thread
    Unlocked,     \* the value of lock that no thread holds
    Elsewhere,    \* the owner of an agent deployed by another server
    Owner,        \* the thread (of one session) that deploys an agent
    Lifetime,     \* the lifetime each reservation asks for
    MaxLifetime,  \* max_lifetime_in_seconds of the reservationist
    MaxTime,      \* bound: the clock stops here
    MaxDeploys,   \* bound: number of deployments, each with a network of its own
    Redeploy,     \* reservations that may be deployed more than once
    Wanted,       \* bound: agents that HTTP requests ask for
    UseBase       \* is there a base storage (S3)?

Threads == Deployers \cup Requests \cup {Expirer}
Networks == 1 .. MaxDeploys
NoNetwork == 0

ASSUME ConstantsAssumption ==
    /\ Agents # {}
    /\ Deployers \cap Requests = {}
    /\ Expirer \notin Deployers \cup Requests
    /\ Unlocked \notin Threads
    /\ Elsewhere \notin Deployers
    /\ Owner \in [Agents -> Deployers \cup {Elsewhere}]
    /\ Lifetime \in [Agents -> Nat]
    /\ MaxLifetime \in Nat
    /\ MaxTime \in Nat
    /\ MaxDeploys \in Nat
    /\ Redeploy \subseteq Agents
    /\ Wanted \subseteq Agents
    /\ UseBase \in BOOLEAN

VARIABLES
    now,                 \* time.time()
    deploys,             \* how many networks were deployed so far
    expiration,          \* expiration time of the deployer's own Reservation object
    base,                \* objects of the base storage
    lock,                \* AgentNetworkStorage.lock
    agents_table,        \* name -> network, NoNetwork when the key is absent
    reservations_table,  \* name -> Reservation
    allowed_agents,      \* HttpServer: name -> network its provider is fixed to
    pc,                  \* where each thread is
    cur,                 \* the agent a thread works on
    spec,                \* the network a deployer deploys
    work,                \* agents the loop under the lock has still to do
    added,               \* agents the listeners have still to hear of: new ones,
    replaced,            \* replaced ones
    gone,                \* and removed ones
    snapshot,            \* the expirer's copy of reservations_table
    fetched,             \* what a thread got from the base storage
    result,              \* what get_agent_network_provider() returned
    frames               \* networks cached by the enclosing calls of that method

tables == <<agents_table, reservations_table>>
storage == <<now, deploys, expiration, base, allowed_agents>>
locals == <<cur, spec, work, added, replaced, gone, snapshot, fetched, result, frames>>
vars == <<storage, lock, tables, pc, locals>>

-----------------------------------------------------------------------------
(* A Reservation in a table is the deployer's own object, whose expiration *)
(* time a later deployment changes, or a copy read from the base storage.  *)

Reservation == [kind : {"absent", "own", "copy"}, exp : Nat]
Absent == [kind |-> "absent", exp |-> 0]
Own == [kind |-> "own", exp |-> 0]
Copy(exp) == [kind |-> "copy", exp |-> exp]

StoredObject == [network : Networks \cup {NoNetwork}, exp : Nat]
NoObject == [network |-> NoNetwork, exp |-> 0]

ExpirationOf(a, r) == IF r.kind = "own" THEN expiration[a] ELSE r.exp

\* is_expired()
IsExpired(a, r) == now > ExpirationOf(a, r)

\* set_expiration_from()
ExpirationFrom(a) == now + IF Lifetime[a] < MaxLifetime THEN Lifetime[a] ELSE MaxLifetime

Present(a) == reservations_table[a].kind # "absent"
Valid(a) == Present(a) /\ ~IsExpired(a, reservations_table[a])

\* cur of a thread that works on no agent: a local of a call that has returned.
NoneIn(t) == cur' = [cur EXCEPT ![t] = CHOOSE a \in Agents : TRUE]

Goto(t, place) == pc' = [pc EXCEPT ![t] = place]
At(t, place) == pc[t] = place

Init ==
    /\ now = 1
    /\ deploys = 0
    /\ expiration = [a \in Agents |-> 0]
    /\ base = [a \in Agents |-> NoObject]
    /\ lock = Unlocked
    /\ agents_table = [a \in Agents |-> NoNetwork]
    /\ reservations_table = [a \in Agents |-> Absent]
    /\ allowed_agents = [a \in Agents |-> NoNetwork]
    /\ pc = [t \in Threads |-> "idle"]
    /\ cur = [t \in Threads |-> CHOOSE a \in Agents : TRUE]
    /\ spec = [t \in Threads |-> NoNetwork]
    /\ work = [t \in Threads |-> {}]
    /\ added = [t \in Threads |-> {}]
    /\ replaced = [t \in Threads |-> {}]
    /\ gone = [t \in Threads |-> {}]
    /\ snapshot = [a \in Agents |-> Absent]
    /\ fetched = [t \in Threads |-> NoObject]
    /\ result = [t \in Threads |-> NoNetwork]
    /\ frames = [t \in Threads |-> <<>>]

-----------------------------------------------------------------------------
(* The environment: time, the base storage's own expiration and the other  *)
(* servers that deploy to the same base storage.                           *)

Tick ==
    /\ now < MaxTime
    /\ now' = now + 1
    /\ UNCHANGED <<deploys, expiration, base, allowed_agents, lock, tables, pc, locals>>

BaseExpire(a) ==
    /\ base[a].network # NoNetwork
    /\ now > base[a].exp
    /\ base' = [base EXCEPT ![a] = NoObject]
    /\ UNCHANGED <<now, deploys, expiration, allowed_agents, lock, tables, pc, locals>>

DeployElsewhere(a) ==
    /\ UseBase
    /\ Owner[a] = Elsewhere
    /\ deploys < MaxDeploys
    /\ a \in Redeploy \/ expiration[a] = 0
    /\ deploys' = deploys + 1
    /\ expiration' = [expiration EXCEPT ![a] = ExpirationFrom(a)]
    /\ base' = [base EXCEPT ![a] = [network |-> deploys + 1, exp |-> ExpirationFrom(a)]]
    /\ UNCHANGED <<now, allowed_agents, lock, tables, pc, locals>>

-----------------------------------------------------------------------------
(* deploy_together() and add_reservations()                                *)

DeployTogether(d, S) ==
    /\ At(d, "idle")
    /\ deploys < MaxDeploys
    /\ S # {}
    /\ \A a \in S : Owner[a] = d /\ (a \in Redeploy \/ expiration[a] = 0)
    /\ deploys' = deploys + 1
    /\ expiration' = [a \in Agents |-> IF a \in S THEN ExpirationFrom(a) ELSE expiration[a]]
    /\ spec' = [spec EXCEPT ![d] = deploys + 1]
    /\ work' = [work EXCEPT ![d] = S]
    /\ Goto(d, IF UseBase THEN "base" ELSE "lock")
    /\ UNCHANGED <<now, base, allowed_agents, lock, tables,
                   cur, added, replaced, gone, snapshot, fetched, result, frames>>

BasePut(d, S) ==
    base' = [a \in Agents |-> IF a \in S THEN [network |-> spec[d], exp |-> expiration[a]]
                                         ELSE base[a]]

BaseAdd(d) ==
    /\ At(d, "base")
    /\ BasePut(d, work[d])
    /\ Goto(d, "lock")
    /\ UNCHANGED <<now, deploys, expiration, allowed_agents, lock, tables, locals>>

\* An error that nobody catches ends process_one_queue(), and the session deploys no
\* more.  What is left in added and replaced is what the listener was not told of.
Die(d) ==
    /\ Goto(d, "dead")
    /\ NoneIn(d)
    /\ work' = [work EXCEPT ![d] = {}]
    /\ spec' = [spec EXCEPT ![d] = NoNetwork]

\* One of the puts raises: the objects before it stay.
BaseAddFails(d) ==
    /\ At(d, "base")
    /\ \E done \in SUBSET work[d] : done # work[d] /\ BasePut(d, done)
    /\ Die(d)
    /\ UNCHANGED <<now, deploys, expiration, allowed_agents, lock, tables,
                   added, replaced, gone, snapshot, fetched, result, frames>>

AcquireToAdd(d) ==
    /\ At(d, "lock")
    /\ lock = Unlocked
    /\ lock' = d
    /\ Goto(d, "add_agent")
    /\ UNCHANGED <<storage, tables, locals>>

AddAgent(d) ==
    /\ At(d, "add_agent")
    /\ \E a \in work[d] :
        /\ cur' = [cur EXCEPT ![d] = a]
        /\ agents_table' = [agents_table EXCEPT ![a] = spec[d]]
        /\ IF agents_table[a] = NoNetwork
           THEN added' = [added EXCEPT ![d] = @ \cup {a}] /\ UNCHANGED replaced
           ELSE replaced' = [replaced EXCEPT ![d] = @ \cup {a}] /\ UNCHANGED added
    /\ Goto(d, "add_reservation")
    /\ UNCHANGED <<storage, lock, reservations_table,
                   spec, work, gone, snapshot, fetched, result, frames>>

\* After the last pair the with-block ends and the lock is free again.
AddReservation(d) ==
    LET left == work[d] \ {cur[d]} IN
    /\ At(d, "add_reservation")
    /\ reservations_table' = [reservations_table EXCEPT ![cur[d]] = Own]
    /\ work' = [work EXCEPT ![d] = left]
    /\ IF left = {}
       THEN lock' = Unlocked /\ Goto(d, "notify")
       ELSE UNCHANGED lock /\ Goto(d, "add_agent")
    /\ UNCHANGED <<storage, agents_table,
                   cur, spec, added, replaced, gone, snapshot, fetched, result, frames>>

\* Mutant: the lock is taken and released by hand, and not released on an error.
AddAgentRaisesLocked(d) ==
    /\ At(d, "add_agent")
    /\ Die(d)
    /\ UNCHANGED <<storage, lock, tables,
                   added, replaced, gone, snapshot, fetched, result, frames>>

\* AgentNetwork() raises, as for a spec with two agents of one name.  The with-block
\* frees the lock, and the pairs before this one stay in the tables, untold.
AddAgentRaises(d) ==
    /\ At(d, "add_agent")
    /\ lock' = Unlocked
    /\ Die(d)
    /\ UNCHANGED <<storage, tables,
                   added, replaced, gone, snapshot, fetched, result, frames>>

\* HttpServer.agent_added() asks the storage for the agent's provider.
NotifyAdded(d) ==
    /\ At(d, "notify")
    /\ \E a \in added[d] :
        /\ cur' = [cur EXCEPT ![d] = a]
        /\ added' = [added EXCEPT ![d] = @ \ {a}]
    /\ Goto(d, "get")
    /\ UNCHANGED <<storage, lock, tables,
                   spec, work, replaced, gone, snapshot, fetched, result, frames>>

\* HttpServer.agent_modified() drops the cached service and keeps the provider,
\* which is fixed to the network it was made with.
AgentModified(a) == allowed_agents' = allowed_agents

NotifyModified(d) ==
    /\ At(d, "notify")
    /\ added[d] = {}
    /\ \E a \in replaced[d] :
        /\ AgentModified(a)
        /\ replaced' = [replaced EXCEPT ![d] = @ \ {a}]
    /\ UNCHANGED <<now, deploys, expiration, base, lock, tables, pc,
                   cur, spec, work, added, gone, snapshot, fetched, result, frames>>

DeployDone(d) ==
    /\ At(d, "notify")
    /\ added[d] = {} /\ replaced[d] = {}
    /\ Goto(d, "idle")
    /\ NoneIn(d)
    /\ spec' = [spec EXCEPT ![d] = NoNetwork]
    /\ UNCHANGED <<storage, lock, tables,
                   work, added, replaced, gone, snapshot, fetched, result, frames>>

-----------------------------------------------------------------------------
(* get_agent_network_provider()                                            *)

\* The call returns n to whoever made it.
Return(t, n) ==
    /\ result' = [result EXCEPT ![t] = n]
    /\ Goto(t, "got")

\* A request for a name that looks like a reservation id and is not allowed yet.
Lookup(r, a) ==
    /\ At(r, "idle")
    /\ a \in Wanted
    /\ allowed_agents[a] = NoNetwork
    /\ cur' = [cur EXCEPT ![r] = a]
    /\ Goto(r, "get")
    /\ UNCHANGED <<storage, lock, tables,
                   spec, work, added, replaced, gone, snapshot, fetched, result, frames>>

ReadReservation(t) ==
    LET a == cur[t]
        r == reservations_table[a] IN
    /\ At(t, "get")
    /\ IF r.kind # "absent"
       THEN Goto(t, IF IsExpired(a, r) THEN "lock_drop" ELSE "read_agent") /\ UNCHANGED result
       ELSE IF UseBase THEN Goto(t, "fetch") /\ UNCHANGED result
                       ELSE Return(t, NoNetwork)
    /\ UNCHANGED <<storage, lock, tables,
                   cur, spec, work, added, replaced, gone, snapshot, fetched, frames>>

ReadAgent(t) ==
    /\ At(t, "read_agent")
    /\ Return(t, agents_table[cur[t]])
    /\ UNCHANGED <<storage, lock, tables,
                   cur, spec, work, added, replaced, gone, snapshot, fetched, frames>>

AcquireToDrop(t) ==
    /\ At(t, "lock_drop")
    /\ lock = Unlocked
    /\ lock' = t
    /\ reservations_table' = [reservations_table EXCEPT ![cur[t]] = Absent]
    /\ Goto(t, "drop_agent")
    /\ UNCHANGED <<storage, agents_table, locals>>

\* Mutant: only the reservation is popped.
DropReservationOnly(t) ==
    /\ At(t, "drop_agent")
    /\ lock' = Unlocked
    /\ Goto(t, "notify_dropped")
    /\ UNCHANGED <<storage, tables, locals>>

DropAgent(t) ==
    /\ At(t, "drop_agent")
    /\ agents_table' = [agents_table EXCEPT ![cur[t]] = NoNetwork]
    /\ lock' = Unlocked
    /\ Goto(t, "notify_dropped")
    /\ UNCHANGED <<storage, reservations_table, locals>>

\* HttpServer.agent_removed()
AgentRemoved(a) == allowed_agents' = [allowed_agents EXCEPT ![a] = NoNetwork]

NotifyDropped(t) ==
    /\ At(t, "notify_dropped")
    /\ AgentRemoved(cur[t])
    /\ Return(t, NoNetwork)
    /\ UNCHANGED <<now, deploys, expiration, base, lock, tables,
                   cur, spec, work, added, replaced, gone, snapshot, fetched, frames>>

\* A ClientError and a JSONDecodeError read as a miss.
Fetch(t) ==
    LET a == cur[t] IN
    /\ At(t, "fetch")
    /\ \E found \in {base[a], NoObject} :
        IF found.network # NoNetwork /\ ~(now > found.exp)
        THEN /\ fetched' = [fetched EXCEPT ![t] = found]
             /\ Goto(t, "lock_cache")
             /\ UNCHANGED result
        ELSE Return(t, NoNetwork) /\ UNCHANGED fetched
    /\ UNCHANGED <<storage, lock, tables,
                   cur, spec, work, added, replaced, gone, snapshot, frames>>

\* Any other error of the read (no connection, an object without the metadata, a spec
\* that makes no network) leaves every enclosing call.  A request answers with an error.
FetchRaises(t) ==
    /\ At(t, "fetch")
    /\ frames' = [frames EXCEPT ![t] = <<>>]
    /\ IF t \in Deployers THEN Die(t) ELSE Goto(t, "idle") /\ NoneIn(t) /\ UNCHANGED <<work, spec>>
    /\ UNCHANGED <<storage, lock, tables,
                   added, replaced, gone, snapshot, fetched, result>>

AcquireToCache(t) ==
    /\ At(t, "lock_cache")
    /\ lock = Unlocked
    /\ lock' = t
    /\ reservations_table' = [reservations_table EXCEPT ![cur[t]] = Copy(fetched[t].exp)]
    /\ Goto(t, "cache_agent")
    /\ UNCHANGED <<storage, agents_table, locals>>

\* agent_added() is called outside the lock and calls this method again.
CacheAgent(t) ==
    /\ At(t, "cache_agent")
    /\ agents_table' = [agents_table EXCEPT ![cur[t]] = fetched[t].network]
    /\ lock' = Unlocked
    /\ frames' = [frames EXCEPT ![t] = <<fetched[t].network>> \o @]
    /\ fetched' = [fetched EXCEPT ![t] = NoObject]
    /\ Goto(t, "get")
    /\ UNCHANGED <<storage, reservations_table,
                   cur, spec, work, added, replaced, gone, snapshot, result>>

\* Mutant: the provider is kept only when there is none.
KeepProviderWhenMissing(t) ==
    allowed_agents' = IF result[t] # NoNetwork THEN allowed_agents
                      ELSE [allowed_agents EXCEPT ![cur[t]] = result[t]]

\* The caller is agent_added(): it keeps the provider when there is one.
KeepProvider(t) ==
    allowed_agents' = IF result[t] = NoNetwork THEN allowed_agents
                      ELSE [allowed_agents EXCEPT ![cur[t]] = result[t]]

\* agent_added() was called by an enclosing lookup, which returns in turn.
AgentAddedByLookup(t) ==
    /\ At(t, "got")
    /\ frames[t] # <<>>
    /\ KeepProvider(t)
    /\ result' = [result EXCEPT ![t] = Head(frames[t])]
    /\ frames' = [frames EXCEPT ![t] = Tail(@)]
    /\ UNCHANGED <<now, deploys, expiration, base, lock, tables, pc,
                   cur, spec, work, added, replaced, gone, snapshot, fetched>>

\* agent_added() was called by add_reservations().
AgentAddedByDeploy(d) ==
    /\ At(d, "got")
    /\ frames[d] = <<>>
    /\ KeepProvider(d)
    /\ NoneIn(d)
    /\ result' = [result EXCEPT ![d] = NoNetwork]
    /\ Goto(d, "notify")
    /\ UNCHANGED <<now, deploys, expiration, base, lock, tables,
                   spec, work, added, replaced, gone, snapshot, fetched, frames>>

LookupDone(r) ==
    /\ At(r, "got")
    /\ frames[r] = <<>>
    /\ Goto(r, "idle")
    /\ NoneIn(r)
    /\ result' = [result EXCEPT ![r] = NoNetwork]
    /\ UNCHANGED <<storage, lock, tables,
                   spec, work, added, replaced, gone, snapshot, fetched, frames>>

-----------------------------------------------------------------------------
(* expire_reservations()                                                   *)

Snapshot ==
    /\ At(Expirer, "idle")
    /\ lock = Unlocked
    /\ snapshot' = reservations_table
    /\ Goto(Expirer, "check")
    /\ UNCHANGED <<storage, lock, tables,
                   cur, spec, work, added, replaced, gone, fetched, result, frames>>

PopLater(expired) ==
    /\ At(Expirer, "check")
    /\ gone' = [gone EXCEPT ![Expirer] = expired]
    /\ work' = [work EXCEPT ![Expirer] = expired]
    /\ snapshot' = [a \in Agents |-> Absent]
    /\ Goto(Expirer, IF expired = {} THEN "idle" ELSE "lock_pop")
    /\ UNCHANGED <<storage, lock, tables,
                   cur, spec, added, replaced, fetched, result, frames>>

\* Mutants: a reservation that expires now counts as expired already; the
\* deployer's own reservations are skipped.
CheckExpiredTooEarly ==
    PopLater({a \in Agents : snapshot[a].kind # "absent" /\ now >= ExpirationOf(a, snapshot[a])})

CheckCopiesOnly ==
    PopLater({a \in Agents : snapshot[a].kind = "copy" /\ IsExpired(a, snapshot[a])})

CheckExpired ==
    PopLater({a \in Agents : snapshot[a].kind # "absent" /\ IsExpired(a, snapshot[a])})

AcquireToPop ==
    /\ At(Expirer, "lock_pop")
    /\ lock = Unlocked
    /\ lock' = Expirer
    /\ Goto(Expirer, "pop_reservation")
    /\ UNCHANGED <<storage, tables, locals>>

PopReservation ==
    /\ At(Expirer, "pop_reservation")
    /\ \E a \in work[Expirer] :
        /\ cur' = [cur EXCEPT ![Expirer] = a]
        /\ reservations_table' = [reservations_table EXCEPT ![a] = Absent]
    /\ Goto(Expirer, "pop_agent")
    /\ UNCHANGED <<storage, lock, agents_table,
                   spec, work, added, replaced, gone, snapshot, fetched, result, frames>>

PopAgent ==
    LET left == work[Expirer] \ {cur[Expirer]} IN
    /\ At(Expirer, "pop_agent")
    /\ agents_table' = [agents_table EXCEPT ![cur[Expirer]] = NoNetwork]
    /\ work' = [work EXCEPT ![Expirer] = left]
    /\ IF left = {}
       THEN lock' = Unlocked /\ Goto(Expirer, "notify_removed")
       ELSE UNCHANGED lock /\ Goto(Expirer, "pop_reservation")
    /\ UNCHANGED <<storage, reservations_table,
                   cur, spec, added, replaced, gone, snapshot, fetched, result, frames>>

NotifyRemoved ==
    /\ At(Expirer, "notify_removed")
    /\ \E a \in gone[Expirer] :
        /\ AgentRemoved(a)
        /\ gone' = [gone EXCEPT ![Expirer] = @ \ {a}]
        /\ Goto(Expirer, IF gone[Expirer] = {a} THEN "idle" ELSE "notify_removed")
    /\ UNCHANGED <<now, deploys, expiration, base, lock, tables,
                   cur, spec, work, added, replaced, snapshot, fetched, result, frames>>

-----------------------------------------------------------------------------

Get(t) ==
    \/ ReadReservation(t) \/ ReadAgent(t)
    \/ AcquireToDrop(t) \/ DropAgent(t) \/ NotifyDropped(t)
    \/ Fetch(t) \/ FetchRaises(t) \/ AcquireToCache(t) \/ CacheAgent(t) \/ AgentAddedByLookup(t)

Deploy(d) ==
    \/ BaseAdd(d) \/ BaseAddFails(d)
    \/ AcquireToAdd(d) \/ AddAgent(d) \/ AddAgentRaises(d) \/ AddReservation(d)
    \/ NotifyAdded(d) \/ AgentAddedByDeploy(d) \/ NotifyModified(d) \/ DeployDone(d)

Expire ==
    \/ Snapshot \/ CheckExpired
    \/ AcquireToPop \/ PopReservation \/ PopAgent \/ NotifyRemoved

Environment ==
    \/ Tick
    \/ \E a \in Agents : BaseExpire(a) \/ DeployElsewhere(a)

Next ==
    \/ Environment
    \/ Expire
    \/ \E d \in Deployers : Deploy(d) \/ \E S \in SUBSET Agents : DeployTogether(d, S)
    \/ \E r \in Requests : LookupDone(r) \/ \E a \in Agents : Lookup(r, a)
    \/ \E t \in Deployers \cup Requests : Get(t)

Spec == Init /\ [][Next]_vars

\* A thread that can go on does: the interpreter schedules every thread, and a
\* lock is taken only finitely often within the bounds, so that waiting for it
\* ends.  Nothing is assumed of the environment, of new deployments or lookups.
Fairness ==
    /\ WF_vars(Expire)
    /\ \A d \in Deployers : WF_vars(Deploy(d) \/ Get(d))
    /\ \A r \in Requests : WF_vars(Get(r) \/ LookupDone(r))

FairSpec == Spec /\ Fairness

-----------------------------------------------------------------------------

Places ==
    {"idle", "dead", "base", "lock", "add_agent", "add_reservation", "notify",
     "get", "read_agent", "lock_drop", "drop_agent", "notify_dropped", "fetch",
     "lock_cache", "cache_agent", "got",
     "check", "lock_pop", "pop_reservation", "pop_agent", "notify_removed"}

\* Every variable holds a value of its kind.
TypeOK ==
    /\ now \in Nat
    /\ deploys \in Nat
    /\ expiration \in [Agents -> Nat]
    /\ base \in [Agents -> StoredObject]
    /\ lock \in Threads \cup {Unlocked}
    /\ agents_table \in [Agents -> Networks \cup {NoNetwork}]
    /\ reservations_table \in [Agents -> Reservation]
    /\ allowed_agents \in [Agents -> Networks \cup {NoNetwork}]
    /\ pc \in [Threads -> Places]
    /\ cur \in [Threads -> Agents]
    /\ spec \in [Threads -> Networks \cup {NoNetwork}]
    /\ work \in [Threads -> SUBSET Agents]
    /\ added \in [Threads -> SUBSET Agents]
    /\ replaced \in [Threads -> SUBSET Agents]
    /\ gone \in [Threads -> SUBSET Agents]
    /\ snapshot \in [Agents -> Reservation]
    /\ fetched \in [Threads -> StoredObject]
    /\ result \in [Threads -> Networks \cup {NoNetwork}]
    /\ frames \in [Threads -> Seq(Networks \cup {NoNetwork})]

\* "Agents and their Reservations are always present or absent together": what
\* get_agent_network_provider() says of the two tables holds whenever the lock
\* is free, whichever threads added, cached, dropped or expired what.
TablesTogether ==
    lock = Unlocked => \A a \in Agents : Present(a) <=> agents_table[a] # NoNetwork

\* A thread is in the middle of something about a.
Busy(a) ==
    \E t \in Threads :
        /\ ~At(t, "dead")
        /\ \/ a \in work[t] \cup added[t] \cup replaced[t] \cup gone[t]
           \/ cur[t] = a /\ pc[t] \notin {"idle", "check"}

\* An error ended the thread that had put a into the tables before it told the listener.
Untold(a) == \E t \in Threads : At(t, "dead") /\ a \in added[t]

\* a was not deployed a second time.
Once(a) == a \notin Redeploy \/ deploys <= 1

\* A network that is deployed once and has not expired is one that the server
\* serves, once the threads that know of it have told the listener.  It is not when an
\* error ended the deployment's thread first, while it added a later network of the
\* same deployment or told the listener of another one.
ValidIsServed ==
    \A a \in Agents :
        Once(a) /\ Valid(a) /\ ~Busy(a) /\ ~Untold(a) => allowed_agents[a] # NoNetwork

\* expire_reservations() is to "Remove Reservations that are expired", and a
\* lookup drops one because it is expired: no step takes a valid one away that
\* was not deployed again.
NeverRemovedEarly ==
    [][\A a \in Agents : Once(a) /\ Valid(a) => reservations_table'[a].kind # "absent"]_vars

\* The expirer gets rid of every expired reservation, unless it is renewed: none stays
\* in the tables for good.
ExpiredIsDropped == \A a \in Agents : []<>(~Present(a) \/ Valid(a))

\* A deployment comes to an end, whatever the expirer and the lookups do meanwhile, and
\* a lookup, which calls itself again through the listener, returns all the same.  An
\* error may end a thread in the middle, under the lock too; it never leaves the other
\* threads waiting.
ThreadsReturn ==
    /\ \A d \in Deployers : []<>(At(d, "idle") \/ At(d, "dead"))
    /\ \A r \in Requests : []<>At(r, "idle")
=============================================================================
