---------------------- MODULE TempNetworkStorage_proofs ----------------------
(***************************************************************************)
(* Proofs about TempNetworkStorage, for any agents, threads, lifetimes and *)
(* bounds: type correctness, that the two tables hold the same names       *)
(* whenever their lock is free, that a valid network is served and that no *)
(* step removes it.                                                        *)
(***************************************************************************)
EXTENDS TempNetworkStorage, TLAPS

Values == Networks \cup {NoNetwork}

LEMMA ReservationTypes ==
    /\ Absent \in Reservation
    /\ Own \in Reservation
    /\ NoObject \in StoredObject
    /\ \A n \in Nat : Copy(n) \in Reservation
BY DEF Absent, Own, NoObject, Copy, Reservation, StoredObject, NoNetwork

LEMMA ExpirationTypes ==
    ASSUME TypeOK, NEW a \in Agents
    PROVE  ExpirationFrom(a) \in Nat
BY ConstantsAssumption DEF TypeOK, ExpirationFrom

LEMMA SomeAgent == (CHOOSE a \in Agents : TRUE) \in Agents
BY ConstantsAssumption

LEMMA InitType == Init => TypeOK
<1>1. SUFFICES ASSUME Init PROVE TypeOK
  OBVIOUS
<1>3. <<>> \in Seq(Networks \cup {NoNetwork})
  OBVIOUS
<1> QED
  BY <1>1, <1>3, SomeAgent, ReservationTypes DEF Init, TypeOK, Places, NoNetwork

\* The environment's steps keep the types.
LEMMA EnvironmentType ==
    ASSUME TypeOK, Environment
    PROVE  TypeOK'
<1>1. CASE Tick
  BY <1>1 DEF TypeOK, Tick, tables, locals
<1>2. ASSUME NEW a \in Agents, BaseExpire(a) PROVE TypeOK'
  BY <1>2, ReservationTypes DEF TypeOK, BaseExpire, tables, locals
<1>3. ASSUME NEW a \in Agents, DeployElsewhere(a) PROVE TypeOK'
  <2>1. deploys + 1 \in Networks
    BY <1>3, ConstantsAssumption DEF TypeOK, DeployElsewhere, Networks
  <2>2. [network |-> deploys + 1, exp |-> ExpirationFrom(a)] \in StoredObject
    BY <2>1, ExpirationTypes DEF StoredObject
  <2> QED
    BY <1>3, <2>2, ExpirationTypes DEF TypeOK, DeployElsewhere, tables, locals
<1> QED
  BY <1>1, <1>2, <1>3 DEF Environment

\* The steps of a deployment keep the types.
LEMMA DeployType ==
    ASSUME TypeOK, NEW d \in Deployers, Deploy(d)
    PROVE  TypeOK'
<1> d \in Threads
  BY DEF Threads
<1> USE DEF TypeOK, Goto, At, Places, tables, storage, locals
<1>0. NoneIn(d) => cur' \in [Threads -> Agents]
  BY SomeAgent DEF NoneIn
<1>1. \A S \in SUBSET Agents : BasePut(d, S) /\ spec[d] \in Networks \cup {NoNetwork}
          => base' \in [Agents -> StoredObject]
  BY DEF BasePut, StoredObject
<1>2. CASE BaseAdd(d)
  BY <1>1, <1>2 DEF BaseAdd
<1>3. CASE BaseAddFails(d)
  BY <1>0, <1>1, <1>3 DEF BaseAddFails, Die, NoNetwork
<1>4. CASE AcquireToAdd(d)
  BY <1>4 DEF AcquireToAdd
<1>5. CASE AddAgent(d)
  <2>1. PICK a \in work[d] :
           /\ cur' = [cur EXCEPT ![d] = a]
           /\ agents_table' = [agents_table EXCEPT ![a] = spec[d]]
           /\ \/ added' = [added EXCEPT ![d] = @ \cup {a}] /\ UNCHANGED replaced
              \/ replaced' = [replaced EXCEPT ![d] = @ \cup {a}] /\ UNCHANGED added
    BY <1>5 DEF AddAgent
  <2>2. a \in Agents
    BY <2>1
  <2> DEFINE more == added[d] \cup {a}
             again == replaced[d] \cup {a}
  <2>3. more \in SUBSET Agents /\ again \in SUBSET Agents
    BY <2>2
  <2>4. \/ added' = [added EXCEPT ![d] = more] /\ UNCHANGED replaced
        \/ replaced' = [replaced EXCEPT ![d] = again] /\ UNCHANGED added
    BY <2>1
  <2> HIDE DEF more, again
  <2>5. added' \in [Threads -> SUBSET Agents] /\ replaced' \in [Threads -> SUBSET Agents]
    BY <2>3, <2>4
  <2>6. /\ agents_table' \in [Agents -> Networks \cup {NoNetwork}]
        /\ cur' \in [Threads -> Agents]
        /\ pc' \in [Threads -> Places]
    BY <1>5, <2>1, <2>2 DEF AddAgent
  <2>7. UNCHANGED <<storage, lock, reservations_table,
                    spec, work, gone, snapshot, fetched, result, frames>>
    BY <1>5 DEF AddAgent
  <2> QED
    BY <2>5, <2>6, <2>7
<1>6. CASE AddReservation(d)
  BY <1>6, ReservationTypes DEF AddReservation
<1>7. CASE NotifyAdded(d)
  BY <1>7 DEF NotifyAdded
<1>8. CASE AgentAddedByDeploy(d)
  BY <1>0, <1>8 DEF AgentAddedByDeploy, KeepProvider, NoNetwork
<1>9. CASE NotifyModified(d)
  BY <1>9 DEF NotifyModified, AgentModified
<1>10. CASE DeployDone(d)
  BY <1>0, <1>10 DEF DeployDone, NoNetwork
<1>11. CASE AddAgentRaises(d)
  BY <1>0, <1>11 DEF AddAgentRaises, Die, NoNetwork
<1> QED
  BY <1>2, <1>3, <1>4, <1>5, <1>6, <1>7, <1>8, <1>9, <1>10, <1>11 DEF Deploy

\* Taking a deployment from the queue keeps the types.
LEMMA DeployTogetherType ==
    ASSUME TypeOK, NEW d \in Deployers, NEW S \in SUBSET Agents, DeployTogether(d, S)
    PROVE  TypeOK'
<1>1. deploys + 1 \in Networks /\ d \in Threads
  BY ConstantsAssumption DEF TypeOK, DeployTogether, Networks, Threads
<1> QED
  BY <1>1, ExpirationTypes DEF TypeOK, DeployTogether, Goto, At, Places, tables

\* The steps of get_agent_network_provider() keep the types.
LEMMA GetType ==
    ASSUME TypeOK, NEW t \in Deployers \cup Requests, Get(t)
    PROVE  TypeOK'
<1> t \in Threads
  BY DEF Threads
<1> USE DEF TypeOK, Goto, At, Places, tables, storage, locals
<1>1. CASE ReadReservation(t)
  BY <1>1 DEF ReadReservation, Return, NoNetwork
<1>2. CASE ReadAgent(t)
  BY <1>2 DEF ReadAgent, Return
<1>3. CASE AcquireToDrop(t)
  BY <1>3, ReservationTypes DEF AcquireToDrop
<1>4. CASE DropAgent(t)
  BY <1>4 DEF DropAgent, NoNetwork
<1>5. CASE NotifyDropped(t)
  BY <1>5 DEF NotifyDropped, Return, AgentRemoved, NoNetwork
<1>6. CASE Fetch(t)
  <2>1. PICK found \in {base[cur[t]], NoObject} :
           IF found.network # NoNetwork /\ ~(now > found.exp)
           THEN /\ fetched' = [fetched EXCEPT ![t] = found]
                /\ Goto(t, "lock_cache")
                /\ UNCHANGED result
           ELSE Return(t, NoNetwork) /\ UNCHANGED fetched
    BY <1>6 DEF Fetch
  <2>2. found \in StoredObject
    BY ReservationTypes
  <2>3. UNCHANGED <<storage, lock, tables,
                    cur, spec, work, added, replaced, gone, snapshot, frames>>
    BY <1>6 DEF Fetch
  <2>4. CASE fetched' = [fetched EXCEPT ![t] = found] /\ Goto(t, "lock_cache") /\ UNCHANGED result
    BY <2>2, <2>3, <2>4
  <2>5. CASE Return(t, NoNetwork) /\ UNCHANGED fetched
    BY <2>3, <2>5 DEF Return, NoNetwork
  <2> QED
    BY <2>1, <2>4, <2>5
<1>7. CASE AcquireToCache(t)
  <2>1. Copy(fetched[t].exp) \in Reservation
    BY ReservationTypes DEF StoredObject
  <2> QED
    BY <1>7, <2>1 DEF AcquireToCache
<1>8. CASE CacheAgent(t)
  BY <1>8, ReservationTypes DEF CacheAgent, StoredObject
<1>9. CASE AgentAddedByLookup(t)
  BY <1>9 DEF AgentAddedByLookup, KeepProvider
<1>10. CASE FetchRaises(t)
  <2>1. <<>> \in Seq(Networks \cup {NoNetwork})
    OBVIOUS
  <2>2. NoneIn(t) => cur' \in [Threads -> Agents]
    BY SomeAgent DEF NoneIn
  <2>3. CASE t \in Deployers
    BY <1>10, <2>1, <2>2, <2>3 DEF FetchRaises, Die, NoNetwork
  <2>4. CASE t \notin Deployers
    BY <1>10, <2>1, <2>2, <2>4 DEF FetchRaises
  <2> QED
    BY <2>3, <2>4
<1> QED
  BY <1>1, <1>2, <1>3, <1>4, <1>5, <1>6, <1>7, <1>8, <1>9, <1>10 DEF Get

\* The expirer's steps keep the types.
LEMMA ExpireType ==
    ASSUME TypeOK, Expire
    PROVE  TypeOK'
<1> Expirer \in Threads
  BY DEF Threads
<1> USE DEF TypeOK, Goto, At, Places, tables, storage, locals
<1>1. CASE Snapshot
  BY <1>1 DEF Snapshot
<1>2. CASE CheckExpired
  BY <1>2, ReservationTypes DEF CheckExpired, PopLater
<1>3. CASE AcquireToPop
  BY <1>3 DEF AcquireToPop
<1>4. CASE PopReservation
  BY <1>4, ReservationTypes DEF PopReservation
<1>5. CASE PopAgent
  BY <1>5 DEF PopAgent, NoNetwork
<1>6. CASE NotifyRemoved
  BY <1>6 DEF NotifyRemoved, AgentRemoved, NoNetwork
<1> QED
  BY <1>1, <1>2, <1>3, <1>4, <1>5, <1>6 DEF Expire

LEMMA LookupType ==
    ASSUME TypeOK, NEW r \in Requests,
           LookupDone(r) \/ \E a \in Agents : Lookup(r, a)
    PROVE  TypeOK'
<1> r \in Threads
  BY DEF Threads
<1> USE DEF TypeOK, Goto, At, Places, tables, storage, locals
<1>1. CASE LookupDone(r)
  BY <1>1, SomeAgent DEF LookupDone, NoneIn, NoNetwork
<1>2. ASSUME NEW a \in Agents, Lookup(r, a) PROVE TypeOK'
  BY <1>2 DEF Lookup
<1> QED
  BY <1>1, <1>2

LEMMA NextType == TypeOK /\ [Next]_vars => TypeOK'
<1> SUFFICES ASSUME TypeOK, [Next]_vars PROVE TypeOK'
  OBVIOUS
<1>1. CASE UNCHANGED vars
  BY <1>1 DEF vars, storage, tables, locals, TypeOK
<1> QED
  BY <1>1, EnvironmentType, ExpireType, DeployType, DeployTogetherType, LookupType, GetType
     DEF Next

\* TempNetworkStorage's variables keep their types, for all constants.
THEOREM TypeCorrect == Spec => []TypeOK
BY InitType, NextType, PTL DEF Spec

-----------------------------------------------------------------------------
(* The tables agree.  Between two steps that hold the lock they may differ *)
(* on one agent, the one the holder is writing; the invariant says on      *)
(* which and how.                                                          *)

Holding == {"add_agent", "add_reservation", "drop_agent", "cache_agent",
            "pop_reservation", "pop_agent"}

\* Who is inside a with-block holds the lock, and nobody else does.
LockInv == \A t \in Threads : lock = t <=> pc[t] \in Holding

\* What a thread is about to store is a network.
StoreInv ==
    \A t \in Threads :
        /\ pc[t] \in {"base", "lock", "add_agent", "add_reservation"} => spec[t] # NoNetwork
        /\ pc[t] \in {"lock_cache", "cache_agent"} => fetched[t].network # NoNetwork

\* Half of a pair is written: which half, at which place.
HalfInv ==
    \A t \in Threads :
        /\ pc[t] = "add_reservation" => agents_table[cur[t]] # NoNetwork
        /\ pc[t] \in {"drop_agent", "pop_agent"} => ~Present(cur[t])
        /\ pc[t] = "cache_agent" => Present(cur[t])

Agree(a) == Present(a) <=> agents_table[a] # NoNetwork

HalfWritten(a) ==
    \E t \in Threads :
        /\ cur[t] = a
        /\ pc[t] \in {"add_reservation", "drop_agent", "cache_agent", "pop_agent"}

AgreeInv == \A a \in Agents : Agree(a) \/ HalfWritten(a)

IInv == TypeOK /\ LockInv /\ StoreInv /\ HalfInv /\ AgreeInv

LEMMA InitInv == Init => IInv
<1> SUFFICES ASSUME Init PROVE IInv
  OBVIOUS
<1>1. TypeOK
  BY InitType
<1>2. LockInv
  BY ConstantsAssumption DEF Init, LockInv, Holding
<1>3. StoreInv /\ HalfInv
  BY DEF Init, StoreInv, HalfInv
<1>4. AgreeInv
  BY DEF Init, AgreeInv, Agree, Present, Absent, NoNetwork
<1> QED
  BY <1>1, <1>2, <1>3, <1>4 DEF IInv

\* One thread at a time is inside a with-block.
LEMMA OneHolder ==
    ASSUME LockInv, NEW s \in Threads, NEW t \in Threads,
           pc[s] \in Holding, pc[t] \in Holding
    PROVE  s = t
BY DEF LockInv

\* A step of t that leaves the tables, the lock, and t's being in a with-block
\* alone keeps what the invariant says of the tables.
LEMMA OutsideStep ==
    ASSUME IInv, NEW t \in Threads, NEW place \in Places \ Holding,
           pc[t] \notin Holding,
           pc' = [pc EXCEPT ![t] = place],
           UNCHANGED <<lock, tables>>,
           \A s \in Threads : s # t => cur'[s] = cur[s]
    PROVE  LockInv' /\ HalfInv' /\ AgreeInv'
<1> USE DEF IInv, tables
<1>1. pc'[t] \notin Holding /\ \A s \in Threads : s # t => pc'[s] = pc[s]
  BY DEF TypeOK
<1>2. LockInv'
  BY <1>1 DEF LockInv
<1>3. HalfInv'
  BY <1>1 DEF HalfInv, Present, Holding
<1>4. AgreeInv'
  <2> SUFFICES ASSUME NEW a \in Agents PROVE Agree(a)' \/ HalfWritten(a)'
    BY DEF AgreeInv
  <2>1. CASE Agree(a)
    BY <2>1 DEF Agree, Present
  <2>2. CASE HalfWritten(a)
    <3>1. PICK s \in Threads :
             /\ cur[s] = a
             /\ pc[s] \in {"add_reservation", "drop_agent", "cache_agent", "pop_agent"}
      BY <2>2 DEF HalfWritten
    <3>2. s # t
      BY <3>1 DEF Holding
    <3> QED
      BY <3>1, <3>2, <1>1 DEF HalfWritten
  <2> QED
    BY <2>1, <2>2 DEF AgreeInv
<1> QED
  BY <1>2, <1>3, <1>4

HalfPlaces == {"add_reservation", "drop_agent", "cache_agent", "pop_agent"}

\* A step inside a with-block, or into or out of one: t writes the tables at
\* its own agent only, and what it leaves half written is what its place says.
LEMMA HolderStep ==
    ASSUME IInv, NEW t \in Threads, NEW place \in Places,
           lock = t \/ lock = Unlocked,
           pc[t] \in Holding \/ lock = Unlocked,
           pc' = [pc EXCEPT ![t] = place],
           lock' = IF place \in Holding THEN t ELSE Unlocked,
           \A s \in Threads : s # t => cur'[s] = cur[s],
           cur'[t] \in Agents,
           pc[t] \in HalfPlaces => cur'[t] = cur[t],
           \A a \in Agents : a # cur'[t] =>
               /\ agents_table'[a] = agents_table[a]
               /\ reservations_table'[a] = reservations_table[a],
           place = "add_reservation" => agents_table'[cur'[t]] # NoNetwork,
           place \in {"drop_agent", "pop_agent"} => ~Present(cur[t])',
           place = "cache_agent" => Present(cur[t])',
           place \notin HalfPlaces => Agree(cur[t])'
    PROVE  LockInv' /\ HalfInv' /\ AgreeInv'
<1>1. pc'[t] = place /\ \A s \in Threads : s # t => pc'[s] = pc[s]
  BY DEF IInv, TypeOK
<1>2. \A s \in Threads : s # t => pc[s] \notin Holding
  BY ConstantsAssumption DEF IInv, LockInv
<1>3. LockInv'
  BY <1>1, <1>2, ConstantsAssumption DEF LockInv
<1>4. HalfInv'
  BY <1>1, <1>2 DEF HalfInv, Holding
<1>5. AgreeInv'
  <2> SUFFICES ASSUME NEW a \in Agents PROVE Agree(a)' \/ HalfWritten(a)'
    BY DEF AgreeInv
  <2>1. CASE a = cur'[t]
    BY <1>1, <2>1 DEF HalfPlaces, HalfWritten
  <2>2. CASE a # cur'[t]
    <3>1. ~HalfWritten(a)
      BY <1>2, <2>2 DEF HalfWritten, HalfPlaces, Holding
    <3>2. Agree(a)
      BY <3>1 DEF IInv, AgreeInv
    <3> QED
      BY <2>2, <3>2 DEF Agree, Present
  <2> QED
    BY <2>1, <2>2
<1> QED
  BY <1>3, <1>4, <1>5

\* A thread in a with-block finds its own lock.
LEMMA HolderHasLock ==
    ASSUME IInv, NEW t \in Threads, pc[t] \in Holding
    PROVE  lock = t
BY DEF IInv, LockInv

-----------------------------------------------------------------------------
(* Every step keeps the invariant: what it does to the lock and the tables *)
(* is one of the two lemmas above, and StoreInv follows its guards.        *)

TablesInv == LockInv /\ HalfInv /\ AgreeInv

LEMMA EnvironmentInv ==
    ASSUME IInv, Environment
    PROVE  TablesInv' /\ StoreInv'
<1>1. UNCHANGED <<lock, tables, pc, locals>>
  BY DEF Environment, Tick, BaseExpire, DeployElsewhere
<1> QED
  BY <1>1 DEF IInv, TablesInv, LockInv, HalfInv, AgreeInv, Agree, HalfWritten, Present,
              StoreInv, tables, locals

\* A deployment's steps that touch neither the lock nor the tables.
LEMMA DeployOutsideInv ==
    ASSUME IInv, NEW d \in Deployers,
           \/ BaseAdd(d) \/ BaseAddFails(d) \/ NotifyAdded(d)
           \/ AgentAddedByDeploy(d) \/ NotifyModified(d) \/ DeployDone(d)
           \/ \E S \in SUBSET Agents : DeployTogether(d, S)
    PROVE  TablesInv'
<1> DEFINE place == pc'[d]
<1> d \in Threads
  BY DEF Threads
<1>1. /\ place \in Places \ Holding
      /\ pc[d] \notin Holding
      /\ pc' = [pc EXCEPT ![d] = place]
  BY DEF IInv, TypeOK, Places, Holding, At, Goto, BaseAdd, BaseAddFails, NotifyAdded,
         AgentAddedByDeploy, NotifyModified, DeployDone, DeployTogether, Die
<1>2. UNCHANGED <<lock, tables>> /\ \A s \in Threads : s # d => cur'[s] = cur[s]
  BY DEF IInv, TypeOK, BaseAdd, BaseAddFails, NotifyAdded, AgentAddedByDeploy,
         NotifyModified, DeployDone, DeployTogether, Die, NoneIn, locals, tables
<1> QED
  BY <1>1, <1>2, OutsideStep DEF TablesInv

\* A deployment's steps in the with-block of add_reservations().
LEMMA DeployHolderInv ==
    ASSUME IInv, NEW d \in Deployers,
           AcquireToAdd(d) \/ AddAgent(d) \/ AddAgentRaises(d) \/ AddReservation(d)
    PROVE  TablesInv'
<1> d \in Threads
  BY DEF Threads
<1> USE DEF IInv, TypeOK, At, Goto, TablesInv
<1>1. CASE AcquireToAdd(d)
  <2>1. AgreeInv /\ \A a \in Agents : ~HalfWritten(a)
    BY <1>1, ConstantsAssumption DEF AcquireToAdd, LockInv, HalfWritten, Holding
  <2>2. Agree(cur[d])'
    BY <1>1, <2>1 DEF AcquireToAdd, AgreeInv, Agree, Present, tables, locals
  <2> QED
    BY <1>1, <2>2, HolderStep DEF AcquireToAdd, HalfPlaces, Holding, Places, tables, locals
<1>2. CASE AddAgent(d)
  <2>1. PICK a \in work[d] :
           /\ cur' = [cur EXCEPT ![d] = a]
           /\ agents_table' = [agents_table EXCEPT ![a] = spec[d]]
    BY <1>2 DEF AddAgent
  <2>2. a \in Agents /\ spec[d] # NoNetwork
    BY <1>2, <2>1 DEF AddAgent, StoreInv
  <2>3. lock = d /\ lock' = d
    BY <1>2, HolderHasLock DEF AddAgent, Holding
  <2>4. UNCHANGED reservations_table /\ pc' = [pc EXCEPT ![d] = "add_reservation"]
    BY <1>2 DEF AddAgent
  <2>5. pc[d] = "add_agent"
    BY <1>2 DEF AddAgent
  <2> QED
    BY <2>1, <2>2, <2>3, <2>4, <2>5, HolderStep DEF HalfPlaces, Holding, Places
<1>3. CASE AddReservation(d)
  <2> DEFINE place == pc'[d]
  <2>1. /\ lock = d
        /\ agents_table[cur[d]] # NoNetwork
    BY <1>3, HolderHasLock DEF AddReservation, Holding, HalfInv
  <2>2. /\ place \in {"notify", "add_agent"}
        /\ pc' = [pc EXCEPT ![d] = place]
        /\ lock' = IF place \in Holding THEN d ELSE Unlocked
    BY <1>3, <2>1 DEF AddReservation, Holding
  <2>3. Agree(cur[d])'
    BY <1>3, <2>1 DEF AddReservation, Agree, Present, Own
  <2>4. UNCHANGED <<cur, agents_table>> /\ pc[d] = "add_reservation"
    BY <1>3 DEF AddReservation
  <2>5. \A a \in Agents : a # cur[d] => reservations_table'[a] = reservations_table[a]
    BY <1>3 DEF AddReservation
  <2> HIDE DEF place
  <2> QED
    BY <2>1, <2>2, <2>3, <2>4, <2>5, HolderStep DEF HalfPlaces, Holding, Places
<1>4. CASE AddAgentRaises(d)
  <2>1. /\ pc[d] = "add_agent" /\ pc' = [pc EXCEPT ![d] = "dead"] /\ lock' = Unlocked
        /\ UNCHANGED tables /\ \A s \in Threads : s # d => cur'[s] = cur[s]
    BY <1>4 DEF AddAgentRaises, Die, NoneIn
  <2>2. lock = d /\ \A s \in Threads : pc[s] \in Holding => s = d
    BY <2>1, HolderHasLock, OneHolder DEF Holding
  <2>3. \A a \in Agents : Agree(a)
    BY <2>1, <2>2 DEF AgreeInv, HalfWritten, Holding
  <2>4. cur'[d] \in Agents
    BY <1>4, SomeAgent DEF AddAgentRaises, Die, NoneIn
  <2>5. Agree(cur[d])'
    BY <2>1, <2>3, <2>4 DEF Agree, Present, tables
  <2> QED
    BY <2>1, <2>2, <2>4, <2>5, HolderStep DEF HalfPlaces, Holding, Places, tables
<1> QED
  BY <1>1, <1>2, <1>3, <1>4

\* The steps of a lookup that touch neither the lock nor the tables.
LEMMA GetOutsideInv ==
    ASSUME IInv, NEW t \in Deployers \cup Requests,
           \/ ReadReservation(t) \/ ReadAgent(t) \/ NotifyDropped(t) \/ Fetch(t) \/ FetchRaises(t)
           \/ AgentAddedByLookup(t) \/ LookupDone(t) \/ \E a \in Agents : Lookup(t, a)
    PROVE  TablesInv'
<1> DEFINE place == pc'[t]
<1> t \in Threads
  BY DEF Threads
<1>1. /\ place \in Places \ Holding
      /\ pc[t] \notin Holding
      /\ pc' = [pc EXCEPT ![t] = place]
  BY DEF IInv, TypeOK, Places, Holding, At, Goto, Return, ReadReservation, ReadAgent,
         NotifyDropped, Fetch, FetchRaises, Die, AgentAddedByLookup, LookupDone, Lookup
<1>2. UNCHANGED <<lock, tables>> /\ \A s \in Threads : s # t => cur'[s] = cur[s]
  BY DEF IInv, TypeOK, ReadReservation, ReadAgent, NotifyDropped, Fetch,
         FetchRaises, Die, NoneIn, AgentAddedByLookup, LookupDone, Lookup, locals, tables
<1> QED
  BY <1>1, <1>2, OutsideStep DEF TablesInv

\* The with-blocks of a lookup: dropping an expired entry, caching a new one.
LEMMA GetHolderInv ==
    ASSUME IInv, NEW t \in Deployers \cup Requests,
           AcquireToDrop(t) \/ DropAgent(t) \/ AcquireToCache(t) \/ CacheAgent(t)
    PROVE  TablesInv'
<1> t \in Threads
  BY DEF Threads
<1> USE DEF IInv, TypeOK, At, Goto, TablesInv, HalfPlaces, Holding, Places
<1>1. CASE AcquireToDrop(t)
  <2>1. ~Present(cur[t])'
    BY <1>1 DEF AcquireToDrop, Present, Absent, locals
  <2> QED
    BY <1>1, <2>1, HolderStep DEF AcquireToDrop, tables, locals
<1>2. CASE DropAgent(t)
  <2>1. lock = t /\ ~Present(cur[t])
    BY <1>2, HolderHasLock DEF DropAgent, HalfInv
  <2>2. Agree(cur[t])'
    BY <1>2, <2>1 DEF DropAgent, Agree, Present, NoNetwork, locals
  <2> QED
    BY <1>2, <2>1, <2>2, HolderStep DEF DropAgent, locals
<1>3. CASE AcquireToCache(t)
  <2>1. Present(cur[t])'
    BY <1>3 DEF AcquireToCache, Present, Copy, locals
  <2> QED
    BY <1>3, <2>1, HolderStep DEF AcquireToCache, tables, locals
<1>4. CASE CacheAgent(t)
  <2>1. lock = t /\ Present(cur[t]) /\ fetched[t].network # NoNetwork
    BY <1>4, HolderHasLock DEF CacheAgent, HalfInv, StoreInv
  <2>2. Agree(cur[t])'
    BY <1>4, <2>1 DEF CacheAgent, Agree, Present
  <2> QED
    BY <1>4, <2>1, <2>2, HolderStep DEF CacheAgent
<1> QED
  BY <1>1, <1>2, <1>3, <1>4

\* The expirer: its reads, and its with-block that pops what has expired.
LEMMA ExpireInv ==
    ASSUME IInv, Expire
    PROVE  TablesInv'
<1> Expirer \in Threads
  BY DEF Threads
<1> USE DEF IInv, TypeOK, At, Goto, TablesInv, HalfPlaces, Holding, Places
<1>1. CASE Snapshot \/ CheckExpired \/ NotifyRemoved
  <2> DEFINE place == pc'[Expirer]
  <2>1. /\ place \in Places \ Holding
        /\ pc[Expirer] \notin Holding
        /\ pc' = [pc EXCEPT ![Expirer] = place]
    BY <1>1 DEF Snapshot, CheckExpired, PopLater, NotifyRemoved
  <2>2. UNCHANGED <<lock, tables>> /\ \A s \in Threads : s # Expirer => cur'[s] = cur[s]
    BY <1>1 DEF Snapshot, CheckExpired, PopLater, NotifyRemoved, tables, locals
  <2> QED
    BY <2>1, <2>2, OutsideStep
<1>2. CASE AcquireToPop
  <2>1. AgreeInv /\ \A a \in Agents : ~HalfWritten(a)
    BY <1>2, ConstantsAssumption DEF AcquireToPop, LockInv, HalfWritten
  <2>2. Agree(cur[Expirer])'
    BY <1>2, <2>1 DEF AcquireToPop, AgreeInv, Agree, Present, tables, locals
  <2> QED
    BY <1>2, <2>2, HolderStep DEF AcquireToPop, tables, locals
<1>3. CASE PopReservation
  <2>1. PICK a \in work[Expirer] :
           /\ cur' = [cur EXCEPT ![Expirer] = a]
           /\ reservations_table' = [reservations_table EXCEPT ![a] = Absent]
    BY <1>3 DEF PopReservation
  <2>2. a \in Agents
    BY <2>1
  <2>3. ~Present(cur[Expirer])'
    BY <2>1, <2>2 DEF Present, Absent
  <2>4. lock = Expirer /\ lock' = Expirer
    BY <1>3, HolderHasLock DEF PopReservation
  <2>5. /\ UNCHANGED agents_table
        /\ pc' = [pc EXCEPT ![Expirer] = "pop_agent"]
        /\ pc[Expirer] = "pop_reservation"
    BY <1>3 DEF PopReservation
  <2> QED
    BY <2>1, <2>2, <2>3, <2>4, <2>5, HolderStep
<1>4. CASE PopAgent
  <2> DEFINE place == pc'[Expirer]
  <2>1. lock = Expirer /\ ~Present(cur[Expirer])
    BY <1>4, HolderHasLock DEF PopAgent, HalfInv
  <2>2. /\ place \in {"notify_removed", "pop_reservation"}
        /\ pc' = [pc EXCEPT ![Expirer] = place]
        /\ lock' = IF place \in Holding THEN Expirer ELSE Unlocked
    BY <1>4, <2>1 DEF PopAgent
  <2>3. Agree(cur[Expirer])'
    BY <1>4, <2>1 DEF PopAgent, Agree, Present, NoNetwork
  <2>4. UNCHANGED <<cur, reservations_table>> /\ pc[Expirer] = "pop_agent"
    BY <1>4 DEF PopAgent
  <2>5. \A a \in Agents : a # cur[Expirer] => agents_table'[a] = agents_table[a]
    BY <1>4 DEF PopAgent
  <2> HIDE DEF place
  <2> QED
    BY <2>1, <2>2, <2>3, <2>4, <2>5, HolderStep
<1> QED
  BY <1>1, <1>2, <1>3, <1>4 DEF Expire

\* A deployer keeps its network until it has stored it, and what a lookup
\* fetched is a network until it is cached.
LEMMA NextStoreInv ==
    ASSUME IInv, Next
    PROVE  StoreInv'
<1> USE DEF IInv, TypeOK, At, Goto, StoreInv, NoNetwork, Places
<1>1. CASE Environment
  BY <1>1, EnvironmentInv
<1>2. CASE Expire
  <2> Expirer \in Threads
    BY DEF Threads
  <2>1. /\ UNCHANGED <<spec, fetched>>
        /\ \A t \in Threads : t # Expirer => pc'[t] = pc[t]
    BY <1>2 DEF Expire, Snapshot, CheckExpired, PopLater, AcquireToPop, PopReservation,
                PopAgent, NotifyRemoved, storage, tables, locals
  <2>2. pc'[Expirer] \in {"idle", "check", "lock_pop", "pop_reservation", "pop_agent", "notify_removed"}
    BY <1>2 DEF Expire, Snapshot, CheckExpired, PopLater, AcquireToPop, PopReservation,
                PopAgent, NotifyRemoved
  <2> QED
    BY <2>1, <2>2
<1>3. ASSUME NEW d \in Deployers, NEW S \in SUBSET Agents, DeployTogether(d, S) PROVE StoreInv'
  BY <1>3 DEF DeployTogether, Threads
<1>4. ASSUME NEW d \in Deployers, Deploy(d) PROVE StoreInv'
  <2>1. UNCHANGED fetched /\ \A t \in Threads : t # d => pc'[t] = pc[t] /\ spec'[t] = spec[t]
    BY <1>4 DEF Deploy, BaseAdd, BaseAddFails, AcquireToAdd, AddAgent, AddAgentRaises, Die, AddReservation,
                NotifyAdded, AgentAddedByDeploy, NotifyModified, DeployDone, locals, Threads
  <2>2. pc'[d] \notin {"lock_cache", "cache_agent"}
    BY <1>4 DEF Deploy, BaseAdd, BaseAddFails, AcquireToAdd, AddAgent, AddAgentRaises, Die, AddReservation,
                NotifyAdded, AgentAddedByDeploy, NotifyModified, DeployDone, Threads
  <2>3. pc'[d] \in {"base", "lock", "add_agent", "add_reservation"}
          => /\ pc[d] \in {"base", "lock", "add_agent", "add_reservation"}
             /\ spec'[d] = spec[d]
    BY <1>4 DEF Deploy, BaseAdd, BaseAddFails, AcquireToAdd, AddAgent, AddAgentRaises, Die, AddReservation,
                NotifyAdded, AgentAddedByDeploy, NotifyModified, DeployDone, locals, Threads
  <2> QED
    BY <2>1, <2>2, <2>3
<1>5. ASSUME NEW t \in Deployers \cup Requests,
             Get(t) \/ LookupDone(t) \/ \E a \in Agents : Lookup(t, a)
      PROVE  StoreInv'
  <2>1. \A s \in Threads : s # t => pc'[s] = pc[s] /\ fetched'[s] = fetched[s] /\ spec'[s] = spec[s]
    BY <1>5 DEF Get, ReadReservation, ReadAgent, AcquireToDrop, DropAgent, NotifyDropped, Fetch, FetchRaises, Die,
                AcquireToCache, CacheAgent, AgentAddedByLookup, LookupDone, Lookup, Return,
                locals, Threads
  <2>2. pc'[t] \notin {"base", "lock", "add_agent", "add_reservation"}
    BY <1>5 DEF Get, ReadReservation, ReadAgent, AcquireToDrop, DropAgent, NotifyDropped, Fetch, FetchRaises, Die,
                AcquireToCache, CacheAgent, AgentAddedByLookup, LookupDone, Lookup, Return, Threads
  <2>3. CASE Fetch(t)
    <3>1. PICK found \in {base[cur[t]], NoObject} :
             \/ found.network # NoNetwork /\ fetched' = [fetched EXCEPT ![t] = found]
             \/ pc' = [pc EXCEPT ![t] = "got"]
      BY <2>3 DEF Fetch, Return
    <3>2. pc'[t] = "got" \/ fetched'[t].network # NoNetwork
      BY <3>1, <2>3 DEF Threads
    <3> QED
      BY <2>1, <2>2, <3>2
  <2>4. CASE ~Fetch(t)
    <3>1. pc'[t] \in {"lock_cache", "cache_agent"} => pc[t] = "lock_cache" /\ UNCHANGED fetched
      BY <1>5, <2>4 DEF Get, ReadReservation, ReadAgent, AcquireToDrop, DropAgent, NotifyDropped, FetchRaises, Die,
                AcquireToCache, CacheAgent, AgentAddedByLookup, LookupDone, Lookup, Return,
                locals, Threads
    <3> QED
      BY <2>1, <2>2, <3>1
  <2> QED
    BY <2>3, <2>4
<1> QED
  BY <1>1, <1>2, <1>3, <1>4, <1>5 DEF Next

LEMMA NextInv == IInv /\ [Next]_vars => IInv'
<1> SUFFICES ASSUME IInv, [Next]_vars PROVE IInv'
  OBVIOUS
<1>1. TypeOK'
  BY NextType DEF IInv
<1>2. CASE UNCHANGED vars
  <2>1. UNCHANGED <<lock, agents_table, reservations_table, pc, cur, spec, fetched>>
    BY <1>2 DEF vars, tables, locals
  <2>2. LockInv' /\ StoreInv'
    BY <2>1 DEF IInv, LockInv, StoreInv
  <2>3. HalfInv' /\ AgreeInv'
    BY <2>1 DEF IInv, HalfInv, AgreeInv, Agree, HalfWritten, Present
  <2> QED
    BY <1>1, <2>2, <2>3 DEF IInv
<1>3. CASE Next
  <2>1. StoreInv'
    BY <1>3, NextStoreInv
  <2>2. TablesInv'
    BY <1>3, EnvironmentInv, DeployOutsideInv, DeployHolderInv, GetOutsideInv, GetHolderInv,
       ExpireInv DEF Next, Deploy, Get
  <2> QED
    BY <1>1, <2>1, <2>2 DEF IInv, TablesInv
<1> QED
  BY <1>2, <1>3

\* Whenever the lock of the storage is free, a name is in agents_table exactly
\* when it is in reservations_table, for any number of threads and agents.
THEOREM TablesAgree == Spec => []TablesTogether
<1>1. IInv => TablesTogether
  <2> SUFFICES ASSUME IInv, lock = Unlocked, NEW a \in Agents PROVE Agree(a)
    BY DEF TablesTogether, Agree
  <2>1. \A t \in Threads : pc[t] \notin Holding
    BY ConstantsAssumption DEF IInv, LockInv
  <2>2. ~HalfWritten(a)
    BY <2>1 DEF HalfWritten, Holding
  <2> QED
    BY <2>2 DEF IInv, AgreeInv
<1> QED
  BY <1>1, InitInv, NextInv, PTL DEF Spec
-----------------------------------------------------------------------------
(* What is valid stays, and is served.  All that is known of an agent that *)
(* was deployed once has the expiration time of that deployment: in the    *)
(* table, in the base storage, and in what a thread has read of either.    *)

\* Nobody knows of an agent before it is deployed, and one deployment has one
\* expiration time.
KnownInv(a) ==
    /\ expiration[a] # 0 => deploys # 0
    /\ expiration[a] = 0 =>
        ~Present(a) /\ base[a].network = NoNetwork /\ snapshot[a].kind = "absent"
    /\ Once(a) =>
        /\ base[a].network # NoNetwork => base[a].exp = expiration[a]
        /\ reservations_table[a].kind = "copy" => reservations_table[a].exp = expiration[a]
        /\ snapshot[a].kind = "copy" => snapshot[a].exp = expiration[a]

Dropping == {"lock_drop", "drop_agent", "notify_dropped"}
Caching == {"lock_cache", "cache_agent"}

\* What thread t has read of agent a.  Who drops an agent, or tells that it is
\* dropped, does so after its time; and the listener will hear of one that is new.
ThreadInv(t, a) ==
    /\ expiration[a] = 0 =>
        /\ a \notin work[t] \cup gone[t]
        /\ cur[t] = a => pc[t] \notin {"add_reservation"} \cup Dropping \cup Caching
    /\ cur[t] = a /\ pc[t] = "add_reservation" /\ ~Present(a) => a \in added[t]
    /\ Once(a) =>
        /\ cur[t] = a /\ pc[t] \in Caching => fetched[t].exp = expiration[a]
        /\ cur[t] = a /\ pc[t] \in Dropping => now > expiration[a]
        /\ t = Expirer /\ a \in work[t] \cup gone[t] => now > expiration[a]

\* Thread t is going to make the listener's provider for agent a.
Telling(t, a) ==
    \/ a \in added[t]
    \/ cur[t] = a /\ pc[t] = "cache_agent"
    \/ /\ cur[t] = a
       /\ t \in Deployers \/ frames[t] # <<>>
       /\ pc[t] \in {"get", "read_agent"} \/ (pc[t] = "got" /\ result[t] # NoNetwork)

TellInv(a) ==
    Once(a) /\ Valid(a) =>
        allowed_agents[a] # NoNetwork \/ \E t \in Threads : Telling(t, a)

AgentInv(a) == KnownInv(a) /\ TellInv(a) /\ \A t \in Threads : ThreadInv(t, a)

FullInv == IInv /\ now # 0 /\ \A a \in Agents : AgentInv(a)

LEMMA InitFull == Init => FullInv
<1> SUFFICES ASSUME Init PROVE FullInv
  OBVIOUS
<1>1. ASSUME NEW a \in Agents PROVE AgentInv(a)
  <2>1. KnownInv(a) /\ TellInv(a)
    BY DEF Init, KnownInv, TellInv, Present, Valid, Absent, NoObject
  <2>2. \A t \in Threads : ThreadInv(t, a)
    BY DEF Init, ThreadInv, Dropping, Caching
  <2> QED
    BY <2>1, <2>2 DEF AgentInv
<1>2. now # 0
  BY DEF Init
<1> QED
  BY <1>1, <1>2, InitInv DEF FullInv

\* The others are where they were, with what they had.
OthersSame(t) == \A s \in Threads \ {t} :
    /\ pc'[s] = pc[s] /\ cur'[s] = cur[s] /\ fetched'[s] = fetched[s]
    /\ work'[s] = work[s] /\ gone'[s] = gone[s] /\ added'[s] = added[s]
    /\ frames'[s] = frames[s] /\ result'[s] = result[s]

\* A step of thread t keeps the invariant of agent a, if t takes over whatever it has
\* ceased to tell the listener.
LEMMA ThreadStep ==
    ASSUME FullInv, NEW t \in Threads, NEW a \in Agents, OthersSame(t),
           UNCHANGED <<now, deploys, expiration>>,
           reservations_table'[a] = reservations_table[a] \/ lock \in {t, Unlocked},
           KnownInv(a)', ThreadInv(t, a)',
           Once(a) /\ Valid(a)' => Valid(a) \/ Telling(t, a)',
           Once(a) /\ Valid(a) /\ Telling(t, a) =>
               allowed_agents'[a] # NoNetwork \/ \E s \in Threads : Telling(s, a)',
           Once(a) /\ Valid(a) => allowed_agents'[a] # NoNetwork \/ allowed_agents'[a] = allowed_agents[a]
    PROVE  AgentInv(a)'
<1>1. Once(a)' <=> Once(a)
  BY DEF Once
<1>2. ASSUME NEW s \in Threads \ {t} PROVE ThreadInv(s, a)'
  <2>1. ThreadInv(s, a)
    BY DEF FullInv, AgentInv
  <2>2. pc[s] = "add_reservation" => (Present(a)' <=> Present(a))
    <3>1. pc[s] = "add_reservation" => lock = s
      BY HolderHasLock DEF FullInv, Holding
    <3>2. s # Unlocked
      BY ConstantsAssumption
    <3> QED
      BY <3>1, <3>2 DEF Present
  <2> QED
    BY <1>1, <2>1, <2>2 DEF ThreadInv, OthersSame
<1>3. TellInv(a)'
  <2>1. SUFFICES ASSUME Once(a), Valid(a)', ~Telling(t, a)'
                 PROVE  allowed_agents'[a] # NoNetwork \/ \E s \in Threads : Telling(s, a)'
    BY <1>1 DEF TellInv
  <2>2. Valid(a)
    BY <2>1
  <2>3. CASE allowed_agents[a] # NoNetwork
    BY <2>1, <2>2, <2>3
  <2>4. ASSUME NEW s \in Threads, Telling(s, a)
        PROVE  allowed_agents'[a] # NoNetwork \/ \E x \in Threads : Telling(x, a)'
    <3>1. CASE s = t
      BY <2>1, <2>2, <2>4, <3>1
    <3>2. CASE s # t
      BY <2>4, <3>2 DEF Telling, OthersSame
    <3> QED
      BY <3>1, <3>2
  <2> QED
    BY <2>1, <2>2, <2>3, <2>4 DEF FullInv, AgentInv, TellInv
<1> QED
  BY <1>2, <1>3 DEF AgentInv

\* The expiration time of an agent deployed once, wherever it was read.
LEMMA KnownExpiration ==
    ASSUME IInv, NEW a \in Agents, KnownInv(a), Once(a)
    PROVE  /\ Present(a) => ExpirationOf(a, reservations_table[a]) = expiration[a]
           /\ snapshot[a].kind # "absent" => ExpirationOf(a, snapshot[a]) = expiration[a]
           /\ Valid(a) <=> Present(a) /\ ~(now > expiration[a])
<1>1. reservations_table[a] \in Reservation /\ snapshot[a] \in Reservation
  BY DEF IInv, TypeOK
<1>2. /\ Present(a) => ExpirationOf(a, reservations_table[a]) = expiration[a]
      /\ snapshot[a].kind # "absent" => ExpirationOf(a, snapshot[a]) = expiration[a]
  BY <1>1 DEF KnownInv, Present, ExpirationOf, Reservation
<1> QED
  BY <1>2 DEF Valid, IsExpired

\* A step of thread t that leaves the reservations and the listener alone.
LEMMA QuietStep ==
    ASSUME FullInv, NEW t \in Threads, NEW a \in Agents, OthersSame(t),
           UNCHANGED <<now, deploys, expiration, reservations_table, allowed_agents>>,
           KnownInv(a)', ThreadInv(t, a)',
           Once(a) /\ Valid(a) /\ Telling(t, a) => \E s \in Threads : Telling(s, a)'
    PROVE  AgentInv(a)'
<1>1. Valid(a)' <=> Valid(a)
  BY DEF Valid, Present, IsExpired, ExpirationOf
<1> QED
  BY <1>1, ThreadStep

\* What is known of agent a does not change.
LEMMA KnownSame ==
    ASSUME NEW a \in Agents, KnownInv(a),
           UNCHANGED <<deploys, expiration, base, reservations_table, snapshot>>
    PROVE  KnownInv(a)'
BY DEF KnownInv, Once, Present

LEMMA FullParts ==
    ASSUME FullInv, NEW t \in Threads, NEW a \in Agents
    PROVE  IInv /\ TypeOK /\ now # 0 /\ KnownInv(a) /\ TellInv(a) /\ ThreadInv(t, a)
BY DEF FullInv, AgentInv, IInv

-----------------------------------------------------------------------------
(* Steps of a deployment.                                                  *)

LEMMA BaseAddFull ==
    ASSUME FullInv, NEW d \in Deployers, BaseAdd(d) \/ BaseAddFails(d), NEW a \in Agents
    PROVE  AgentInv(a)'
<1> d \in Threads
  BY DEF Threads
<1> USE FullParts
<1>1. /\ pc[d] = "base" /\ pc'[d] \in {"lock", "dead"} /\ work'[d] \subseteq work[d]
      /\ OthersSame(d)
      /\ UNCHANGED <<now, deploys, expiration, reservations_table, allowed_agents, snapshot,
                     added, gone, fetched, result, frames>>
  BY DEF BaseAdd, BaseAddFails, Die, NoneIn, At, Goto, TypeOK, OthersSame, tables, locals
<1>2. PICK S \in SUBSET work[d] : BasePut(d, S)
  BY DEF BaseAdd, BaseAddFails
<1>3. base'[a] = base[a] \/ (a \in work[d] /\ base'[a].exp = expiration[a])
  BY <1>2 DEF BasePut
<1>4. ThreadInv(d, a)
  OBVIOUS
<1>5. KnownInv(a)'
  BY <1>1, <1>3, <1>4 DEF KnownInv, ThreadInv, Once, Present
<1>6. ThreadInv(d, a)'
  BY <1>1, <1>4 DEF ThreadInv, Once, Dropping, Caching
<1>7. Telling(d, a) => Telling(d, a)'
  BY <1>1 DEF Telling
<1> QED
  BY ONLY FullInv, a \in Agents, d \in Threads, <1>1, <1>5, <1>6, <1>7, QuietStep

LEMMA AddAgentFull ==
    ASSUME FullInv, NEW d \in Deployers, AddAgent(d), NEW a \in Agents
    PROVE  AgentInv(a)'
<1> d \in Threads
  BY DEF Threads
<1> USE FullParts
<1>1. PICK b \in work[d] :
         /\ cur' = [cur EXCEPT ![d] = b]
         /\ agents_table[b] = NoNetwork => added' = [added EXCEPT ![d] = @ \cup {b}]
         /\ agents_table[b] # NoNetwork => added' = added
  BY DEF AddAgent
<1>2. /\ pc[d] = "add_agent" /\ pc'[d] = "add_reservation" /\ cur'[d] = b /\ b \in Agents
      /\ OthersSame(d) /\ added[d] \subseteq added'[d]
      /\ agents_table[b] = NoNetwork => b \in added'[d]
      /\ UNCHANGED <<now, deploys, expiration, base, reservations_table, allowed_agents,
                     snapshot, work, gone, fetched, result, frames>>
  BY <1>1 DEF AddAgent, At, Goto, TypeOK, OthersSame, storage
<1>3. ThreadInv(d, a) /\ KnownInv(a)'
  BY <1>2, KnownSame
<1>4. ASSUME a = b, ~Present(a) PROVE a \in added'[d]
  <2>1. \A s \in Threads : pc[s] \in Holding => s = d
    BY <1>2, OneHolder DEF IInv, Holding
  <2>2. ~HalfWritten(a)
    BY <1>2, <2>1 DEF HalfWritten, Holding
  <2>3. Agree(a)
    BY <2>2 DEF IInv, AgreeInv
  <2> QED
    BY <1>2, <1>4, <2>3 DEF Agree
<1>5. d # Expirer
  BY ConstantsAssumption
<1>6. ThreadInv(d, a)'
  BY <1>1, <1>2, <1>3, <1>4, <1>5 DEF ThreadInv, Once, Present, Dropping, Caching
<1>7. Telling(d, a) => Telling(d, a)'
  BY <1>2 DEF Telling
<1> QED
  BY ONLY FullInv, a \in Agents, d \in Threads, <1>2, <1>3, <1>6, <1>7, QuietStep

LEMMA AddReservationFull ==
    ASSUME FullInv, NEW d \in Deployers, AddReservation(d), NEW a \in Agents
    PROVE  AgentInv(a)'
<1> d \in Threads
  BY DEF Threads
<1> USE FullParts
<1>1. /\ pc[d] = "add_reservation" /\ pc'[d] \in {"notify", "add_agent"}
      /\ cur[d] \in Agents /\ work'[d] \subseteq work[d]
      /\ OthersSame(d)
      /\ UNCHANGED <<now, deploys, expiration, base, allowed_agents, snapshot,
                     added, gone, fetched, result, frames>>
  BY DEF AddReservation, At, Goto, TypeOK, OthersSame, storage
<1>2. /\ cur[d] = a => reservations_table'[a] = Own
      /\ cur[d] # a => reservations_table'[a] = reservations_table[a]
  BY DEF AddReservation, TypeOK
<1>3. lock = d
  BY <1>1, HolderHasLock DEF Holding
<1>4. ThreadInv(d, a)
  OBVIOUS
<1>5. KnownInv(a)'
  BY <1>1, <1>2, <1>4 DEF KnownInv, ThreadInv, Once, Present, Own
<1>6. ThreadInv(d, a)'
  BY <1>1, <1>4 DEF ThreadInv, Once, Dropping, Caching
<1>7. ASSUME Once(a), Valid(a)' PROVE Valid(a) \/ Telling(d, a)'
  <2>1. CASE cur[d] # a
    BY <1>1, <1>2, <1>7, <2>1 DEF Valid, Present, IsExpired, ExpirationOf
  <2>2. CASE cur[d] = a /\ ~Present(a)
    BY <1>1, <1>4, <2>2 DEF ThreadInv, Telling
  <2>3. CASE cur[d] = a /\ Present(a)
    <3>1. ~(now > expiration[a])
      BY <1>1, <1>2, <1>7, <2>3 DEF Valid, IsExpired, ExpirationOf, Own
    <3> QED
      BY <1>7, <2>3, <3>1, KnownExpiration
  <2> QED
    BY <2>1, <2>2, <2>3
<1>8. Telling(d, a) => Telling(d, a)'
  BY <1>1 DEF Telling
<1> QED
  BY ONLY FullInv, a \in Agents, d \in Threads, <1>1, <1>2, <1>3, <1>5, <1>6, <1>7, <1>8, ThreadStep

\* The steps that only move on: taking the lock, telling the listener.
LEMMA DeployQuietFull ==
    ASSUME FullInv, NEW d \in Deployers,
           \/ AcquireToAdd(d) \/ AddAgentRaises(d) \/ NotifyAdded(d) \/ NotifyModified(d)
           \/ DeployDone(d),
           NEW a \in Agents
    PROVE  AgentInv(a)'
<1> d \in Threads
  BY DEF Threads
<1> USE FullParts
<1>1. /\ UNCHANGED <<now, deploys, expiration, base, reservations_table, allowed_agents, snapshot,
                     gone, fetched, result, frames>>
      /\ work'[d] \subseteq work[d] /\ OthersSame(d)
  BY DEF AcquireToAdd, AddAgentRaises, Die, NoneIn, NotifyAdded, NotifyModified, AgentModified, DeployDone,
         At, Goto, TypeOK, OthersSame, storage, tables, locals
<1>2. ThreadInv(d, a) /\ KnownInv(a)'
  BY <1>1, KnownSame
<1>3. /\ pc[d] \in {"lock", "add_agent", "notify"}
      /\ pc'[d] \in {"add_agent", "get", "notify", "idle", "dead"}
      /\ \/ added'[d] = added[d]
         \/ pc'[d] = "get" /\ added[d] \subseteq added'[d] \cup {cur'[d]}
  BY DEF AcquireToAdd, AddAgentRaises, Die, NotifyAdded, NotifyModified, DeployDone, At, Goto, TypeOK, storage, tables,
         locals
<1>4. ThreadInv(d, a)'
  BY <1>1, <1>2, <1>3 DEF ThreadInv, Once, Dropping, Caching
<1>5. Telling(d, a) => Telling(d, a)'
  BY <1>1, <1>3 DEF Telling
<1> QED
  BY ONLY FullInv, a \in Agents, d \in Threads, <1>1, <1>2, <1>4, <1>5, QuietStep

-----------------------------------------------------------------------------
(* Steps of a lookup.                                                      *)

\* A step of a lookup that writes neither a table nor the listener's providers.
LEMMA LookupQuietFull ==
    ASSUME FullInv, NEW t \in Deployers \cup Requests,
           \/ ReadReservation(t) \/ DropAgent(t) \/ CacheAgent(t) \/ FetchRaises(t)
           \/ (t \in Requests /\ (LookupDone(t) \/ \E b \in Agents : Lookup(t, b))),
           NEW a \in Agents
    PROVE  AgentInv(a)'
<1> t \in Threads
  BY DEF Threads
<1> USE FullParts
<1>1. /\ UNCHANGED <<now, deploys, expiration, base, reservations_table, allowed_agents, snapshot,
                     gone, added>>
      /\ work'[t] \subseteq work[t] /\ OthersSame(t)
  BY DEF FetchRaises, Die, NoneIn, ReadReservation, DropAgent, CacheAgent, LookupDone, Lookup, Return,
         At, Goto, TypeOK, OthersSame, storage, tables, locals
<1>2. ThreadInv(t, a) /\ KnownInv(a)'
  BY <1>1, KnownSame
<1>3. CASE ReadReservation(t)
  <2>1. /\ pc[t] = "get" /\ pc'[t] \in {"lock_drop", "read_agent", "fetch", "got"}
        /\ UNCHANGED <<cur, frames, fetched>>
        /\ pc'[t] = "lock_drop" => Present(cur[t]) /\ IsExpired(cur[t], reservations_table[cur[t]])
        /\ Valid(cur[t]) => pc'[t] = "read_agent"
    BY <1>3 DEF ReadReservation, Return, At, Goto, TypeOK, Present, Valid
  <2>2. pc'[t] = "lock_drop" /\ cur[t] = a
          => expiration[a] # 0 /\ (Once(a) => now > expiration[a])
    BY <2>1, KnownExpiration DEF KnownInv, IsExpired
  <2>3. ThreadInv(t, a)'
    BY <1>1, <1>2, <2>1, <2>2 DEF ThreadInv, Once, Dropping, Caching
  <2>4. Valid(a) /\ Telling(t, a) => Telling(t, a)'
    BY <1>1, <2>1 DEF Telling
  <2> QED
    BY ONLY FullInv, a \in Agents, t \in Threads, <1>1, <1>2, <2>3, <2>4, QuietStep
<1>4. CASE DropAgent(t)
  <2>1. pc[t] = "drop_agent" /\ pc'[t] = "notify_dropped" /\ UNCHANGED <<cur, frames, fetched>>
    BY <1>4 DEF DropAgent, At, Goto, TypeOK, locals
  <2>2. ThreadInv(t, a)'
    BY <1>1, <1>2, <2>1 DEF ThreadInv, Once, Dropping, Caching
  <2>3. Telling(t, a) => Telling(t, a)'
    BY <1>1, <2>1 DEF Telling
  <2> QED
    BY ONLY FullInv, a \in Agents, t \in Threads, <1>1, <1>2, <2>2, <2>3, QuietStep
<1>5. CASE CacheAgent(t)
  <2>1. /\ pc[t] = "cache_agent" /\ pc'[t] = "get" /\ UNCHANGED cur
        /\ frames'[t] = <<fetched[t].network>> \o frames[t]
        /\ frames[t] \in Seq(Values) /\ fetched[t].network \in Values
    BY <1>5 DEF CacheAgent, At, Goto, TypeOK, Values, StoredObject
  <2>2. frames'[t] # <<>>
    <3>1. \A v \in Values, f \in Seq(Values) : <<v>> \o f # <<>>
      OBVIOUS
    <3> QED
      BY <2>1, <3>1
  <2>3. ThreadInv(t, a)'
    BY <1>1, <1>2, <2>1 DEF ThreadInv, Once, Dropping, Caching
  <2>4. Telling(t, a) => Telling(t, a)'
    BY <1>1, <2>1, <2>2 DEF Telling
  <2> QED
    BY ONLY FullInv, a \in Agents, t \in Threads, <1>1, <1>2, <2>3, <2>4, QuietStep
<1>6. CASE t \in Requests /\ (LookupDone(t) \/ \E b \in Agents : Lookup(t, b))
  <2>1. /\ pc'[t] \in {"idle", "get"} /\ t \notin Deployers
        /\ pc[t] = "idle" \/ (pc[t] = "got" /\ frames[t] = <<>>)
    BY <1>6, ConstantsAssumption DEF LookupDone, Lookup, At, Goto, TypeOK
  <2>2. ThreadInv(t, a)'
    BY <1>1, <1>2, <2>1 DEF ThreadInv, Once, Dropping, Caching
  <2>3. Telling(t, a) => Telling(t, a)'
    BY <1>1, <2>1 DEF Telling
  <2> QED
    BY ONLY FullInv, a \in Agents, t \in Threads, <1>1, <1>2, <2>2, <2>3, QuietStep
<1>7. CASE FetchRaises(t)
  <2>1. pc[t] = "fetch" /\ pc'[t] \in {"idle", "dead"}
    BY <1>7 DEF FetchRaises, Die, At, Goto, TypeOK
  <2>2. ThreadInv(t, a)'
    BY <1>1, <1>2, <2>1 DEF ThreadInv, Once, Dropping, Caching
  <2>3. Telling(t, a) => Telling(t, a)'
    BY <1>1, <2>1 DEF Telling
  <2> QED
    BY ONLY FullInv, a \in Agents, t \in Threads, <1>1, <1>2, <2>2, <2>3, QuietStep
<1> QED
  BY <1>3, <1>4, <1>5, <1>6, <1>7

\* A lookup that finds a reservation and no network looks between the two writes of
\* another thread, which caches the network and will tell the listener of it.
LEMMA ReadAgentFull ==
    ASSUME FullInv, NEW t \in Deployers \cup Requests, ReadAgent(t), NEW a \in Agents
    PROVE  AgentInv(a)'
<1> t \in Threads
  BY DEF Threads
<1> USE FullParts
<1>1. /\ pc[t] = "read_agent" /\ pc'[t] = "got" /\ result'[t] = agents_table[cur[t]]
      /\ OthersSame(t)
      /\ UNCHANGED <<now, deploys, expiration, base, reservations_table, allowed_agents, snapshot,
                     cur, work, gone, added, fetched, frames>>
  BY DEF ReadAgent, Return, At, Goto, TypeOK, OthersSame, storage, tables
<1>2. ThreadInv(t, a) /\ KnownInv(a)'
  BY <1>1, KnownSame
<1>3. ThreadInv(t, a)'
  BY <1>1, <1>2 DEF ThreadInv, Once, Dropping, Caching
<1>4. ASSUME Valid(a), Telling(t, a) PROVE \E s \in Threads : Telling(s, a)'
  <2>1. CASE agents_table[a] # NoNetwork
    BY <1>1, <1>4, <2>1 DEF Telling
  <2>2. CASE agents_table[a] = NoNetwork
    <3>1. Present(a) /\ HalfWritten(a)
      BY <1>4, <2>2 DEF Valid, IInv, AgreeInv, Agree
    <3>2. PICK s \in Threads : cur[s] = a /\ pc[s] = "cache_agent"
      BY <2>2, <3>1 DEF HalfWritten, IInv, HalfInv
    <3>3. Telling(s, a)'
      BY <1>1, <3>2 DEF Telling, OthersSame
    <3> QED
      BY <3>3
  <2> QED
    BY <2>1, <2>2
<1> QED
  BY ONLY FullInv, a \in Agents, t \in Threads, <1>1, <1>2, <1>3, <1>4, QuietStep

LEMMA FetchFull ==
    ASSUME FullInv, NEW t \in Deployers \cup Requests, Fetch(t), NEW a \in Agents
    PROVE  AgentInv(a)'
<1> t \in Threads
  BY DEF Threads
<1> USE FullParts
<1>1. /\ pc[t] = "fetch"
      /\ OthersSame(t)
      /\ UNCHANGED <<now, deploys, expiration, base, reservations_table, allowed_agents, snapshot,
                     cur, work, gone, added, frames>>
  BY DEF Fetch, Return, At, Goto, TypeOK, OthersSame, storage, tables
<1>2. ThreadInv(t, a) /\ KnownInv(a)'
  BY <1>1, KnownSame
<1>3. \/ pc'[t] = "got"
      \/ /\ pc'[t] = "lock_cache" /\ fetched'[t] = base[cur[t]]
         /\ base[cur[t]].network # NoNetwork
  <2>1. PICK found \in {base[cur[t]], NoObject} :
           IF found.network # NoNetwork /\ ~(now > found.exp)
           THEN fetched' = [fetched EXCEPT ![t] = found] /\ Goto(t, "lock_cache")
           ELSE Return(t, NoNetwork)
    BY DEF Fetch
  <2>2. CASE found.network # NoNetwork /\ fetched' = [fetched EXCEPT ![t] = found]
             /\ Goto(t, "lock_cache")
    <3>1. found = base[cur[t]]
      BY <2>2 DEF NoObject
    <3> QED
      BY <2>2, <3>1 DEF Goto, TypeOK
  <2>3. CASE Return(t, NoNetwork)
    BY <2>3 DEF Return, Goto, TypeOK
  <2> QED
    BY <2>1, <2>2, <2>3
<1>4. cur[t] = a /\ pc'[t] = "lock_cache"
        => expiration[a] # 0 /\ (Once(a) => fetched'[t].exp = expiration[a])
  BY <1>3, KnownInv(a) DEF KnownInv
<1>5. ThreadInv(t, a)'
  BY <1>1, <1>2, <1>3, <1>4 DEF ThreadInv, Once, Dropping, Caching
<1>6. Telling(t, a) => Telling(t, a)'
  BY <1>1 DEF Telling
<1> QED
  BY ONLY FullInv, a \in Agents, t \in Threads, <1>1, <1>2, <1>5, <1>6, QuietStep

\* The entry that is dropped has expired, the one that is cached is as it was deployed.
LEMMA LookupTableFull ==
    ASSUME FullInv, NEW t \in Deployers \cup Requests, AcquireToDrop(t) \/ AcquireToCache(t),
           NEW a \in Agents
    PROVE  AgentInv(a)'
<1> t \in Threads
  BY DEF Threads
<1> USE FullParts
<1>1. /\ lock = Unlocked
      /\ OthersSame(t)
      /\ UNCHANGED <<now, deploys, expiration, base, allowed_agents, snapshot,
                     cur, work, gone, added, fetched, frames, result>>
      /\ cur[t] # a => reservations_table'[a] = reservations_table[a]
  BY DEF AcquireToDrop, AcquireToCache, At, Goto, TypeOK, OthersSame, storage, locals
<1>2. \/ /\ pc[t] = "lock_drop" /\ pc'[t] = "drop_agent"
         /\ cur[t] = a => reservations_table'[a] = Absent
      \/ /\ pc[t] = "lock_cache" /\ pc'[t] = "cache_agent"
         /\ cur[t] = a => reservations_table'[a] = Copy(fetched[t].exp)
  BY DEF AcquireToDrop, AcquireToCache, At, Goto, TypeOK
<1>3. ThreadInv(t, a) /\ KnownInv(a)
  OBVIOUS
<1>4. KnownInv(a)'
  BY <1>1, <1>2, <1>3 DEF KnownInv, ThreadInv, Once, Present, Absent, Copy, Caching
<1>5. ThreadInv(t, a)'
  BY <1>1, <1>2, <1>3 DEF ThreadInv, Once, Dropping, Caching
<1>6. Valid(a)' => Valid(a) \/ Telling(t, a)'
  BY <1>1, <1>2 DEF Valid, Present, Absent, IsExpired, ExpirationOf, Telling
<1>7. Telling(t, a) => Telling(t, a)'
  BY <1>1, <1>2 DEF Telling
<1> QED
  BY ONLY FullInv, a \in Agents, t \in Threads, <1>1, <1>4, <1>5, <1>6, <1>7, ThreadStep

\* The listener drops the provider of an agent whose time is over.
LEMMA NotifyDroppedFull ==
    ASSUME FullInv, NEW t \in Deployers \cup Requests, NotifyDropped(t), NEW a \in Agents
    PROVE  AgentInv(a)'
<1> t \in Threads
  BY DEF Threads
<1> USE FullParts
<1>1. /\ pc[t] = "notify_dropped" /\ pc'[t] = "got"
      /\ OthersSame(t)
      /\ UNCHANGED <<now, deploys, expiration, base, reservations_table, snapshot,
                     cur, work, gone, added, fetched, frames>>
      /\ cur[t] # a => allowed_agents'[a] = allowed_agents[a]
  BY DEF NotifyDropped, AgentRemoved, Return, At, Goto, TypeOK, OthersSame, tables
<1>2. ThreadInv(t, a) /\ KnownInv(a)'
  BY <1>1, KnownSame
<1>3. ThreadInv(t, a)'
  BY <1>1, <1>2 DEF ThreadInv, Once, Dropping, Caching
<1>4. Once(a) /\ Valid(a) => cur[t] # a
  BY <1>1, <1>2, KnownExpiration DEF ThreadInv, Dropping
<1>5. Valid(a)' => Valid(a)
  BY <1>1 DEF Valid, Present, IsExpired, ExpirationOf
<1>6. Telling(t, a) => Telling(t, a)'
  BY <1>1 DEF Telling
<1> QED
  BY ONLY FullInv, a \in Agents, t \in Threads, <1>1, <1>2, <1>3, <1>4, <1>5, <1>6, ThreadStep

\* The listener keeps the provider it was given.
LEMMA AgentAddedFull ==
    ASSUME FullInv, NEW t \in Deployers \cup Requests,
           AgentAddedByLookup(t) \/ (t \in Deployers /\ AgentAddedByDeploy(t)),
           NEW a \in Agents
    PROVE  AgentInv(a)'
<1> t \in Threads
  BY DEF Threads
<1> USE FullParts
<1>1. /\ pc[t] = "got" /\ pc'[t] \in {"got", "notify"}
      /\ OthersSame(t) /\ (pc'[t] = "got" => cur'[t] = cur[t])
      /\ UNCHANGED <<now, deploys, expiration, base, reservations_table, snapshot,
                     work, gone, added, fetched>>
      /\ \/ allowed_agents'[a] = allowed_agents[a]
         \/ cur[t] = a /\ result[t] # NoNetwork
      /\ cur[t] = a /\ result[t] # NoNetwork => allowed_agents'[a] # NoNetwork
      /\ allowed_agents'[a] # NoNetwork \/ allowed_agents'[a] = allowed_agents[a]
  BY DEF AgentAddedByLookup, AgentAddedByDeploy, KeepProvider, NoneIn, At, Goto, TypeOK, OthersSame, tables
<1>2. ThreadInv(t, a) /\ KnownInv(a)'
  BY <1>1, KnownSame
<1>3. ThreadInv(t, a)'
  BY <1>1, <1>2 DEF ThreadInv, Once, Dropping, Caching
<1>4. Valid(a)' => Valid(a)
  BY <1>1 DEF Valid, Present, IsExpired, ExpirationOf
<1>5. Telling(t, a) => allowed_agents'[a] # NoNetwork \/ Telling(t, a)'
  BY <1>1 DEF Telling
<1> QED
  BY ONLY FullInv, a \in Agents, t \in Threads, <1>1, <1>2, <1>3, <1>4, <1>5, ThreadStep

-----------------------------------------------------------------------------
(* Steps of the expirer, and of the environment.                           *)

LEMMA ExpireQuietFull ==
    ASSUME FullInv, Snapshot \/ CheckExpired \/ AcquireToPop \/ PopAgent, NEW a \in Agents
    PROVE  AgentInv(a)'
<1> Expirer \in Threads
  BY DEF Threads
<1> USE FullParts
<1>1. /\ UNCHANGED <<now, deploys, expiration, base, reservations_table, allowed_agents,
                     added, fetched, result, frames>>
      /\ OthersSame(Expirer)
      /\ pc[Expirer] \in {"idle", "check", "lock_pop", "pop_agent"}
      /\ pc'[Expirer] \in {"idle", "check", "lock_pop", "pop_reservation", "notify_removed"}
  BY DEF Snapshot, CheckExpired, PopLater, AcquireToPop, PopAgent,
         At, Goto, TypeOK, OthersSame, storage, tables, locals
<1>2. \/ snapshot'[a] = snapshot[a]
      \/ snapshot'[a] = reservations_table[a]
      \/ snapshot'[a] = Absent
  BY DEF Snapshot, CheckExpired, PopLater, AcquireToPop, PopAgent, locals
<1>3. ThreadInv(Expirer, a) /\ KnownInv(a)
  OBVIOUS
<1>4. KnownInv(a)'
  BY <1>1, <1>2, <1>3 DEF KnownInv, Once, Present, Absent
<1>5. a \in work'[Expirer] \cup gone'[Expirer] =>
         \/ a \in work[Expirer] \cup gone[Expirer]
         \/ snapshot[a].kind # "absent" /\ IsExpired(a, snapshot[a])
  BY DEF Snapshot, CheckExpired, PopLater, AcquireToPop, PopAgent, TypeOK, locals
<1>6. snapshot[a].kind # "absent" /\ IsExpired(a, snapshot[a])
         => expiration[a] # 0 /\ (Once(a) => now > expiration[a])
  BY <1>3, KnownExpiration DEF KnownInv, IsExpired
<1>7. ThreadInv(Expirer, a)'
  BY <1>1, <1>3, <1>5, <1>6 DEF ThreadInv, Once, Dropping, Caching
<1>8. Telling(Expirer, a) => Telling(Expirer, a)'
  BY <1>1 DEF Telling
<1> QED
  BY ONLY FullInv, a \in Agents, Expirer \in Threads, <1>1, <1>4, <1>7, <1>8, QuietStep

\* What is popped, and what the listener is told of, has expired.
LEMMA PopReservationFull ==
    ASSUME FullInv, PopReservation, NEW a \in Agents
    PROVE  AgentInv(a)'
<1> Expirer \in Threads
  BY DEF Threads
<1> USE FullParts
<1>1. PICK b \in work[Expirer] :
         /\ cur' = [cur EXCEPT ![Expirer] = b]
         /\ reservations_table' = [reservations_table EXCEPT ![b] = Absent]
  BY DEF PopReservation
<1>2. /\ pc[Expirer] = "pop_reservation" /\ pc'[Expirer] = "pop_agent"
      /\ OthersSame(Expirer)
      /\ UNCHANGED <<now, deploys, expiration, base, allowed_agents, snapshot,
                     work, gone, added, fetched, frames, result>>
      /\ reservations_table'[a] = reservations_table[a] \/ reservations_table'[a] = Absent
  BY <1>1 DEF PopReservation, At, Goto, TypeOK, OthersSame, storage
<1>3. lock = Expirer
  BY <1>2, HolderHasLock DEF Holding
<1>4. ThreadInv(Expirer, a) /\ KnownInv(a)
  OBVIOUS
<1>5. KnownInv(a)'
  BY <1>2, <1>4 DEF KnownInv, Once, Present, Absent
<1>6. ThreadInv(Expirer, a)'
  BY <1>2, <1>4 DEF ThreadInv, Once, Dropping, Caching
<1>7. Valid(a)' => Valid(a)
  BY <1>2 DEF Valid, Present, Absent, IsExpired, ExpirationOf
<1>8. Telling(Expirer, a) => Telling(Expirer, a)'
  BY <1>2 DEF Telling
<1> QED
  BY ONLY FullInv, a \in Agents, Expirer \in Threads, <1>2, <1>3, <1>5, <1>6, <1>7, <1>8, ThreadStep

LEMMA NotifyRemovedFull ==
    ASSUME FullInv, NotifyRemoved, NEW a \in Agents
    PROVE  AgentInv(a)'
<1> Expirer \in Threads
  BY DEF Threads
<1> USE FullParts
<1>1. PICK b \in gone[Expirer] :
         /\ AgentRemoved(b)
         /\ gone' = [gone EXCEPT ![Expirer] = @ \ {b}]
         /\ Goto(Expirer, IF gone[Expirer] = {b} THEN "idle" ELSE "notify_removed")
  BY DEF NotifyRemoved
<1>2. /\ pc[Expirer] = "notify_removed" /\ pc'[Expirer] \in {"idle", "notify_removed"}
      /\ OthersSame(Expirer)
      /\ UNCHANGED <<now, deploys, expiration, base, reservations_table, snapshot,
                     cur, work, added, fetched, frames, result>>
      /\ gone'[Expirer] \subseteq gone[Expirer]
      /\ a \in gone[Expirer] \/ allowed_agents'[a] = allowed_agents[a]
  BY <1>1 DEF NotifyRemoved, AgentRemoved, At, Goto, TypeOK, OthersSame, tables
<1>3. ThreadInv(Expirer, a) /\ KnownInv(a)'
  BY <1>2, KnownSame
<1>4. ThreadInv(Expirer, a)'
  BY <1>2, <1>3 DEF ThreadInv, Once, Dropping, Caching
<1>5. Once(a) /\ Valid(a) => allowed_agents'[a] = allowed_agents[a]
  BY <1>2, <1>3, KnownExpiration DEF ThreadInv
<1>6. Valid(a)' => Valid(a)
  BY <1>2 DEF Valid, Present, IsExpired, ExpirationOf
<1>7. Telling(Expirer, a) => Telling(Expirer, a)'
  BY <1>2 DEF Telling
<1> QED
  BY ONLY FullInv, a \in Agents, Expirer \in Threads, <1>2, <1>3, <1>4, <1>5, <1>6, <1>7, ThreadStep

\* Time only makes reservations invalid, and the base storage only forgets.
LEMMA ForgettingFull ==
    ASSUME FullInv, Tick \/ \E b \in Agents : BaseExpire(b), NEW a \in Agents
    PROVE  AgentInv(a)'
<1>0. TypeOK /\ KnownInv(a) /\ TellInv(a) /\ \A t \in Threads : ThreadInv(t, a)
  BY DEF FullInv, IInv, AgentInv
<1>1. /\ UNCHANGED <<deploys, expiration, allowed_agents, tables, pc, locals>>
      /\ now' \in Nat /\ now' >= now
      /\ base'[a] = base[a] \/ base'[a] = NoObject
  BY <1>0 DEF Tick, BaseExpire, TypeOK
<1>2. KnownInv(a)'
  BY <1>0, <1>1 DEF KnownInv, Once, Present, NoObject, tables, locals
<1>3. ASSUME NEW t \in Threads PROVE ThreadInv(t, a)'
  <2>1. ThreadInv(t, a) /\ now \in Nat /\ expiration[a] \in Nat
    BY <1>0 DEF TypeOK
  <2> QED
    BY <1>1, <2>1 DEF ThreadInv, Once, Present, tables, locals
<1>4. TellInv(a)'
  <2>1. Valid(a)' => Valid(a)
    <3>1. ExpirationOf(a, reservations_table[a]) \in Nat /\ now \in Nat
      BY <1>0 DEF TypeOK, ExpirationOf, Reservation
    <3>2. ExpirationOf(a, reservations_table[a])' = ExpirationOf(a, reservations_table[a])
      BY <1>1 DEF ExpirationOf, tables
    <3> QED
      BY <1>1, <3>1, <3>2 DEF Valid, Present, IsExpired, tables
  <2>2. Once(a)' <=> Once(a)
    BY <1>1 DEF Once
  <2>3. \A t \in Threads : Telling(t, a)' <=> Telling(t, a)
    BY <1>1 DEF Telling, locals
  <2> QED
    BY <1>0, <1>1, <2>1, <2>2, <2>3 DEF TellInv
<1> QED
  BY <1>2, <1>3, <1>4 DEF AgentInv

\* The networks of S are deployed, here or elsewhere.  What is deployed for the first
\* time is not known yet; what is deployed again is no longer deployed once.
LEMMA NewDeployment ==
    ASSUME FullInv, NEW S \in SUBSET Agents, NEW a \in Agents,
           \A b \in S : b \in Redeploy \/ expiration[b] = 0,
           deploys' = deploys + 1,
           expiration'[a] = IF a \in S THEN ExpirationFrom(a) ELSE expiration[a],
           \/ base'[a] = base[a]
           \/ a \in S /\ base'[a].exp = ExpirationFrom(a),
           \A t \in Threads :
               /\ work'[t] = work[t] \/ (t # Expirer /\ work'[t] \subseteq S)
               /\ pc'[t] = pc[t] \/ (pc[t] = "idle" /\ pc'[t] \in {"base", "lock"}),
           UNCHANGED <<now, allowed_agents, tables,
                       cur, added, gone, snapshot, fetched, result, frames>>
    PROVE  AgentInv(a)'
<1>1. now \in Nat /\ deploys \in Nat /\ expiration[a] \in Nat
  BY DEF TypeOK, FullInv, IInv
<1>2. ExpirationFrom(a) \in Nat /\ ExpirationFrom(a) # 0
  BY <1>1, ConstantsAssumption DEF ExpirationFrom, FullInv
<1>3. KnownInv(a) /\ TellInv(a)
  BY DEF FullInv, AgentInv
<1>4. deploys' # 0 /\ (Once(a)' => Once(a))
  BY <1>1 DEF Once
<1>5. a \in S /\ Once(a)' => expiration[a] = 0
  BY <1>1, <1>3 DEF Once, KnownInv
<1>6. expiration'[a] = 0 => expiration[a] = 0 /\ a \notin S
  BY <1>2
<1>7. KnownInv(a)'
  <2>1. expiration'[a] = 0 => base'[a] = base[a] /\ KnownInv(a)
    BY <1>3, <1>6
  <2>2. CASE a \in S
    BY <1>2, <1>3, <1>4, <1>5, <2>2 DEF KnownInv, Present, tables
  <2>3. CASE a \notin S
    BY <1>3, <1>4, <2>3 DEF KnownInv, Present, tables
  <2> QED
    BY <2>2, <2>3
<1>8. ASSUME NEW t \in Threads PROVE ThreadInv(t, a)'
  <2>1. ThreadInv(t, a)
    BY DEF FullInv, AgentInv
  <2>2. CASE a \in S
    BY <1>2, <1>4, <1>5, <2>1, <2>2 DEF ThreadInv, Present, Dropping, Caching, tables
  <2>3. CASE a \notin S
    BY <1>4, <2>1, <2>3 DEF ThreadInv, Present, Dropping, Caching, tables
  <2> QED
    BY <2>2, <2>3
<1>9. TellInv(a)'
  <2>1. SUFFICES ASSUME Once(a)', Valid(a)'
                 PROVE  (allowed_agents[a] # NoNetwork \/ \E t \in Threads : Telling(t, a))'
    BY DEF TellInv
  <2>2. a \notin S
    BY <1>3, <1>5, <2>1 DEF KnownInv, Valid, Present, tables
  <2>3. Once(a) /\ Valid(a)
    BY <1>4, <2>1, <2>2 DEF Valid, Present, IsExpired, ExpirationOf, tables
  <2>4. \A t \in Threads : Telling(t, a) => Telling(t, a)'
    BY DEF Telling
  <2> QED
    BY <1>3, <2>3, <2>4 DEF TellInv
<1> QED
  BY <1>7, <1>8, <1>9 DEF AgentInv

LEMMA DeploymentFull ==
    ASSUME FullInv, NEW a \in Agents,
           \/ \E b \in Agents : DeployElsewhere(b)
           \/ \E d \in Deployers, S \in SUBSET Agents : DeployTogether(d, S)
    PROVE  AgentInv(a)'
<1>1. TypeOK
  BY DEF FullInv, IInv
<1>2. ASSUME NEW b \in Agents, DeployElsewhere(b) PROVE AgentInv(a)'
  <2>1. /\ expiration'[a] = IF a \in {b} THEN ExpirationFrom(a) ELSE expiration[a]
        /\ base'[a] = base[a] \/ (a \in {b} /\ base'[a].exp = ExpirationFrom(a))
        /\ deploys' = deploys + 1 /\ (b \in Redeploy \/ expiration[b] = 0)
        /\ UNCHANGED <<now, allowed_agents, tables, pc, locals>>
    BY <1>1, <1>2 DEF DeployElsewhere, TypeOK
  <2>2. /\ \A t \in Threads : work'[t] = work[t] /\ pc'[t] = pc[t]
        /\ UNCHANGED <<now, allowed_agents, tables,
                       cur, added, gone, snapshot, fetched, result, frames>>
    BY <2>1 DEF locals
  <2>3. {b} \in SUBSET Agents /\ \A c \in {b} : c \in Redeploy \/ expiration[c] = 0
    BY <2>1
  <2> QED
    BY ONLY FullInv, a \in Agents, <2>1, <2>2, <2>3, NewDeployment
<1>3. ASSUME NEW d \in Deployers, NEW S \in SUBSET Agents, DeployTogether(d, S)
      PROVE  AgentInv(a)'
  <2>1. /\ expiration'[a] = IF a \in S THEN ExpirationFrom(a) ELSE expiration[a]
        /\ base'[a] = base[a] /\ deploys' = deploys + 1
        /\ \A b \in S : b \in Redeploy \/ expiration[b] = 0
        /\ UNCHANGED <<now, allowed_agents, tables,
                       cur, added, gone, snapshot, fetched, result, frames>>
    BY <1>3 DEF DeployTogether
  <2>2. d \in Threads /\ d # Expirer
    BY ConstantsAssumption DEF Threads
  <2>3. \A t \in Threads :
           /\ work'[t] = work[t] \/ (t # Expirer /\ work'[t] \subseteq S)
           /\ pc'[t] = pc[t] \/ (pc[t] = "idle" /\ pc'[t] \in {"base", "lock"})
    BY <1>1, <1>3, <2>2 DEF DeployTogether, At, Goto, TypeOK
  <2> QED
    BY ONLY FullInv, a \in Agents, S \in SUBSET Agents, <2>1, <2>3, NewDeployment
<1> QED
  BY <1>2, <1>3

LEMMA StutterFull ==
    ASSUME FullInv, UNCHANGED vars, NEW a \in Agents
    PROVE  AgentInv(a)'
<1>1. UNCHANGED <<storage, lock, tables, pc, locals>>
  BY DEF vars
<1>2. AgentInv(a)
  BY DEF FullInv
<1> QED
  BY <1>1, <1>2 DEF AgentInv, KnownInv, TellInv, ThreadInv, Telling, Once, Valid, Present, IsExpired,
     ExpirationOf, storage, tables, locals

LEMMA NextFull == FullInv /\ [Next]_vars => FullInv'
<1> SUFFICES ASSUME FullInv, [Next]_vars PROVE FullInv'
  OBVIOUS
<1>1. IInv'
  BY NextInv DEF FullInv
<1>2. now' # 0
  <2>1. now \in Nat /\ now # 0
    BY DEF FullInv, IInv, TypeOK
  <2>2. now' = now \/ now' = now + 1
    BY DEF Next, vars, storage, Environment, Tick, BaseExpire, DeployElsewhere,
           Expire, Snapshot, CheckExpired, PopLater, AcquireToPop, PopReservation, PopAgent,
           NotifyRemoved, Deploy, DeployTogether, BaseAdd, BaseAddFails, AcquireToAdd, AddAgent, AddAgentRaises,
           AddReservation, NotifyAdded, AgentAddedByDeploy, NotifyModified, DeployDone,
           Get, ReadReservation, ReadAgent, AcquireToDrop, DropAgent, NotifyDropped, Fetch, FetchRaises,
           AcquireToCache, CacheAgent, AgentAddedByLookup, LookupDone, Lookup
  <2> QED
    BY <2>1, <2>2
<1>3. ASSUME NEW a \in Agents PROVE AgentInv(a)'
  <2>1. CASE UNCHANGED vars
    BY <2>1, StutterFull
  <2>2. CASE Environment
    BY <2>2, ForgettingFull, DeploymentFull DEF Environment
  <2>3. CASE Expire
    BY <2>3, ExpireQuietFull, PopReservationFull, NotifyRemovedFull DEF Expire
  <2>4. ASSUME NEW d \in Deployers, Deploy(d) PROVE AgentInv(a)'
    BY <2>4, BaseAddFull, AddAgentFull, AddReservationFull, DeployQuietFull, AgentAddedFull DEF Deploy
  <2>5. ASSUME NEW d \in Deployers, NEW S \in SUBSET Agents, DeployTogether(d, S)
        PROVE  AgentInv(a)'
    BY <2>5, DeploymentFull
  <2>6. ASSUME NEW r \in Requests, LookupDone(r) \/ \E b \in Agents : Lookup(r, b)
        PROVE  AgentInv(a)'
    BY <2>6, LookupQuietFull
  <2>7. ASSUME NEW t \in Deployers \cup Requests, Get(t) PROVE AgentInv(a)'
    BY <2>7, LookupQuietFull, ReadAgentFull, FetchFull, LookupTableFull, NotifyDroppedFull,
       AgentAddedFull DEF Get
  <2> QED
    BY <2>1, <2>2, <2>3, <2>4, <2>5, <2>6, <2>7 DEF Next
<1> QED
  BY <1>1, <1>2, <1>3 DEF FullInv

\* A network that was deployed once, here or by another server, and has not expired has
\* a provider at the listener as soon as no thread is busy with it, however the
\* deployments, lookups, expirations, errors and the clock interleave: unless an error
\* ended the very thread that had put it into the tables and had not told the listener.
THEOREM ValidAreServed == Spec => []ValidIsServed
<1>1. FullInv => ValidIsServed
  <2> SUFFICES ASSUME FullInv, NEW a \in Agents, Once(a), Valid(a), ~Busy(a), ~Untold(a)
               PROVE  allowed_agents[a] # NoNetwork
    BY DEF ValidIsServed
  <2>1. \A t \in Threads : ~Telling(t, a)
    BY DEF Busy, Untold, At, Telling
  <2> QED
    BY <2>1 DEF FullInv, AgentInv, TellInv
<1> QED
  BY <1>1, InitFull, NextFull, PTL DEF Spec

\* No step takes the reservation of a network away that was deployed once and has not
\* expired: not the expirer, not a lookup, and not the one caching what another dropped.
THEOREM ValidStays == Spec => NeverRemovedEarly
<1> DEFINE Stays == \A a \in Agents : Once(a) /\ Valid(a) => reservations_table'[a].kind # "absent"
<1>1. FullInv /\ [Next]_vars => [Stays]_vars
  <2> SUFFICES ASSUME FullInv, Next, NEW a \in Agents, Once(a), Valid(a)
               PROVE  reservations_table'[a].kind # "absent"
    OBVIOUS
  <2>1. IInv /\ TypeOK /\ KnownInv(a) /\ reservations_table[a].kind # "absent"
    BY DEF FullInv, AgentInv, IInv, Valid, Present
  <2>2. ~(now > expiration[a])
    BY <2>1, KnownExpiration
  <2>3. ASSUME NEW t \in Threads PROVE ThreadInv(t, a)
    BY DEF FullInv, AgentInv
  <2>4. ASSUME NEW d \in Deployers, AddReservation(d) PROVE reservations_table'[a].kind # "absent"
    BY <2>1, <2>4 DEF AddReservation, Own, TypeOK
  <2>5. ASSUME NEW t \in Deployers \cup Requests, AcquireToCache(t)
        PROVE  reservations_table'[a].kind # "absent"
    BY <2>1, <2>5 DEF AcquireToCache, Copy, TypeOK
  <2>6. ASSUME NEW t \in Deployers \cup Requests, AcquireToDrop(t)
        PROVE  reservations_table'[a].kind # "absent"
    <3>1. cur[t] # a
      BY <2>2, <2>3, <2>6 DEF AcquireToDrop, At, ThreadInv, Dropping, Threads
    <3> QED
      BY <2>1, <2>6, <3>1 DEF AcquireToDrop, TypeOK
  <2>7. CASE PopReservation
    <3>1. a \notin work[Expirer]
      BY <2>2, <2>3 DEF ThreadInv, Threads
    <3> QED
      BY <2>1, <2>7, <3>1 DEF PopReservation, TypeOK
  <2>8. UNCHANGED reservations_table \/ PopReservation
        \/ (\E d \in Deployers : AddReservation(d))
        \/ \E t \in Deployers \cup Requests : AcquireToDrop(t) \/ AcquireToCache(t)
    BY DEF Next, tables, Environment, Tick, BaseExpire, DeployElsewhere,
           Expire, Snapshot, CheckExpired, PopLater, AcquireToPop, PopAgent,
           NotifyRemoved, Deploy, DeployTogether, BaseAdd, BaseAddFails, AcquireToAdd, AddAgent, AddAgentRaises,
           NotifyAdded, AgentAddedByDeploy, NotifyModified, DeployDone,
           Get, ReadReservation, ReadAgent, DropAgent, NotifyDropped, Fetch, FetchRaises,
           CacheAgent, AgentAddedByLookup, LookupDone, Lookup
  <2> QED
    BY <2>1, <2>4, <2>5, <2>6, <2>7, <2>8
<1> QED
  BY <1>1, InitFull, NextFull, PTL DEF Spec, NeverRemovedEarly
=============================================================================
