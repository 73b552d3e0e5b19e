--------------------------- MODULE Components_proofs ---------------------------
(***************************************************************************)
(* Proofs about components each with specifications, invariants and        *)
(* theorems of its own: the HTTP server with its count of requests, the    *)
(* validation of the topology of a network, the two clients, the driver of *)
(* tests and the command line, and what networks are set up from: the      *)
(* LLMs and middleware of an agent, its tools, manifests, network files,   *)
(* the report of connectivity and the settings of LLMs.                    *)
(***************************************************************************)
EXTENDS HttpServerApp, NetworkSetup, Clients,
        FiniteSetTheorems, SequenceTheorems, WellFoundedInduction, TLAPS

(***************************************************************************)
(* HttpServerApp.  For any requests, limit and time-out: what              *)
(* num_processing stands for, and when the server stops.                   *)
(***************************************************************************)

\* A server whose limit is reached has stopped serving.
NotServing == LimitReached => ~serving

\* The inductive invariant: num_processing stays a natural number because each
\* request that is counted out is one of those counted.
ServerInv ==
    /\ TypeOK
    /\ NoneUncounted
    /\ StopsAtTheLimit
    /\ NotServing

LEMMA ExecutingIsFinite ==
    ASSUME NEW S \in SUBSET Requests
    PROVE  IsFiniteSet(S) /\ Cardinality(S) \in Nat
BY ConstantsAssumption, FS_Subset, FS_CardinalityType

\* Executing changes only when a counted request begins or ends.
LEMMA ExecutingMoves ==
    ASSUME TypeOK, NEW r \in Requests, NEW from, NEW to, Move(r, from, to)
    PROVE  Executing' = IF to = "processing" /\ r \notin Uncounted THEN Executing \cup {r}
                        ELSE Executing \ {r}
BY DEF TypeOK, Move, Executing, In

LEMMA ServerInitInv == Init => ServerInv
<1>1. SUFFICES ASSUME Init PROVE ServerInv
  OBVIOUS
<1>2. Executing = {}
  <2>1. \A r \in Requests : request[r] # "processing"
    BY <1>1 DEF Init
  <2> QED
    BY <2>1 DEF Executing, In
<1>3. TypeOK
  <2>1. 0 \in 0 .. MaxPolls
    BY ConstantsAssumption
  <2>2. request \in [Requests -> {"new", "prepared", "processing", "answered", "refused"}]
    BY <1>1 DEF Init
  <2> QED
    BY <1>1, <2>1, <2>2 DEF Init, TypeOK
<1>4. NoneUncounted
  BY <1>1, <1>2, FS_EmptySet DEF Init, NoneUncounted
<1>5. StopsAtTheLimit /\ NotServing
  BY <1>1, ConstantsAssumption DEF Init, StopsAtTheLimit, NotServing, LimitReached
<1> QED
  BY <1>3, <1>4, <1>5 DEF ServerInv

\* A request that moves without being counted in or out.
LEMMA UncountedMove ==
    ASSUME ServerInv, NEW r \in Requests, NEW from, NEW to, Move(r, from, to),
           to \in {"prepared", "processing", "answered", "refused"},
           to = "processing" => r \in Uncounted,
           UNCHANGED <<counters, serving, shutdown>>
    PROVE  ServerInv'
<1> USE DEF ServerInv, counters, shutdown
<1>1. Executing' = Executing \ {r}
  BY ExecutingMoves
<1>2. Executing \in SUBSET Requests
  BY DEF Executing, In
<1>3. Cardinality(Executing') <= Cardinality(Executing) /\ Cardinality(Executing') \in Nat
  BY <1>1, <1>2, ExecutingIsFinite, FS_Subset
<1>4. TypeOK'
  BY DEF TypeOK, Move
<1>5. NoneUncounted'
  BY <1>2, <1>3, ExecutingIsFinite DEF TypeOK, NoneUncounted
<1>6. StopsAtTheLimit' /\ NotServing'
  BY DEF StopsAtTheLimit, NotServing, LimitReached
<1> QED
  BY <1>4, <1>5, <1>6

LEMMA StartInv ==
    ASSUME ServerInv, NEW r \in Requests, StartClientRequest(r)
    PROVE  ServerInv'
<1>1. CASE r \in Uncounted
  BY <1>1, UncountedMove DEF StartClientRequest, counters
<1>2. CASE r \notin Uncounted
  <2>1. Executing' = Executing \cup {r}
    BY <1>2, ExecutingMoves DEF ServerInv, StartClientRequest
  <2>2. Executing \in SUBSET Requests
    BY DEF Executing, In
  <2>3. Cardinality(Executing') <= Cardinality(Executing) + 1 /\ Cardinality(Executing') \in Nat
    BY <2>1, <2>2, ExecutingIsFinite, FS_AddElement
  <2>4. TypeOK'
    BY <1>2 DEF ServerInv, TypeOK, StartClientRequest, Move, shutdown
  <2>5. NoneUncounted'
    BY <1>2, <2>2, <2>3, ExecutingIsFinite DEF ServerInv, TypeOK, NoneUncounted, StartClientRequest
  <2>6. StopsAtTheLimit' /\ NotServing'
    BY DEF ServerInv, StartClientRequest, StopsAtTheLimit, NotServing, LimitReached, shutdown
  <2> QED
    BY <2>4, <2>5, <2>6 DEF ServerInv
<1> QED
  BY <1>1, <1>2

LEMMA FinishInv ==
    ASSUME ServerInv, NEW r \in Requests, FinishClientRequest(r)
    PROVE  ServerInv'
<1> USE DEF ServerInv, FinishClientRequest
<1>1. Executing' = Executing \ {r}
  BY ExecutingMoves
<1>2. r \in Executing /\ Executing \in SUBSET Requests
  BY DEF Executing, In, Move
<1>3. Cardinality(Executing') = Cardinality(Executing) - 1 /\ Cardinality(Executing') \in Nat
  BY <1>1, <1>2, ExecutingIsFinite, FS_RemoveElement
<1>4. num_processing' \in Nat /\ Cardinality(Executing') <= num_processing'
  BY <1>2, <1>3, ExecutingIsFinite DEF TypeOK, NoneUncounted
<1>5. TypeOK'
  <2>1. request' \in [Requests -> {"new", "prepared", "processing", "answered", "refused"}]
    BY DEF TypeOK, Move
  <2>2. total' \in Nat
    BY DEF TypeOK
  <2>3. 0 \in 0 .. MaxPolls
    BY ConstantsAssumption
  <2>4. CASE 0 <= RequestsLimit /\ RequestsLimit < total + 1
    BY <1>4, <2>1, <2>2, <2>3, <2>4 DEF TypeOK, InitiateShutdown
  <2>5. CASE ~(0 <= RequestsLimit /\ RequestsLimit < total + 1)
    BY <1>4, <2>1, <2>2, <2>5 DEF TypeOK, shutdown
  <2> QED
    BY <2>4, <2>5
<1>6. StopsAtTheLimit' /\ NotServing'
  BY ConstantsAssumption DEF TypeOK, StopsAtTheLimit, NotServing, LimitReached, InitiateShutdown, shutdown
<1> QED
  BY <1>4, <1>5, <1>6 DEF NoneUncounted

LEMMA ThreadInv ==
    ASSUME ServerInv, Poll \/ StopLoop
    PROVE  ServerInv'
<1>1. Executing' = Executing
  BY DEF Poll, StopLoop, Executing, In
<1>2. TypeOK'
  BY ConstantsAssumption DEF ServerInv, TypeOK, Poll, StopLoop, counters
<1>3. NoneUncounted'
  BY <1>1 DEF ServerInv, NoneUncounted, Poll, StopLoop, counters
<1>4. StopsAtTheLimit' /\ NotServing'
  BY DEF ServerInv, StopsAtTheLimit, NotServing, LimitReached, Poll, StopLoop, counters
<1> QED
  BY <1>2, <1>3, <1>4 DEF ServerInv

LEMMA StutterInv ==
    ASSUME ServerInv, UNCHANGED vars
    PROVE  ServerInv'
<1> USE DEF vars, counters, shutdown
<1>1. TypeOK'
  BY DEF ServerInv, TypeOK
<1>2. Executing' = Executing
  BY DEF Executing, In
<1>3. NoneUncounted'
  BY <1>2 DEF ServerInv, NoneUncounted
<1>4. StopsAtTheLimit' /\ NotServing'
  BY DEF ServerInv, StopsAtTheLimit, NotServing, LimitReached
<1> QED
  BY <1>1, <1>3, <1>4 DEF ServerInv

LEMMA NextInv == ServerInv /\ [Next]_vars => ServerInv'
<1>1. SUFFICES ASSUME ServerInv, [Next]_vars PROVE ServerInv'
  OBVIOUS
<1>2. ASSUME NEW r \in Requests, Prepare(r) PROVE ServerInv'
  <2>1. (IF serving THEN "prepared" ELSE "refused") \in {"prepared", "refused"}
    OBVIOUS
  <2> QED
    BY <1>1, <1>2, <2>1, UncountedMove DEF Prepare
<1>3. ASSUME NEW r \in Requests, Reject(r) PROVE ServerInv'
  BY <1>1, <1>3, UncountedMove DEF Reject
<1>4. ASSUME NEW r \in Requests, FailUncaught(r) PROVE ServerInv'
  BY <1>1, <1>4, UncountedMove DEF FailUncaught
<1>5. ASSUME NEW r \in Requests, FinishUncounted(r) PROVE ServerInv'
  BY <1>1, <1>5, UncountedMove DEF FinishUncounted
<1>6. ASSUME NEW r \in Requests, StartClientRequest(r) PROVE ServerInv'
  BY <1>1, <1>6, StartInv
<1>7. ASSUME NEW r \in Requests, FinishClientRequest(r) PROVE ServerInv'
  BY <1>1, <1>7, FinishInv
<1>8. CASE Poll \/ StopLoop
  BY <1>1, <1>8, ThreadInv
<1>9. CASE UNCHANGED vars
  BY <1>1, <1>9, StutterInv
<1> QED
  BY <1>1, <1>2, <1>3, <1>4, <1>5, <1>6, <1>7, <1>8, <1>9 DEF Next, Handle

LEMMA Invariant == Spec => []ServerInv
BY ServerInitInv, NextInv, PTL DEF Spec

\* Every variable holds a value of its kind in every behaviour; num_processing in
\* particular never becomes negative.
THEOREM TypeCorrect == Spec => []TypeOK
<1>1. ServerInv => TypeOK
  BY DEF ServerInv
<1> QED
  BY <1>1, Invariant, PTL

\* num_processing is never below the number of counted requests in execution.
THEOREM NoneGoesUncounted == Spec => []NoneUncounted
<1>1. ServerInv => NoneUncounted
  BY DEF ServerInv
<1> QED
  BY <1>1, Invariant, PTL

\* A server that stops has served more requests than its limit.
THEOREM OnlyTheLimitStops == Spec => []StopsAtTheLimit
<1>1. ServerInv => StopsAtTheLimit
  BY DEF ServerInv
<1> QED
  BY <1>1, Invariant, PTL

\* do_shutdown() stops the loop only when no counted request is in execution, or
\* when its time is over.
THEOREM ShutdownWaits == Spec => StopsWhenIdle
<1>1. ASSUME ServerInv, Poll, thread' = "stopping"
      PROVE  Executing = {} \/ polls = MaxPolls
  <2>1. CASE polls < MaxPolls
    <3>1. num_processing <= 0
      BY <1>1, <2>1 DEF Poll, ServerInv, TypeOK
    <3>2. Executing \in SUBSET Requests
      BY DEF Executing, In
    <3>3. Cardinality(Executing) = 0
      BY <1>1, <3>1, <3>2, ExecutingIsFinite DEF ServerInv, NoneUncounted, TypeOK
    <3> QED
      BY <3>2, <3>3, ExecutingIsFinite, FS_EmptySet
  <2>2. CASE ~(polls < MaxPolls)
    BY <1>1, <2>2, ConstantsAssumption DEF ServerInv, TypeOK
  <2> QED
    BY <2>1, <2>2
<1>2. ASSUME ServerInv, [Next]_vars, thread = "poll", thread' = "stopping"
      PROVE  Poll
  BY <1>2 DEF Next, Handle, Prepare, Reject, FailUncaught, StartClientRequest, FinishUncounted,
              FinishClientRequest, InitiateShutdown, StopLoop, vars, shutdown
<1>3. ServerInv /\ [Next]_vars => [thread = "poll" /\ thread' = "stopping"
                              => Executing = {} \/ polls = MaxPolls]_vars
  BY <1>1, <1>2
<1> QED
  BY <1>3, Invariant, PTL DEF Spec, StopsWhenIdle

\* Once the limit is reached prepare() lets no request in.
THEOREM LimitClosesTheDoor == Spec => NoRequestAfterTheLimit
<1>1. ASSUME ServerInv, [Next]_vars, LimitReached
      PROVE  In("prepared")' \subseteq In("prepared")
  <2>1. ~serving
    BY <1>1 DEF ServerInv, NotServing
  <2> QED
    BY <1>1, <2>1 DEF Next, Handle, Prepare, Reject, FailUncaught, StartClientRequest, FinishUncounted,
       FinishClientRequest, Poll, StopLoop, Move, In, vars, ServerInv, TypeOK
<1>2. ServerInv /\ [Next]_vars => [LimitReached => In("prepared")' \subseteq In("prepared")]_vars
  BY <1>1
<1> QED
  BY <1>2, Invariant, PTL DEF Spec, NoRequestAfterTheLimit

-----------------------------------------------------------------------------
(***************************************************************************)
(* StructureValidation.  For any network: what the depth-first searches    *)
(* for cycles and for what can be reached find.                            *)
(***************************************************************************)

Frame == [agent : Agents, children : Seq(Agents \cup Others)]

StructureTypeOK ==
    /\ graph \in GraphType
    /\ phase \in {"cycles", "reach", "done"}
    /\ start \in 1 .. Len(Order) + 1
    /\ state \in [Agents -> {"unvisited", "processing", "processed"}]
    /\ stack \in Seq(Frame)
    /\ cyclical \in SUBSET Agents
    /\ top_agents \in SUBSET Agents
    /\ reachable \in SUBSET Agents

\* Each call was made for a tool of the agent below it, and has visited those tools of its
\* own agent that are not among its children any more.
PathInv ==
    \A j \in 1 .. Len(stack) :
        /\ Names(stack[j].children) \subseteq Names(graph.tools[stack[j].agent])
        /\ j < Len(stack) => stack[j + 1].agent \in Tools(stack[j].agent)

\* The agents in processing are those on the stack, once each.
ProcessingInv ==
    /\ \A j \in 1 .. Len(stack) : state[stack[j].agent] = "processing"
    /\ \A a \in Agents : state[a] = "processing" => \E j \in 1 .. Len(stack) : stack[j].agent = a
    /\ \A i, j \in 1 .. Len(stack) : stack[i].agent = stack[j].agent => i = j

\* As long as no cycle was met, what a call has visited is processed, but for what it is
\* visiting, and what is processed leads to what is processed, and not back to itself.
VisitedInv ==
    cyclical = {} =>
        /\ \A j \in 1 .. Len(stack) : \A c \in Tools(stack[j].agent) :
              \/ c \in Names(stack[j].children)
              \/ state[c] = "processed"
              \/ j < Len(stack) /\ stack[j + 1].agent = c
        /\ \A a \in Agents : state[a] = "processed" =>
              /\ a \notin Cyclical
              /\ \A c \in Tools(a) : state[c] = "processed"

\* The loop over the agents leaves none behind.
StartedInv == \A i \in 1 .. start - 1 : state[Order[i]] # "unvisited"

CyclesInv ==
    /\ cyclical \subseteq Cyclical
    /\ IF phase = "cycles" THEN PathInv /\ ProcessingInv /\ VisitedInv /\ StartedInv
                           ELSE cyclical = {} => Cyclical = {}

\* What was reached can be reached; and where it leads was reached or is among the
\* children of a call in progress.
ReachInv ==
    phase # "cycles" /\ Cardinality(top_agents) = 1 =>
        /\ top_agents \subseteq reachable
        /\ reachable \subseteq Reached(top_agents, ToolsAndArgs)
        /\ \A j \in 1 .. Len(stack) :
              /\ stack[j].agent \in reachable
              /\ Names(stack[j].children) \subseteq Names(Children(stack[j].agent))
        /\ \A a \in reachable : \A c \in ToolsAndArgs(a) :
              \/ c \in reachable
              \/ \E j \in 1 .. Len(stack) : stack[j].agent = a /\ c \in Names(stack[j].children)
        /\ phase = "done" => stack = <<>>

StructureInv == StructureTypeOK /\ CyclesInv /\ ReachInv

-----------------------------------------------------------------------------
(* Lists of names, and the calls in progress                               *)

LEMMA AgentsAreFinite == IsFiniteSet(Agents)
<1>1. Order \in Seq(Agents) /\ Len(Order) \in Nat
  BY StructureAssumption
<1>2. Order \in Surjection(1 .. Len(Order), Agents)
  BY <1>1 DEF Surjection, Agents
<1>3. IsFiniteSet(1 .. Len(Order))
  BY <1>1, FS_Interval
<1> QED
  BY <1>2, <1>3, FS_Surjection

LEMMA OrderIs ==
    /\ Len(Order) \in Nat
    /\ \A i \in 1 .. Len(Order) : Order[i] \in Agents
    /\ \A a \in Agents : \E i \in 1 .. Len(Order) : Order[i] = a
BY StructureAssumption DEF Agents

LEMMA NamesOfTail ==
    ASSUME NEW S, NEW list \in Seq(S), list # <<>>
    PROVE  /\ Tail(list) \in Seq(S)
           /\ Head(list) \in S
           /\ Names(list) = {Head(list)} \cup Names(Tail(list))
<1>1. /\ Tail(list) \in Seq(S) /\ Head(list) \in S /\ Head(list) = list[1]
      /\ Len(list) \in Nat /\ Len(list) >= 1
      /\ Len(Tail(list)) = Len(list) - 1
      /\ \A i \in 1 .. Len(Tail(list)) : Tail(list)[i] = list[i + 1]
  BY HeadTailProperties
<1>2. Names(Tail(list)) \subseteq Names(list) /\ Head(list) \in Names(list)
  BY <1>1 DEF Names
<1>3. ASSUME NEW i \in 1 .. Len(list) PROVE list[i] \in {Head(list)} \cup Names(Tail(list))
  <2>1. CASE i = 1
    BY <1>1, <2>1
  <2>2. CASE i # 1
    <3>1. i - 1 \in 1 .. Len(Tail(list)) /\ Tail(list)[i - 1] = list[i]
      BY <1>1, <2>2
    <3> QED
      BY <3>1 DEF Names
  <2> QED
    BY <2>1, <2>2
<1> QED
  BY <1>1, <1>2, <1>3 DEF Names

LEMMA NoNames == \A list : list = <<>> => Names(list) = {}
BY DEF Names

LEMMA NamesOfBoth ==
    ASSUME NEW S, NEW p \in Seq(S), NEW q \in Seq(S)
    PROVE  p \o q \in Seq(S) /\ Names(p \o q) = Names(p) \cup Names(q)
<1>1. /\ p \o q \in Seq(S) /\ Len(p \o q) = Len(p) + Len(q)
      /\ Len(p) \in Nat /\ Len(q) \in Nat
      /\ \A i \in 1 .. Len(p) + Len(q) : (p \o q)[i] = IF i <= Len(p) THEN p[i] ELSE q[i - Len(p)]
  BY ConcatProperties
<1>2. Names(p \o q) \subseteq Names(p) \cup Names(q)
  BY <1>1 DEF Names
<1>3. Names(p) \subseteq Names(p \o q)
  BY <1>1 DEF Names
<1>4. ASSUME NEW i \in 1 .. Len(q) PROVE q[i] \in Names(p \o q)
  <2>1. i + Len(p) \in 1 .. Len(p \o q) /\ (p \o q)[i + Len(p)] = q[i]
    BY <1>1
  <2> QED
    BY <2>1 DEF Names
<1> QED
  BY <1>1, <1>2, <1>3, <1>4 DEF Names

\* The lists of a network.
LEMMA ListsOf ==
    ASSUME StructureTypeOK, NEW a \in Agents
    PROVE  /\ graph.tools[a] \in Seq(Agents \cup Others)
           /\ Children(a) \in Seq(Agents \cup Others)
           /\ Tools(a) = Names(graph.tools[a]) \cap Agents
           /\ ToolsAndArgs(a) = Names(Children(a)) \cap Agents
<1>1. graph.tools[a] \in Seq(Agents \cup Others) /\ graph.args[a] \in Seq(Agents \cup Others)
  BY DEF StructureTypeOK, GraphType
<1> QED
  BY <1>1, NamesOfBoth DEF Children, Tools, ToolsAndArgs

\* The stack without its last call.
LEMMA CallerIs ==
    ASSUME stack \in Seq(Frame), stack # <<>>
    PROVE  /\ Len(stack) \in Nat /\ Len(stack) >= 1
           /\ Top \in Frame /\ Top.agent \in Agents /\ Top.children \in Seq(Agents \cup Others)
           /\ Caller \in Seq(Frame) /\ Len(Caller) = Len(stack) - 1
           /\ \A j \in 1 .. Len(stack) - 1 : Caller[j] = stack[j]
           /\ \A j \in 1 .. Len(stack) : stack[j] \in Frame /\ stack[j].agent \in Agents
<1>1. Len(stack) \in Nat /\ Len(stack) >= 1 /\ \A j \in 1 .. Len(stack) : stack[j] \in Frame
  BY EmptySeq, ElementOfSeq, LenProperties
<1>2. Top \in Frame
  BY <1>1 DEF Top
<1>3. /\ Caller \in Seq(Frame) /\ Len(Caller) = Len(stack) - 1
      /\ \A j \in 1 .. Len(stack) - 1 : Caller[j] = stack[j]
  <2> DEFINE n == Len(stack) - 1
  <2>1. n \in Nat /\ n <= Len(stack)
    BY <1>1
  <2> HIDE DEF n
  <2>2. \A j \in 1 .. n : stack[j] \in Frame
    BY <1>1, <2>1
  <2>3. /\ SubSeq(stack, 1, n) \in Seq(Frame)
        /\ Len(SubSeq(stack, 1, n)) = IF 1 <= n THEN n - 1 + 1 ELSE 0
        /\ \A j \in 1 .. n - 1 + 1 : SubSeq(stack, 1, n)[j] = stack[1 + j - 1]
    BY <2>1, <2>2, SubSeqProperties
  <2>4. Len(SubSeq(stack, 1, n)) = n /\ n - 1 + 1 = n /\ \A j \in 1 .. n : 1 + j - 1 = j
    BY <2>1, <2>3
  <2>5. \A j \in 1 .. n : SubSeq(stack, 1, n)[j] = stack[j]
    BY <2>3, <2>4
  <2> QED
    BY <2>3, <2>4, <2>5 DEF Caller, n
<1> QED
  BY <1>1, <1>2, <1>3 DEF Frame

\* The stack whose last call has one child less.
LEMMA NextChildIs ==
    ASSUME stack \in Seq(Frame), stack # <<>>, Top.children # <<>>
    PROVE  /\ NextChild \in Seq(Frame) /\ Len(NextChild) = Len(stack)
           /\ \A j \in 1 .. Len(stack) - 1 : NextChild[j] = stack[j]
           /\ NextChild[Len(stack)].agent = Top.agent
           /\ Names(Top.children) = {Head(Top.children)} \cup Names(NextChild[Len(stack)].children)
           /\ Head(Top.children) \in Agents \cup Others
<1> DEFINE less == [Top EXCEPT !.children = Tail(@)]
<1>1. /\ Len(stack) \in Nat /\ Len(stack) >= 1 /\ Top \in Frame
      /\ Top.children \in Seq(Agents \cup Others)
      /\ Caller \in Seq(Frame) /\ Len(Caller) = Len(stack) - 1
      /\ \A j \in 1 .. Len(stack) - 1 : Caller[j] = stack[j]
  BY CallerIs
<1>2. /\ Tail(Top.children) \in Seq(Agents \cup Others) /\ Head(Top.children) \in Agents \cup Others
      /\ Names(Top.children) = {Head(Top.children)} \cup Names(Tail(Top.children))
  BY <1>1, NamesOfTail
<1>3. less \in Frame /\ less.agent = Top.agent /\ less.children = Tail(Top.children)
  BY <1>1, <1>2 DEF Frame
<1> HIDE DEF less
<1>4. NextChild = Append(Caller, less)
  BY DEF NextChild, less
<1>5. /\ NextChild \in Seq(Frame) /\ Len(NextChild) = Len(stack)
      /\ \A j \in 1 .. Len(stack) - 1 : NextChild[j] = Caller[j]
      /\ NextChild[Len(stack)] = less
  BY <1>1, <1>3, <1>4, AppendProperties
<1> QED
  BY <1>1, <1>2, <1>3, <1>5

\* A call on top of others.
LEMMA CallIs ==
    ASSUME NEW calls \in Seq(Frame), NEW a \in Agents, NEW list \in Seq(Agents \cup Others)
    PROVE  /\ Call(calls, a, list) \in Seq(Frame)
           /\ Len(calls) \in Nat /\ Len(Call(calls, a, list)) = Len(calls) + 1
           /\ \A j \in 1 .. Len(calls) : Call(calls, a, list)[j] = calls[j]
           /\ Call(calls, a, list)[Len(calls) + 1].agent = a
           /\ Call(calls, a, list)[Len(calls) + 1].children = list
<1> DEFINE frame == [agent |-> a, children |-> list]
<1>1. frame \in Frame /\ frame.agent = a /\ frame.children = list
  BY DEF Frame
<1> HIDE DEF frame
<1>2. Call(calls, a, list) = Append(calls, frame)
  BY DEF Call, frame
<1> QED
  BY <1>1, <1>2, AppendProperties

-----------------------------------------------------------------------------
(* What leads where                                                        *)

LEMMA NotCyclical ==
    ASSUME NEW a \in Agents, NEW S \in SUBSET Agents,
           Tools(a) \subseteq S, \A b \in S : Tools(b) \subseteq S, a \notin S
    PROVE  a \notin Cyclical
BY DEF Cyclical, Reached

LEMMA IsCyclical ==
    ASSUME NEW a \in Agents,
           \A S \in SUBSET Agents :
               Tools(a) \subseteq S /\ (\A b \in S : Tools(b) \subseteq S) => a \in S
    PROVE  a \in Cyclical
BY DEF Cyclical, Reached

LEMMA ReachedIsClosed ==
    /\ top_agents \subseteq Agents => top_agents \subseteq Reached(top_agents, ToolsAndArgs)
    /\ \A a \in Reached(top_agents, ToolsAndArgs) :
          ToolsAndArgs(a) \subseteq Reached(top_agents, ToolsAndArgs)
    /\ \A S \in SUBSET Agents :
          top_agents \subseteq S /\ (\A b \in S : ToolsAndArgs(b) \subseteq S)
              => Reached(top_agents, ToolsAndArgs) \subseteq S
<1>1. top_agents \subseteq Agents => top_agents \subseteq Reached(top_agents, ToolsAndArgs)
  BY DEF Reached
<1>2. ASSUME NEW a \in Reached(top_agents, ToolsAndArgs), NEW c \in ToolsAndArgs(a)
      PROVE  c \in Reached(top_agents, ToolsAndArgs)
  <2>1. c \in Agents
    BY <1>2, Zenon DEF ToolsAndArgs
  <2>2. ASSUME NEW S \in SUBSET Agents,
               top_agents \subseteq S, \A b \in S : ToolsAndArgs(b) \subseteq S
        PROVE  c \in S
    <3>1. a \in S
      BY <1>2, <2>2 DEF Reached
    <3> QED
      BY <1>2, <2>2, <3>1
  <2> QED
    BY <2>1, <2>2 DEF Reached
<1>3. ASSUME NEW S \in SUBSET Agents,
             top_agents \subseteq S, \A b \in S : ToolsAndArgs(b) \subseteq S
      PROVE  Reached(top_agents, ToolsAndArgs) \subseteq S
  BY <1>3 DEF Reached
<1> QED
  BY <1>1, <1>2, <1>3, Zenon

LEMMA LeastNumber ==
    ASSUME NEW T \in SUBSET Nat, T # {}
    PROVE  \E x \in T : \A y \in T : x <= y
<1>1. PICK x \in T : \A y \in T : ~ (<<y, x>> \in OpToRel(<, Nat))
  BY WFMin, NatLessThanWellFounded, Zenon
<1>2. \A y \in T : ~ (y < x)
  BY <1>1 DEF OpToRel
<1> QED
  BY <1>2

\* What is closed under the tools, and has those of an agent of the path, has the rest of
\* the path.
LEMMA PathStaysIn ==
    ASSUME StructureTypeOK, PathInv, NEW S \in SUBSET Agents, NEW i \in 1 .. Len(stack),
           Tools(stack[i].agent) \subseteq S, \A b \in S : Tools(b) \subseteq S
    PROVE  \A j \in i + 1 .. Len(stack) : stack[j].agent \in S
<1>1. Len(stack) \in Nat
  BY LenProperties DEF StructureTypeOK
<1> DEFINE Out == {j \in i + 1 .. Len(stack) : stack[j].agent \notin S}
<1>2. SUFFICES ASSUME Out # {} PROVE FALSE
  OBVIOUS
<1>3. Out \in SUBSET Nat
  BY <1>1
<1>4. PICK j \in Out : \A k \in Out : j <= k
  BY <1>2, <1>3, LeastNumber
<1>5. j - 1 \in 1 .. Len(stack) /\ j - 1 < Len(stack) /\ (j - 1) + 1 = j /\ j - 1 >= i
  BY <1>1, <1>4
<1>6. stack[j].agent \in Tools(stack[j - 1].agent)
  BY <1>5 DEF PathInv
<1>7. CASE j - 1 = i
  BY <1>4, <1>6, <1>7
<1>8. CASE j - 1 # i
  <2>1. j - 1 \notin Out /\ j - 1 \in i + 1 .. Len(stack)
    BY <1>1, <1>4, <1>5, <1>8
  <2> QED
    BY <1>4, <1>6, <2>1
<1> QED
  BY <1>7, <1>8

\* Who is on the path from an agent that the last of the path calls is on a cycle.
LEMMA PathIsCyclical ==
    ASSUME StructureTypeOK, PathInv, stack # <<>>,
           NEW child \in Tools(Top.agent), NEW a \in CycleOnPath(child)
    PROVE  a \in Cyclical
<1>1. /\ Len(stack) \in Nat /\ Len(stack) >= 1
      /\ \A j \in 1 .. Len(stack) : stack[j].agent \in Agents
  BY CallerIs DEF StructureTypeOK
<1>2. PICK k \in 1 .. Len(stack) : a = stack[k].agent /\ \E i \in 1 .. k : stack[i].agent = child
  BY DEF CycleOnPath
<1>3. PICK i \in 1 .. k : stack[i].agent = child
  BY <1>2
<1>4. SUFFICES ASSUME NEW S \in SUBSET Agents,
                      Tools(a) \subseteq S, \A b \in S : Tools(b) \subseteq S
               PROVE  a \in S
  BY <1>1, <1>2, IsCyclical
<1>5. \A j \in k + 1 .. Len(stack) : stack[j].agent \in S
  BY <1>2, <1>4, PathStaysIn
<1>6. Tools(Top.agent) \subseteq S
  <2>1. CASE k = Len(stack)
    BY <1>2, <1>4, <2>1 DEF Top
  <2>2. CASE k # Len(stack)
    <3>1. Len(stack) \in k + 1 .. Len(stack)
      BY <1>1, <2>2
    <3>2. Top.agent \in S
      BY <1>5, <3>1 DEF Top
    <3> QED
      BY <1>4, <3>2
  <2> QED
    BY <2>1, <2>2
<1>7. child \in S
  BY <1>6
<1>8. CASE i = k
  BY <1>2, <1>3, <1>7, <1>8
<1>9. CASE i # k
  <2>1. i \in 1 .. Len(stack) /\ k \in i + 1 .. Len(stack)
    BY <1>1, <1>9
  <2>2. Tools(stack[i].agent) \subseteq S
    BY <1>3, <1>4, <1>7
  <2>3. stack[k].agent \in S
    BY <1>4, <2>1, <2>2, PathStaysIn
  <2> QED
    BY <1>2, <2>3
<1> QED
  BY <1>8, <1>9

-----------------------------------------------------------------------------
(* The search for cycles                                                   *)

LEMMA StructureInitInv == StructureInit => StructureInv
<1> SUFFICES ASSUME StructureInit PROVE StructureInv
  OBVIOUS
<1>1. Len(Order) \in Nat /\ Graphs \subseteq GraphType
  BY StructureAssumption
<1>2. StructureTypeOK
  BY <1>1 DEF StructureInit, StructureTypeOK
<1>3. CyclesInv
  BY DEF StructureInit, CyclesInv, PathInv, ProcessingInv, VisitedInv, StartedInv
<1>4. ReachInv
  BY DEF StructureInit, ReachInv
<1> QED
  BY <1>2, <1>3, <1>4 DEF StructureInv

\* What a network has does not change.
LEMMA NetworkStays ==
    ASSUME UNCHANGED graph
    PROVE  /\ Cyclical' = Cyclical
           /\ \A a : Tools(a)' = Tools(a) /\ ToolsAndArgs(a)' = ToolsAndArgs(a)
                     /\ Children(a)' = Children(a)
BY DEF Cyclical, Reached, Tools, ToolsAndArgs, Children

\* PathInv and VisitedInv after a step, told with the network as it is.
LEMMA PathInvNext ==
    ASSUME UNCHANGED graph,
           \A j \in 1 .. Len(stack') :
              /\ Names(stack'[j].children) \subseteq Names(graph.tools[stack'[j].agent])
              /\ j < Len(stack') => stack'[j + 1].agent \in Tools(stack'[j].agent)
    PROVE  PathInv'
<1>1. \A b : Tools(b)' = Tools(b)
  BY NetworkStays
<1> QED
  BY <1>1 DEF PathInv

LEMMA ProcessingInvStays ==
    ASSUME ProcessingInv, UNCHANGED state, Len(stack') = Len(stack),
           \A j \in 1 .. Len(stack) : stack'[j].agent = stack[j].agent
    PROVE  ProcessingInv'
BY DEF ProcessingInv

LEMMA VisitedInvNext ==
    ASSUME UNCHANGED graph,
           cyclical' = {} =>
              /\ \A j \in 1 .. Len(stack') : \A c \in Tools(stack'[j].agent) :
                    \/ c \in Names(stack'[j].children)
                    \/ state'[c] = "processed"
                    \/ j < Len(stack') /\ stack'[j + 1].agent = c
              /\ \A a \in Agents : state'[a] = "processed" =>
                    /\ a \notin Cyclical
                    /\ \A c \in Tools(a) : state'[c] = "processed"
    PROVE  VisitedInv'
<1>1. Cyclical' = Cyclical /\ \A b : Tools(b)' = Tools(b)
  BY NetworkStays
<1> QED
  BY <1>1 DEF VisitedInv

LEMMA StartSearchStep ==
    ASSUME StructureInv, StartSearch
    PROVE  StructureInv'
<1> DEFINE a == Order[start]
<1> USE DEF StructureInv, StructureTypeOK
<1>1. /\ phase = "cycles" /\ stack = <<>> /\ start' = start + 1
      /\ UNCHANGED <<graph, phase, cyclical, missing, top_agents, reachable>>
      /\ Len(Order) \in Nat /\ start \in 1 .. Len(Order) /\ a \in Agents
  BY OrderIs DEF StartSearch
<1>2. /\ PathInv /\ ProcessingInv /\ VisitedInv /\ StartedInv /\ cyclical \subseteq Cyclical
  BY <1>1 DEF CyclesInv
<1>3. ReachInv'
  BY <1>1 DEF ReachInv
<1>4. Cyclical' = Cyclical /\ \A b : Tools(b)' = Tools(b)
  BY <1>1, NetworkStays
<1>5. CASE state[a] = "unvisited"
  <2>1. stack' = Call(<<>>, a, graph.tools[a]) /\ state' = [state EXCEPT ![a] = "processing"]
    BY <1>5 DEF StartSearch
  <2>2. <<>> \in Seq(Frame) /\ Len(<<>>) = 0 /\ graph.tools[a] \in Seq(Agents \cup Others)
        /\ Tools(a) \subseteq Names(graph.tools[a])
    BY <1>1, ListsOf
  <2>3. /\ stack' \in Seq(Frame) /\ Len(stack') = 1
        /\ stack'[1].agent = a /\ stack'[1].children = graph.tools[a]
    <3>1. PICK none \in Seq(Frame) : none = <<>> /\ Len(none) = 0
      BY <2>2
    <3> DEFINE begun == Call(none, a, graph.tools[a])
    <3>2. /\ begun \in Seq(Frame) /\ Len(begun) = Len(none) + 1
          /\ begun[Len(none) + 1].agent = a /\ begun[Len(none) + 1].children = graph.tools[a]
      BY <1>1, <2>2, CallIs
    <3> QED
      BY <2>1, <3>1, <3>2
  <2>4. state'[a] = "processing" /\ \A b \in Agents \ {a} : state'[b] = state[b]
    BY <1>1, <2>1
  <2>5. StructureTypeOK'
    BY <1>1, <2>1, <2>3
  <2>6. PathInv'
    BY <1>1, <2>3 DEF PathInv
  <2>7. ProcessingInv'
    BY <1>1, <1>2, <2>3, <2>4 DEF ProcessingInv
  <2>8. VisitedInv'
    <3>1. SUFFICES ASSUME cyclical = {}
                   PROVE  /\ \A c \in Tools(a) : c \in Names(stack'[1].children)
                          /\ \A b \in Agents : state'[b] = "processed" =>
                                b \notin Cyclical /\ \A c \in Tools(b) : state'[c] = "processed"
      BY <1>1, <1>4, <2>3 DEF VisitedInv
    <3>2. \A b \in Agents : state'[b] = "processed" => b # a /\ state[b] = "processed"
      BY <2>4
    <3>3. \A b : Tools(b) \subseteq Agents
      BY DEF Tools
    <3> QED
      BY <1>2, <1>5, <2>2, <2>3, <2>4, <3>1, <3>2, <3>3 DEF VisitedInv
  <2>9. StartedInv'
    <3>1. \A i \in 1 .. start' - 1 : i = start \/ i \in 1 .. start - 1
      BY <1>1
    <3>2. \A i \in 1 .. start - 1 : Order[i] \in Agents
      BY <1>1, OrderIs
    <3> QED
      BY <1>2, <2>4, <3>1, <3>2 DEF StartedInv
  <2> QED
    BY <1>1, <1>2, <1>3, <1>4, <2>5, <2>6, <2>7, <2>8, <2>9 DEF CyclesInv
<1>6. CASE state[a] # "unvisited"
  <2>1. UNCHANGED <<stack, state>>
    BY <1>6 DEF StartSearch
  <2>2. StructureTypeOK'
    BY <1>1, <2>1
  <2>3. PathInv' /\ ProcessingInv' /\ VisitedInv'
    BY <1>1, <1>2, <1>4, <2>1 DEF PathInv, ProcessingInv, VisitedInv
  <2>4. StartedInv'
    <3>1. \A i \in 1 .. start' - 1 : i = start \/ i \in 1 .. start - 1
      BY <1>1
    <3> QED
      BY <1>2, <1>6, <2>1, <3>1 DEF StartedInv
  <2> QED
    BY <1>1, <1>2, <1>3, <1>4, <2>2, <2>3, <2>4 DEF CyclesInv
<1> QED
  BY <1>5, <1>6

LEMMA VisitChildStep ==
    ASSUME StructureInv, VisitChild
    PROVE  StructureInv'
<1> DEFINE child == Head(Top.children)
           n == Len(stack)
<1> USE DEF StructureInv, StructureTypeOK
<1>1. /\ phase = "cycles" /\ stack # <<>> /\ Top.children # <<>>
      /\ UNCHANGED <<graph, phase, start, missing, top_agents, reachable>>
  BY DEF VisitChild
<1>2. PathInv /\ ProcessingInv /\ VisitedInv /\ StartedInv /\ cyclical \subseteq Cyclical
  BY <1>1 DEF CyclesInv
<1>3. ReachInv'
  BY <1>1 DEF ReachInv
<1>4. Cyclical' = Cyclical /\ \A b : Tools(b)' = Tools(b) /\ Tools(b) \subseteq Agents
  BY <1>1, NetworkStays DEF Tools
<1>5. /\ n \in Nat /\ n >= 1 /\ Top = stack[n] /\ Top.agent \in Agents
      /\ \A j \in 1 .. n : stack[j].agent \in Agents
  BY <1>1, CallerIs DEF Top
<1>6. /\ NextChild \in Seq(Frame) /\ Len(NextChild) = n
      /\ \A j \in 1 .. n - 1 : NextChild[j] = stack[j]
      /\ NextChild[n].agent = stack[n].agent
      /\ Names(stack[n].children) = {child} \cup Names(NextChild[n].children)
      /\ child \in Agents \cup Others
  BY <1>1, <1>5, NextChildIs
<1>7. child \in Agents => child \in Tools(stack[n].agent)
  <2>1. n \in 1 .. Len(stack) /\ child \in Names(stack[n].children)
    BY <1>5, <1>6
  <2>2. Names(stack[n].children) \subseteq Names(graph.tools[stack[n].agent])
    BY <1>2, <2>1 DEF PathInv
  <2> QED
    BY <2>1, <2>2 DEF Tools
<1> HIDE DEF child, n
<1>8. CASE child \in Agents /\ state[child] = "unvisited"
  <2>1. /\ stack' = Call(NextChild, child, graph.tools[child])
        /\ state' = [state EXCEPT ![child] = "processing"]
        /\ UNCHANGED cyclical
    BY <1>8 DEF VisitChild, child
  <2>2. graph.tools[child] \in Seq(Agents \cup Others) /\ Tools(child) \subseteq Names(graph.tools[child])
    BY <1>8, ListsOf
  <2>3. /\ stack' \in Seq(Frame) /\ Len(stack') = n + 1
        /\ \A j \in 1 .. n : stack'[j] = NextChild[j]
        /\ stack'[n + 1].agent = child /\ stack'[n + 1].children = graph.tools[child]
    BY <1>6, <1>8, <2>1, <2>2, CallIs
  <2>4. state'[child] = "processing" /\ \A b \in Agents \ {child} : state'[b] = state[b]
    BY <1>8, <2>1
  <2>5. StructureTypeOK'
    BY <1>1, <1>8, <2>1, <2>3
  <2>6. /\ \A j \in 1 .. n - 1 : stack'[j] = stack[j]
        /\ \A j \in 1 .. n : stack'[j].agent = stack[j].agent
        /\ Names(stack[n].children) = {child} \cup Names(stack'[n].children)
        /\ \A j \in 1 .. n + 1 : j = n + 1 \/ j = n \/ j \in 1 .. n - 1
        /\ n \in 1 .. n
    BY <1>5, <1>6, <2>3
  <2>7. PathInv'
    <3>1. ASSUME NEW j \in 1 .. n + 1
          PROVE  /\ Names(stack'[j].children) \subseteq Names(graph.tools[stack'[j].agent])
                 /\ j < n + 1 => stack'[j + 1].agent \in Tools(stack'[j].agent)
      <4>1. CASE j = n + 1
        BY <1>5, <2>3, <4>1
      <4>2. CASE j = n
        BY <1>2, <1>5, <1>7, <1>8, <2>3, <2>6, <4>2 DEF PathInv, n
      <4>3. CASE j \in 1 .. n - 1
        <5>1. j + 1 \in 1 .. n /\ j \in 1 .. n /\ j < n
          BY <1>5, <4>3
        <5> QED
          BY <1>2, <2>6, <4>3, <5>1 DEF PathInv, n
      <4> QED
        BY <2>6, <4>1, <4>2, <4>3
    <3> QED
      BY <1>1, <2>3, <3>1, PathInvNext
  <2>8. ProcessingInv'
    <3>1. \A j \in 1 .. n : stack'[j].agent # child
      BY <1>2, <1>8, <2>6 DEF ProcessingInv, n
    <3>2. ASSUME NEW j \in 1 .. n + 1 PROVE state'[stack'[j].agent] = "processing"
      <4>1. CASE j = n + 1
        BY <2>3, <2>4, <4>1
      <4>2. CASE j \in 1 .. n
        <5>1. stack'[j].agent = stack[j].agent /\ stack[j].agent \in Agents \ {child}
          BY <1>5, <2>6, <3>1, <4>2
        <5>2. state[stack[j].agent] = "processing"
          BY <1>2, <4>2 DEF ProcessingInv, n
        <5> QED
          BY <2>4, <5>1, <5>2
      <4> QED
        BY <1>5, <4>1, <4>2
    <3>3. ASSUME NEW b \in Agents, state'[b] = "processing"
          PROVE  \E j \in 1 .. n + 1 : stack'[j].agent = b
      <4>1. CASE b = child
        BY <1>5, <2>3, <4>1
      <4>2. CASE b # child
        <5>1. PICK j \in 1 .. n : stack[j].agent = b
          BY <1>2, <2>4, <3>3, <4>2 DEF ProcessingInv, n
        <5> QED
          BY <1>5, <2>6, <5>1
      <4> QED
        BY <4>1, <4>2
    <3>4. \A i, j \in 1 .. n + 1 : stack'[i].agent = stack'[j].agent => i = j
      <4>1. \A i, j \in 1 .. n : stack'[i].agent = stack'[j].agent => i = j
        BY <1>2, <2>6 DEF ProcessingInv, n
      <4>2. \A i \in 1 .. n + 1 : i = n + 1 \/ i \in 1 .. n
        BY <1>5
      <4> QED
        BY <2>3, <3>1, <4>1, <4>2
    <3> QED
      BY <2>3, <3>2, <3>3, <3>4 DEF ProcessingInv
  <2>9. VisitedInv'
    <3>1. SUFFICES ASSUME cyclical = {}
                   PROVE  /\ \A j \in 1 .. n + 1 : \A c \in Tools(stack'[j].agent) :
                                \/ c \in Names(stack'[j].children)
                                \/ state'[c] = "processed"
                                \/ j < n + 1 /\ stack'[j + 1].agent = c
                          /\ \A b \in Agents : state'[b] = "processed" =>
                                b \notin Cyclical /\ \A c \in Tools(b) : state'[c] = "processed"
      <4>1. UNCHANGED <<graph, cyclical>> /\ Len(stack') = n + 1
        BY <1>1, <2>1, <2>3
      <4> QED
        BY <4>1, VisitedInvNext
    <3>2. \A c \in Agents : state[c] = "processed" <=> state'[c] = "processed"
      BY <1>8, <2>4
    <3>3. ASSUME NEW j \in 1 .. n + 1, NEW c \in Tools(stack'[j].agent)
          PROVE  \/ c \in Names(stack'[j].children)
                 \/ state'[c] = "processed"
                 \/ j < n + 1 /\ stack'[j + 1].agent = c
      <4>1. CASE j = n + 1
        BY <2>2, <2>3, <4>1
      <4>2. CASE j = n
        <5>1. c \in Names(stack[n].children) \/ state[c] = "processed"
          BY <1>2, <1>5, <2>6, <3>1, <4>2 DEF VisitedInv, n
        <5> QED
          BY <1>4, <1>5, <2>3, <2>6, <3>2, <4>2, <5>1
      <4>3. CASE j \in 1 .. n - 1
        <5>1. j + 1 \in 1 .. n /\ j \in 1 .. n /\ j < n /\ j < n + 1
          BY <1>5, <4>3
        <5>2. \/ c \in Names(stack[j].children) \/ state[c] = "processed"
              \/ stack[j + 1].agent = c
          BY <1>2, <2>6, <3>1, <4>3, <5>1 DEF VisitedInv, n
        <5> QED
          BY <1>4, <2>6, <3>2, <4>3, <5>1, <5>2
      <4> QED
        BY <2>6, <4>1, <4>2, <4>3
    <3>4. \A b \in Agents : state'[b] = "processed" =>
             b \notin Cyclical /\ \A c \in Tools(b) : state'[c] = "processed"
      BY <1>2, <1>4, <3>1, <3>2 DEF VisitedInv
    <3> QED
      BY <3>3, <3>4
  <2>10. StartedInv'
    <3>1. \A i \in 1 .. start - 1 : Order[i] \in Agents
      BY OrderIs
    <3> QED
      BY <1>1, <1>2, <2>4, <3>1 DEF StartedInv
  <2> QED
    BY <1>1, <1>2, <1>3, <1>4, <2>1, <2>5, <2>7, <2>8, <2>9, <2>10 DEF CyclesInv
<1>9. CASE ~(child \in Agents /\ state[child] = "unvisited")
  <2>1. /\ stack' = NextChild /\ UNCHANGED state
        /\ cyclical' = IF child \in Agents /\ state[child] = "processing"
                       THEN cyclical \cup CycleOnPath(child) ELSE cyclical
    BY <1>9 DEF VisitChild, child
  <2>2. /\ \A j \in 1 .. n - 1 : stack'[j] = stack[j]
        /\ \A j \in 1 .. n : stack'[j].agent = stack[j].agent
        /\ Names(stack[n].children) = {child} \cup Names(stack'[n].children)
        /\ \A j \in 1 .. n : j = n \/ j \in 1 .. n - 1
        /\ n \in 1 .. n /\ Len(stack') = n
    BY <1>5, <1>6, <2>1
  <2>3. CycleOnPath(child) \subseteq Agents
    BY <1>5 DEF CycleOnPath, n
  <2>4. StructureTypeOK'
    BY <1>1, <1>6, <2>1, <2>3
  <2>5. child \in Agents /\ state[child] = "processing" => child \in cyclical'
    <3>1. SUFFICES ASSUME child \in Agents, state[child] = "processing"
                   PROVE  child \in CycleOnPath(child)
      BY <2>1
    <3>2. PICK j \in 1 .. n : stack[j].agent = child
      BY <1>2, <3>1 DEF ProcessingInv, n
    <3>3. j \in 1 .. j
      BY <1>5
    <3> QED
      BY <3>2, <3>3 DEF CycleOnPath, n
  <2>6. cyclical' \subseteq Cyclical
    <3>1. ASSUME child \in Agents, NEW b \in CycleOnPath(child) PROVE b \in Cyclical
      BY <1>1, <1>2, <1>5, <1>7, <3>1, PathIsCyclical
    <3> QED
      BY <1>2, <2>1, <3>1
  <2>7. PathInv'
    <3>1. ASSUME NEW j \in 1 .. n
          PROVE  /\ Names(stack'[j].children) \subseteq Names(graph.tools[stack'[j].agent])
                 /\ j < n => stack'[j + 1].agent \in Tools(stack'[j].agent)
      <4>1. Names(stack'[j].children) \subseteq Names(stack[j].children)
        BY <2>2
      <4>2. j < n => j + 1 \in 1 .. n
        BY <1>5
      <4> QED
        BY <1>2, <2>2, <4>1, <4>2 DEF PathInv, n
    <3> QED
      BY <1>1, <2>2, <3>1, PathInvNext
  <2>8. ProcessingInv'
    <3>1. UNCHANGED state /\ Len(stack') = Len(stack)
      BY <2>1, <2>2 DEF n
    <3>2. \A j \in 1 .. Len(stack) : stack'[j].agent = stack[j].agent
      BY <2>2 DEF n
    <3> QED
      BY <1>2, <3>1, <3>2, ProcessingInvStays
  <2>9. VisitedInv'
    <3>1. SUFFICES ASSUME cyclical' = {}
                   PROVE  /\ \A j \in 1 .. n : \A c \in Tools(stack'[j].agent) :
                                \/ c \in Names(stack'[j].children)
                                \/ state[c] = "processed"
                                \/ j < n /\ stack'[j + 1].agent = c
                          /\ \A b \in Agents : state[b] = "processed" =>
                                b \notin Cyclical /\ \A c \in Tools(b) : state[c] = "processed"
      <4>1. UNCHANGED <<graph, state>> /\ Len(stack') = n
        BY <1>1, <2>1, <2>2
      <4> QED
        BY <4>1, VisitedInvNext
    <3>2. cyclical = {} /\ (child \in Agents => state[child] = "processed")
      BY <1>9, <2>1, <2>5, <3>1
    <3>3. ASSUME NEW j \in 1 .. n, NEW c \in Tools(stack'[j].agent)
          PROVE  \/ c \in Names(stack'[j].children)
                 \/ state[c] = "processed"
                 \/ j < n /\ stack'[j + 1].agent = c
      <4>1. \/ c \in Names(stack[j].children) \/ state[c] = "processed"
            \/ j < n /\ stack[j + 1].agent = c
        BY <1>2, <2>2, <3>2 DEF VisitedInv, n
      <4>2. c = child => state[c] = "processed"
        BY <1>4, <3>2
      <4>3. j < n => j + 1 \in 1 .. n
        BY <1>5
      <4> QED
        BY <2>2, <4>1, <4>2, <4>3
    <3> QED
      BY <1>2, <3>2, <3>3 DEF VisitedInv
  <2>10. StartedInv'
    BY <1>1, <1>2, <2>1 DEF StartedInv
  <2> QED
    BY <1>1, <1>3, <1>4, <2>4, <2>6, <2>7, <2>8, <2>9, <2>10 DEF CyclesInv
<1> QED
  BY <1>8, <1>9

LEMMA BacktrackStep ==
    ASSUME StructureInv, Backtrack
    PROVE  StructureInv'
<1> DEFINE n == Len(stack)
           a == Top.agent
<1> USE DEF StructureInv, StructureTypeOK
<1>1. /\ phase = "cycles" /\ stack # <<>> /\ Top.children = <<>>
      /\ stack' = Caller /\ state' = [state EXCEPT ![a] = "processed"]
      /\ UNCHANGED <<graph, phase, start, cyclical, missing, top_agents, reachable>>
  BY DEF Backtrack
<1>2. PathInv /\ ProcessingInv /\ VisitedInv /\ StartedInv /\ cyclical \subseteq Cyclical
  BY <1>1 DEF CyclesInv
<1>3. ReachInv'
  BY <1>1 DEF ReachInv
<1>4. Cyclical' = Cyclical /\ \A b : Tools(b)' = Tools(b) /\ Tools(b) \subseteq Agents
  BY <1>1, NetworkStays DEF Tools
<1>5. /\ n \in Nat /\ n >= 1 /\ n \in 1 .. n /\ a \in Agents
      /\ a = stack[n].agent /\ Names(stack[n].children) = {}
      /\ \A j \in 1 .. n : stack[j].agent \in Agents
      /\ stack' \in Seq(Frame) /\ Len(stack') = n - 1
      /\ \A j \in 1 .. n - 1 : stack'[j] = stack[j]
  <2>1. Top = stack[n] /\ Top.agent = a
    BY DEF Top
  <2>2. Names(Top.children) = {}
    BY ONLY <1>1, NoNames
  <2>3. /\ n \in Nat /\ n >= 1 /\ Top.agent \in Agents
        /\ Caller \in Seq(Frame) /\ Len(Caller) = n - 1
        /\ \A j \in 1 .. n - 1 : Caller[j] = stack[j]
        /\ \A j \in 1 .. n : stack[j].agent \in Agents
    BY <1>1, CallerIs
  <2> HIDE DEF a, n
  <2>4. n \in 1 .. n
    BY <2>3
  <2> QED
    BY ONLY <1>1, <2>1, <2>2, <2>3, <2>4
<1> HIDE DEF a, n
<1>6. state'[a] = "processed" /\ \A b \in Agents \ {a} : state'[b] = state[b]
  BY <1>1, <1>5
<1>7. StructureTypeOK'
  BY <1>1, <1>5
<1>8. \A j \in 1 .. n - 1 : j \in 1 .. n /\ j < n /\ j + 1 \in 1 .. n
  BY <1>5
<1>9. PathInv'
  <2>1. \A j \in 1 .. n - 1 : j < n - 1 => j + 1 \in 1 .. n - 1
    BY <1>5
  <2> QED
    BY <1>1, <1>2, <1>4, <1>5, <1>8, <2>1 DEF PathInv, n
<1>10. ProcessingInv'
  <2>1. ASSUME NEW j \in 1 .. n - 1 PROVE stack[j].agent # a
    <3>1. j \in 1 .. n /\ n \in 1 .. n /\ j # n
      BY ONLY <1>5, <2>1
    <3>2. stack[j].agent = stack[n].agent => j = n
      BY <1>2, <3>1 DEF ProcessingInv, n
    <3> QED
      BY ONLY <1>5, <3>1, <3>2
  <2>2. ASSUME NEW b \in Agents, state'[b] = "processing"
        PROVE  \E j \in 1 .. n - 1 : stack'[j].agent = b
    <3>1. b # a /\ state[b] = "processing"
      BY <1>6, <2>2
    <3>2. PICK j \in 1 .. n : stack[j].agent = b
      BY <1>2, <3>1 DEF ProcessingInv, n
    <3>3. j \in 1 .. n - 1
      BY <1>5, <3>1, <3>2
    <3> QED
      BY <1>5, <3>2, <3>3
  <2>3. ASSUME NEW j \in 1 .. n - 1 PROVE state'[stack'[j].agent] = "processing"
    <3>1. stack'[j].agent = stack[j].agent /\ stack[j].agent \in Agents \ {a}
      BY <1>5, <1>8, <2>1
    <3>2. state[stack[j].agent] = "processing"
      BY <1>2, <1>8 DEF ProcessingInv, n
    <3> QED
      BY <1>6, <3>1, <3>2
  <2>4. \A i, j \in 1 .. n - 1 : stack'[i].agent = stack'[j].agent => i = j
    BY <1>2, <1>5, <1>8 DEF ProcessingInv, n
  <2> QED
    BY <1>5, <2>2, <2>3, <2>4 DEF ProcessingInv
<1>11. VisitedInv'
  <2>1. SUFFICES ASSUME cyclical = {}
                 PROVE  /\ \A j \in 1 .. n - 1 : \A c \in Tools(stack[j].agent) :
                              \/ c \in Names(stack[j].children)
                              \/ state'[c] = "processed"
                              \/ j < n - 1 /\ stack'[j + 1].agent = c
                        /\ \A b \in Agents : state'[b] = "processed" =>
                              b \notin Cyclical /\ \A c \in Tools(b) : state'[c] = "processed"
    <3>1. /\ UNCHANGED <<graph, cyclical>> /\ Len(stack') = n - 1
          /\ \A j \in 1 .. n - 1 : stack'[j] = stack[j]
      BY <1>1, <1>5
    <3> QED
      BY <3>1, VisitedInvNext
  <2>2. \A c \in Agents : state[c] = "processed" => state'[c] = "processed"
    BY <1>6
  <2>3. ASSUME NEW j \in 1 .. n - 1, NEW c \in Tools(stack[j].agent)
        PROVE  \/ c \in Names(stack[j].children)
               \/ state'[c] = "processed"
               \/ j < n - 1 /\ stack'[j + 1].agent = c
    <3>1. \/ c \in Names(stack[j].children) \/ state[c] = "processed" \/ stack[j + 1].agent = c
      BY <1>2, <1>8, <2>1 DEF VisitedInv, n
    <3>2. CASE j + 1 = n
      BY <1>4, <1>5, <1>6, <2>2, <3>1, <3>2
    <3>3. CASE j + 1 # n
      <4>1. j < n - 1 /\ j + 1 \in 1 .. n - 1
        BY <1>5, <3>3
      <4> QED
        BY <1>4, <1>5, <2>2, <3>1, <4>1
    <3> QED
      BY <3>2, <3>3
  <2>4. \A c \in Tools(a) : state[c] = "processed"
    BY <1>2, <1>5, <2>1 DEF VisitedInv, n
  <2>5. a \notin Cyclical
    <3> DEFINE S == {b \in Agents : state[b] = "processed"}
    <3>1. Tools(a) \subseteq S /\ \A b \in S : Tools(b) \subseteq S
      BY <1>2, <1>4, <2>1, <2>4 DEF VisitedInv
    <3>2. a \notin S
      BY <1>2, <1>5 DEF ProcessingInv, n
    <3> QED
      BY <1>5, <3>1, <3>2, NotCyclical
  <2>6. ASSUME NEW b \in Agents, state'[b] = "processed"
        PROVE  b \notin Cyclical /\ \A c \in Tools(b) : state'[c] = "processed"
    <3>1. CASE b = a
      BY <1>4, <2>2, <2>4, <2>5, <3>1
    <3>2. CASE b # a
      BY <1>2, <1>4, <1>6, <2>1, <2>2, <2>6, <3>2 DEF VisitedInv
    <3> QED
      BY <3>1, <3>2
  <2> QED
    BY <2>3, <2>6
<1>12. StartedInv'
  <2>1. \A i \in 1 .. start - 1 : Order[i] \in Agents
    BY OrderIs
  <2> QED
    BY <1>1, <1>2, <1>6, <2>1 DEF StartedInv
<1> QED
  BY <1>1, <1>2, <1>3, <1>4, <1>7, <1>9, <1>10, <1>11, <1>12 DEF CyclesInv

-----------------------------------------------------------------------------
(* The search from the top agent                                           *)

LEMMA NoCalls == \E none \in Seq(Frame) : none = <<>> /\ Len(none) = 0
<1>1. <<>> \in Seq(Frame) /\ Len(<<>>) = 0
  OBVIOUS
<1> QED
  BY <1>1

LEMMA ReachedStays ==
    ASSUME UNCHANGED <<graph, top_agents>>
    PROVE  Reached(top_agents, ToolsAndArgs)' = Reached(top_agents, ToolsAndArgs)
BY DEF Reached, ToolsAndArgs

\* ReachInv after a step, told with the network as it is.
LEMMA ReachInvNext ==
    ASSUME UNCHANGED <<graph, top_agents>>,
           top_agents \subseteq reachable',
           reachable' \subseteq Reached(top_agents, ToolsAndArgs),
           \A j \in 1 .. Len(stack') :
              /\ stack'[j].agent \in reachable'
              /\ Names(stack'[j].children) \subseteq Names(Children(stack'[j].agent)),
           \A a \in reachable' : \A c \in ToolsAndArgs(a) :
              \/ c \in reachable'
              \/ \E j \in 1 .. Len(stack') : stack'[j].agent = a /\ c \in Names(stack'[j].children),
           phase' = "done" => stack' = <<>>
    PROVE  ReachInv'
<1>1. \A b : ToolsAndArgs(b)' = ToolsAndArgs(b) /\ Children(b)' = Children(b)
  BY NetworkStays
<1>2. Reached(top_agents, ToolsAndArgs)' = Reached(top_agents, ToolsAndArgs)
  BY ReachedStays
<1> QED
  BY <1>1, <1>2 DEF ReachInv

\* The search for cycles ends: all agents are processed, so that none is on a cycle if
\* none was found.
LEMMA LookForTheTopStep ==
    ASSUME StructureInv, LookForTheTop
    PROVE  StructureInv'
<1> USE DEF StructureInv, StructureTypeOK
<1>1. /\ phase = "cycles" /\ stack = <<>> /\ start > Len(Order)
      /\ top_agents' = FindAllTopAgents
      /\ UNCHANGED <<graph, start, state, cyclical>>
      /\ phase' \in {"reach", "done"}
  BY DEF LookForTheTop
<1>2. ProcessingInv /\ VisitedInv /\ StartedInv /\ cyclical \subseteq Cyclical
  BY <1>1 DEF CyclesInv
<1>3. Cyclical' = Cyclical
  BY <1>1, NetworkStays
<1>4. FindAllTopAgents \subseteq Agents /\ IsFiniteSet(FindAllTopAgents)
  <2>1. FindAllTopAgents \subseteq Agents
    BY DEF FindAllTopAgents
  <2> QED
    BY <2>1, AgentsAreFinite, FS_Subset
<1>5. CyclesInv'
  <2>1. ASSUME NEW a \in Agents PROVE state[a] = "processed"
    <3>1. PICK i \in 1 .. Len(Order) : Order[i] = a
      BY OrderIs
    <3>2. i \in 1 .. start - 1
      BY <1>1, OrderIs
    <3>3. state[a] # "unvisited"
      BY <1>2, <3>1, <3>2 DEF StartedInv
    <3>4. state[a] # "processing"
      BY <1>1, <1>2 DEF ProcessingInv
    <3> QED
      BY <3>3, <3>4
  <2>2. cyclical = {} => Cyclical = {}
    BY <1>2, <2>1 DEF VisitedInv, Cyclical
  <2> QED
    BY <1>1, <1>2, <1>3, <2>2 DEF CyclesInv
<1>6. CASE Cardinality(FindAllTopAgents) = 1
  <2>1. PICK top : FindAllTopAgents = {top}
    BY <1>4, <1>6, FS_Singleton
  <2>2. top \in Agents
    BY <1>4, <2>1
  <2>3. /\ phase' = "reach" /\ reachable' = {top}
        /\ stack' = Call(<<>>, top, Children(top))
    BY <1>6, <2>1 DEF LookForTheTop
  <2>4. /\ Children(top) \in Seq(Agents \cup Others)
        /\ ToolsAndArgs(top) \subseteq Names(Children(top))
        /\ ToolsAndArgs(top)' = ToolsAndArgs(top) /\ Children(top)' = Children(top)
    BY <1>1, <2>2, ListsOf, NetworkStays
  <2>5. PICK none \in Seq(Frame) : none = <<>> /\ Len(none) = 0
    BY NoCalls
  <2>6. /\ stack' \in Seq(Frame) /\ Len(stack') = 1
        /\ stack'[1].agent = top /\ stack'[1].children = Children(top)
    <3> DEFINE begun == Call(none, top, Children(top))
    <3>1. /\ begun \in Seq(Frame) /\ Len(begun) = Len(none) + 1
          /\ begun[Len(none) + 1].agent = top /\ begun[Len(none) + 1].children = Children(top)
      BY <2>2, <2>4, CallIs
    <3> QED
      BY <2>3, <2>5, <3>1
  <2>7. StructureTypeOK'
    BY <1>1, <1>4, <2>2, <2>3, <2>6
  <2>8. top_agents' \subseteq Reached(top_agents, ToolsAndArgs)'
    BY <1>1, <1>4 DEF Reached
  <2>9. ReachInv'
    BY <1>1, <2>1, <2>3, <2>4, <2>6, <2>8 DEF ReachInv
  <2> QED
    BY <1>5, <2>7, <2>9
<1>7. CASE Cardinality(FindAllTopAgents) # 1
  <2>1. phase' = "done" /\ UNCHANGED <<reachable, stack>>
    BY <1>7 DEF LookForTheTop
  <2> QED
    BY <1>1, <1>4, <1>5, <1>7, <2>1 DEF ReachInv
<1> QED
  BY <1>6, <1>7

\* The steps of the search leave what was said of cycles alone.
LEMMA CyclesStay ==
    ASSUME StructureInv, phase = "reach", phase' # "cycles", UNCHANGED <<graph, cyclical>>
    PROVE  CyclesInv'
BY NetworkStays DEF StructureInv, CyclesInv

LEMMA ReachStep ==
    ASSUME StructureInv, Reach
    PROVE  StructureInv'
<1> DEFINE child == Head(Top.children)
           n == Len(stack)
<1> USE DEF StructureInv, StructureTypeOK
<1>1. /\ phase = "reach" /\ stack # <<>> /\ Top.children # <<>>
      /\ UNCHANGED <<graph, phase, start, state, cyclical, missing, top_agents>>
  BY DEF Reach
<1>2. CyclesInv'
  BY <1>1, CyclesStay
<1>3. /\ n \in Nat /\ n >= 1 /\ n \in 1 .. n /\ Top = stack[n] /\ Top.agent \in Agents
      /\ \A j \in 1 .. n : stack[j].agent \in Agents
  BY <1>1, CallerIs DEF Top
<1>4. /\ NextChild \in Seq(Frame) /\ Len(NextChild) = n
      /\ \A j \in 1 .. n - 1 : NextChild[j] = stack[j]
      /\ NextChild[n].agent = stack[n].agent
      /\ Names(stack[n].children) = {child} \cup Names(NextChild[n].children)
      /\ child \in Agents \cup Others
  BY <1>1, <1>3, NextChildIs
<1>5. /\ \A b : ToolsAndArgs(b)' = ToolsAndArgs(b) /\ Children(b)' = Children(b)
      /\ \A b : ToolsAndArgs(b) \subseteq Agents
      /\ Reached(top_agents, ToolsAndArgs)' = Reached(top_agents, ToolsAndArgs)
  BY <1>1, NetworkStays, ReachedStays, Zenon DEF ToolsAndArgs
<1> HIDE DEF child, n
<1>6. /\ \A j \in 1 .. n - 1 : NextChild[j] = stack[j]
      /\ \A j \in 1 .. n : NextChild[j].agent = stack[j].agent
      /\ \A j \in 1 .. n : Names(NextChild[j].children) \subseteq Names(stack[j].children)
      /\ \A j \in 1 .. n : \A c \in Names(stack[j].children) :
            c # child => c \in Names(NextChild[j].children)
  <2>1. \A j \in 1 .. n : j = n \/ j \in 1 .. n - 1
    BY <1>3
  <2> QED
    BY <1>4, <2>1
<1>7. CASE Cardinality(top_agents) # 1
  <2>1. stack' \in Seq(Frame) /\ reachable' \in SUBSET Agents
    <3>1. CASE child \in Agents \ reachable
      <4>1. stack' = Call(NextChild, child, Children(child)) /\ reachable' = reachable \cup {child}
        BY <3>1 DEF Reach, child
      <4>2. Children(child) \in Seq(Agents \cup Others)
        BY <3>1, ListsOf
      <4> QED
        BY <1>4, <3>1, <4>1, <4>2, CallIs
    <3>2. CASE child \notin Agents \ reachable
      BY <1>4, <3>2 DEF Reach, child
    <3> QED
      BY <3>1, <3>2
  <2> QED
    BY <1>1, <1>2, <1>7, <2>1 DEF ReachInv
<1>8. CASE Cardinality(top_agents) = 1
  <2>1. /\ top_agents \subseteq reachable
        /\ reachable \subseteq Reached(top_agents, ToolsAndArgs)
        /\ \A j \in 1 .. n :
              /\ stack[j].agent \in reachable
              /\ Names(stack[j].children) \subseteq Names(Children(stack[j].agent))
        /\ \A a \in reachable : \A c \in ToolsAndArgs(a) :
              \/ c \in reachable
              \/ \E j \in 1 .. n : stack[j].agent = a /\ c \in Names(stack[j].children)
    BY <1>1, <1>8 DEF ReachInv, n
  <2>2. \A j \in 1 .. n :
           /\ NextChild[j].agent \in reachable
           /\ Names(NextChild[j].children) \subseteq Names(Children(NextChild[j].agent))
    BY <1>6, <2>1
  <2>3. \A a \in reachable : \A c \in ToolsAndArgs(a) :
           \/ c \in reachable \cup {child}
           \/ \E j \in 1 .. n : NextChild[j].agent = a /\ c \in Names(NextChild[j].children)
    BY <1>6, <2>1
  <2>4. CASE child \in Agents \ reachable
    <3>1. stack' = Call(NextChild, child, Children(child)) /\ reachable' = reachable \cup {child}
      BY <2>4 DEF Reach, child
    <3>2. /\ Children(child) \in Seq(Agents \cup Others)
          /\ ToolsAndArgs(child) \subseteq Names(Children(child))
      BY <2>4, ListsOf
    <3>3. /\ stack' \in Seq(Frame) /\ Len(stack') = n + 1
          /\ \A j \in 1 .. n : stack'[j] = NextChild[j]
          /\ stack'[n + 1].agent = child /\ stack'[n + 1].children = Children(child)
      BY <1>4, <2>4, <3>1, <3>2, CallIs
    <3>4. \A j \in 1 .. n + 1 : j = n + 1 \/ j \in 1 .. n
      BY <1>3
    <3>5. \A j \in 1 .. n + 1 :
             /\ stack'[j].agent \in reachable'
             /\ Names(stack'[j].children) \subseteq Names(Children(stack'[j].agent))
      BY <2>2, <3>1, <3>3, <3>4
    <3>6. child \in Reached(top_agents, ToolsAndArgs)
      <4>1. child \in Names(Children(stack[n].agent)) /\ stack[n].agent \in reachable
        BY <1>3, <1>4, <2>1
      <4>2. child \in ToolsAndArgs(stack[n].agent)
        BY <1>3, <2>4, <4>1, ListsOf
      <4> QED
        BY <2>1, <4>1, <4>2, ReachedIsClosed
    <3>7. ASSUME NEW a \in reachable', NEW c \in ToolsAndArgs(a)
          PROVE  \/ c \in reachable'
                 \/ \E j \in 1 .. n + 1 : stack'[j].agent = a /\ c \in Names(stack'[j].children)
      <4>1. CASE a = child
        <5>1. n + 1 \in 1 .. n + 1
          BY <1>3
        <5> QED
          BY <3>2, <3>3, <3>7, <4>1, <5>1
      <4>2. CASE a # child
        <5>1. \/ c \in reachable'
              \/ \E j \in 1 .. n : NextChild[j].agent = a /\ c \in Names(NextChild[j].children)
          BY <2>3, <3>1, <3>7, <4>2
        <5>2. 1 .. n \subseteq 1 .. n + 1
          BY <1>3
        <5> QED
          BY <3>3, <5>1, <5>2
      <4> QED
        BY <4>1, <4>2
    <3>8. ReachInv'
      <4>1. top_agents \subseteq reachable' /\ reachable' \subseteq Reached(top_agents, ToolsAndArgs)
        BY <2>1, <3>1, <3>6
      <4> QED
        BY <1>1, <3>3, <3>5, <3>7, <4>1, ReachInvNext
    <3>9. StructureTypeOK'
      BY <1>1, <2>4, <3>1, <3>3
    <3> QED
      BY <1>2, <3>8, <3>9
  <2>5. CASE child \notin Agents \ reachable
    <3>1. stack' = NextChild /\ UNCHANGED reachable
      BY <2>5 DEF Reach, child
    <3>2. \A a \in reachable : \A c \in ToolsAndArgs(a) :
             \/ c \in reachable
             \/ \E j \in 1 .. n : NextChild[j].agent = a /\ c \in Names(NextChild[j].children)
      BY <1>5, <2>3, <2>5
    <3>3. ReachInv'
      <4>1. \A j \in 1 .. Len(stack') :
               /\ stack'[j].agent \in reachable'
               /\ Names(stack'[j].children) \subseteq Names(Children(stack'[j].agent))
        BY <1>4, <2>2, <3>1
      <4>2. \A a \in reachable' : \A c \in ToolsAndArgs(a) :
               \/ c \in reachable'
               \/ \E j \in 1 .. Len(stack') : stack'[j].agent = a /\ c \in Names(stack'[j].children)
        BY <1>4, <3>1, <3>2
      <4>3. top_agents \subseteq reachable' /\ reachable' \subseteq Reached(top_agents, ToolsAndArgs)
        BY <2>1, <3>1
      <4> QED
        BY <1>1, <4>1, <4>2, <4>3, ReachInvNext
    <3>4. StructureTypeOK'
      BY <1>1, <1>4, <3>1
    <3> QED
      BY <1>2, <3>3, <3>4
  <2> QED
    BY <2>4, <2>5
<1> QED
  BY <1>7, <1>8

LEMMA ReturnFromReachStep ==
    ASSUME StructureInv, ReturnFromReach
    PROVE  StructureInv'
<1> DEFINE n == Len(stack)
<1> USE DEF StructureInv, StructureTypeOK
<1>1. /\ phase = "reach" /\ stack # <<>> /\ Top.children = <<>> /\ stack' = Caller
      /\ UNCHANGED <<graph, start, state, cyclical, missing, top_agents, reachable>>
      /\ phase' \in {"reach", "done"} /\ (phase' = "done" => stack' = <<>>)
  BY DEF ReturnFromReach
<1>2. CyclesInv'
  BY <1>1, CyclesStay
<1>3. /\ n \in Nat /\ n >= 1 /\ Names(stack[n].children) = {}
      /\ stack' \in Seq(Frame) /\ Len(stack') = n - 1
      /\ \A j \in 1 .. n - 1 : stack'[j] = stack[j]
  BY <1>1, CallerIs, NoNames DEF Top
<1> HIDE DEF n
<1>5. StructureTypeOK'
  BY <1>1, <1>3
<1>6. ReachInv'
  <2>1. SUFFICES ASSUME Cardinality(top_agents) = 1
                 PROVE  ReachInv'
    BY <1>1 DEF ReachInv
  <2>2. /\ top_agents \subseteq reachable
        /\ reachable \subseteq Reached(top_agents, ToolsAndArgs)
        /\ \A j \in 1 .. n :
              /\ stack[j].agent \in reachable
              /\ Names(stack[j].children) \subseteq Names(Children(stack[j].agent))
        /\ \A a \in reachable : \A c \in ToolsAndArgs(a) :
              \/ c \in reachable
              \/ \E j \in 1 .. n : stack[j].agent = a /\ c \in Names(stack[j].children)
    BY <1>1, <2>1 DEF ReachInv, n
  <2>3. \A j \in 1 .. n - 1 : j \in 1 .. n
    BY <1>3
  <2>4. \A j \in 1 .. n : j = n \/ j \in 1 .. n - 1
    BY <1>3
  <2>5. \A a \in reachable : \A c \in ToolsAndArgs(a) :
           \/ c \in reachable
           \/ \E j \in 1 .. n - 1 : stack'[j].agent = a /\ c \in Names(stack'[j].children)
    <3>1. ASSUME NEW a \in reachable, NEW c \in ToolsAndArgs(a), c \notin reachable
          PROVE  \E j \in 1 .. n - 1 : stack'[j].agent = a /\ c \in Names(stack'[j].children)
      <4>1. PICK j \in 1 .. n : stack[j].agent = a /\ c \in Names(stack[j].children)
        BY <2>2, <3>1
      <4>2. j \in 1 .. n - 1
        BY ONLY <1>3, <2>4, <4>1
      <4> QED
        BY ONLY <1>3, <4>1, <4>2
    <3> QED
      BY <3>1
  <2>6. \A j \in 1 .. n - 1 :
           /\ stack'[j].agent \in reachable
           /\ Names(stack'[j].children) \subseteq Names(Children(stack'[j].agent))
    BY <1>3, <2>2, <2>3
  <2> QED
    <3>1. \A j \in 1 .. Len(stack') :
             /\ stack'[j].agent \in reachable'
             /\ Names(stack'[j].children) \subseteq Names(Children(stack'[j].agent))
      BY <1>1, <1>3, <2>6
    <3>2. \A a \in reachable' : \A c \in ToolsAndArgs(a) :
             \/ c \in reachable'
             \/ \E j \in 1 .. Len(stack') : stack'[j].agent = a /\ c \in Names(stack'[j].children)
      BY <1>1, <1>3, <2>5
    <3>3. top_agents \subseteq reachable' /\ reachable' \subseteq Reached(top_agents, ToolsAndArgs)
      BY <1>1, <2>2
    <3> QED
      BY <1>1, <3>1, <3>2, <3>3, ReachInvNext
<1> QED
  BY <1>2, <1>5, <1>6

LEMMA StructureStutters ==
    ASSUME StructureInv, UNCHANGED structureVars
    PROVE  StructureInv'
<1>1. /\ UNCHANGED <<graph, phase, start, state, stack, cyclical, missing, top_agents, reachable>>
      /\ Cyclical' = Cyclical
      /\ \A b : Tools(b)' = Tools(b) /\ ToolsAndArgs(b)' = ToolsAndArgs(b) /\ Children(b)' = Children(b)
      /\ Reached(top_agents, ToolsAndArgs)' = Reached(top_agents, ToolsAndArgs)
  BY NetworkStays, ReachedStays DEF structureVars
<1>2. StructureTypeOK'
  BY <1>1 DEF StructureInv, StructureTypeOK
<1>3. CyclesInv'
  <2>1. PathInv => PathInv'
    BY <1>1, PathInvNext DEF PathInv
  <2>2. VisitedInv => VisitedInv'
    BY <1>1, VisitedInvNext DEF VisitedInv
  <2>3. ProcessingInv /\ StartedInv => ProcessingInv' /\ StartedInv'
    BY <1>1 DEF ProcessingInv, StartedInv
  <2> QED
    BY <1>1, <2>1, <2>2, <2>3 DEF StructureInv, CyclesInv
<1>4. ReachInv'
  <2>1. CASE phase # "cycles" /\ Cardinality(top_agents) = 1
    <3>1. /\ top_agents \subseteq reachable /\ reachable \subseteq Reached(top_agents, ToolsAndArgs)
          /\ \A j \in 1 .. Len(stack) :
                /\ stack[j].agent \in reachable
                /\ Names(stack[j].children) \subseteq Names(Children(stack[j].agent))
          /\ \A a \in reachable : \A c \in ToolsAndArgs(a) :
                \/ c \in reachable
                \/ \E j \in 1 .. Len(stack) : stack[j].agent = a /\ c \in Names(stack[j].children)
          /\ phase = "done" => stack = <<>>
      BY <2>1 DEF StructureInv, ReachInv
    <3>2. \A j \in 1 .. Len(stack') :
             /\ stack'[j].agent \in reachable'
             /\ Names(stack'[j].children) \subseteq Names(Children(stack'[j].agent))
      BY <1>1, <3>1
    <3>3. \A a \in reachable' : \A c \in ToolsAndArgs(a) :
             \/ c \in reachable'
             \/ \E j \in 1 .. Len(stack') : stack'[j].agent = a /\ c \in Names(stack'[j].children)
      BY <1>1, <3>1
    <3> QED
      BY <1>1, <3>1, <3>2, <3>3, ReachInvNext
  <2>2. CASE ~(phase # "cycles" /\ Cardinality(top_agents) = 1)
    BY ONLY <1>1, <2>2 DEF ReachInv
  <2> QED
    BY <2>1, <2>2
<1> QED
  BY <1>2, <1>3, <1>4 DEF StructureInv

LEMMA StructureInvariant == StructureSpec => []StructureInv
<1>1. StructureInv /\ [StructureNext]_structureVars => StructureInv'
  BY StructureStutters, StartSearchStep, VisitChildStep, BacktrackStep, LookForTheTopStep,
     ReachStep, ReturnFromReachStep DEF StructureNext
<1> QED
  BY <1>1, StructureInitInv, PTL DEF StructureSpec

\* The three searches keep the types of what they remember.
THEOREM StructureTypes == StructureSpec => []StructureTypeOK
<1>1. StructureInv => StructureTypeOK
  BY DEF StructureInv
<1> QED
  BY <1>1, StructureInvariant, PTL

\* dfs_cycle_detection() reports agents that are on a cycle, and some agent of every
\* network that has one, whatever its agents and tools are.
THEOREM CyclesAreReported == StructureSpec => []CyclesAreFound
<1>1. StructureInv => CyclesAreFound
  BY DEF StructureInv, CyclesInv, CyclesAreFound
<1> QED
  BY <1>1, StructureInvariant, PTL

\* dfs_reachability_traversal() from the one top agent ends with exactly the agents that
\* can be reached by tools and by the tools in args, whatever the network is.
THEOREM ReachableIsFound == StructureSpec => []ReachableIsExact
<1>1. StructureInv => ReachableIsExact
  <2>1. SUFFICES ASSUME StructureInv, phase = "done", Cardinality(top_agents) = 1
                 PROVE  reachable = Reached(top_agents, ToolsAndArgs)
    BY DEF ReachableIsExact
  <2>2. /\ reachable \in SUBSET Agents /\ stack = <<>>
        /\ top_agents \subseteq reachable /\ reachable \subseteq Reached(top_agents, ToolsAndArgs)
        /\ \A a \in reachable : \A c \in ToolsAndArgs(a) :
              \/ c \in reachable
              \/ \E j \in 1 .. Len(stack) : stack[j].agent = a /\ c \in Names(stack[j].children)
    BY <2>1 DEF StructureInv, StructureTypeOK, ReachInv
  <2>3. 1 .. Len(stack) = {}
    BY <2>2
  <2>4. \A a \in reachable : ToolsAndArgs(a) \subseteq reachable
    BY <2>2, <2>3
  <2> QED
    BY <2>2, <2>4, ReachedIsClosed
<1> QED
  BY <1>1, StructureInvariant, PTL

-----------------------------------------------------------------------------
(***************************************************************************)
(* TestDriver.  For any test cases and samples: the verdict is what the    *)
(* ratio of the test case asks for.                                        *)
(***************************************************************************)

Threads == {i \in Samples : i <= Iterations}
Working == {"submitted", "send", "receive", "evaluate", "next"}
Ended == {"done", "raised", "cancelled"}

\* The samples that were taken and were without failure, and those that are.
Counted == {i \in test.seen : Successful(i)}
WithoutFailure == {i \in Samples : Successful(i)}

\* What the verdict depends on.
TestTypeOK ==
    /\ {"need", "of", "malformed", "assessed", "sly"} \subseteq DOMAIN case
    /\ case.need \in Nat /\ case.of \in Nat
    /\ test \in [pc : {"start", "collect", "leave", "assess", "done"}, num_successful : Nat,
                 seen : SUBSET Samples, verdict : {"none", "passed", "failed", "raised"},
                 num_total : Nat, fail : Nat]
    /\ DOMAIN sample = Samples
    /\ \A i \in Samples :
          /\ DOMAIN sample[i] = DOMAIN NotStarted
          /\ sample[i].pc \in Working \cup Ended \cup {"none", "silent"}

\* A sample that was taken has ended, and is one of those asked for; the others are no threads.
TakenInv ==
    /\ \A i \in test.seen : sample[i].pc \in {"done", "raised"}
    /\ test.pc # "start" /\ ~case.malformed => \A i \in Samples : i \in Threads <=> sample[i].pc # "none"
    /\ test.seen \subseteq Threads
    /\ test.num_successful = Cardinality(Counted)

\* Where the test is, and why it left off.
DecisionInv ==
    /\ test.pc = "start" => test.seen = {} /\ test.verdict = "none" /\ sample = [i \in Samples |-> NotStarted]
    /\ test.pc = "collect" => test.verdict = "none" /\ \A i \in test.seen : sample[i].pc = "done"
    /\ test.pc = "leave" =>
          \/ test.verdict = "raised" /\ \E i \in test.seen : sample[i].pc = "raised"
          \/ test.verdict = "none" /\ test.num_successful >= NumNeedSuccess
          \/ test.verdict = "none" /\ \A i \in Threads : i \in test.seen /\ sample[i].pc = "done"
    /\ test.pc \in {"assess", "done"} /\ ~case.malformed =>
          \A i \in Samples : sample[i].pc \in Ended \cup {"none"}

TestInv ==
    /\ TestTypeOK
    /\ test.pc # "start" /\ case.malformed =>
          test.pc = "done" /\ \A i \in Samples : sample[i].pc = "none"
    /\ TakenInv
    /\ DecisionInv
    /\ VerdictIsTheRatio

-----------------------------------------------------------------------------
(* What a thread does                                                      *)

\* Sample i, at work, goes on, and the decision of the test is left alone.
GoesOn(i) ==
    /\ sample[i].pc \in Working
    /\ DOMAIN sample' = Samples
    /\ \A k \in Samples : k # i => sample'[k] = sample[k]
    /\ DOMAIN sample'[i] = DOMAIN NotStarted
    /\ sample'[i].pc \in Working \cup {"done", "raised", "silent"}

CaseStays ==
    /\ DOMAIN case' = DOMAIN case
    /\ case'.need = case.need /\ case'.of = case.of
    /\ case'.malformed = case.malformed /\ case'.assessed = case.assessed

DecisionStays ==
    /\ test' \in [pc : {"start", "collect", "leave", "assess", "done"}, num_successful : Nat,
                  seen : SUBSET Samples, verdict : {"none", "passed", "failed", "raised"},
                  num_total : Nat, fail : Nat]
    /\ test'.pc = test.pc /\ test'.num_successful = test.num_successful
    /\ test'.seen = test.seen /\ test'.verdict = test.verdict

LEMMA SampleChanges ==
    ASSUME TestTypeOK, NEW i \in Samples, sample[i].pc \in Working,
           NEW s, DOMAIN s = DOMAIN NotStarted, s.pc \in Working \cup {"done", "raised", "silent"},
           sample' = [sample EXCEPT ![i] = s]
    PROVE  GoesOn(i)
BY DEF TestTypeOK, GoesOn

LEMMA NextConnectionIs ==
    ASSUME NEW s, DOMAIN s = DOMAIN NotStarted
    PROVE  /\ DOMAIN NextConnection(s) = DOMAIN NotStarted
           /\ NextConnection(s).pc \in {"done", "next", "send"}
BY DEF NextConnection, NotStarted

LEMMA CapturedIs ==
    ASSUME NEW s, NEW failed, DOMAIN s = DOMAIN NotStarted
    PROVE  DOMAIN Captured(s, failed) = DOMAIN NotStarted /\ Captured(s, failed).pc = s.pc
BY DEF Captured, NotStarted

LEMMA NowIs ==
    ASSUME TestTypeOK, NEW i \in Samples, sample[i].pc \in Working,
           NEW pc \in {"raised", "silent"}, Now(i, pc)
    PROVE  GoesOn(i)
<1> DEFINE s == [sample[i] EXCEPT !.pc = pc]
<1>1. DOMAIN sample[i] = DOMAIN NotStarted /\ DOMAIN sample = Samples
  BY DEF TestTypeOK
<1>2. DOMAIN s = DOMAIN NotStarted /\ s.pc = pc
  BY <1>1 DEF NotStarted
<1>3. sample' = [sample EXCEPT ![i] = s]
  BY <1>1 DEF Now
<1> HIDE DEF s
<1> QED
  BY <1>2, <1>3, SampleChanges

LEMMA NothingIsDecided ==
    ASSUME TestTypeOK, UNCHANGED test
    PROVE  DecisionStays
BY DEF TestTypeOK, DecisionStays

LEMMA AssertsAreCounted ==
    ASSUME TestTypeOK, NEW t, NEW holds, HandleAssert(t, holds)
    PROVE  DecisionStays
<1> DEFINE fail == IF holds THEN test.fail ELSE test.fail + 1
<1>1. test.fail \in Nat /\ test.num_total \in Nat
  BY DEF TestTypeOK
<1>2. fail \in Nat
  <2>1. fail = test.fail \/ fail = test.fail + 1
    OBVIOUS
  <2> QED
    BY <1>1, <2>1
<1>3. \/ test' = test
      \/ test' = [test EXCEPT !.num_total = @ + 1, !.fail = fail]
  BY DEF HandleAssert
<1> HIDE DEF fail
<1> QED
  <2>1. CASE test' = test
    BY <2>1, NothingIsDecided
  <2>2. CASE test' = [test EXCEPT !.num_total = @ + 1, !.fail = fail]
    <3>1. test.num_total + 1 \in Nat
      BY <1>1
    <3> DEFINE counted == test.num_total + 1
    <3>2. test' = [test EXCEPT !.num_total = counted, !.fail = fail]
      BY <2>2
    <3> HIDE DEF counted
    <3>3. counted \in Nat
      BY <3>1 DEF counted
    <3> QED
      BY <1>2, <3>2, <3>3 DEF TestTypeOK, DecisionStays
  <2> QED
    BY <1>3, <2>1, <2>2

LEMMA ThreadMoves ==
    ASSUME TestTypeOK, NEW i \in Samples, OneIteration(i) \/ FallSilent(i)
    PROVE  GoesOn(i) /\ CaseStays /\ DecisionStays
<1>1. /\ DOMAIN sample = Samples /\ DOMAIN sample[i] = DOMAIN NotStarted
      /\ TestStep => CaseStays
  BY DEF TestTypeOK, TestStep, CaseStays
<1>2. CASE BeginIteration(i)
  <2>1. sample[i].pc \in Working /\ UNCHANGED test /\ TestStep
    BY <1>2 DEF BeginIteration, Working
  <2> DEFINE s == Captured(NextConnection(sample[i]),
                          case.connections = 0 \/ case.interactions = <<>>)
  <2>2. DOMAIN s = DOMAIN NotStarted /\ s.pc \in Working \cup {"done", "raised", "silent"}
    BY <1>1, NextConnectionIs, CapturedIs DEF Working
  <2>3. sample' = [sample EXCEPT ![i] = s]
    BY <1>1, <1>2 DEF BeginIteration
  <2> HIDE DEF s
  <2> QED
    BY <1>1, <2>1, <2>2, <2>3, SampleChanges, NothingIsDecided
<1>3. CASE Interact(i)
  <2>1. sample[i].pc \in Working /\ UNCHANGED test /\ TestStep
    BY <1>3 DEF Interact, Working
  <2> DEFINE s == FormulateChatRequest(sample[i])
  <2>2. DOMAIN s = DOMAIN NotStarted /\ s.pc \in Working \cup {"done", "raised", "silent"}
    BY <1>1 DEF FormulateChatRequest, NotStarted, Working
  <2>3. sample' = [sample EXCEPT ![i] = s]
    BY <1>1, <1>3 DEF Interact
  <2> HIDE DEF s
  <2> QED
    BY <1>1, <2>1, <2>2, <2>3, SampleChanges, NothingIsDecided
<1>4. CASE Receive(i)
  <2>1. sample[i].pc \in Working /\ UNCHANGED test /\ TestStep
    BY <1>4 DEF Receive, Working
  <2>2. PICK reply, brings : sample' = [sample EXCEPT ![i] =
          [@ EXCEPT !.pc = "evaluate", !.reply = reply, !.brings = brings,
                    !.to_test = case.interactions[sample[i].interaction].tests]]
    BY <1>4, Zenon DEF Receive
  <2> DEFINE s == [sample[i] EXCEPT !.pc = "evaluate", !.reply = reply, !.brings = brings,
                                    !.to_test = case.interactions[sample[i].interaction].tests]
  <2>3. DOMAIN s = DOMAIN NotStarted /\ s.pc \in Working \cup {"done", "raised", "silent"}
    BY <1>1 DEF NotStarted, Working
  <2>4. sample' = [sample EXCEPT ![i] = s]
    BY <1>1, <2>2
  <2> HIDE DEF s
  <2> QED
    BY <1>1, <2>1, <2>3, <2>4, SampleChanges, NothingIsDecided
<1>5. CASE Evaluate(i)
  <2>1. sample[i].pc \in Working /\ TestStep
    BY <1>5 DEF Evaluate, Working
  <2> DEFINE t == Head(sample[i].to_test)
             next == [sample[i] EXCEPT !.to_test = Tail(@)]
  <2>2. DOMAIN next = DOMAIN NotStarted /\ next.pc = sample[i].pc
    BY <1>1 DEF NotStarted
  <2>3. \/ sample' = [sample EXCEPT ![i] = next] /\ UNCHANGED test
        \/ Now(i, "raised") /\ UNCHANGED test
        \/ \E failed, holds : sample' = [sample EXCEPT ![i] = Captured(next, failed)] /\ HandleAssert(t, holds)
    BY <1>5 DEF Evaluate
  <2> HIDE DEF next, t
  <2>4. CASE sample' = [sample EXCEPT ![i] = next] /\ UNCHANGED test
    BY <1>1, <2>1, <2>2, <2>4, SampleChanges, NothingIsDecided
  <2>5. CASE Now(i, "raised") /\ UNCHANGED test
    BY <1>1, <2>1, <2>5, NowIs, NothingIsDecided
  <2>6. ASSUME NEW failed, NEW holds,
               sample' = [sample EXCEPT ![i] = Captured(next, failed)], HandleAssert(t, holds)
        PROVE  GoesOn(i) /\ CaseStays /\ DecisionStays
    <3>1. DOMAIN Captured(next, failed) = DOMAIN NotStarted /\ Captured(next, failed).pc \in Working
      BY <2>1, <2>2, CapturedIs
    <3> QED
      BY <1>1, <2>1, <2>6, <3>1, SampleChanges, AssertsAreCounted
  <2> QED
    BY <2>3, <2>4, <2>5, <2>6
<1>6. CASE NextInteraction(i)
  <2>1. sample[i].pc \in Working /\ UNCHANGED test
    BY <1>6 DEF NextInteraction, Working
  <2>2. CaseStays
    <3>1. UNCHANGED case \/ \E k, d : case' = [case EXCEPT !.sly[k] = d]
      BY <1>6 DEF NextInteraction, MergeSlyData
    <3> QED
      BY <3>1 DEF CaseStays, TestTypeOK
  <2>3. PICK carried : sample' = [sample EXCEPT ![i] =
            IF sample[i].interaction < Len(case.interactions)
            THEN [sample[i] EXCEPT !.pc = "send", !.interaction = @ + 1, !.carried = carried]
            ELSE [sample[i] EXCEPT !.pc = "next", !.carried = carried]]
    BY <1>6, Zenon DEF NextInteraction
  <2> DEFINE s == IF sample[i].interaction < Len(case.interactions)
                  THEN [sample[i] EXCEPT !.pc = "send", !.interaction = @ + 1, !.carried = carried]
                  ELSE [sample[i] EXCEPT !.pc = "next", !.carried = carried]
  <2>4. DOMAIN s = DOMAIN NotStarted /\ s.pc \in Working \cup {"done", "raised", "silent"}
    BY <1>1 DEF NotStarted, Working
  <2>5. sample' = [sample EXCEPT ![i] = s]
    BY <2>3
  <2> HIDE DEF s
  <2> QED
    BY <2>1, <2>2, <2>4, <2>5, SampleChanges, NothingIsDecided
<1>7. CASE EndConversation(i)
  <2>1. sample[i].pc \in Working /\ UNCHANGED test /\ TestStep
    BY <1>7 DEF EndConversation, Working
  <2> DEFINE s == NextConnection(sample[i])
  <2>2. DOMAIN s = DOMAIN NotStarted /\ s.pc \in Working \cup {"done", "raised", "silent"}
    BY <1>1, NextConnectionIs DEF Working
  <2>3. sample' = [sample EXCEPT ![i] = s]
    BY <1>1, <1>7 DEF EndConversation
  <2> HIDE DEF s
  <2> QED
    BY <1>1, <2>1, <2>2, <2>3, SampleChanges, NothingIsDecided
<1>8. CASE CheckTimeouts(i)
  <2>1. sample[i].pc \in Working /\ UNCHANGED test /\ TestStep /\ Now(i, "raised")
    BY <1>8 DEF CheckTimeouts, Working
  <2> QED
    BY <1>1, <2>1, NowIs, NothingIsDecided
<1>9. CASE FallSilent(i)
  <2>1. sample[i].pc \in Working /\ UNCHANGED test /\ TestStep /\ Now(i, "silent")
    BY <1>9 DEF FallSilent, Working
  <2> QED
    BY <1>1, <2>1, NowIs, NothingIsDecided
<1> QED
  BY <1>2, <1>3, <1>4, <1>5, <1>6, <1>7, <1>8, <1>9 DEF OneIteration

-----------------------------------------------------------------------------
(* The test                                                                *)

LEMMA CountedAreFinite ==
    ASSUME NEW S \in SUBSET Samples
    PROVE  IsFiniteSet(S) /\ Cardinality(S) \in Nat
BY SamplesAssumption, FS_Subset, FS_CardinalityType

LEMMA NeedIsNat == ASSUME TestTypeOK PROVE NumNeedSuccess \in Nat
BY DEF TestTypeOK, NumNeedSuccess, Iterations

LEMMA RatioStays ==
    ASSUME CaseStays
    PROVE  Iterations' = Iterations /\ NumNeedSuccess' = NumNeedSuccess /\ Threads' = Threads
BY DEF CaseStays, Iterations, NumNeedSuccess, Threads

LEMMA TestInitInv == TestInit => TestInv
<1> SUFFICES ASSUME TestInit PROVE TestInv
  OBVIOUS
<1>1. TestTypeOK
  BY SamplesAssumption DEF TestInit, TestTypeOK, NotStarted
<1>2. test.pc = "start" /\ test.seen = {} /\ test.verdict = "none" /\ test.num_successful = 0
  BY DEF TestInit
<1>3. Counted = {}
  BY <1>2 DEF Counted
<1>4. TakenInv
  BY <1>2, <1>3, FS_EmptySet DEF TakenInv
<1>5. DecisionInv
  BY <1>2 DEF TestInit, DecisionInv
<1> QED
  BY <1>1, <1>2, <1>4, <1>5 DEF TestInv, VerdictIsTheRatio

\* A thread at work has not been taken, and no verdict has been given yet.
LEMMA ThreadStep ==
    ASSUME TestInv, NEW i \in Samples, OneIteration(i) \/ FallSilent(i)
    PROVE  TestInv'
<1>1. GoesOn(i) /\ CaseStays /\ DecisionStays /\ TestTypeOK
  BY ThreadMoves DEF TestInv
<1>2. Iterations' = Iterations /\ NumNeedSuccess' = NumNeedSuccess /\ Threads' = Threads
  BY <1>1, RatioStays
<1>3. /\ sample[i].pc \in Working /\ sample'[i].pc # "none"
      /\ sample[i].pc \notin Ended \cup {"none"}
      /\ \A k \in Samples : k # i => sample'[k] = sample[k]
  BY <1>1 DEF GoesOn, Working, Ended
<1>4. TestTypeOK'
  <2>1. /\ {"need", "of", "malformed", "assessed", "sly"} \subseteq DOMAIN case'
        /\ case'.need \in Nat /\ case'.of \in Nat
    BY <1>1 DEF TestTypeOK, CaseStays
  <2>2. /\ DOMAIN sample' = Samples
        /\ \A k \in Samples :
              /\ DOMAIN sample'[k] = DOMAIN NotStarted
              /\ sample'[k].pc \in Working \cup Ended \cup {"none", "silent"}
    <3>1. "done" \in Ended /\ "raised" \in Ended
      BY DEF Ended
    <3> QED
      BY <1>1, <3>1 DEF TestTypeOK, GoesOn
  <2> QED
    BY <1>1, <2>1, <2>2 DEF TestTypeOK, DecisionStays
<1>5. i \notin test.seen /\ test.seen \subseteq Samples
  BY <1>1, <1>3 DEF TestInv, TakenInv, TestTypeOK, Ended
<1>6. \A k \in test.seen : sample'[k] = sample[k]
  BY <1>3, <1>5
<1>7. Counted' = Counted
  BY <1>1, <1>5, <1>6 DEF Counted, Successful, DecisionStays
<1>8. test.pc \in {"collect", "leave"} /\ ~case.malformed
  <2>1. test.pc # "start"
    <3>1. ASSUME test.pc = "start" PROVE FALSE
      <4>1. sample[i] = NotStarted
        BY <3>1 DEF TestInv, DecisionInv
      <4> QED
        BY <1>3, <4>1 DEF NotStarted
    <3> QED
      BY <3>1
  <2>2. ~case.malformed
    BY <1>3, <2>1 DEF TestInv, TakenInv, DecisionInv
  <2> QED
    BY <1>1, <1>3, <2>1, <2>2 DEF TestInv, DecisionInv, TestTypeOK
<1>9. TakenInv'
  <2>1. \A k \in test.seen : sample'[k].pc \in {"done", "raised"}
    BY <1>6 DEF TestInv, TakenInv
  <2>2. \A k \in Samples : k \in Threads <=> sample'[k].pc # "none"
    BY <1>3, <1>8 DEF TestInv, TakenInv
  <2>3. test.seen \subseteq Threads /\ test.num_successful = Cardinality(Counted)
    BY DEF TestInv, TakenInv
  <2> QED
    BY <1>1, <1>2, <1>7, <2>1, <2>2, <2>3 DEF TakenInv, DecisionStays, CaseStays
<1>10. DecisionInv'
  <2>1. test.pc = "collect" => test.verdict = "none" /\ \A k \in test.seen : sample'[k].pc = "done"
    BY <1>6 DEF TestInv, DecisionInv
  <2>2. test.pc = "leave" =>
          \/ test.verdict = "raised" /\ \E k \in test.seen : sample'[k].pc = "raised"
          \/ test.verdict = "none" /\ test.num_successful >= NumNeedSuccess
          \/ test.verdict = "none" /\ \A k \in Threads : k \in test.seen /\ sample'[k].pc = "done"
    BY <1>6 DEF TestInv, DecisionInv
  <2> QED
    BY <1>1, <1>2, <1>8, <2>1, <2>2 DEF DecisionInv, DecisionStays
<1> QED
  BY <1>1, <1>4, <1>8, <1>9, <1>10 DEF TestInv, VerdictIsTheRatio, DecisionStays, CaseStays

LEMMA OneTestStep ==
    ASSUME TestInv, OneTest
    PROVE  TestInv'
<1>1. /\ test.pc = "start" /\ test.seen = {} /\ test.verdict = "none" /\ UNCHANGED case
      /\ sample = [i \in Samples |-> NotStarted] /\ TestTypeOK
      /\ test.num_successful = Cardinality(Counted)
  BY DEF OneTest, TestStep, TestInv, TakenInv, DecisionInv
<1>2. Iterations' = Iterations /\ NumNeedSuccess' = NumNeedSuccess /\ Threads' = Threads
  BY <1>1 DEF Iterations, NumNeedSuccess, Threads
<1>3. /\ DOMAIN [NotStarted EXCEPT !.pc = "submitted"] = DOMAIN NotStarted
      /\ [NotStarted EXCEPT !.pc = "submitted"].pc = "submitted" /\ NotStarted.pc = "none"
  BY DEF NotStarted
<1>4. Counted = {}
  BY <1>1 DEF Counted
<1>5. CASE case.malformed
  <2>1. test' = [test EXCEPT !.pc = "done", !.verdict = "raised"] /\ UNCHANGED sample
    BY <1>5 DEF OneTest
  <2>2. /\ TestTypeOK' /\ test'.seen = {} /\ test'.num_successful = test.num_successful
        /\ test'.pc = "done"
    BY <1>1, <2>1 DEF TestTypeOK
  <2>3. Counted' = {}
    BY <2>2 DEF Counted
  <2>4. TakenInv'
    BY <1>1, <1>4, <1>5, <2>2, <2>3 DEF TakenInv
  <2>5. DecisionInv'
    BY <1>1, <1>5, <2>2 DEF DecisionInv
  <2> QED
    BY <1>1, <1>3, <1>5, <2>1, <2>2, <2>4, <2>5 DEF TestInv, VerdictIsTheRatio
<1>6. CASE ~case.malformed
  <2>1. /\ test' = [test EXCEPT !.pc = "collect"]
        /\ sample' = [i \in Samples |-> IF i <= Iterations
                                        THEN [NotStarted EXCEPT !.pc = "submitted"]
                                        ELSE NotStarted]
    BY <1>6 DEF OneTest
  <2>2. /\ test'.seen = {} /\ test'.num_successful = test.num_successful
        /\ test'.pc = "collect" /\ test'.verdict = "none"
    BY <1>1, <2>1 DEF TestTypeOK
  <2>3. \A i \in Samples :
           /\ DOMAIN sample'[i] = DOMAIN NotStarted
           /\ sample'[i].pc \in {"submitted", "none"}
           /\ i <= Iterations <=> sample'[i].pc # "none"
    BY <1>3, <2>1
  <2>4. TestTypeOK'
    <3>1. test' \in [pc : {"start", "collect", "leave", "assess", "done"}, num_successful : Nat,
                     seen : SUBSET Samples, verdict : {"none", "passed", "failed", "raised"},
                     num_total : Nat, fail : Nat]
      BY <1>1, <2>1 DEF TestTypeOK
    <3>2. DOMAIN sample' = Samples
      BY <2>1
    <3> QED
      BY <1>1, <2>3, <3>1, <3>2 DEF TestTypeOK, Working
  <2>5. Counted' = {}
    BY <2>2 DEF Counted
  <2>6. TakenInv'
    BY <1>1, <1>2, <1>4, <2>2, <2>3, <2>5 DEF TakenInv, Threads
  <2>7. DecisionInv'
    BY <2>2 DEF DecisionInv
  <2> QED
    BY <1>1, <1>6, <2>2, <2>4, <2>6, <2>7 DEF TestInv, VerdictIsTheRatio
<1> QED
  BY <1>5, <1>6

LEMMA CollectedAllStep ==
    ASSUME TestInv, CollectedAll
    PROVE  TestInv'
<1>1. /\ test.pc = "collect" /\ test.seen = Threads /\ UNCHANGED <<case, sample>>
      /\ test' = [test EXCEPT !.pc = "leave"] /\ TestTypeOK
  BY DEF CollectedAll, TestStep, TestInv, Threads
<1>2. Iterations' = Iterations /\ NumNeedSuccess' = NumNeedSuccess /\ Threads' = Threads
  BY <1>1 DEF Iterations, NumNeedSuccess, Threads
<1>3. /\ test'.pc = "leave" /\ test'.seen = test.seen /\ test'.verdict = test.verdict
      /\ test'.num_successful = test.num_successful /\ TestTypeOK'
  BY <1>1 DEF TestTypeOK
<1>4. Counted' = Counted
  BY <1>1, <1>3 DEF Counted, Successful
<1>5. ~case.malformed
  BY <1>1 DEF TestInv
<1>6. TakenInv'
  BY <1>1, <1>2, <1>3, <1>4 DEF TestInv, TakenInv
<1>7. DecisionInv'
  BY <1>1, <1>2, <1>3 DEF TestInv, DecisionInv
<1> QED
  BY <1>1, <1>3, <1>5, <1>6, <1>7 DEF TestInv, VerdictIsTheRatio

\* The ratio decides on what was taken: that is all of them, or enough.
LEMMA VerdictStep ==
    ASSUME TestInv, Verdict
    PROVE  TestInv'
<1>1. /\ test.pc = "leave" /\ UNCHANGED <<case, sample>> /\ TestTypeOK
      /\ \A i \in Samples : sample[i].pc \in Ended \cup {"none"}
  BY DEF Verdict, TestStep, TestInv, Ended
<1>2. Iterations' = Iterations /\ NumNeedSuccess' = NumNeedSuccess /\ Threads' = Threads
  BY <1>1 DEF Iterations, NumNeedSuccess, Threads
<1>3. /\ test'.pc \in {"assess", "done"} /\ test'.seen = test.seen
      /\ test'.verdict = IF test.verdict # "none" THEN test.verdict
                         ELSE IF test.num_successful >= NumNeedSuccess THEN "passed" ELSE "failed"
      /\ test'.num_successful = test.num_successful /\ TestTypeOK'
  BY <1>1 DEF Verdict, TestTypeOK
<1>4. Counted' = Counted
  BY <1>1, <1>3 DEF Counted, Successful
<1>5. ~case.malformed
  BY <1>1 DEF TestInv
<1>6. TakenInv'
  BY <1>1, <1>2, <1>3, <1>4, <1>5 DEF TestInv, TakenInv
<1>7. DecisionInv'
  BY <1>1, <1>2, <1>3 DEF DecisionInv
<1>8. /\ test.num_successful = Cardinality(Counted) /\ Counted \subseteq WithoutFailure
      /\ WithoutFailure \in SUBSET Samples /\ NumNeedSuccess \in Nat
  BY <1>1, NeedIsNat DEF TestInv, TakenInv, TestTypeOK, Counted, WithoutFailure
<1>9. /\ IsFiniteSet(WithoutFailure) /\ Cardinality(WithoutFailure) \in Nat
      /\ Cardinality(Counted) \in Nat /\ Cardinality(Counted) <= Cardinality(WithoutFailure)
  BY <1>8, CountedAreFinite, FS_Subset
<1>10. \/ test.verdict = "raised" /\ \E i \in test.seen : sample[i].pc = "raised"
       \/ test.verdict = "none" /\ test.num_successful >= NumNeedSuccess
       \/ test.verdict = "none" /\ \A i \in Threads : i \in test.seen /\ sample[i].pc = "done"
  BY <1>1 DEF TestInv, DecisionInv
<1>11. VerdictIsTheRatio'
  <2>1. WithoutFailure = {i \in Samples : sample[i].pc = "done" /\ ~sample[i].failed}
    BY DEF WithoutFailure, Successful
  <2>2. test'.verdict = "passed" => Cardinality(WithoutFailure) >= NumNeedSuccess
    BY <1>3, <1>8, <1>9, <1>10
  <2>3. ASSUME test'.verdict = "failed"
        PROVE  /\ Cardinality(WithoutFailure) < NumNeedSuccess
               /\ \A i \in Samples : i <= Iterations => sample[i].pc = "done"
    <3>1. test.verdict = "none" /\ ~(test.num_successful >= NumNeedSuccess)
      BY <1>3, <1>10, <2>3
    <3>2. \A i \in Threads : i \in test.seen /\ sample[i].pc = "done"
      BY <1>10, <3>1
    <3>3. \A i \in Samples : sample[i].pc = "done" => i \in Threads
      BY <1>1, <1>5 DEF TestInv, TakenInv
    <3>4. WithoutFailure \subseteq Counted
      BY <3>2, <3>3 DEF WithoutFailure, Counted, Successful
    <3>5. WithoutFailure = Counted
      BY <1>8, <3>4
    <3> QED
      BY <1>8, <1>9, <3>1, <3>2, <3>5 DEF Threads
  <2>4. test'.verdict = "raised" => \E i \in Samples : sample[i].pc = "raised"
    <3>1. test.seen \subseteq Samples
      BY <1>1 DEF TestTypeOK
    <3> QED
      BY <1>3, <1>10, <3>1
  <2> QED
    BY <1>1, <1>2, <2>1, <2>2, <2>3, <2>4 DEF VerdictIsTheRatio
<1> QED
  BY <1>1, <1>3, <1>5, <1>6, <1>7, <1>11 DEF TestInv

\* The one that is taken is counted; those that are cancelled have not been.
LEMMA CollectStep ==
    ASSUME TestInv, NEW i \in Samples, Collect(i)
    PROVE  TestInv'
<1> DEFINE successful == test.num_successful + (IF Successful(i) THEN 1 ELSE 0)
           enough == Successful(i) /\ successful = NumNeedSuccess
<1>1. /\ test.pc = "collect" /\ i \notin test.seen /\ UNCHANGED case /\ TestTypeOK
      /\ sample[i].pc \in {"done", "raised"}
      /\ test' = [test EXCEPT !.num_successful = successful, !.seen = @ \cup {i},
                              !.pc = IF sample[i].pc = "raised" \/ enough THEN "leave" ELSE @,
                              !.verdict = IF sample[i].pc = "raised" THEN "raised" ELSE @]
      /\ sample' = IF ~enough THEN sample
                   ELSE [k \in Samples |-> IF sample[k].pc = "submitted"
                                           THEN [sample[k] EXCEPT !.pc = "cancelled"]
                                           ELSE sample[k]]
  BY DEF Collect, TestStep, TestInv
<1>2. Iterations' = Iterations /\ NumNeedSuccess' = NumNeedSuccess /\ Threads' = Threads
  BY <1>1 DEF Iterations, NumNeedSuccess, Threads
<1>3. ~case.malformed /\ test.verdict = "none" /\ \A k \in test.seen : sample[k].pc = "done"
  BY <1>1 DEF TestInv, DecisionInv
<1>4. successful \in Nat
  <2>1. test.num_successful \in Nat
    BY <1>1 DEF TestTypeOK
  <2> QED
    BY <2>1
<1> HIDE DEF successful
<1>5. /\ test'.pc = (IF sample[i].pc = "raised" \/ enough THEN "leave" ELSE "collect")
      /\ test'.seen = test.seen \cup {i} /\ test'.num_successful = successful
      /\ test'.verdict = (IF sample[i].pc = "raised" THEN "raised" ELSE "none")
      /\ test' \in [pc : {"start", "collect", "leave", "assess", "done"}, num_successful : Nat,
                    seen : SUBSET Samples, verdict : {"none", "passed", "failed", "raised"},
                    num_total : Nat, fail : Nat]
  <2> DEFINE pc == IF sample[i].pc = "raised" \/ enough THEN "leave" ELSE "collect"
             verdict == IF sample[i].pc = "raised" THEN "raised" ELSE "none"
  <2>1. test' = [test EXCEPT !.num_successful = successful, !.seen = test.seen \cup {i},
                             !.pc = pc, !.verdict = verdict]
    BY <1>1, <1>3
  <2>2. /\ pc \in {"leave", "collect"} /\ verdict \in {"raised", "none"}
        /\ test.seen \cup {i} \in SUBSET Samples
    BY <1>1 DEF TestTypeOK
  <2> HIDE DEF pc, verdict
  <2>3. /\ test'.pc = pc /\ test'.verdict = verdict /\ test'.seen = test.seen \cup {i}
        /\ test'.num_successful = successful
        /\ test' \in [pc : {"start", "collect", "leave", "assess", "done"}, num_successful : Nat,
                      seen : SUBSET Samples, verdict : {"none", "passed", "failed", "raised"},
                      num_total : Nat, fail : Nat]
    BY <1>1, <1>4, <2>1, <2>2 DEF TestTypeOK
  <2> QED
    BY <2>3 DEF pc, verdict
<1>6. /\ DOMAIN sample' = Samples
      /\ \A k \in Samples :
            /\ DOMAIN sample'[k] = DOMAIN NotStarted
            /\ sample[k].pc # "submitted" => sample'[k] = sample[k]
            /\ sample[k].pc = "submitted" => sample'[k].pc \in {"submitted", "cancelled"}
  <2>1. \A k \in Samples :
           /\ DOMAIN sample[k] = DOMAIN NotStarted
           /\ DOMAIN [sample[k] EXCEPT !.pc = "cancelled"] = DOMAIN NotStarted
           /\ [sample[k] EXCEPT !.pc = "cancelled"].pc = "cancelled"
    BY <1>1 DEF TestTypeOK, NotStarted
  <2>2. DOMAIN sample = Samples
    BY <1>1 DEF TestTypeOK
  <2>3. CASE enough
    BY <1>1, <2>1, <2>3
  <2>4. CASE ~enough
    BY <1>1, <2>1, <2>2, <2>4
  <2> QED
    BY <2>3, <2>4
<1> HIDE DEF enough
<1>7. TestTypeOK'
  <2>1. \A k \in Samples : sample'[k].pc \in Working \cup Ended \cup {"none", "silent"}
    <3>1. "submitted" \in Working /\ "cancelled" \in Ended
      BY DEF Working, Ended
    <3> QED
      BY <1>1, <1>6, <3>1 DEF TestTypeOK
  <2> QED
    BY <1>1, <1>5, <1>6, <2>1 DEF TestTypeOK
<1>8. /\ \A k \in test.seen \cup {i} : sample'[k] = sample[k]
      /\ \A k \in test.seen \cup {i} : sample[k].pc \in {"done", "raised"}
  BY <1>1, <1>3, <1>6 DEF TestTypeOK
<1>9. Counted' = IF Successful(i) THEN Counted \cup {i} ELSE Counted
  BY <1>5, <1>8 DEF Counted, Successful
<1>10. successful = Cardinality(Counted')
  <2>1. /\ test.num_successful = Cardinality(Counted) /\ Counted \in SUBSET Samples
        /\ i \notin Counted /\ test.num_successful \in Nat
    BY <1>1 DEF TestInv, TakenInv, TestTypeOK, Counted
  <2>2. IsFiniteSet(Counted)
    BY <2>1, CountedAreFinite
  <2>3. Cardinality(Counted \cup {i}) = Cardinality(Counted) + 1
    BY <2>1, <2>2, FS_AddElement
  <2> QED
    BY <1>9, <2>1, <2>3 DEF successful
<1>11. TakenInv'
  <2>1. \A k \in Samples : k \in Threads <=> sample'[k].pc # "none"
    BY <1>1, <1>3, <1>6 DEF TestInv, TakenInv
  <2>2. test.seen \cup {i} \subseteq Threads
    BY <1>1, <1>3 DEF TestInv, TakenInv
  <2> QED
    <3>1. /\ test'.seen \subseteq Threads'
          /\ \A k \in test'.seen : sample'[k].pc \in {"done", "raised"}
      BY ONLY <1>2, <1>5, <1>8, <2>2
    <3>2. test'.num_successful = Cardinality(Counted)'
      BY <1>5, <1>10
    <3>3. \A k \in Samples : k \in Threads' <=> sample'[k].pc # "none"
      BY <1>2, <2>1
    <3> QED
      BY ONLY <3>1, <3>2, <3>3 DEF TakenInv
<1>12. DecisionInv'
  <2>1. CASE sample[i].pc = "raised"
    <3>1. \E k \in test.seen \cup {i} : sample'[k].pc = "raised"
      BY <1>8, <2>1
    <3> QED
      BY <1>5, <2>1, <3>1 DEF DecisionInv
  <2>2. CASE sample[i].pc # "raised" /\ enough
    <3>1. successful >= NumNeedSuccess
      BY <1>4, <2>2 DEF enough
    <3> QED
      BY <1>2, <1>5, <2>2, <3>1 DEF DecisionInv
  <2>3. CASE sample[i].pc # "raised" /\ ~enough
    <3>1. \A k \in test.seen \cup {i} : sample'[k].pc = "done"
      BY <1>1, <1>3, <1>8, <2>3
    <3> QED
      BY <1>5, <2>3, <3>1 DEF DecisionInv
  <2> QED
    BY <2>1, <2>2, <2>3
<1> QED
  BY <1>1, <1>3, <1>5, <1>7, <1>11, <1>12 DEF TestInv, VerdictIsTheRatio

LEMMA AssessFailuresStep ==
    ASSUME TestInv, AssessFailures
    PROVE  TestInv'
<1>1. /\ test.pc = "assess" /\ UNCHANGED <<case, sample>> /\ TestTypeOK
      /\ \/ test' = [test EXCEPT !.pc = "done"]
         \/ test.fail # 0 /\ test' = [test EXCEPT !.fail = @ - 1]
  BY DEF AssessFailures, TestStep, TestInv
<1>2. Iterations' = Iterations /\ NumNeedSuccess' = NumNeedSuccess /\ Threads' = Threads
  BY <1>1 DEF Iterations, NumNeedSuccess, Threads
<1>3. /\ test'.pc \in {"assess", "done"} /\ test'.seen = test.seen /\ test'.verdict = test.verdict
      /\ test'.num_successful = test.num_successful /\ TestTypeOK'
  <2>1. CASE test' = [test EXCEPT !.pc = "done"]
    BY <1>1, <2>1 DEF TestTypeOK
  <2>2. CASE test.fail # 0 /\ test' = [test EXCEPT !.fail = @ - 1]
    <3>1. test.fail - 1 \in Nat
      BY <1>1, <2>2 DEF TestTypeOK
    <3> DEFINE fail == test.fail - 1
    <3>2. test' = [test EXCEPT !.fail = fail] /\ fail \in Nat
      BY <2>2, <3>1
    <3> HIDE DEF fail
    <3> QED
      BY <1>1, <3>2 DEF TestTypeOK
  <2> QED
    BY <1>1, <2>1, <2>2
<1>4. Counted' = Counted
  BY <1>1, <1>3 DEF Counted, Successful
<1>5. ~case.malformed
  BY <1>1 DEF TestInv
<1>6. TakenInv'
  BY <1>1, <1>2, <1>3, <1>4, <1>5 DEF TestInv, TakenInv
<1>7. DecisionInv'
  BY <1>1, <1>3, <1>5 DEF TestInv, DecisionInv
<1>8. VerdictIsTheRatio'
  BY <1>1, <1>2, <1>3 DEF TestInv, VerdictIsTheRatio
<1> QED
  BY <1>1, <1>3, <1>5, <1>6, <1>7, <1>8 DEF TestInv

LEMMA TestStutters ==
    ASSUME TestInv, UNCHANGED testVars
    PROVE  TestInv'
<1>1. UNCHANGED <<case, test, sample>>
  BY DEF testVars
<1>2. Iterations' = Iterations /\ NumNeedSuccess' = NumNeedSuccess /\ Threads' = Threads
  BY <1>1 DEF Iterations, NumNeedSuccess, Threads
<1>3. Counted' = Counted
  BY <1>1 DEF Counted, Successful
<1> QED
  BY <1>1, <1>2, <1>3 DEF TestInv, TestTypeOK, TakenInv, DecisionInv, VerdictIsTheRatio

LEMMA TestInvariant == TestSpec => []TestInv
<1>1. TestInv /\ [TestNext]_testVars => TestInv'
  BY TestStutters, OneTestStep, CollectStep, CollectedAllStep, VerdictStep, AssessFailuresStep,
     ThreadStep DEF TestNext, Main
<1> QED
  BY <1>1, TestInitInv, PTL DEF TestSpec

\* The types of what the verdict of a test depends on.
THEOREM TestTypes == TestSpec => []TestTypeOK
<1>1. TestInv => TestTypeOK
  BY DEF TestInv
<1> QED
  BY <1>1, TestInvariant, PTL

\* one_test() passes a test case of any ratio only if as many samples as the ratio asks
\* for were without failure, and fails it only if fewer were, in whatever order they end.
THEOREM TheRatioDecides == TestSpec => []VerdictIsTheRatio
<1>1. TestInv => VerdictIsTheRatio
  BY DEF TestInv
<1> QED
  BY <1>1, TestInvariant, PTL


\* A set of numbers up to n that is not empty has a greatest one.
LEMMA GreatestNumber ==
    ASSUME NEW n \in Nat, NEW T \in SUBSET (1 .. n), T # {}
    PROVE  \E x \in T : \A y \in T : y <= x
<1> DEFINE Below == {n - i : i \in T}
<1>1. Below \subseteq Nat /\ Below # {}
  <2>1. \A i \in T : i \in 1 .. n /\ n - i \in Nat
    OBVIOUS
  <2> QED
    BY <2>1
<1>2. PICK a \in Below : \A b \in Below : a <= b
  BY <1>1, LeastNumber
<1>3. PICK x \in T : a = n - x
  BY <1>2
<1>4. \A y \in T : n - y \in Below
  OBVIOUS
<1> HIDE DEF Below
<1>5. \A y \in T : n - x <= n - y
  BY <1>2, <1>3, <1>4
<1> QED
  BY <1>5
-----------------------------------------------------------------------------
(***************************************************************************)
(* ChatClient.  However the exchanges of a session of any kind go, and     *)
(* whatever is put in: the front man remembers what was said.              *)
(***************************************************************************)

Contexts == [origin : Nat, history : Seq(Inputs)]
Backs == {None} \cup SUBSET SlyKeys
Messages ==
    {Progress, Aloud, Refusal, EndMessage}
    \cup [type : {"answer"}, text : Inputs, context : Contexts, sly : Backs]
Replies == [context : Contexts, answer : Inputs \cup {None}, sly : Backs, heard : BOOLEAN]
RunPlaces == {"none", "set_up", "running", "refusing", "answered", "refused", "dead"}
CliPlaces == {"open", "handshake", "function", "prompt", "receive", "ended", "failed"}
Entries == [input : Inputs, fate : RunPlaces, heard : BOOLEAN]

ChatTypeOK ==
    /\ args \in [kind : Kinds, minimal : BOOLEAN, output : BOOLEAN]
    /\ cli \in [pc : CliPlaces, input : Inputs \cup {None}, count : Nat, context : Contexts,
                answer : Inputs \cup {None}, sly : SUBSET SlyKeys]
    /\ locals \in Replies /\ processor \in Replies
    /\ run \in [pc : RunPlaces, input : Inputs \cup {None}, context : Contexts,
                sly : SUBSET SlyKeys, origin : Nat, memory : Seq(Inputs), told : Nat]
    /\ channel \in [queue : Seq(Messages), last_item_sent : BOOLEAN, next_index : Nat]
    /\ log \in Seq(Entries)

\* What is filed under no origin is nothing, and the front man's origin is always 1.
Remembered(context) ==
    /\ context.origin = 1 \/ context = NoContext
    /\ IsWhatWasSaid(context.history)

\* Between exchanges the queue is empty, and the run, if there was one, puts no more.
IdleInv ==
    cli.pc \in {"open", "handshake", "function", "prompt"} =>
        channel.queue = <<>> /\ (run.pc = "none" \/ channel.last_item_sent)

\* The run is the one of this exchange, and gets what the client's state remembers.
ExchangeInv ==
    /\ run.pc # "none" => run.input \in Inputs
    /\ cli.pc = "receive" =>
        /\ run.pc # "none"
        /\ run.context = cli.context
        /\ run.pc = "set_up" => channel.next_index = 1
        /\ run.pc # "set_up" => run.origin = 1 /\ run.memory = cli.context.history

\* Only a run that has ended can have closed the queue, and the end comes last.
EndInv ==
    /\ channel.last_item_sent => run.pc \in {"answered", "refused", "dead"}
    /\ \A k \in DOMAIN channel.queue :
        channel.queue[k].type = "end" => channel.last_item_sent /\ k = Len(channel.queue)

\* A context in the queue is this run's.
AnswerInv ==
    \A k \in DOMAIN channel.queue :
        channel.queue[k].type = "answer" =>
            run.pc = "answered" /\ channel.queue[k].context = PrepareChatContext

\* What the client will remember: as before if it has heard nothing, else what the run
\* has answered, which it gets if it is not still in the queue.
HeardInv ==
    cli.pc = "receive" =>
        /\ processor.heard = locals.heard
        /\ ~locals.heard => processor.context = NoContext /\ locals.context = cli.context
        /\ locals.heard => /\ locals.context = processor.context
                           /\ \/ locals.context = NoContext
                              \/ run.pc = "answered" /\ locals.context = PrepareChatContext
        /\ run.pc = "answered" =>
            \/ \E k \in DOMAIN channel.queue : channel.queue[k].type = "answer"
            \/ locals.heard /\ locals.context = PrepareChatContext

ChatInv ==
    /\ ChatTypeOK
    /\ Remembered(cli.context)
    /\ IdleInv /\ ExchangeInv /\ EndInv /\ AnswerInv /\ HeardInv

-----------------------------------------------------------------------------

LEMMA MessageIs ==
    ASSUME NEW m \in Messages
    PROVE  /\ m.type \in {"progress", "aloud", "answer", "refusal", "end"}
           /\ m.type = "answer" => /\ m.context \in Contexts /\ m.sly \in Backs
                                   /\ m \in [type : {"answer"}, text : Inputs, context : Contexts, sly : Backs]
           /\ m.type = "end" <=> m = EndMessage
           /\ m.type = "refusal" <=> m = Refusal
<1>1. CASE m \in [type : {"answer"}, text : Inputs, context : Contexts, sly : Backs]
  <2>1. m.type = "answer" /\ m.context \in Contexts /\ m.sly \in Backs
    BY <1>1
  <2> QED
    BY <1>1, <2>1 DEF EndMessage, Refusal
<1>2. CASE m = Progress
  BY <1>2 DEF Progress, EndMessage, Refusal
<1>3. CASE m = Aloud
  BY <1>3 DEF Aloud, EndMessage, Refusal
<1>4. CASE m = Refusal
  BY <1>4 DEF EndMessage, Refusal
<1>5. CASE m = EndMessage
  BY <1>5 DEF EndMessage, Refusal
<1> QED
  BY <1>1, <1>2, <1>3, <1>4, <1>5 DEF Messages

LEMMA PlainMessages ==
    /\ Progress \in Messages /\ Aloud \in Messages /\ Refusal \in Messages /\ EndMessage \in Messages
    /\ Progress.type = "progress" /\ Aloud.type = "aloud" /\ Refusal.type = "refusal"
    /\ EndMessage.type = "end"
BY DEF Messages, Progress, Aloud, Refusal, EndMessage

LEMMA NoContextIs ==
    NoContext \in Contexts /\ NoContext.origin = 0 /\ NoContext.history = <<>>
BY DEF NoContext, Contexts

LEMMA NoRunIs ==
    /\ NoRun.pc = "none"
    /\ NoRun \in [pc : RunPlaces, input : Inputs \cup {None}, context : Contexts,
                  sly : SUBSET SlyKeys, origin : Nat, memory : Seq(Inputs), told : Nat]
BY NoContextIs DEF NoRun, RunPlaces

LEMMA NoReplyIs ==
    NoReply \in Replies /\ NoReply.context = NoContext /\ NoReply.heard = FALSE
BY NoContextIs DEF NoReply, Replies, Backs

-----------------------------------------------------------------------------

\* One more exchange: what is kept of the log.
LEMMA KeptNext ==
    ASSUME log \in Seq(Entries), NEW e \in Entries, log' = Append(log, e)
    PROVE  /\ Answered(e) => Kept' = Kept \cup {Len(log) + 1}
           /\ TookMemoryAway(e) => Kept' = {}
           /\ ~Answered(e) /\ ~TookMemoryAway(e) => Kept' = Kept
<1> DEFINE n == Len(log)
<1>1. /\ n \in Nat /\ DOMAIN log = 1 .. n
      /\ DOMAIN log' = 1 .. n + 1 /\ Len(log') = n + 1
      /\ log'[n + 1] = e
      /\ \A i \in 1 .. n : log'[i] = log[i]
  OBVIOUS
<1> HIDE DEF n
<1>2. Kept = {i \in 1 .. n : Answered(log[i]) /\ \A j \in i .. n : ~TookMemoryAway(log[j])}
  BY <1>1 DEF Kept, n
<1>3. Kept' = {i \in 1 .. n + 1 : Answered(log'[i]) /\ \A j \in i .. n + 1 : ~TookMemoryAway(log'[j])}
  BY <1>1 DEF Kept
<1>4. \A i \in 1 .. n + 1 :
        i \in Kept' <=> /\ ~TookMemoryAway(e)
                        /\ IF i = n + 1 THEN Answered(e) ELSE i \in Kept
  <2> SUFFICES ASSUME NEW i \in 1 .. n + 1
               PROVE  i \in Kept' <=> /\ ~TookMemoryAway(e)
                                      /\ IF i = n + 1 THEN Answered(e) ELSE i \in Kept
    OBVIOUS
  <2>1. CASE i = n + 1
    BY <1>1, <1>3, <2>1
  <2>2. CASE i \in 1 .. n
    <3>1. i .. n + 1 = (i .. n) \cup {n + 1}
      BY <1>1, <2>2
    <3>2. \A j \in i .. n : log'[j] = log[j]
      BY <1>1, <2>2
    <3> QED
      BY <1>1, <1>2, <1>3, <2>2, <3>1, <3>2
  <2> QED
    BY <1>1, <2>1, <2>2
<1>5. Kept \subseteq 1 .. n /\ Kept' \subseteq 1 .. n + 1
  BY <1>2, <1>3
<1>6. ASSUME Answered(e) PROVE Kept' = Kept \cup {n + 1}
  <2>1. ~TookMemoryAway(e)
    BY <1>6 DEF TookMemoryAway
  <2>2. \A i \in 1 .. n + 1 : i \in Kept' <=> i \in Kept \cup {n + 1}
    BY <1>1, <1>4, <1>5, <1>6, <2>1
  <2>3. Kept \cup {n + 1} \subseteq 1 .. n + 1
    BY <1>1, <1>5
  <2> QED
    BY ONLY <1>5, <2>2, <2>3
<1>7. ASSUME TookMemoryAway(e) PROVE Kept' = {}
  BY <1>4, <1>5, <1>7
<1>8. ASSUME ~Answered(e), ~TookMemoryAway(e) PROVE Kept' = Kept
  <2>1. \A i \in 1 .. n + 1 : i \in Kept' <=> i \in Kept
    BY <1>1, <1>4, <1>5, <1>8
  <2>2. Kept \subseteq 1 .. n + 1
    BY <1>1, <1>5
  <2> QED
    BY ONLY <1>5, <2>1, <2>2
<1> QED
  BY <1>6, <1>7, <1>8 DEF n

\* Nothing was said, or what was said and one thing more.
LEMMA NothingIsSaid == Kept = {} => IsWhatWasSaid(<<>>)
<1> SUFFICES ASSUME Kept = {} PROVE IsWhatWasSaid(<<>>)
  OBVIOUS
<1> DEFINE said == [k \in {} |-> 0]
<1>1. said \in [DOMAIN <<>> -> DOMAIN log] /\ Range(said) = {}
  BY DEF Range
<1> QED
  BY <1>1 DEF IsWhatWasSaid

LEMMA NothingIsSaidNext == Kept' = {} => IsWhatWasSaid(<<>>)'
<1> SUFFICES ASSUME Kept' = {} PROVE IsWhatWasSaid(<<>>)'
  OBVIOUS
<1> DEFINE said == [k \in {} |-> 0]
<1>1. said \in [DOMAIN <<>> -> DOMAIN log'] /\ Range(said) = {}
  BY DEF Range
<1> QED
  BY <1>1 DEF IsWhatWasSaid

LEMMA SaidStays ==
    ASSUME log \in Seq(Entries), NEW e \in Entries, log' = Append(log, e), Kept' = Kept,
           NEW history \in Seq(Inputs), IsWhatWasSaid(history)
    PROVE  IsWhatWasSaid(history)'
<1>1. PICK said \in [DOMAIN history -> DOMAIN log] :
        /\ \A k \in DOMAIN history : history[k] = log[said[k]].input
        /\ \A k, l \in DOMAIN history : k < l => said[k] < said[l]
        /\ Range(said) = Kept
  BY DEF IsWhatWasSaid
<1>2. DOMAIN log \subseteq DOMAIN log' /\ \A i \in DOMAIN log : log'[i] = log[i]
  OBVIOUS
<1>3. said \in [DOMAIN history -> DOMAIN log']
  BY <1>1, <1>2
<1>4. \A k \in DOMAIN history : history[k] = log'[said[k]].input
  BY <1>1, <1>2
<1>5. Range(said) = Kept'
  BY <1>1
<1> QED
  BY <1>1, <1>3, <1>4, <1>5 DEF IsWhatWasSaid

LEMMA OneMoreIsSaid ==
    ASSUME log \in Seq(Entries), NEW e \in Entries, log' = Append(log, e),
           Kept' = Kept \cup {Len(log) + 1},
           NEW history \in Seq(Inputs), IsWhatWasSaid(history)
    PROVE  IsWhatWasSaid(Append(history, e.input))'
<1>1. PICK said \in [DOMAIN history -> DOMAIN log] :
        /\ \A k \in DOMAIN history : history[k] = log[said[k]].input
        /\ \A k, l \in DOMAIN history : k < l => said[k] < said[l]
        /\ Range(said) = Kept
  BY DEF IsWhatWasSaid
<1> DEFINE n == Len(log)
           h == Len(history)
           more == Append(history, e.input)
           further == [k \in 1 .. h + 1 |-> IF k = h + 1 THEN n + 1 ELSE said[k]]
<1>2. /\ n \in Nat /\ DOMAIN log = 1 .. n /\ DOMAIN log' = 1 .. n + 1
      /\ log'[n + 1] = e /\ \A i \in 1 .. n : log'[i] = log[i]
  OBVIOUS
<1>e. e.input \in Inputs
  BY DEF Entries
<1>3. /\ h \in Nat /\ DOMAIN history = 1 .. h /\ DOMAIN more = 1 .. h + 1
      /\ more[h + 1] = e.input /\ \A k \in 1 .. h : more[k] = history[k]
  BY <1>e
<1> HIDE DEF n, h, more
<1>4. \A k \in 1 .. h : said[k] \in 1 .. n
  BY <1>1, <1>2, <1>3
<1>5. further \in [DOMAIN more -> DOMAIN log']
  BY <1>2, <1>3, <1>4
<1>6. \A k \in DOMAIN more : more[k] = log'[further[k]].input
  <2> SUFFICES ASSUME NEW k \in 1 .. h + 1 PROVE more[k] = log'[further[k]].input
    BY <1>3
  <2>1. CASE k = h + 1
    BY <1>2, <1>3, <2>1
  <2>2. CASE k \in 1 .. h
    <3>1. further[k] = said[k]
      BY <1>3, <2>2
    <3> HIDE DEF further
    <3>2. history[k] = log[said[k]].input /\ more[k] = history[k]
      BY <1>1, <1>3, <2>2
    <3>3. log'[said[k]] = log[said[k]]
      BY <1>2, <1>4, <2>2
    <3> QED
      BY <3>1, <3>2, <3>3
  <2>3. k = h + 1 \/ k \in 1 .. h
    BY <1>3
  <2> QED
    BY <2>1, <2>2, <2>3
<1>7. \A k, l \in DOMAIN more : k < l => further[k] < further[l]
  <2> SUFFICES ASSUME NEW k \in 1 .. h + 1, NEW l \in 1 .. h + 1, k < l
               PROVE  further[k] < further[l]
    BY <1>3
  <2>1. k \in 1 .. h /\ further[k] = said[k]
    BY <1>3
  <2>2. CASE l = h + 1
    <3>1. further[l] = n + 1
      BY <2>2
    <3> HIDE DEF further
    <3>2. said[k] \in 1 .. n
      BY ONLY <1>4, <2>1
    <3> QED
      BY ONLY <1>2, <2>1, <3>1, <3>2
  <2>3. CASE l \in 1 .. h
    <3>1. further[l] = said[l]
      BY <1>3, <2>3
    <3> HIDE DEF further
    <3>2. said[k] < said[l]
      BY <1>1, <1>3, <2>1, <2>3
    <3> QED
      BY ONLY <2>1, <3>1, <3>2
  <2> QED
    BY <1>3, <2>2, <2>3
<1>8. Range(further) = Kept'
  <2>1. Kept = {said[k] : k \in 1 .. h}
    BY <1>1, <1>3 DEF Range
  <2>2. Range(further) = {further[k] : k \in 1 .. h + 1}
    BY DEF Range
  <2>3. \A k \in 1 .. h : further[k] = said[k] /\ k \in 1 .. h + 1
    BY <1>3
  <2>4. h + 1 \in 1 .. h + 1 /\ further[h + 1] = n + 1
    BY <1>3
  <2>5. 1 .. h + 1 = (1 .. h) \cup {h + 1}
    BY <1>3
  <2> HIDE DEF further
  <2>6. Kept' = Kept \cup {n + 1}
    BY DEF n
  <2>7. Kept \cup {n + 1} \subseteq {further[k] : k \in 1 .. h + 1}
    BY ONLY <2>1, <2>3, <2>4
  <2>8. {further[k] : k \in 1 .. h + 1} \subseteq Kept \cup {n + 1}
    BY ONLY <2>1, <2>3, <2>4, <2>5
  <2> QED
    BY <2>2, <2>6, <2>7, <2>8
<1> HIDE DEF further
<1>9. IsWhatWasSaid(more)'
  BY <1>5, <1>6, <1>7, <1>8 DEF IsWhatWasSaid
<1> QED
  BY <1>9 DEF more

-----------------------------------------------------------------------------

LEMMA ChatInitInv == ChatInit => ChatInv
<1> SUFFICES ASSUME ChatInit PROVE ChatInv
  OBVIOUS
<1>1. /\ args \in [kind : Kinds, minimal : BOOLEAN, output : BOOLEAN]
      /\ cli.pc = "open" /\ cli.context = NoContext
      /\ cli \in [pc : CliPlaces, input : Inputs \cup {None}, count : Nat, context : Contexts,
                  answer : Inputs \cup {None}, sly : SUBSET SlyKeys]
  BY NoContextIs DEF ChatInit, CliPlaces
<1>2. locals = NoReply /\ processor = NoReply /\ run = NoRun /\ channel = NewChannel /\ log = <<>>
  BY DEF ChatInit
<1>4. /\ NewChannel.queue = <<>> /\ NewChannel.last_item_sent = FALSE
      /\ NewChannel \in [queue : Seq(Messages), last_item_sent : BOOLEAN, next_index : Nat]
  BY DEF NewChannel
<1>5. log \in Seq(Entries)
  BY <1>2
<1>6. ChatTypeOK
  BY <1>1, <1>2, <1>4, <1>5, NoReplyIs, NoRunIs DEF ChatTypeOK
<1>7. Remembered(cli.context)
  <2>1. Kept = {}
    BY <1>2 DEF Kept
  <2> QED
    BY <1>1, <2>1, NothingIsSaid, NoContextIs DEF Remembered
<1>8. IdleInv /\ ExchangeInv /\ HeardInv
  BY <1>1, <1>2, <1>4, NoRunIs DEF IdleInv, ExchangeInv, HeardInv
<1>9. EndInv /\ AnswerInv
  BY <1>2, <1>4 DEF EndInv, AnswerInv
<1> QED
  BY <1>6, <1>7, <1>8, <1>9 DEF ChatInv

\* What the client's state has is remembered as long as no exchange ends.
LEMMA RememberedStays ==
    ASSUME Remembered(cli.context), UNCHANGED log, cli'.context = cli.context
    PROVE  Remembered(cli.context)'
BY DEF Remembered, IsWhatWasSaid, Kept, Answered, TookMemoryAway

\* Steps of the loop that are no exchange, and the one that gives up an exchange.
LEMMA LoopStep ==
    ASSUME ChatInv,
           cli' \in [pc : CliPlaces \ {"receive"}, input : Inputs \cup {None}, count : Nat,
                     context : Contexts, answer : Inputs \cup {None}, sly : SUBSET SlyKeys],
           cli'.context = cli.context,
           cli.pc # "receive" \/ cli'.pc = "failed",
           cli'.pc \in {"ended", "failed"} \/ cli.pc \in {"open", "handshake", "function", "prompt"},
           UNCHANGED <<args, locals, processor, run, channel, log>>
    PROVE  ChatInv'
<1>1. ChatTypeOK'
  BY DEF ChatInv, ChatTypeOK
<1>2. Remembered(cli.context)'
  BY RememberedStays DEF ChatInv
<1>3. cli'.pc # "receive"
  OBVIOUS
<1>4. IdleInv'
  BY DEF ChatInv, IdleInv
<1>5. ExchangeInv' /\ HeardInv'
  BY <1>3 DEF ChatInv, ExchangeInv, HeardInv
<1>6. EndInv' /\ AnswerInv'
  BY DEF ChatInv, EndInv, AnswerInv, PrepareChatContext
<1> QED
  BY <1>1, <1>2, <1>4, <1>5, <1>6 DEF ChatInv

LEMMA OpeningStep ==
    ASSUME ChatInv, Opening
    PROVE  ChatInv'
<1>1. PICK next \in {"handshake", "function", "prompt", "failed"} :
        /\ cli' = [cli EXCEPT !.pc = next]
        /\ cli.pc \in {"open", "handshake", "function"}
        /\ UNCHANGED <<args, locals, processor, run, channel, log>>
  BY DEF Opening, CreateSession, Handshake, Function, DirectFunction, OpenWith
<1>2. cli \in [pc : CliPlaces, input : Inputs \cup {None}, count : Nat, context : Contexts,
               answer : Inputs \cup {None}, sly : SUBSET SlyKeys]
  BY DEF ChatInv, ChatTypeOK
<1>3. /\ cli' \in [pc : CliPlaces \ {"receive"}, input : Inputs \cup {None}, count : Nat,
                   context : Contexts, answer : Inputs \cup {None}, sly : SUBSET SlyKeys]
      /\ cli'.context = cli.context
  BY <1>1, <1>2 DEF CliPlaces
<1> QED
  BY <1>1, <1>3, LoopStep

LEMMA LoopSteps ==
    ASSUME ChatInv, Leave \/ TakeInput \/ IgnoreDefault \/ Break
    PROVE  ChatInv'
<1>1. cli \in [pc : CliPlaces, input : Inputs \cup {None}, count : Nat, context : Contexts,
               answer : Inputs \cup {None}, sly : SUBSET SlyKeys]
  BY DEF ChatInv, ChatTypeOK
<1>2. CASE TakeInput
  <2>1. /\ cli' \in [pc : CliPlaces \ {"receive"}, input : Inputs \cup {None}, count : Nat,
                     context : Contexts, answer : Inputs \cup {None}, sly : SUBSET SlyKeys]
        /\ cli'.context = cli.context
    BY <1>1, <1>2 DEF TakeInput, CliPlaces
  <2> QED
    BY <1>2, <2>1, LoopStep DEF TakeInput
<1>3. CASE Leave \/ IgnoreDefault \/ Break
  <2>1. PICK next \in {"prompt", "ended", "failed"} :
          /\ cli' = [cli EXCEPT !.pc = next]
          /\ cli.pc = "prompt" \/ next = "failed"
    BY <1>3 DEF Leave, IgnoreDefault, Break, WriteResponse
  <2>2. /\ cli' \in [pc : CliPlaces \ {"receive"}, input : Inputs \cup {None}, count : Nat,
                     context : Contexts, answer : Inputs \cup {None}, sly : SUBSET SlyKeys]
        /\ cli'.context = cli.context /\ cli'.pc = next
    BY <1>1, <2>1 DEF CliPlaces
  <2>3. UNCHANGED <<args, locals, processor, run, channel, log>>
    BY <1>3 DEF Leave, IgnoreDefault, Break
  <2> QED
    BY <2>1, <2>2, <2>3, LoopStep
<1> QED
  BY <1>2, <1>3

-----------------------------------------------------------------------------

\* One more message in the queue.
LEMMA QueueNext ==
    ASSUME channel.queue \in Seq(Messages), NEW m \in Messages,
           channel'.queue = Append(channel.queue, m)
    PROVE  /\ channel'.queue \in Seq(Messages)
           /\ Len(channel'.queue) = Len(channel.queue) + 1
           /\ DOMAIN channel.queue = 1 .. Len(channel.queue)
           /\ DOMAIN channel'.queue = 1 .. Len(channel.queue) + 1
           /\ channel'.queue[Len(channel.queue) + 1] = m
           /\ \A k \in DOMAIN channel.queue : channel'.queue[k] = channel.queue[k]
OBVIOUS

LEMMA RunTypes ==
    ASSUME ChatTypeOK
    PROVE  /\ run \in [pc : RunPlaces, input : Inputs \cup {None}, context : Contexts,
                       sly : SUBSET SlyKeys, origin : Nat, memory : Seq(Inputs), told : Nat]
           /\ channel \in [queue : Seq(Messages), last_item_sent : BOOLEAN, next_index : Nat]
           /\ channel.queue \in Seq(Messages) /\ channel.last_item_sent \in BOOLEAN
           /\ channel.next_index \in Nat
           /\ Len(channel.queue) \in Nat /\ DOMAIN channel.queue = 1 .. Len(channel.queue)
BY DEF ChatTypeOK

\* A step of a run that has not ended is one of an exchange, or of one that was given up.
LEMMA RunIsInExchange ==
    ASSUME ChatInv, ~channel.last_item_sent, run.pc # "none"
    PROVE  /\ cli.pc \notin {"open", "handshake", "function", "prompt"}
           /\ \A k \in DOMAIN channel.queue : channel.queue[k].type # "end"
BY DEF ChatInv, IdleInv, EndInv

LEMMA NothingSent ==
    ASSUME ChatInv, run.pc \in {"set_up", "running", "refusing"}
    PROVE  /\ ~channel.last_item_sent
           /\ cli.pc \notin {"open", "handshake", "function", "prompt"}
           /\ \A k \in DOMAIN channel.queue : channel.queue[k].type \notin {"answer", "end"}
           /\ cli.pc = "receive" /\ locals.heard => locals.context = NoContext
<1>1. ~channel.last_item_sent
  BY DEF ChatInv, EndInv
<1>2. \A k \in DOMAIN channel.queue : channel.queue[k].type # "answer"
  BY DEF ChatInv, AnswerInv
<1>3. cli.pc = "receive" /\ locals.heard => locals.context = NoContext
  BY DEF ChatInv, HeardInv
<1> QED
  BY <1>1, <1>2, <1>3, RunIsInExchange

LEMMA SetUpStep ==
    ASSUME ChatInv, SetUp
    PROVE  ChatInv'
<1>1. PICK pc \in {"running", "refusing"} :
        run' = [run EXCEPT !.pc = pc, !.origin = channel.next_index,
                           !.memory = ChatHistory(run.context, channel.next_index)]
  BY DEF SetUp
<1>2. /\ run.pc = "set_up"
      /\ channel' = [channel EXCEPT !.next_index = @ + 1]
      /\ UNCHANGED <<args, cli, locals, processor, log>>
  BY DEF SetUp
<1>3. ChatTypeOK
  BY DEF ChatInv
<1>4. ChatHistory(run.context, channel.next_index) \in Seq(Inputs)
  <2>1. run.context \in Contexts
    BY <1>3, RunTypes
  <2> QED
    BY <2>1 DEF ChatHistory, Contexts
<1> DEFINE history == ChatHistory(run.context, channel.next_index)
<1> HIDE DEF history
<1>5. /\ run' \in [pc : RunPlaces, input : Inputs \cup {None}, context : Contexts,
                   sly : SUBSET SlyKeys, origin : Nat, memory : Seq(Inputs), told : Nat]
      /\ run'.pc \in {"running", "refusing"} /\ run'.input = run.input
      /\ run'.context = run.context
      /\ run'.origin = channel.next_index /\ run'.memory = history
  BY <1>1, <1>3, <1>4, RunTypes DEF RunPlaces, history
<1>6. /\ channel' \in [queue : Seq(Messages), last_item_sent : BOOLEAN, next_index : Nat]
      /\ channel'.queue = channel.queue /\ channel'.last_item_sent = channel.last_item_sent
  BY <1>2, <1>3, RunTypes
<1>7. ChatTypeOK'
  BY <1>2, <1>3, <1>5, <1>6 DEF ChatTypeOK
<1>8. Remembered(cli.context)'
  BY <1>2, RememberedStays DEF ChatInv
<1>9. /\ ~channel.last_item_sent
      /\ cli.pc \notin {"open", "handshake", "function", "prompt"}
      /\ \A k \in DOMAIN channel.queue : channel.queue[k].type \notin {"answer", "end"}
      /\ cli.pc = "receive" /\ locals.heard => locals.context = NoContext
  BY <1>2, NothingSent
<1>10. IdleInv'
  BY <1>2, <1>9 DEF IdleInv
<1>11. ExchangeInv'
  <2>1. ASSUME cli.pc = "receive"
        PROVE  /\ channel.next_index = 1 /\ run.context = cli.context
               /\ history = cli.context.history
    <3>1. channel.next_index = 1 /\ run.context = cli.context
      BY <1>2, <2>1 DEF ChatInv, ExchangeInv
    <3>2. cli.context.origin = 1 \/ cli.context = NoContext
      BY DEF ChatInv, Remembered
    <3> QED
      BY <3>1, <3>2, NoContextIs DEF ChatHistory, history
  <2>2. run.input \in Inputs
    BY <1>2 DEF ChatInv, ExchangeInv
  <2> QED
    BY <1>2, <1>5, <2>1, <2>2 DEF ExchangeInv
<1>12. EndInv' /\ AnswerInv'
  BY <1>6, <1>9 DEF EndInv, AnswerInv
<1>13. HeardInv'
  BY <1>2, <1>5, <1>9 DEF ChatInv, HeardInv
<1> QED
  BY <1>7, <1>8, <1>10, <1>11, <1>12, <1>13 DEF ChatInv

\* What stays true of an exchange when its run goes on, whatever it puts on the queue.
LEMMA RunGoesOn ==
    ASSUME ChatInv, UNCHANGED <<args, cli, locals, processor, log>>,
           NEW pc \in RunPlaces \ {"none", "set_up"},
           run.pc \notin {"none", "set_up"},
           \/ run' = [run EXCEPT !.pc = pc]
           \/ run' = [run EXCEPT !.told = @ + 1] /\ pc = run.pc,
           channel' \in [queue : Seq(Messages), last_item_sent : BOOLEAN, next_index : Nat]
    PROVE  /\ ChatTypeOK' /\ Remembered(cli.context)' /\ ExchangeInv'
           /\ run'.pc = pc /\ PrepareChatContext' = PrepareChatContext
<1>1. ChatTypeOK
  BY DEF ChatInv
<1>2. /\ run' \in [pc : RunPlaces, input : Inputs \cup {None}, context : Contexts,
                   sly : SUBSET SlyKeys, origin : Nat, memory : Seq(Inputs), told : Nat]
      /\ run'.pc = pc /\ run'.input = run.input /\ run'.context = run.context
      /\ run'.origin = run.origin /\ run'.memory = run.memory
  BY <1>1, RunTypes
<1>3. ChatTypeOK'
  BY <1>1, <1>2 DEF ChatTypeOK
<1>4. Remembered(cli.context)'
  BY RememberedStays DEF ChatInv
<1>5. ExchangeInv'
  BY <1>2 DEF ChatInv, ExchangeInv
<1> QED
  BY <1>2, <1>3, <1>4, <1>5 DEF PrepareChatContext

LEMMA PutIs ==
    ASSUME ChatTypeOK, ~channel.last_item_sent, NEW m \in Messages, Put(m)
    PROVE  /\ channel'.queue = Append(channel.queue, m)
           /\ channel'.last_item_sent = FALSE
           /\ channel' \in [queue : Seq(Messages), last_item_sent : BOOLEAN, next_index : Nat]
<1> DEFINE more == Append(channel.queue, m)
<1>1. more \in Seq(Messages)
  BY RunTypes
<1>2. channel' = [channel EXCEPT !.queue = more]
  BY DEF Put
<1>3. channel \in [queue : Seq(Messages), last_item_sent : BOOLEAN, next_index : Nat]
  BY RunTypes
<1>4. channel.last_item_sent = FALSE
  BY <1>3
<1> HIDE DEF more
<1>5. /\ channel'.queue = more /\ channel'.last_item_sent = FALSE
      /\ channel' \in [queue : Seq(Messages), last_item_sent : BOOLEAN, next_index : Nat]
  BY ONLY <1>1, <1>2, <1>3, <1>4
<1> QED
  BY <1>5 DEF more

LEMMA TellStep ==
    ASSUME ChatInv, Tell
    PROVE  ChatInv'
<1>1. /\ run.pc = "running" /\ run' = [run EXCEPT !.told = @ + 1]
      /\ UNCHANGED <<args, cli, locals, processor, log>>
  BY DEF Tell
<1>2. PICK m \in {Progress, Aloud} : Put(m)
  BY DEF Tell
<1>3. /\ ~channel.last_item_sent
      /\ cli.pc \notin {"open", "handshake", "function", "prompt"}
      /\ \A k \in DOMAIN channel.queue : channel.queue[k].type \notin {"answer", "end"}
      /\ cli.pc = "receive" /\ locals.heard => locals.context = NoContext
  BY <1>1, NothingSent
<1>4. m \in Messages /\ m.type \notin {"answer", "end"}
  BY <1>2, PlainMessages
<1>5. ChatTypeOK
  BY DEF ChatInv
<1>6. /\ channel'.queue = Append(channel.queue, m)
      /\ channel'.last_item_sent = FALSE
      /\ channel' \in [queue : Seq(Messages), last_item_sent : BOOLEAN, next_index : Nat]
  BY <1>2, <1>3, <1>4, <1>5, PutIs
<1>7. \A k \in DOMAIN channel'.queue : channel'.queue[k].type \notin {"answer", "end"}
  BY <1>3, <1>4, <1>5, <1>6, QueueNext, RunTypes
<1>8. /\ ChatTypeOK' /\ Remembered(cli.context)' /\ ExchangeInv' /\ run'.pc = run.pc
  <2>1. run.pc \in RunPlaces \ {"none", "set_up"}
    BY <1>1 DEF RunPlaces
  <2> QED
    BY <1>1, <1>6, <2>1, RunGoesOn
<1>9. IdleInv' /\ EndInv' /\ AnswerInv'
  BY <1>1, <1>3, <1>6, <1>7 DEF IdleInv, EndInv, AnswerInv
<1>10. HeardInv'
  BY <1>1, <1>3, <1>8 DEF ChatInv, HeardInv
<1> QED
  BY <1>8, <1>9, <1>10 DEF ChatInv

LEMMA WriteAnswerStep ==
    ASSUME ChatInv, WriteAnswer
    PROVE  ChatInv'
<1>1. /\ run.pc = "running" /\ run' = [run EXCEPT !.pc = "answered"]
      /\ UNCHANGED <<args, cli, locals, processor, log>>
  BY DEF WriteAnswer
<1>2. PICK back \in SUBSET SlyKeys :
        Put(Answer(run.input, PrepareChatContext, IF back = {} THEN None ELSE back))
  BY DEF WriteAnswer
<1> DEFINE m == Answer(run.input, PrepareChatContext, IF back = {} THEN None ELSE back)
<1>3. /\ ~channel.last_item_sent
      /\ cli.pc \notin {"open", "handshake", "function", "prompt"}
      /\ \A k \in DOMAIN channel.queue : channel.queue[k].type \notin {"answer", "end"}
      /\ cli.pc = "receive" /\ locals.heard => locals.context = NoContext
  BY <1>1, NothingSent
<1>5. ChatTypeOK
  BY DEF ChatInv
<1>4. m \in Messages /\ m.type = "answer" /\ m.context = PrepareChatContext
  <2>1. run.input \in Inputs
    BY <1>1 DEF ChatInv, ExchangeInv
  <2>2. PrepareChatContext \in Contexts
    BY <1>5, <2>1, RunTypes DEF PrepareChatContext, Contexts
  <2> QED
    BY <2>1, <2>2 DEF Answer, Messages, Backs
<1> HIDE DEF m
<1>6. /\ channel'.queue = Append(channel.queue, m)
      /\ channel'.last_item_sent = FALSE
      /\ channel' \in [queue : Seq(Messages), last_item_sent : BOOLEAN, next_index : Nat]
  <2>1. Put(m)
    BY <1>2 DEF m
  <2> QED
    BY <1>3, <1>4, <1>5, <2>1, PutIs
<1>7. /\ \A k \in DOMAIN channel'.queue : channel'.queue[k].type # "end"
      /\ \A k \in DOMAIN channel'.queue :
            channel'.queue[k].type = "answer" => channel'.queue[k].context = PrepareChatContext
      /\ \E k \in DOMAIN channel'.queue : channel'.queue[k].type = "answer"
  <2>1. /\ DOMAIN channel.queue = 1 .. Len(channel.queue)
        /\ DOMAIN channel'.queue = 1 .. Len(channel.queue) + 1
        /\ channel'.queue[Len(channel.queue) + 1] = m
        /\ \A k \in DOMAIN channel.queue : channel'.queue[k] = channel.queue[k]
        /\ Len(channel.queue) \in Nat
    BY <1>4, <1>5, <1>6, QueueNext, RunTypes
  <2> QED
    BY <1>3, <1>4, <2>1
<1>8. /\ ChatTypeOK' /\ Remembered(cli.context)' /\ ExchangeInv' /\ run'.pc = "answered"
      /\ PrepareChatContext' = PrepareChatContext
  <2>1. "answered" \in RunPlaces \ {"none", "set_up"}
    BY DEF RunPlaces
  <2> QED
    BY <1>1, <1>6, <2>1, RunGoesOn
<1>9. IdleInv' /\ EndInv' /\ AnswerInv'
  BY <1>1, <1>3, <1>6, <1>7, <1>8 DEF IdleInv, EndInv, AnswerInv
<1>10. HeardInv'
  BY <1>1, <1>3, <1>7, <1>8 DEF ChatInv, HeardInv
<1> QED
  BY <1>8, <1>9, <1>10 DEF ChatInv

LEMMA WriteRefusalStep ==
    ASSUME ChatInv, WriteRefusal
    PROVE  ChatInv'
<1>1. /\ run.pc = "refusing" /\ run' = [run EXCEPT !.pc = "refused"]
      /\ Put(Refusal)
      /\ UNCHANGED <<args, cli, locals, processor, log>>
  BY DEF WriteRefusal
<1>2. /\ ~channel.last_item_sent
      /\ cli.pc \notin {"open", "handshake", "function", "prompt"}
      /\ \A k \in DOMAIN channel.queue : channel.queue[k].type \notin {"answer", "end"}
      /\ cli.pc = "receive" /\ locals.heard => locals.context = NoContext
  BY <1>1, NothingSent
<1>3. ChatTypeOK
  BY DEF ChatInv
<1>4. /\ channel'.queue = Append(channel.queue, Refusal)
      /\ channel'.last_item_sent = FALSE
      /\ channel' \in [queue : Seq(Messages), last_item_sent : BOOLEAN, next_index : Nat]
  BY <1>1, <1>2, <1>3, PlainMessages, PutIs
<1>5. \A k \in DOMAIN channel'.queue : channel'.queue[k].type \notin {"answer", "end"}
  BY <1>2, <1>3, <1>4, PlainMessages, QueueNext, RunTypes
<1>6. /\ ChatTypeOK' /\ Remembered(cli.context)' /\ ExchangeInv' /\ run'.pc = "refused"
  <2>1. "refused" \in RunPlaces \ {"none", "set_up"}
    BY DEF RunPlaces
  <2> QED
    BY <1>1, <1>4, <2>1, RunGoesOn
<1>7. IdleInv' /\ EndInv' /\ AnswerInv'
  BY <1>1, <1>2, <1>4, <1>5 DEF IdleInv, EndInv, AnswerInv
<1>8. HeardInv'
  BY <1>1, <1>2, <1>6 DEF ChatInv, HeardInv
<1> QED
  BY <1>6, <1>7, <1>8 DEF ChatInv

LEMMA CrashStep ==
    ASSUME ChatInv, Crash
    PROVE  ChatInv'
<1>1. /\ run.pc = "running" /\ run' = [run EXCEPT !.pc = "dead"]
      /\ UNCHANGED <<args, cli, locals, processor, channel, log>>
  BY DEF Crash
<1>2. /\ ~channel.last_item_sent
      /\ cli.pc \notin {"open", "handshake", "function", "prompt"}
      /\ \A k \in DOMAIN channel.queue : channel.queue[k].type \notin {"answer", "end"}
      /\ cli.pc = "receive" /\ locals.heard => locals.context = NoContext
  BY <1>1, NothingSent
<1>3. ChatTypeOK
  BY DEF ChatInv
<1>4. /\ ChatTypeOK' /\ Remembered(cli.context)' /\ ExchangeInv' /\ run'.pc = "dead"
  <2>1. "dead" \in RunPlaces \ {"none", "set_up"}
    BY DEF RunPlaces
  <2>2. channel' \in [queue : Seq(Messages), last_item_sent : BOOLEAN, next_index : Nat]
    BY <1>1, <1>3, RunTypes
  <2> QED
    BY <1>1, <2>1, <2>2, RunGoesOn
<1>5. IdleInv' /\ EndInv' /\ AnswerInv'
  BY <1>1, <1>2 DEF IdleInv, EndInv, AnswerInv
<1>6. HeardInv'
  BY <1>1, <1>2, <1>4 DEF ChatInv, HeardInv
<1> QED
  BY <1>4, <1>5, <1>6 DEF ChatInv

\* The queue of an exchange is closed: nothing but the end comes to it, and maybe a line
\* that says why.
LEMMA ClosingStep ==
    ASSUME ChatInv, run.pc \in {"answered", "refused", "dead"},
           ~channel.last_item_sent,
           UNCHANGED <<args, cli, locals, processor, run, log>>,
           NEW line \in {<<>>, <<Progress>>},
           channel' = [channel EXCEPT !.queue = @ \o line \o <<EndMessage>>,
                                      !.last_item_sent = TRUE]
    PROVE  ChatInv'
<1>1. ChatTypeOK
  BY DEF ChatInv
<1>2. /\ cli.pc \notin {"open", "handshake", "function", "prompt"}
      /\ \A k \in DOMAIN channel.queue : channel.queue[k].type # "end"
  BY RunIsInExchange
<1> DEFINE closed == channel.queue \o line \o <<EndMessage>>
           n == Len(channel.queue)
           l == Len(line)
<1>3. line \in Seq(Messages) /\ l \in {0, 1} /\ \A k \in 1 .. l : line[k] = Progress
  <2>1. CASE line = <<>>
    BY <2>1
  <2>2. CASE line = <<Progress>>
    BY <2>2, PlainMessages
  <2> QED
    BY <2>1, <2>2
<1>4. /\ closed \in Seq(Messages)
      /\ n \in Nat /\ DOMAIN channel.queue = 1 .. n
      /\ Len(closed) = n + l + 1 /\ DOMAIN closed = 1 .. n + l + 1
      /\ \A k \in 1 .. n : closed[k] = channel.queue[k]
      /\ \A k \in n + 1 .. n + l : closed[k] = Progress
      /\ closed[n + l + 1] = EndMessage
  BY <1>1, <1>3, PlainMessages, RunTypes
<1> HIDE DEF closed, n, l
<1>5. /\ channel'.queue = closed /\ channel'.last_item_sent = TRUE
      /\ channel' \in [queue : Seq(Messages), last_item_sent : BOOLEAN, next_index : Nat]
  <2>1. channel' = [channel EXCEPT !.queue = closed, !.last_item_sent = TRUE]
    BY DEF closed
  <2>2. channel \in [queue : Seq(Messages), last_item_sent : BOOLEAN, next_index : Nat]
    BY <1>1, RunTypes
  <2> QED
    BY ONLY <1>4, <2>1, <2>2
<1>6. ChatTypeOK'
  BY <1>1, <1>5 DEF ChatTypeOK
<1>7. Remembered(cli.context)'
  BY RememberedStays DEF ChatInv
<1>8. IdleInv' /\ ExchangeInv'
  BY <1>2 DEF ChatInv, IdleInv, ExchangeInv
<1>9. \A k \in DOMAIN closed :
        \/ k \in DOMAIN channel.queue /\ closed[k] = channel.queue[k]
        \/ closed[k].type = "progress"
        \/ k = Len(closed) /\ closed[k].type = "end"
  BY <1>3, <1>4, PlainMessages
<1>10. EndInv'
  <2>1. \A k \in DOMAIN closed : closed[k].type = "end" => k = Len(closed)
    BY <1>2, <1>9
  <2> QED
    BY <1>5, <2>1 DEF EndInv
<1>11. PrepareChatContext' = PrepareChatContext
  BY DEF PrepareChatContext
<1>12. AnswerInv'
  BY <1>5, <1>9, <1>11 DEF ChatInv, AnswerInv
<1>13. HeardInv'
  <2>1. \A k \in DOMAIN channel.queue : k \in DOMAIN closed /\ closed[k] = channel.queue[k]
    BY <1>3, <1>4
  <2> QED
    BY <1>5, <1>11, <2>1 DEF ChatInv, HeardInv
<1> QED
  BY <1>6, <1>7, <1>8, <1>10, <1>12, <1>13 DEF ChatInv

LEMMA ChatStutters ==
    ASSUME ChatInv, UNCHANGED chatVars
    PROVE  ChatInv'
<1>1. UNCHANGED <<args, cli, locals, processor, run, channel, log>>
  BY DEF chatVars
<1>2. ChatTypeOK'
  BY <1>1 DEF ChatInv, ChatTypeOK
<1>3. Remembered(cli.context)'
  BY <1>1, RememberedStays DEF ChatInv
<1>4. IdleInv' /\ ExchangeInv' /\ EndInv' /\ AnswerInv' /\ HeardInv'
  BY <1>1 DEF ChatInv, IdleInv, ExchangeInv, EndInv, AnswerInv, HeardInv, PrepareChatContext
<1> QED
  BY <1>2, <1>3, <1>4 DEF ChatInv

LEMMA EndsOfRuns ==
    ASSUME ChatInv, FinalizeRun \/ CutOff
    PROVE  ChatInv'
<1>1. ChatTypeOK
  BY DEF ChatInv
<1>2. CASE FinalizeRun /\ channel.last_item_sent
  BY <1>2, ChatStutters DEF FinalizeRun, PutFinalItem, chatVars
<1>3. CASE FinalizeRun /\ ~channel.last_item_sent
  <2>1. channel' = [channel EXCEPT !.queue = Append(@, EndMessage), !.last_item_sent = TRUE]
    BY <1>3 DEF FinalizeRun, PutFinalItem
  <2>2. Append(channel.queue, EndMessage) = channel.queue \o <<>> \o <<EndMessage>>
    BY <1>1, RunTypes, PlainMessages
  <2>3. channel' = [channel EXCEPT !.queue = @ \o <<>> \o <<EndMessage>>, !.last_item_sent = TRUE]
    BY <2>1, <2>2
  <2> QED
    BY <1>3, <2>3, ClosingStep DEF FinalizeRun
<1>4. CASE CutOff
  <2>1. PICK line \in {<<>>, <<Progress>>} :
          channel' = [channel EXCEPT !.queue = @ \o line \o <<EndMessage>>,
                                     !.last_item_sent = TRUE]
    BY <1>4 DEF CutOff
  <2> QED
    BY <1>4, <2>1, ClosingStep DEF CutOff
<1> QED
  BY <1>2, <1>3, <1>4

-----------------------------------------------------------------------------

LEMMA SendStep ==
    ASSUME ChatInv, Send
    PROVE  ChatInv'
<1>1. /\ cli.pc = "prompt" /\ cli.input \notin {None, DefaultInput}
      /\ cli' = [cli EXCEPT !.pc = "receive"]
      /\ processor' = NoReply
      /\ locals' = [NoReply EXCEPT !.context = cli.context, !.answer = cli.answer]
      /\ ResetChannel
      /\ run' = ChatRequest
      /\ UNCHANGED <<args, log>>
  BY DEF Send
<1>2. ChatTypeOK
  BY DEF ChatInv
<1>3. cli \in [pc : CliPlaces, input : Inputs \cup {None}, count : Nat, context : Contexts,
               answer : Inputs \cup {None}, sly : SUBSET SlyKeys]
  BY <1>2 DEF ChatTypeOK
<1>4. /\ cli' \in [pc : CliPlaces, input : Inputs \cup {None}, count : Nat, context : Contexts,
                   answer : Inputs \cup {None}, sly : SUBSET SlyKeys]
      /\ cli'.pc = "receive" /\ cli'.context = cli.context
  BY <1>1, <1>3 DEF CliPlaces
<1>5. locals' \in Replies /\ locals'.context = cli.context /\ locals'.heard = FALSE
  BY <1>1, <1>3, NoReplyIs DEF Replies
<1>6. /\ run' \in [pc : RunPlaces, input : Inputs \cup {None}, context : Contexts,
                   sly : SUBSET SlyKeys, origin : Nat, memory : Seq(Inputs), told : Nat]
      /\ run'.pc = "set_up" /\ run'.input \in Inputs /\ run'.context = cli.context
  <2>1. cli.input \in Inputs /\ cli.context \in Contexts /\ cli.sly \in SUBSET SlyKeys
    BY <1>1, <1>3
  <2>2. run' = [NoRun EXCEPT !.pc = "set_up", !.input = cli.input,
                             !.context = cli.context, !.sly = cli.sly]
    BY <1>1 DEF ChatRequest
  <2> QED
    BY <2>1, <2>2, NoRunIs DEF RunPlaces
<1>7. /\ channel' \in [queue : Seq(Messages), last_item_sent : BOOLEAN, next_index : Nat]
      /\ channel'.queue = <<>> /\ channel'.last_item_sent = FALSE /\ channel'.next_index = 1
  <2>1. CASE args.kind = "direct"
    <3>1. channel' = [channel EXCEPT !.last_item_sent = FALSE, !.next_index = 1]
      BY <1>1, <2>1 DEF ResetChannel, ResetInvocationContext
    <3>2. channel.queue = <<>>
      BY <1>1 DEF ChatInv, IdleInv
    <3>3. channel \in [queue : Seq(Messages), last_item_sent : BOOLEAN, next_index : Nat]
      BY <1>2, RunTypes
    <3> QED
      BY ONLY <3>1, <3>2, <3>3
  <2>2. CASE args.kind # "direct"
    BY <1>1, <2>2 DEF ResetChannel, NewChannel
  <2> QED
    BY <2>1, <2>2
<1>8. ChatTypeOK'
  BY <1>1, <1>2, <1>4, <1>5, <1>6, <1>7, NoReplyIs DEF ChatTypeOK
<1>9. Remembered(cli.context)'
  BY <1>1, <1>4, RememberedStays DEF ChatInv
<1>10. IdleInv' /\ ExchangeInv'
  BY <1>4, <1>6, <1>7 DEF IdleInv, ExchangeInv
<1>11. EndInv' /\ AnswerInv'
  BY <1>7 DEF EndInv, AnswerInv
<1>12. HeardInv'
  BY <1>1, <1>4, <1>5, <1>6, NoReplyIs DEF HeardInv
<1> QED
  BY <1>8, <1>9, <1>10, <1>11, <1>12 DEF ChatInv

LEMMA ProcessIs ==
    ASSUME ChatTypeOK, NEW m \in Messages, ProcessMessage(m)
    PROVE  /\ processor' \in Replies /\ locals' = processor' /\ processor'.heard = TRUE
           /\ processor'.context = IF m.type = "answer" THEN m.context ELSE processor.context
<1>1. processor \in Replies
  BY DEF ChatTypeOK
<1>2. run.input \in Inputs \cup {None}
  BY RunTypes
<1> DEFINE heard == [processor EXCEPT !.heard = TRUE]
           told == ProcessAnswer(heard, m)
<1>3. heard \in Replies /\ heard.heard = TRUE /\ heard.context = processor.context
  BY <1>1 DEF Replies
<1> HIDE DEF heard
<1>4. told \in Replies /\ told.heard = TRUE /\ told.context = processor.context
  BY <1>2, <1>3 DEF ProcessAnswer, Replies
<1>5. processor' = ProcessContext(told, m) /\ locals' = processor'
  BY DEF ProcessMessage, heard
<1> HIDE DEF told
<1>6. CASE m.type = "answer"
  <2>1. m.context \in Contexts /\ m.sly \in Backs
    BY <1>6, MessageIs
  <2>2. PICK sly \in Backs : processor' = [told EXCEPT !.context = m.context, !.sly = sly]
    <3>1. told.sly \in Backs
      BY <1>4 DEF Replies
    <3> QED
      BY <1>5, <1>6, <2>1, <3>1, Zenon DEF ProcessContext, ContextAllowed
  <2> QED
    BY <1>4, <1>5, <1>6, <2>1, <2>2 DEF Replies
<1>7. CASE m.type # "answer"
  BY <1>4, <1>5, <1>7 DEF ProcessContext, ContextAllowed
<1> QED
  BY <1>6, <1>7

\* The client hears a message, or its filter leaves the message out.
LEMMA HearingStep ==
    ASSUME ChatInv, cli.pc = "receive",
           UNCHANGED <<args, cli, run, log>>,
           NEW m \in Messages,
           m.type = "answer" => run.pc = "answered" /\ m.context = PrepareChatContext,
           \/ ProcessMessage(m)
           \/ m.type # "answer" /\ UNCHANGED <<locals, processor>>,
           NEW left \in Seq(Messages), channel' = [channel EXCEPT !.queue = left],
           EndInv', AnswerInv',
           m.type # "answer" /\ (\E k \in DOMAIN channel.queue : channel.queue[k].type = "answer")
                => \E k \in DOMAIN left : left[k].type = "answer"
    PROVE  ChatInv'
<1>1. ChatTypeOK
  BY DEF ChatInv
<1>2. /\ channel' \in [queue : Seq(Messages), last_item_sent : BOOLEAN, next_index : Nat]
      /\ channel'.queue = left /\ channel'.next_index = channel.next_index
  BY <1>1, RunTypes
<1>3. locals' \in Replies /\ processor' \in Replies
  BY <1>1, ProcessIs DEF ChatTypeOK
<1>4. ChatTypeOK'
  BY <1>1, <1>2, <1>3 DEF ChatTypeOK
<1>5. Remembered(cli.context)'
  BY RememberedStays DEF ChatInv
<1>6. IdleInv' /\ ExchangeInv'
  BY <1>2 DEF ChatInv, IdleInv, ExchangeInv
<1>7. PrepareChatContext' = PrepareChatContext
  BY DEF PrepareChatContext
<1>8. HeardInv'
  <2>1. CASE ProcessMessage(m)
    <3>1. /\ locals' = processor' /\ processor'.heard = TRUE
          /\ processor'.context = IF m.type = "answer" THEN m.context ELSE processor.context
      BY <1>1, <2>1, ProcessIs
    <3>2. CASE m.type = "answer"
      BY <1>7, <3>1, <3>2 DEF ChatInv, HeardInv
    <3>3. CASE m.type # "answer"
      <4>1. processor'.context = processor.context /\ processor.heard = locals.heard
        BY <3>1, <3>3 DEF ChatInv, HeardInv
      <4>2. \/ locals'.context = NoContext
            \/ run.pc = "answered" /\ locals'.context = PrepareChatContext
        BY <3>1, <4>1 DEF ChatInv, HeardInv
      <4>3. run.pc = "answered" =>
              \/ \E k \in DOMAIN left : left[k].type = "answer"
              \/ locals'.context = PrepareChatContext
        BY <3>1, <3>3, <4>1 DEF ChatInv, HeardInv
      <4> QED
        BY <1>2, <1>7, <3>1, <4>2, <4>3 DEF HeardInv
    <3> QED
      BY <3>2, <3>3
  <2>2. CASE m.type # "answer" /\ UNCHANGED <<locals, processor>>
    BY <1>2, <1>7, <2>2 DEF ChatInv, HeardInv
  <2> QED
    BY <2>1, <2>2
<1> QED
  BY <1>4, <1>5, <1>6, <1>8 DEF ChatInv

LEMMA ReadMessageStep ==
    ASSUME ChatInv, ReadMessage
    PROVE  ChatInv'
<1> DEFINE m == Head(channel.queue)
           left == Tail(channel.queue)
           n == Len(channel.queue)
<1>1. ChatTypeOK
  BY DEF ChatInv
<1>2. /\ cli.pc = "receive" /\ channel.queue # <<>> /\ m.type # "end"
      /\ channel' = [channel EXCEPT !.queue = left]
      /\ IF AllowMessage(m) THEN ProcessMessage(m) ELSE UNCHANGED <<locals, processor>>
      /\ UNCHANGED <<args, cli, run, log>>
  BY DEF ReadMessage
<1>3. /\ n \in Nat \ {0} /\ DOMAIN channel.queue = 1 .. n
      /\ m \in Messages /\ m = channel.queue[1]
      /\ left \in Seq(Messages) /\ Len(left) = n - 1 /\ DOMAIN left = 1 .. n - 1
      /\ \A k \in 1 .. n - 1 : left[k] = channel.queue[k + 1]
  BY <1>1, <1>2, RunTypes
<1> HIDE DEF m, left, n
<1>4. channel'.queue = left /\ channel'.last_item_sent = channel.last_item_sent
  BY <1>1, <1>2, RunTypes
<1>5. m.type = "answer" => run.pc = "answered" /\ m.context = PrepareChatContext
  BY <1>3 DEF ChatInv, AnswerInv
<1>6. \/ ProcessMessage(m)
      \/ m.type # "answer" /\ UNCHANGED <<locals, processor>>
  BY <1>2 DEF AllowMessage
<1>7. \A k \in DOMAIN left : k + 1 \in DOMAIN channel.queue /\ left[k] = channel.queue[k + 1]
  BY <1>3
<1>8. EndInv'
  <2>1. \A k \in DOMAIN left : left[k].type = "end" => channel.last_item_sent /\ k = Len(left)
    <3> SUFFICES ASSUME NEW k \in DOMAIN left, left[k].type = "end"
                 PROVE  channel.last_item_sent /\ k = Len(left)
      OBVIOUS
    <3>1. channel.last_item_sent /\ k + 1 = n
      BY <1>7 DEF ChatInv, EndInv, n
    <3> QED
      BY <1>3, <3>1
  <2> QED
    BY <1>2, <1>4, <2>1 DEF ChatInv, EndInv
<1>9. AnswerInv'
  <2>1. PrepareChatContext' = PrepareChatContext
    BY <1>2 DEF PrepareChatContext
  <2>2. \A k \in DOMAIN left :
            left[k].type = "answer" => run.pc = "answered" /\ left[k].context = PrepareChatContext
    BY <1>7 DEF ChatInv, AnswerInv
  <2> QED
    BY <1>2, <1>4, <2>1, <2>2 DEF AnswerInv
<1>10. m.type # "answer" /\ (\E k \in DOMAIN channel.queue : channel.queue[k].type = "answer")
            => \E k \in DOMAIN left : left[k].type = "answer"
  <2> SUFFICES ASSUME m.type # "answer", NEW k \in DOMAIN channel.queue,
                      channel.queue[k].type = "answer"
               PROVE  \E l \in DOMAIN left : left[l].type = "answer"
    OBVIOUS
  <2>1. k # 1 /\ k \in 1 .. n
    BY <1>3
  <2>2. k - 1 \in 1 .. n - 1 /\ (k - 1) + 1 = k
    BY <1>3, <2>1
  <2> QED
    BY <1>3, <2>2
<1> QED
  BY <1>2, <1>3, <1>5, <1>6, <1>8, <1>9, <1>10, HearingStep

LEMMA ToolResultIs ==
    ASSUME NEW queue \in Seq(Messages), queue # <<>>,
           NEW messages, messages = Front(queue), Last(queue) = EndMessage
    PROVE  LET reply == ToolResult(messages)
           IN  /\ reply \in Messages
               /\ reply.type = "answer" =>
                    \E k \in DOMAIN queue : /\ queue[k].type = "answer"
                                            /\ reply.context = queue[k].context
               /\ reply.type # "answer" =>
                    \/ run.pc = "dead"
                    \/ \A k \in DOMAIN queue : queue[k].type # "answer"
<1> DEFINE n == Len(queue)
           reply == ToolResult(messages)
           answers == {i \in DOMAIN messages : AllowMessage(messages[i]) /\ ContextAllowed(messages[i])}
           last == CHOOSE i \in answers : \A j \in answers : j <= i
<1>1. /\ n \in Nat \ {0} /\ DOMAIN queue = 1 .. n /\ queue[n] = EndMessage
      /\ messages \in Seq(Messages) /\ DOMAIN messages = 1 .. n - 1
      /\ \A k \in 1 .. n - 1 : messages[k] = queue[k]
  BY DEF Front, Last
<1>2. answers = {i \in 1 .. n - 1 : queue[i].type = "answer"}
  BY <1>1 DEF AllowMessage, ContextAllowed
<1>3. \A k \in DOMAIN queue : queue[k].type = "answer" => k \in answers
  BY <1>1, <1>2, PlainMessages
<1>4. reply = IF run.pc = "dead" THEN Progress
               ELSE IF answers = {} THEN Refusal
               ELSE [messages[last] EXCEPT !.sly = None]
  BY DEF ToolResult
<1> HIDE DEF n, reply, answers
<1>5. CASE run.pc = "dead"
  BY <1>4, <1>5, PlainMessages DEF reply
<1>6. CASE run.pc # "dead" /\ answers = {}
  BY <1>3, <1>4, <1>6, PlainMessages DEF reply
<1>7. CASE run.pc # "dead" /\ answers # {}
  <2>1. last \in answers
    <3>0. n - 1 \in Nat /\ answers \in SUBSET (1 .. n - 1)
      BY <1>1, <1>2
    <3>1. \E i \in answers : \A j \in answers : j <= i
      BY <1>7, <3>0, GreatestNumber
    <3> QED
      BY <3>1
  <2> HIDE DEF last
  <2>2. /\ last \in DOMAIN queue /\ queue[last].type = "answer"
        /\ messages[last] = queue[last] /\ queue[last] \in Messages
    BY <1>1, <1>2, <2>1
  <2>3. reply = [queue[last] EXCEPT !.sly = None]
    BY <1>4, <1>7, <2>2
  <2>4. queue[last] \in [type : {"answer"}, text : Inputs, context : Contexts, sly : Backs]
    BY <2>2, MessageIs
  <2>5. /\ reply \in [type : {"answer"}, text : Inputs, context : Contexts, sly : Backs]
        /\ reply.type = "answer" /\ reply.context = queue[last].context
    BY <2>3, <2>4 DEF Backs
  <2> QED
    BY <2>2, <2>5 DEF Messages, reply
<1> QED
  BY <1>5, <1>6, <1>7

LEMMA ReadToolResultStep ==
    ASSUME ChatInv, ReadToolResult
    PROVE  ChatInv'
<1> DEFINE m == ToolResult(Front(channel.queue))
           left == <<EndMessage>>
<1>1. ChatTypeOK
  BY DEF ChatInv
<1>2. /\ cli.pc = "receive" /\ channel.queue # <<>> /\ Last(channel.queue) = EndMessage
      /\ ProcessMessage(m)
      /\ channel' = [channel EXCEPT !.queue = left]
      /\ UNCHANGED <<args, cli, run, log>>
  BY DEF ReadToolResult
<1>3. /\ m \in Messages
      /\ m.type = "answer" => \E k \in DOMAIN channel.queue :
            channel.queue[k].type = "answer" /\ m.context = channel.queue[k].context
      /\ m.type # "answer" => \/ run.pc = "dead"
                              \/ \A k \in DOMAIN channel.queue : channel.queue[k].type # "answer"
  BY <1>1, <1>2, RunTypes, ToolResultIs
<1> HIDE DEF m
<1>4. left \in Seq(Messages) /\ Len(left) = 1 /\ DOMAIN left = {1} /\ left[1].type = "end"
  BY PlainMessages
<1> HIDE DEF left
<1>5. channel'.queue = left /\ channel'.last_item_sent = channel.last_item_sent
  BY <1>1, <1>2, RunTypes
<1>6. m.type = "answer" => run.pc = "answered" /\ m.context = PrepareChatContext
  BY <1>3 DEF ChatInv, AnswerInv
<1>7. EndInv'
  <2>1. /\ Len(channel.queue) \in DOMAIN channel.queue
        /\ channel.queue[Len(channel.queue)].type = "end"
    BY <1>1, <1>2, RunTypes, PlainMessages DEF Last
  <2>2. channel.last_item_sent
    BY <2>1 DEF ChatInv, EndInv
  <2> QED
    BY <1>2, <1>4, <1>5, <2>2 DEF ChatInv, EndInv
<1>8. AnswerInv'
  BY <1>4, <1>5 DEF AnswerInv
<1>9. m.type # "answer" => \A k \in DOMAIN channel.queue : channel.queue[k].type # "answer"
  BY <1>3 DEF ChatInv, AnswerInv
<1> QED
  BY <1>2, <1>3, <1>4, <1>6, <1>7, <1>8, <1>9, HearingStep

\* An exchange comes to its end: what the client's state takes over is remembered.
LEMMA FinishStep ==
    ASSUME ChatInv, Finish
    PROVE  ChatInv'
<1>e. PICK e : e = [input |-> run.input, fate |-> run.pc, heard |-> locals.heard]
  OBVIOUS
<1>1. ChatTypeOK
  BY DEF ChatInv
<1>2. /\ cli.pc = "receive" /\ channel.queue # <<>> /\ Head(channel.queue) = EndMessage
      /\ channel' = [channel EXCEPT !.queue = Tail(@)]
      /\ cli' = [pc |-> WriteResponse(locals.answer),
                 input |-> None, count |-> cli.count + 1,
                 context |-> locals.context, answer |-> locals.answer,
                 sly |-> IF locals.sly = None THEN cli.sly ELSE cli.sly \cup locals.sly]
      /\ log' = Append(log, e)
      /\ UNCHANGED <<args, locals, processor, run>>
  BY <1>e DEF Finish
<1>3. /\ DOMAIN channel.queue = {1} /\ channel.queue[1].type = "end" /\ Tail(channel.queue) = <<>>
      /\ channel.last_item_sent
  <2>1. /\ 1 \in DOMAIN channel.queue /\ channel.queue[1].type = "end"
        /\ Len(channel.queue) \in Nat
    BY <1>1, <1>2, RunTypes, PlainMessages
  <2>2. Len(channel.queue) = 1 /\ channel.last_item_sent
    BY <2>1 DEF ChatInv, EndInv
  <2>3. PICK queue \in Seq(Messages) : queue = channel.queue
    BY <1>1, RunTypes
  <2>4. DOMAIN queue = {1} /\ Tail(queue) = <<>>
    <3>1. Len(queue) = 1 /\ queue # <<>>
      BY <1>2, <2>2, <2>3
    <3>2. Tail(queue) \in Seq(Messages) /\ Len(Tail(queue)) = 0
      BY <3>1
    <3>3. Tail(queue) = <<>>
      BY <3>2, EmptySeq
    <3>4. DOMAIN queue = 1 .. 1
      BY <3>1
    <3> QED
      BY <3>3, <3>4
  <2> QED
    BY <2>1, <2>2, <2>3, <2>4
<1>4. /\ channel' \in [queue : Seq(Messages), last_item_sent : BOOLEAN, next_index : Nat]
      /\ channel'.queue = <<>> /\ channel'.last_item_sent
  <2>1. <<>> \in Seq(Messages)
    OBVIOUS
  <2>2. channel' = [channel EXCEPT !.queue = <<>>]
    BY <1>2, <1>3
  <2>3. channel \in [queue : Seq(Messages), last_item_sent : BOOLEAN, next_index : Nat]
    BY <1>1, RunTypes
  <2> QED
    BY <1>3, <2>1, <2>2, <2>3
<1>5. /\ run.pc \in {"answered", "refused", "dead"} /\ run.input \in Inputs
      /\ run.origin = 1 /\ run.memory = cli.context.history
  BY <1>2, <1>3 DEF ChatInv, EndInv, ExchangeInv
<1>6. /\ run.pc = "answered" => locals.heard /\ locals.context = PrepareChatContext
      /\ run.pc # "answered" /\ locals.heard => locals.context = NoContext
      /\ ~locals.heard => locals.context = cli.context
  BY <1>2, <1>3 DEF ChatInv, HeardInv
<1>7. /\ cli.count \in Nat /\ cli.sly \in SUBSET SlyKeys /\ cli.context \in Contexts
      /\ locals.context \in Contexts /\ locals.answer \in Inputs \cup {None}
      /\ locals.sly \in Backs /\ locals.heard \in BOOLEAN
      /\ log \in Seq(Entries)
  BY <1>1 DEF ChatTypeOK, Replies
<1>8. e \in Entries /\ e.input = run.input /\ (Answered(e) <=> run.pc = "answered")
      /\ (TookMemoryAway(e) <=> locals.heard /\ run.pc # "answered")
  BY <1>5, <1>7, <1>e DEF Entries, RunPlaces, Answered, TookMemoryAway
<1>9. log' \in Seq(Entries)
  BY <1>2, <1>7, <1>8
<1>10. /\ cli'.pc \in {"prompt", "failed"} /\ cli'.context = locals.context
       /\ cli' \in [pc : CliPlaces, input : Inputs \cup {None}, count : Nat, context : Contexts,
                    answer : Inputs \cup {None}, sly : SUBSET SlyKeys]
  <2>1. WriteResponse(locals.answer) \in {"prompt", "failed"}
    BY DEF WriteResponse
  <2>2. (IF locals.sly = None THEN cli.sly ELSE cli.sly \cup locals.sly) \in SUBSET SlyKeys
    BY <1>7 DEF Backs
  <2> QED
    BY <1>2, <1>7, <2>1, <2>2 DEF CliPlaces
<1>11. ChatTypeOK'
  BY <1>1, <1>2, <1>4, <1>9, <1>10 DEF ChatTypeOK
<1>12. Remembered(cli.context)'
  <2>1. PICK history \in Seq(Inputs) : history = cli.context.history
    BY <1>7 DEF Contexts
  <2>2. IsWhatWasSaid(history)
    BY <2>1 DEF ChatInv, Remembered
  <2>3. CASE run.pc = "answered"
    <3>1. Kept' = Kept \cup {Len(log) + 1}
      BY <1>2, <1>7, <1>8, <2>3, KeptNext
    <3>2. IsWhatWasSaid(Append(history, e.input))'
      BY <1>2, <1>7, <1>8, <2>2, <3>1, OneMoreIsSaid
    <3>3. PICK more : more = Append(history, e.input)
      OBVIOUS
    <3>4. IsWhatWasSaid(more)'
      BY <3>2, <3>3
    <3>5. cli'.context.origin = 1 /\ cli'.context.history = more
      BY <1>5, <1>6, <1>8, <1>10, <2>1, <2>3, <3>3 DEF PrepareChatContext
    <3> QED
      BY <3>4, <3>5 DEF Remembered
  <2>4. CASE run.pc # "answered" /\ locals.heard
    <3>1. Kept' = {}
      BY <1>2, <1>7, <1>8, <2>4, KeptNext
    <3> QED
      BY <1>6, <1>10, <2>4, <3>1, NothingIsSaidNext, NoContextIs DEF Remembered
  <2>5. CASE run.pc # "answered" /\ ~locals.heard
    <3>1. Kept' = Kept
      BY <1>2, <1>7, <1>8, <2>5, KeptNext
    <3>2. IsWhatWasSaid(history)'
      BY <1>2, <1>7, <1>8, <2>2, <3>1, SaidStays
    <3>3. cli'.context = cli.context
      BY <1>6, <1>10, <2>5
    <3> QED
      BY <2>1, <3>2, <3>3 DEF ChatInv, Remembered
  <2> QED
    BY <2>3, <2>4, <2>5
<1>13. IdleInv' /\ ExchangeInv' /\ HeardInv'
  BY <1>2, <1>4, <1>5, <1>10 DEF IdleInv, ExchangeInv, HeardInv
<1>14. EndInv' /\ AnswerInv'
  BY <1>2, <1>4, <1>5 DEF EndInv, AnswerInv
<1> QED
  BY <1>11, <1>12, <1>13, <1>14 DEF ChatInv

-----------------------------------------------------------------------------

LEMMA ChatInvariant == ChatSpec => []ChatInv
<1>1. ChatInit => ChatInv
  BY ChatInitInv
<1>2. ChatInv /\ [ChatNext]_chatVars => ChatInv'
  <2> SUFFICES ASSUME ChatInv, [ChatNext]_chatVars PROVE ChatInv'
    OBVIOUS
  <2>1. CASE Opening
    BY <2>1, OpeningStep
  <2>2. CASE Leave \/ TakeInput \/ IgnoreDefault \/ Break
    BY <2>2, LoopSteps
  <2>3. CASE Send
    BY <2>3, SendStep
  <2>4. CASE SetUp \/ Tell \/ WriteAnswer \/ WriteRefusal \/ Crash
    BY <2>4, SetUpStep, TellStep, WriteAnswerStep, WriteRefusalStep, CrashStep
  <2>5. CASE FinalizeRun \/ CutOff
    BY <2>5, EndsOfRuns
  <2>6. CASE ReadMessage \/ ReadToolResult \/ Finish
    BY <2>6, ReadMessageStep, ReadToolResultStep, FinishStep
  <2>7. CASE UNCHANGED chatVars
    BY <2>7, ChatStutters
  <2> QED
    BY <2>1, <2>2, <2>3, <2>4, <2>5, <2>6, <2>7 DEF ChatNext, RunStep, ReadStep
<1> QED
  BY <1>1, <1>2, PTL DEF ChatSpec

\* The variables of AgentCli, its processors, the run and its queue keep their types
\* (src/neuro_san/client/agent_cli.py, streaming_input_processor.py).
THEOREM ChatTypes == ChatSpec => []ChatTypeOK
<1>1. ChatInv => ChatTypeOK
  BY DEF ChatInv
<1> QED
  BY <1>1, ChatInvariant, PTL

\* The front man remembers what was said since the conversation was last broken off
\* (SessionInvocationContext.reset(), LangChainRunContext.update_from_chat_context()),
\* for any number of exchanges, inputs and messages of a run.
THEOREM WhatWasSaidIsRemembered == ChatSpec => []ConversationGoesOn
<1>1. ChatInv => ConversationGoesOn
  BY DEF ChatInv, ExchangeInv, Remembered, ConversationGoesOn
<1> QED
  BY <1>1, ChatInvariant, PTL

(***************************************************************************)
(* Sequences: steps that are repeated, lists that are joined and flattened. *)
(***************************************************************************)

\* Whatever is computed step by step has a value at each step.
AreSteps(Step, n, S) == Step \in [1 .. n -> [S -> S]]
Follows(f, n, S, first, Step) ==
    f \in [0 .. n -> S] /\ f[0] = first /\ \A d \in 1 .. n : f[d] = Step[d][f[d - 1]]

LEMMA Iterates ==
    ASSUME NEW n, n \in Nat, NEW S, NEW first, first \in S, NEW Step, AreSteps(Step, n, S)
    PROVE  \E f : Follows(f, n, S, first, Step)
<1> DEFINE Computes(f, m) == f[0] = first /\ \A d \in 1 .. m : f[d] = Step[d][f[d - 1]]
           T == {m \in 0 .. n : ~ \E f \in [0 .. m -> S] : Computes(f, m)}
<1>1. SUFFICES ASSUME T # {} PROVE FALSE
  <2>1. n \in 0 .. n
    OBVIOUS
  <2>2. n \notin T => \E f \in [0 .. n -> S] : Computes(f, n)
    BY <2>1
  <2> HIDE DEF T
  <2> QED
    BY <2>2 DEF Follows
<1>2. PICK m \in T : \A k \in T : m <= k
  <2>1. T \in SUBSET Nat
    OBVIOUS
  <2> HIDE DEF T
  <2> QED
    BY <1>1, <2>1, LeastNumber
<1>3. m # 0
  <2> SUFFICES ASSUME m = 0 PROVE FALSE
    OBVIOUS
  <2>1. PICK f : f = [d \in 0 .. 0 |-> first]
    OBVIOUS
  <2>2. f \in [0 .. 0 -> S] /\ Computes(f, 0)
    BY <2>1
  <2>3. ~ \E g \in [0 .. 0 -> S] : Computes(g, 0)
    OBVIOUS
  <2> HIDE DEF Computes, T
  <2> QED
    BY ONLY <2>2, <2>3
<1>4. m \in 1 .. n /\ m - 1 \in 0 .. n /\ m - 1 \notin T
  <2>1. m \in 0 .. n
    OBVIOUS
  <2>2. m \in 1 .. n /\ m - 1 \in 0 .. n /\ ~(m <= m - 1)
    BY <1>3, <2>1
  <2> QED
    BY <1>2, <2>2
<1>5. PICK g \in [0 .. m - 1 -> S] : Computes(g, m - 1)
  BY <1>4
<1> DEFINE f == [d \in 0 .. m |-> IF d = m THEN Step[m][g[m - 1]] ELSE g[d]]
<1>6. g[m - 1] \in S /\ Step[m] \in [S -> S]
  BY <1>4, <1>5 DEF AreSteps
<1>7. f \in [0 .. m -> S]
  BY <1>4, <1>5, <1>6
<1>8. f[0] = first
  BY <1>4, <1>5
<1>9. ASSUME NEW d \in 1 .. m PROVE f[d] = Step[d][f[d - 1]]
  <2>1. CASE d = m
    BY <1>4, <2>1
  <2>2. CASE d # m
    <3>1. d \in 1 .. m - 1 /\ d \in 0 .. m /\ d - 1 \in 0 .. m - 1 /\ d - 1 \in 0 .. m /\ d - 1 # m
      BY <1>4, <2>2
    <3>2. f[d] = g[d] /\ f[d - 1] = g[d - 1]
      BY <2>2, <3>1
    <3>3. g[d] = Step[d][g[d - 1]]
      BY <1>5, <3>1
    <3> QED
      BY <3>2, <3>3
  <2> QED
    BY <2>1, <2>2
<1>10. Computes(f, m)
  BY <1>8, <1>9
<1> HIDE DEF f, Computes
<1> QED
  BY <1>2, <1>7, <1>10

\* What holds at the beginning and at each next step holds at each step.
LEMMA HoldsAtEachStep ==
    ASSUME NEW n \in Nat, NEW S, NEW f, f[0] \in S, \A k \in 1 .. n : f[k - 1] \in S => f[k] \in S
    PROVE  \A k \in 0 .. n : f[k] \in S
<1> DEFINE T == {k \in 0 .. n : f[k] \notin S}
<1>1. SUFFICES ASSUME T # {} PROVE FALSE
  OBVIOUS
<1>2. PICK k \in T : \A l \in T : k <= l
  <2>1. T \in SUBSET Nat
    OBVIOUS
  <2> HIDE DEF T
  <2> QED
    BY <1>1, <2>1, LeastNumber
<1>3. k \in 1 .. n /\ k - 1 \in 0 .. n /\ ~(k <= k - 1)
  OBVIOUS
<1>4. f[k - 1] \in S
  BY <1>2, <1>3
<1> QED
  BY <1>3, <1>4

\* What holds at the beginning and at each next step, for what each step asks.
LEMMA HoldsStepwise ==
    ASSUME NEW n, n \in Nat, NEW X, NEW f, f[0] \in X[0],
           \A k \in 1 .. n : f[k - 1] \in X[k - 1] => f[k] \in X[k]
    PROVE  \A k \in 0 .. n : f[k] \in X[k]
<1> DEFINE T == {k \in 0 .. n : f[k] \notin X[k]}
<1>1. SUFFICES ASSUME T # {} PROVE FALSE
  OBVIOUS
<1>2. PICK k \in T : \A l \in T : k <= l
  <2>1. T \in SUBSET Nat
    OBVIOUS
  <2> HIDE DEF T
  <2> QED
    BY ONLY <1>1, <2>1, LeastNumber
<1>3. k \in 1 .. n /\ k - 1 \in 0 .. n /\ ~(k <= k - 1)
  OBVIOUS
<1>4. f[k - 1] \in X[k - 1]
  BY <1>2, <1>3
<1> QED
  BY <1>3, <1>4

\* What a list of lists flattens to has nothing that was in none of them.
Flattened(lists) ==
    LET flatten[i \in 1 .. Len(lists)] == IF i = 1 THEN lists[i] ELSE flatten[i - 1] \o lists[i]
    IN  flatten

GrowsBy(all, lists) ==
    all[1] = lists[1] /\ \A i \in 2 .. Len(lists) : all[i] = all[i - 1] \o lists[i]

LEMMA FlattenedIs ==
    ASSUME NEW X, NEW lists, lists \in Seq(Seq(X)), Len(lists) # 0
    PROVE  GrowsBy(Flattened(lists), lists)
<1> SUFFICES ASSUME NEW n, n = Len(lists), n # 0, NEW all, all = Flattened(lists)
             PROVE  all[1] = lists[1] /\ \A i \in 2 .. n : all[i] = all[i - 1] \o lists[i]
  <2>1. PICK n, all : n = Len(lists) /\ all = Flattened(lists)
    OBVIOUS
  <2>2. all[1] = lists[1] /\ \A i \in 2 .. n : all[i] = all[i - 1] \o lists[i]
    BY <2>1
  <2> QED
    BY ONLY <2>1, <2>2 DEF GrowsBy
<1>1. n \in Nat /\ \A k \in 1 .. n : lists[k] \in Seq(X)
  BY ONLY lists \in Seq(Seq(X)), n = Len(lists)
<1> DEFINE Step == [k \in 1 .. n |-> [list \in Seq(X) |-> list \o lists[k]]]
<1>2. AreSteps(Step, n, Seq(X)) /\ <<>> \in Seq(X)
  <2>1. \A k \in 1 .. n : \A list \in Seq(X) : list \o lists[k] \in Seq(X)
    BY <1>1
  <2> QED
    BY <2>1 DEF AreSteps
<1>3. \A k \in 1 .. n : \A list \in Seq(X) : Step[k][list] = list \o lists[k]
  OBVIOUS
<1> HIDE DEF Step
<1>4. PICK g : Follows(g, n, Seq(X), <<>>, Step)
  BY ONLY <1>1, <1>2, Iterates
<1>5. g \in [0 .. n -> Seq(X)] /\ g[0] = <<>> /\ \A k \in 1 .. n : g[k] = g[k - 1] \o lists[k]
  <2>1. g \in [0 .. n -> Seq(X)] /\ g[0] = <<>> /\ \A k \in 1 .. n : g[k] = Step[k][g[k - 1]]
    BY ONLY <1>4 DEF Follows
  <2>2. \A k \in 1 .. n : g[k - 1] \in Seq(X)
    BY ONLY <1>1, <2>1
  <2> QED
    BY ONLY <1>3, <2>1, <2>2
<1>6. PICK h : h = [i \in 1 .. n |-> g[i]]
  OBVIOUS
<1>7. h = [i \in 1 .. n |-> IF i = 1 THEN lists[i] ELSE h[i - 1] \o lists[i]]
  <2>1. ASSUME NEW i \in 1 .. n PROVE g[i] = IF i = 1 THEN lists[i] ELSE h[i - 1] \o lists[i]
    <3>1. CASE i = 1
      <4>1. g[1] = <<>> \o lists[1] /\ lists[1] \in Seq(X)
        <5>1. 1 \in 1 .. n /\ 1 - 1 = 0
          BY ONLY <3>1, i \in 1 .. n
        <5>2. g[1] = g[1 - 1] \o lists[1] /\ lists[1] \in Seq(X)
          BY ONLY <1>1, <1>5, <5>1
        <5> QED
          BY ONLY <1>5, <5>1, <5>2
      <4> QED
        BY ONLY <3>1, <4>1, EmptySeq, ConcatProperties
    <3>2. CASE i # 1
      <4>1. i - 1 \in 1 .. n
        BY ONLY <1>1, <3>2, i \in 1 .. n
      <4> QED
        BY ONLY <1>5, <1>6, <3>2, <4>1, i \in 1 .. n
    <3> QED
      BY <3>1, <3>2
  <2> QED
    BY ONLY <1>6, <2>1
<1>8. all = [i \in 1 .. n |-> IF i = 1 THEN lists[i] ELSE all[i - 1] \o lists[i]]
  BY <1>7, Zenon DEF Flattened
<1>9. 1 \in 1 .. n /\ \A i \in 2 .. n : i \in 1 .. n /\ i # 1
  BY ONLY <1>1, n # 0
<1> QED
  BY ONLY <1>8, <1>9

LEMMA FlattenedHas ==
    ASSUME NEW X, NEW lists, lists \in Seq(Seq(X))
    PROVE  /\ FlattenSeq(lists) \in Seq(X)
           /\ lists # <<>> /\ lists \in Seq(Seq(X) \ {<<>>}) => FlattenSeq(lists) # <<>>
<1> DEFINE n == Len(lists)
           all == Flattened(lists)
<1>1. n \in Nat /\ \A k \in 1 .. n : lists[k] \in Seq(X)
  BY ONLY lists \in Seq(Seq(X))
<1>2. FlattenSeq(lists) = IF n = 0 THEN lists ELSE all[n]
  BY Zenon DEF FlattenSeq, Flattened
<1>3. CASE n = 0
  <2>1. lists = <<>>
    BY ONLY <1>3, EmptySeq, lists \in Seq(Seq(X))
  <2> QED
    BY <1>2, <1>3, <2>1
<1>4. CASE n # 0
  <2>1. all[1] = lists[1] /\ \A i \in 2 .. n : all[i] = all[i - 1] \o lists[i]
    <3>1. GrowsBy(Flattened(lists), lists)
      BY ONLY <1>4, lists \in Seq(Seq(X)), FlattenedIs DEF n
    <3> QED
      BY <3>1 DEF GrowsBy
  <2> HIDE DEF all, n
  <2>2. PICK f : f = [i \in 0 .. n - 1 |-> all[i + 1]]
    OBVIOUS
  <2>3. /\ n - 1 \in Nat /\ n - 1 \in 0 .. n - 1 /\ 0 \in 0 .. n - 1 /\ (n - 1) + 1 = n
        /\ \A k \in 1 .. n - 1 : /\ k \in 0 .. n - 1 /\ k - 1 \in 0 .. n - 1 /\ (k - 1) + 1 = k
                                 /\ k + 1 \in 2 .. n /\ k + 1 \in 1 .. n /\ (k + 1) - 1 = k
    BY ONLY <1>1, <1>4
  <2>4. f[0] = lists[1] /\ f[n - 1] = all[n] /\ 1 \in 1 .. n
        /\ \A k \in 1 .. n - 1 : f[k] = f[k - 1] \o lists[k + 1] /\ lists[k + 1] \in Seq(X)
    <3>1. f[0] = all[1] /\ f[n - 1] = all[n] /\ 1 \in 1 .. n
      BY ONLY <1>1, <1>4, <2>2, <2>3
    <3>2. \A k \in 1 .. n - 1 : f[k] = all[k + 1] /\ f[k - 1] = all[k]
      BY ONLY <2>2, <2>3
    <3>3. \A k \in 1 .. n - 1 : all[k + 1] = all[k] \o lists[k + 1]
      BY ONLY <2>1, <2>3
    <3> QED
      BY ONLY <1>1, <2>1, <2>3, <3>1, <3>2, <3>3
  <2>5. \A k \in 0 .. n - 1 : f[k] \in Seq(X)
    <3>1. f[0] \in Seq(X)
      BY ONLY <1>1, <2>4
    <3>2. ASSUME NEW k \in 1 .. n - 1, f[k - 1] \in Seq(X) PROVE f[k] \in Seq(X)
      <4>1. f[k] = f[k - 1] \o lists[k + 1] /\ lists[k + 1] \in Seq(X)
        BY ONLY <2>4, k \in 1 .. n - 1
      <4> QED
        BY ONLY <3>2, <4>1
    <3>3. PICK m : m = n - 1
      OBVIOUS
    <3>4. m \in Nat /\ \A k \in 1 .. m : f[k - 1] \in Seq(X) => f[k] \in Seq(X)
      BY ONLY <2>3, <3>2, <3>3
    <3>5. \A k \in 0 .. m : f[k] \in Seq(X)
      BY ONLY <3>1, <3>4, HoldsAtEachStep
    <3> QED
      BY ONLY <3>3, <3>5
  <2>6. FlattenSeq(lists) = f[n - 1] /\ f[n - 1] \in Seq(X)
    BY ONLY <1>2, <1>4, <2>3, <2>4, <2>5
  <2>7. ASSUME lists \in Seq(Seq(X) \ {<<>>}) PROVE f[n - 1] # <<>>
    <3>1. \A k \in 1 .. n : lists[k] # <<>> /\ lists[k] \in Seq(X)
      BY ONLY <2>7 DEF n
    <3>2. \A a, b \in Seq(X) : b # <<>> => a \o b # <<>>
      <4> SUFFICES ASSUME NEW a \in Seq(X), NEW b \in Seq(X), b # <<>> PROVE a \o b # <<>>
        OBVIOUS
      <4>1. Len(b) # 0 /\ Len(a) \in Nat /\ Len(b) \in Nat
        BY ONLY a \in Seq(X), b \in Seq(X), b # <<>>, EmptySeq
      <4>2. Len(a \o b) = Len(a) + Len(b)
        BY ONLY a \in Seq(X), b \in Seq(X), ConcatProperties
      <4>3. Len(a \o b) # 0
        BY ONLY <4>1, <4>2
      <4>4. Len(<<>>) = 0
        OBVIOUS
      <4> QED
        BY ONLY <4>3, <4>4
    <3>3. CASE n - 1 = 0
      BY ONLY <2>4, <3>1, <3>3
    <3>4. CASE n - 1 # 0
      <4>1. n - 1 \in 1 .. n - 1
        BY ONLY <2>3, <3>4
      <4>2. f[n - 1] = f[(n - 1) - 1] \o lists[(n - 1) + 1] /\ lists[(n - 1) + 1] \in Seq(X)
            /\ lists[(n - 1) + 1] # <<>> /\ f[(n - 1) - 1] \in Seq(X)
        BY ONLY <2>3, <2>4, <2>5, <3>1, <4>1
      <4> QED
        BY ONLY <3>2, <4>2
    <3> QED
      BY <3>3, <3>4
  <2> QED
    BY <2>6, <2>7
<1> QED
  BY <1>3, <1>4

LEMMA SubsetOfSeq ==
    ASSUME NEW A, NEW B, A \subseteq B, NEW s, s \in Seq(A)
    PROVE  s \in Seq(B)
OBVIOUS

LEMMA WordsOf ==
    ASSUME NEW A, NEW s, s \in Seq(A)
    PROVE  ToSet(s) \subseteq A /\ s \in Seq(ToSet(s))
BY DEF ToSet

LEMMA AppendedHas ==
    ASSUME NEW X, NEW s, s \in Seq(X), NEW e, e \in X
    PROVE  Append(s, e) \in Seq(X) /\ ToSet(Append(s, e)) = ToSet(s) \cup {e}
<1>1. /\ Append(s, e) \in Seq(X) /\ Len(Append(s, e)) = Len(s) + 1 /\ Len(s) \in Nat
      /\ DOMAIN s = 1 .. Len(s) /\ DOMAIN Append(s, e) = 1 .. Len(s) + 1
      /\ Append(s, e)[Len(s) + 1] = e /\ \A i \in 1 .. Len(s) : Append(s, e)[i] = s[i]
  BY ONLY s \in Seq(X), e \in X
<1>2. \A i \in 1 .. Len(s) + 1 : i = Len(s) + 1 \/ i \in 1 .. Len(s)
  BY ONLY <1>1
<1>3. Len(s) + 1 \in 1 .. Len(s) + 1 /\ \A i \in 1 .. Len(s) : i \in 1 .. Len(s) + 1
  BY ONLY <1>1
<1> QED
  BY ONLY <1>1, <1>2, <1>3 DEF ToSet

LEMMA JoinedHas ==
    ASSUME NEW X, NEW tools, tools \in Seq(X), NEW more, more \in Seq(X)
    PROVE  tools \o more \in Seq(X) /\ ToSet(tools \o more) = ToSet(tools) \cup ToSet(more)
<1> DEFINE all == tools \o more
<1>1. /\ all \in Seq(X) /\ Len(all) = Len(tools) + Len(more)
      /\ \A j \in 1 .. Len(tools) + Len(more) :
            all[j] = IF j <= Len(tools) THEN tools[j] ELSE more[j - Len(tools)]
  BY ONLY tools \in Seq(X), more \in Seq(X), ConcatProperties
<1> HIDE DEF all
<1>2. PICK l, m : l = Len(tools) /\ m = Len(more) /\ l \in Nat /\ m \in Nat
                  /\ DOMAIN tools = 1 .. l /\ DOMAIN more = 1 .. m /\ DOMAIN all = 1 .. l + m
  <2>1. /\ Len(tools) \in Nat /\ DOMAIN tools = 1 .. Len(tools)
        /\ Len(more) \in Nat /\ DOMAIN more = 1 .. Len(more)
        /\ DOMAIN all = 1 .. Len(all)
    BY ONLY <1>1, tools \in Seq(X), more \in Seq(X)
  <2> QED
    BY ONLY <1>1, <2>1
<1>3. ASSUME NEW x \in ToSet(all) PROVE x \in ToSet(tools) \cup ToSet(more)
  <2>1. PICK j \in 1 .. l + m : x = all[j]
    BY ONLY <1>2, <1>3 DEF ToSet
  <2>2. j <= l => j \in 1 .. l /\ x = tools[j]
    BY ONLY <1>1, <1>2, <2>1
  <2>3. ~(j <= l) => j - l \in 1 .. m /\ x = more[j - l]
    BY ONLY <1>1, <1>2, <2>1
  <2> QED
    BY ONLY <1>2, <2>2, <2>3 DEF ToSet
<1>4. ToSet(tools) \subseteq ToSet(all)
  <2>1. \A j \in 1 .. l : j \in 1 .. l + m /\ all[j] = tools[j]
    BY ONLY <1>1, <1>2
  <2> QED
    BY ONLY <1>2, <2>1 DEF ToSet
<1>5. ToSet(more) \subseteq ToSet(all)
  <2>1. \A j \in 1 .. m : l + j \in 1 .. l + m /\ ~(l + j <= l) /\ (l + j) - l = j
    BY ONLY <1>2
  <2>2. \A j \in 1 .. m : all[l + j] = more[j]
    BY ONLY <1>1, <1>2, <2>1
  <2> QED
    BY ONLY <1>2, <2>1, <2>2 DEF ToSet
<1> QED
  BY ONLY <1>1, <1>3, <1>4, <1>5 DEF all

(***************************************************************************)
(* AgentResources.  For any agents with any LLMs and middleware: every     *)
(* client is closed once, and the middleware is the one that is listed.    *)
(***************************************************************************)

\* What the agents of the chain and the one that is being made have been given, and
\* what is done next.
Keys == STRING \cup {Unset}
Given == [client : Keys, model : Keys]
ClientFields == {"http_client", "async_client", "client", "bedrock_client"}
Objects == STRING \X Nat
ChainAgents == [middleware : Seq(Objects), checkpointer : {NoObject} \cup Objects]
Done == {"deleting", "deleted", "not deleted"}
ToDo == {"agent", "llm", "middleware", "raised", "ready"} \cup Done

ResourcesTypeOK ==
    /\ setting \in AgentChoices
    /\ to_do \in ToDo
    /\ chain \in Seq(ChainAgents) /\ making \in ChainAgents
    /\ configured \in 0 .. Len(setting.middleware)
    /\ given_keys \in [DOMAIN setting.llms -> Given]
    /\ open \subseteq Nat \X ClientFields
    /\ kept \in Nat
    /\ closing \in Seq(ClientFields)
    /\ DOMAIN indexes \subseteq STRING
    /\ \A name \in STRING : Get(indexes, name, 1) \in Nat

PolicyFor(i) == PolicyOf[setting.llms[i].class]
Closes(i) == ToSet(PolicyFor(i).closes)

\* The agents of the chain are those of the first LLMs, and the first of these is kept.
ChainInv ==
    /\ Len(chain) <= Len(setting.llms)
    /\ to_do \in {"llm", "middleware"} => Len(chain) < Len(setting.llms)
    /\ to_do = "llm" => PolicyFor(Len(chain) + 1).client
    /\ to_do # "deleted" => kept = IF chain = <<>> THEN 0 ELSE 1

\* The key that an LLM is to be reached with.
KeyOf(i) ==
    LET model == setting.llms[i]
        envs == PolicyFor(i).envs
        set == {e \in DOMAIN envs : envs[e] \in setting.env}
    IN  IF envs = <<>> THEN Unset
        ELSE IF model.key # Unset THEN model.key
        ELSE IF set = {} THEN Unset
        ELSE envs[CHOOSE e \in set : \A f \in set : e <= f]

\* The LLMs that are made, and those that are not begun.
IsMade(i) == i <= Len(chain) \/ (to_do = "middleware" /\ i = Len(chain) + 1)
NotBegun(i) == \/ to_do = "agent" /\ i > Len(chain)
               \/ to_do \in {"llm", "middleware"} /\ i > Len(chain) + 1

KeyInv ==
    /\ \A i \in DOMAIN setting.llms :
        /\ IsMade(i) => {given_keys[i].client, given_keys[i].model} \ {Unset} = {KeyOf(i)} \ {Unset}
        /\ NotBegun(i) => given_keys[i] = [client |-> Unset, model |-> Unset]
    /\ to_do = "llm" =>
        LET i == Len(chain) + 1
        IN  given_keys[i] = [client |-> ApiKey(setting.llms[i], FALSE), model |-> Unset]

\* Whatever is made is open until the resources are deleted.
OpenInv ==
    to_do \notin Done =>
        \A i \in DOMAIN setting.llms : IsMade(i) => \A client \in Closes(i) : <<i, client>> \in open

\* What is open of the first LLM is still to be closed, or does not let itself be closed.
Jammed(client) ==
    \/ client \in setting.llms[1].jammed
    \/ setting.llms[1].class = "bedrock" /\ "client" \in setting.llms[1].jammed

ClosingInv ==
    to_do \in Done /\ chain # <<>> =>
        /\ to_do = "deleting" /\ setting.llms[1].class = "bedrock" =>
            closing \in {<<"client", "bedrock_client">>, <<"bedrock_client">>, <<>>}
        /\ \A client \in Closes(1) :
            <<1, client>> \in open => Jammed(client) \/ (to_do = "deleting" /\ client \in ToSet(closing))

ReleaseInv == ResourcesTypeOK /\ ChainInv /\ KeyInv /\ OpenInv /\ ClosingInv

\* What is the same for all policies, and why the rest of what Bedrock has is named.
LEMMA Policies ==
    ASSUME NEW name \in Providers
    PROVE  /\ PolicyOf[name].client \in BOOLEAN
           /\ PolicyOf[name].closes \in Seq(ClientFields)
           /\ DOMAIN PolicyOf[name].envs \subseteq Nat
           /\ DOMAIN PolicyOf[name].envs = {} <=> PolicyOf[name].envs = <<>>
           /\ \A e \in DOMAIN PolicyOf[name].envs : PolicyOf[name].envs[e] # Unset
           /\ PolicyOf[name].suppressed \/ name = "bedrock"
           /\ name = "bedrock" => PolicyOf[name].closes = <<"client", "bedrock_client">>
<1> DEFINE Sound(policy) ==
        /\ policy.client \in BOOLEAN
        /\ policy.closes \in Seq(ClientFields)
        /\ DOMAIN policy.envs \subseteq Nat
        /\ DOMAIN policy.envs = {} <=> policy.envs = <<>>
        /\ \A e \in DOMAIN policy.envs : policy.envs[e] # Unset
        /\ policy.suppressed \/ name = "bedrock"
        /\ name = "bedrock" => policy.closes = <<"client", "bedrock_client">>
<1> SUFFICES Sound(PolicyOf[name])
  OBVIOUS
<1>1. CASE name = "openai"
  <2>1. PolicyOf[name] = OpenAILlmPolicy
    BY <1>1 DEF PolicyOf, Providers
  <2>2. Sound(OpenAILlmPolicy)
    BY <1>1 DEF OpenAILlmPolicy, Policy, Unset, ClientFields
  <2> QED
    BY <2>1, <2>2
<1>2. CASE name = "azure-openai"
  <2>1. PolicyOf[name] = AzureLlmPolicy
    BY <1>2 DEF PolicyOf, Providers
  <2>2. Sound(AzureLlmPolicy)
    BY <1>2 DEF AzureLlmPolicy, OpenAILlmPolicy, Policy, Unset, ClientFields
  <2> QED
    BY <2>1, <2>2
<1>3. CASE name = "anthropic"
  <2>1. PolicyOf[name] = AnthropicLlmPolicy
    BY <1>3 DEF PolicyOf, Providers
  <2>2. Sound(AnthropicLlmPolicy)
    BY <1>3 DEF AnthropicLlmPolicy, Policy, Unset, ClientFields
  <2> QED
    BY <2>1, <2>2
<1>4. CASE name = "bedrock"
  <2>1. PolicyOf[name] = BedrockLlmPolicy
    BY <1>4 DEF PolicyOf, Providers
  <2>2. Sound(BedrockLlmPolicy)
    BY <1>4 DEF BedrockLlmPolicy, Policy, Unset, ClientFields
  <2> QED
    BY <2>1, <2>2
<1>5. CASE name = "gemini"
  <2>1. PolicyOf[name] = GeminiLlmPolicy
    BY <1>5 DEF PolicyOf, Providers
  <2>2. Sound(GeminiLlmPolicy)
    BY <1>5 DEF GeminiLlmPolicy, Policy, Unset, ClientFields
  <2> QED
    BY <2>1, <2>2
<1>6. CASE name = "nvidia"
  <2>1. PolicyOf[name] = NvidiaLlmPolicy
    BY <1>6 DEF PolicyOf, Providers
  <2>2. Sound(NvidiaLlmPolicy)
    BY <1>6 DEF NvidiaLlmPolicy, Policy, Unset, ClientFields
  <2> QED
    BY <2>1, <2>2
<1>7. CASE name = "ollama"
  <2>1. PolicyOf[name] = OllamaLlmPolicy
    BY <1>7 DEF PolicyOf, Providers
  <2>2. Sound(OllamaLlmPolicy)
    BY <1>7 DEF OllamaLlmPolicy, Policy, Unset, ClientFields
  <2> QED
    BY <2>1, <2>2
<1> QED
  BY <1>1, <1>2, <1>3, <1>4, <1>5, <1>6, <1>7 DEF Providers

\* The settings of an agent, and of each of its LLMs.
LEMMA SettingIs ==
    ASSUME ResourcesTypeOK
    PROVE  /\ setting.llms \in Seq(Llms)
           /\ \A i \in DOMAIN setting.llms :
                /\ setting.llms[i] \in Llms
                /\ setting.llms[i].class \in Providers
                /\ setting.llms[i].key \in STRING
           /\ setting.env \in SUBSET STRING
           /\ setting.middleware \in Seq(MiddlewareEntries)
<1>1. setting \in Settings
  BY ResourcesAssumption DEF ResourcesTypeOK
<1>2. setting.llms \in Seq(Llms)
  BY <1>1 DEF Settings
<1>3. \A i \in DOMAIN setting.llms : setting.llms[i] \in Llms
  BY <1>2
<1> QED
  BY <1>1, <1>2, <1>3 DEF Settings, Llms

\* A model whose client has the key gets none; otherwise it gets the key itself.
LEMMA ApiKeyIs ==
    ASSUME ResourcesTypeOK, NEW i \in DOMAIN setting.llms
    PROVE  /\ ApiKey(setting.llms[i], TRUE) = Unset
           /\ ApiKey(setting.llms[i], FALSE) = KeyOf(i)
           /\ KeyOf(i) \in Keys
<1> DEFINE model == setting.llms[i]
           envs == PolicyOf[model.class].envs
           set == {e \in DOMAIN envs : envs[e] \in setting.env}
           found == {e \in DOMAIN envs : GetValueOrEnv(model.key, envs[e], FALSE) # Unset}
<1>1. /\ model.key \in STRING /\ setting.env \in SUBSET STRING
      /\ DOMAIN envs \subseteq Nat /\ (DOMAIN envs = {} <=> envs = <<>>)
      /\ \A e \in DOMAIN envs : envs[e] # Unset
  BY SettingIs, Policies
<1> HIDE DEF model
<1>2. {e \in DOMAIN envs : GetValueOrEnv(model.key, envs[e], TRUE) # Unset} = {}
  BY DEF GetValueOrEnv
<1>3. ApiKey(model, TRUE) = Unset
  BY <1>2 DEF ApiKey
<1>4. ApiKey(model, FALSE) =
        IF found = {} THEN Unset
        ELSE GetValueOrEnv(model.key, envs[CHOOSE e \in found : \A f \in found : e <= f], FALSE)
  BY DEF ApiKey
<1>5. KeyOf(i) = IF envs = <<>> THEN Unset
                 ELSE IF model.key # Unset THEN model.key
                 ELSE IF set = {} THEN Unset
                 ELSE envs[CHOOSE e \in set : \A f \in set : e <= f]
  BY DEF KeyOf, PolicyFor, model
<1> HIDE DEF envs
<1>6. CASE model.key # Unset
  <2>1. found = DOMAIN envs
    BY <1>6 DEF GetValueOrEnv
  <2>2. DOMAIN envs = {} <=> envs = <<>>
    BY <1>1
  <2>3. ApiKey(model, FALSE) = IF found = {} THEN Unset ELSE model.key
    BY <1>4, <1>6 DEF GetValueOrEnv
  <2>4. ApiKey(model, FALSE) = KeyOf(i)
    BY <1>5, <1>6, <2>1, <2>2, <2>3
  <2>5. KeyOf(i) \in Keys
    BY <1>1, <1>5, <1>6 DEF Keys
  <2> QED
    BY <1>3, <2>4, <2>5 DEF model
<1>7. CASE model.key = Unset
  <2>1. found = set
    BY <1>1, <1>7 DEF GetValueOrEnv
  <2>2. CASE set = {}
    BY <1>1, <1>3, <1>4, <1>5, <1>7, <2>1, <2>2 DEF model, Keys
  <2>3. CASE set # {}
    <3>1. set \in SUBSET Nat
      BY <1>1
    <3>2. PICK least \in set : least = CHOOSE e \in set : \A f \in set : e <= f
      BY <2>3, <3>1, LeastNumber
    <3>3. envs # <<>>
      BY <2>3, <1>1
    <3>4. ApiKey(model, FALSE) = GetValueOrEnv(model.key, envs[least], FALSE)
      BY <1>4, <2>1, <2>3, <3>2
    <3>5. KeyOf(i) = envs[least]
      BY <1>5, <1>7, <2>3, <3>2, <3>3
    <3>6. GetValueOrEnv(model.key, envs[least], FALSE) = envs[least]
      BY <1>7 DEF GetValueOrEnv
    <3> QED
      BY <1>1, <1>3, <3>4, <3>5, <3>6 DEF model, Keys
  <2> QED
    BY <2>2, <2>3
<1> QED
  BY <1>6, <1>7

\* What create_class() makes is an object that nobody was given before, and it counts.
LEMMA CreateClassIs ==
    ASSUME NEW config, config.class \in STRING,
           NEW counted, DOMAIN counted \subseteq STRING,
           \A name \in STRING : Get(counted, name, 1) \in Nat,
           NEW made, made = CreateClass(config, counted)
    PROVE  /\ made.state \in {"skipped", "raised", "made"}
           /\ DOMAIN made.counted \subseteq STRING
           /\ \A name \in STRING : /\ Get(made.counted, name, 1) \in Nat
                                   /\ Get(counted, name, 1) <= Get(made.counted, name, 1)
           /\ made.state = "skipped" <=> config.class = Unset
           /\ made.state = "made" =>
                /\ made.object = <<config.class, Get(counted, config.class, 1)>>
                /\ Get(counted, config.class, 1) < Get(made.counted, config.class, 1)
<1>1. CASE config.class = Unset
  <2>1. made = [state |-> "skipped", object |-> NoObject, counted |-> counted]
    BY <1>1 DEF CreateClass
  <2> QED
    BY <1>1, <2>1
<1>2. CASE config.class # Unset /\ config.loads # "loads"
  <2>1. made = [state |-> "raised", object |-> NoObject, counted |-> counted]
    BY <1>2 DEF CreateClass
  <2> QED
    BY <1>2, <2>1
<1>3. CASE config.class # Unset /\ config.loads = "loads"
  <2> DEFINE index == Get(counted, config.class, 1)
             more == Overlay(counted, Only(config.class, index + 1))
  <2>1. made = [state |-> "made", object |-> <<config.class, index>>, counted |-> more]
    BY <1>3 DEF CreateClass
  <2>2. index \in Nat
    OBVIOUS
  <2>3. /\ DOMAIN more = DOMAIN counted \cup {config.class}
        /\ \A name \in DOMAIN more :
            more[name] = IF name = config.class THEN index + 1 ELSE counted[name]
    BY DEF Overlay, Only
  <2> HIDE DEF more
  <2>4. ASSUME NEW name \in STRING
        PROVE  Get(more, name, 1) = IF name = config.class THEN index + 1 ELSE Get(counted, name, 1)
    BY <2>3 DEF Get
  <2> HIDE DEF index
  <2>5. \A name \in STRING : Get(more, name, 1) \in Nat /\ Get(counted, name, 1) <= Get(more, name, 1)
    BY <2>2, <2>4 DEF index
  <2>6. index < Get(more, config.class, 1)
    <3>1. Get(more, config.class, 1) = index + 1
      BY <2>4
    <3> QED
      BY ONLY <2>2, <3>1
  <2> QED
    BY <1>3, <2>1, <2>3, <2>5, <2>6 DEF index
<1> QED
  BY <1>1, <1>2, <1>3

LEMMA SettingStays ==
    ASSUME setting' = setting, NEW i
    PROVE  PolicyFor(i)' = PolicyFor(i) /\ Closes(i)' = Closes(i) /\ KeyOf(i)' = KeyOf(i)
BY DEF PolicyFor, Closes, KeyOf

LEMMA ClosesAre ==
    ASSUME ResourcesTypeOK, NEW i \in DOMAIN setting.llms
    PROVE  /\ PolicyFor(i).client \in BOOLEAN
           /\ PolicyFor(i).closes \in Seq(ClientFields)
           /\ Closes(i) \subseteq ClientFields
           /\ PolicyFor(i).suppressed \/ setting.llms[i].class = "bedrock"
           /\ setting.llms[i].class = "bedrock" =>
                PolicyFor(i).closes = <<"client", "bedrock_client">>
<1>1. setting.llms[i].class \in Providers
  BY SettingIs
<1>2. PolicyFor(i).closes \in Seq(ClientFields)
  BY <1>1, Policies DEF PolicyFor
<1>3. Closes(i) \subseteq ClientFields
  BY <1>2 DEF Closes, ToSet
<1> QED
  BY <1>1, <1>2, <1>3, Policies DEF PolicyFor

LEMMA CurrentIs ==
    ASSUME ResourcesTypeOK
    PROVE  /\ Len(chain) \in Nat /\ Current = Len(chain) + 1
           /\ DOMAIN setting.llms = 1 .. Len(setting.llms) /\ Len(setting.llms) \in Nat
           /\ Current <= Len(setting.llms) => Current \in DOMAIN setting.llms
<1>1. setting.llms \in Seq(Llms)
  BY SettingIs
<1>2. Len(chain) \in Nat
  BY DEF ResourcesTypeOK
<1> QED
  BY <1>1, <1>2 DEF Current

LEMMA ReleaseInit == ResourcesInit => ReleaseInv
<1>1. SUFFICES ASSUME NEW one \in AgentChoices, Begin(one) PROVE ReleaseInv
  BY DEF ResourcesInit
<1>2. setting = one /\ to_do = "agent" /\ chain = <<>> /\ open = {} /\ kept = 0
  BY <1>1 DEF Begin
<1>3. ResourcesTypeOK
  <2>1. setting \in AgentChoices /\ to_do \in ToDo
    BY <1>2 DEF ToDo
  <2>2. chain \in Seq(ChainAgents) /\ making \in ChainAgents
    BY <1>1 DEF Begin, ChainAgents, NoAgent
  <2>3. setting \in Settings
    BY <1>2, ResourcesAssumption
  <2>4. configured \in 0 .. Len(setting.middleware)
    <3>1. Len(setting.middleware) \in Nat
      BY <2>3 DEF Settings
    <3> QED
      BY <1>1, <3>1 DEF Begin
  <2>5. given_keys \in [DOMAIN setting.llms -> Given]
    BY <1>1 DEF Begin, Given, Keys
  <2>6. closing \in Seq(ClientFields) /\ open \subseteq Nat \X ClientFields /\ kept \in Nat
    BY <1>1 DEF Begin
  <2>7. DOMAIN indexes \subseteq STRING /\ \A name \in STRING : Get(indexes, name, 1) \in Nat
    BY <1>1 DEF Begin, NoKeys, Get
  <2> QED
    BY <2>1, <2>2, <2>4, <2>5, <2>6, <2>7 DEF ResourcesTypeOK
<1>4. setting.llms \in Seq(Llms) /\ Len(setting.llms) \in Nat /\ DOMAIN setting.llms = 1 .. Len(setting.llms)
  BY <1>3, SettingIs
<1>5. ChainInv
  BY <1>2, <1>4 DEF ChainInv
<1>6. KeyInv
  <2>1. \A i \in DOMAIN setting.llms : given_keys[i] = [client |-> Unset, model |-> Unset]
    BY <1>1 DEF Begin
  <2>2. \A i \in DOMAIN setting.llms : ~IsMade(i)
    BY <1>2, <1>4 DEF IsMade
  <2> QED
    BY <1>2, <2>1, <2>2 DEF KeyInv
<1>7. OpenInv
  BY <1>2, <1>4 DEF OpenInv, IsMade
<1>8. ClosingInv
  BY <1>2 DEF ClosingInv, Done
<1> QED
  BY <1>3, <1>5, <1>6, <1>7, <1>8 DEF ReleaseInv

LEMMA CreateClientStep == ReleaseInv /\ CreateClient => ReleaseInv'
<1> SUFFICES ASSUME ReleaseInv, CreateClient PROVE ReleaseInv'
  OBVIOUS
<1>1. /\ to_do = "agent" /\ Current <= Len(setting.llms) /\ PolicyOf[Llm.class].client
      /\ open' = open \cup {<<Current, "http_client">>}
      /\ given_keys' = [given_keys EXCEPT ![Current].client = ApiKey(Llm, FALSE)]
      /\ to_do' \in {"raised", "llm"}
      /\ UNCHANGED <<setting, chain, making, configured, kept, closing, indexes>>
  BY DEF CreateClient, Keep
<1>2. /\ ResourcesTypeOK /\ ChainInv /\ KeyInv /\ OpenInv
      /\ Current \in DOMAIN setting.llms /\ Current = Len(chain) + 1
      /\ Len(chain) \in Nat /\ DOMAIN setting.llms = 1 .. Len(setting.llms)
      /\ Len(setting.llms) \in Nat
  BY <1>1, CurrentIs DEF ReleaseInv
<1> DEFINE n == Len(chain) + 1
<1>3. given_keys[n] = [client |-> Unset, model |-> Unset]
  BY <1>1, <1>2 DEF KeyInv, NotBegun
<1>4. given_keys' = [given_keys EXCEPT ![n] = [client |-> ApiKey(setting.llms[n], FALSE), model |-> Unset]]
  <2> DEFINE key == ApiKey(setting.llms[n], FALSE)
  <2>1. given_keys' = [given_keys EXCEPT ![n].client = key]
    BY <1>1, <1>2 DEF Llm
  <2>2. [given_keys[n] EXCEPT !.client = key] = [client |-> key, model |-> Unset]
    <3>1. key \in Keys /\ given_keys[n] \in [client : Keys, model : Keys]
      BY <1>2, ApiKeyIs DEF ResourcesTypeOK, Given
    <3> HIDE DEF key
    <3>2. [given_keys[n] EXCEPT !.client = key] = [client |-> key, model |-> given_keys[n].model]
      BY <3>1
    <3> QED
      BY <1>3, <3>2
  <2> HIDE DEF key, n
  <2>3. given_keys' = [given_keys EXCEPT ![n] = [given_keys[n] EXCEPT !.client = key]]
    BY <2>1
  <2> QED
    BY <2>2, <2>3 DEF key
<1>5. /\ given_keys'[n] = [client |-> ApiKey(setting.llms[n], FALSE), model |-> Unset]
      /\ \A i \in DOMAIN setting.llms : i # n => given_keys'[i] = given_keys[i]
      /\ given_keys' \in [DOMAIN setting.llms -> Given]
  <2>1. ApiKey(setting.llms[n], FALSE) \in Keys
    BY <1>2, ApiKeyIs
  <2>2. given_keys \in [DOMAIN setting.llms -> Given] /\ n \in DOMAIN setting.llms
    BY <1>2 DEF ResourcesTypeOK
  <2> QED
    BY <1>4, <2>1, <2>2 DEF Given, Keys
<1>6. ResourcesTypeOK'
  <2>1. open' \subseteq Nat \X ClientFields
    BY <1>1, <1>2 DEF ResourcesTypeOK, ClientFields
  <2> QED
    BY <1>1, <1>2, <1>5, <2>1 DEF ResourcesTypeOK, ToDo
<1>7. ChainInv'
  BY <1>1, <1>2, SettingStays DEF ChainInv, PolicyFor, Llm
<1>8. KeyInv'
  <2>1. ASSUME NEW i \in DOMAIN setting.llms, IsMade(i)' PROVE IsMade(i) /\ i # n
    BY <1>1, <1>2, <2>1 DEF IsMade
  <2>2. ASSUME NEW i \in DOMAIN setting.llms, NotBegun(i)' PROVE NotBegun(i) /\ i # n
    BY <1>1, <1>2, <2>2 DEF NotBegun
  <2>3. ASSUME NEW i \in DOMAIN setting.llms
        PROVE  /\ IsMade(i)' => {given_keys'[i].client, given_keys'[i].model} \ {Unset} = {KeyOf(i)} \ {Unset}
               /\ NotBegun(i)' => given_keys'[i] = [client |-> Unset, model |-> Unset]
    BY <1>2, <1>5, <2>1, <2>2 DEF KeyInv
  <2>4. ApiKey(setting.llms[n], FALSE)' = ApiKey(setting.llms[n], FALSE)
    <3>1. setting' = setting /\ chain' = chain
      BY <1>1
    <3> QED
      BY ONLY <3>1 DEF ApiKey, GetValueOrEnv
  <2> QED
    BY <1>1, <1>5, <2>3, <2>4, SettingStays DEF KeyInv
<1>9. OpenInv'
  <2>1. ASSUME NEW i \in DOMAIN setting.llms, IsMade(i)' PROVE IsMade(i)
    BY <1>1, <1>2, <2>1 DEF IsMade
  <2> QED
    BY <1>1, <1>2, <2>1, SettingStays, Zenon DEF OpenInv, Done
<1>10. ClosingInv'
  BY <1>1, Zenon DEF ClosingInv, Done
<1> QED
  BY <1>6, <1>7, <1>8, <1>9, <1>10 DEF ReleaseInv

LEMMA CreateModelStep == ReleaseInv /\ CreateModel => ReleaseInv'
<1> SUFFICES ASSUME ReleaseInv, CreateModel PROVE ReleaseInv'
  OBVIOUS
<1> DEFINE n == Len(chain) + 1
<1>1. PICK has_client \in BOOLEAN :
        /\ CreateModelGiven(has_client)
        /\ has_client => to_do = "llm"
        /\ ~has_client => to_do = "agent" /\ Current <= Len(setting.llms)
  BY DEF CreateModel
<1>2. /\ given_keys' = [given_keys EXCEPT ![Current].model = ApiKey(Llm, has_client)]
      /\ \/ to_do' = "raised" /\ open' = open
         \/ to_do' = "middleware" /\ open' = open \cup {<<Current, c>> : c \in ToSet(PolicyOf[Llm.class].closes)}
      /\ making' = NoAgent /\ configured' = 0
      /\ UNCHANGED <<setting, chain, kept, closing, indexes>>
  BY <1>1 DEF CreateModelGiven, Keep
<1>3. /\ ResourcesTypeOK /\ ChainInv /\ KeyInv /\ OpenInv
      /\ Current = n /\ n \in DOMAIN setting.llms
      /\ Len(chain) \in Nat /\ n \in Nat /\ DOMAIN setting.llms = 1 .. Len(setting.llms)
      /\ Len(setting.llms) \in Nat
  BY <1>1, CurrentIs DEF ReleaseInv, ChainInv
<1>4. to_do \in {"agent", "llm"}
  BY <1>1
<1> DEFINE key == ApiKey(setting.llms[n], has_client)
<1>5. /\ key \in Keys
      /\ key = IF has_client THEN Unset ELSE KeyOf(n)
      /\ KeyOf(n) \in Keys
      /\ ApiKey(setting.llms[n], FALSE) = KeyOf(n)
  BY <1>1, <1>3, ApiKeyIs DEF Keys
<1>6. given_keys[n] = [client |-> IF has_client THEN KeyOf(n) ELSE Unset, model |-> Unset]
  <2>1. CASE has_client
    BY <1>1, <1>3, <1>5, <2>1 DEF KeyInv
  <2>2. CASE ~has_client
    BY <1>1, <1>3, <2>2 DEF KeyInv, NotBegun
  <2> QED
    BY <2>1, <2>2
<1>7. /\ given_keys'[n] = [client |-> given_keys[n].client, model |-> key]
      /\ \A i \in DOMAIN setting.llms : i # n => given_keys'[i] = given_keys[i]
      /\ given_keys' \in [DOMAIN setting.llms -> Given]
  <2>1. given_keys' = [given_keys EXCEPT ![n].model = key]
    BY <1>2, <1>3 DEF Llm
  <2>2. given_keys \in [DOMAIN setting.llms -> [client : Keys, model : Keys]]
    BY <1>3 DEF ResourcesTypeOK, Given
  <2> HIDE DEF key, n
  <2>3. given_keys[n] \in [client : Keys, model : Keys]
    BY <1>3, <2>2
  <2>4. [given_keys[n] EXCEPT !.model = key] = [client |-> given_keys[n].client, model |-> key]
    BY <1>5, <2>3
  <2>5. given_keys' = [given_keys EXCEPT ![n] = [given_keys[n] EXCEPT !.model = key]]
    BY <2>1
  <2>6. [client |-> given_keys[n].client, model |-> key] \in Given
    BY <1>5, <2>3 DEF Given
  <2> QED
    BY ONLY <1>3, <2>2, <2>4, <2>5, <2>6 DEF Given
<1> HIDE DEF key
<1>8. ResourcesTypeOK'
  <2>1. open' \subseteq Nat \X ClientFields
    <3>1. ToSet(PolicyOf[Llm.class].closes) \subseteq ClientFields
      BY <1>3, ClosesAre DEF Closes, PolicyFor, Llm
    <3> QED
      BY <1>2, <1>3, <3>1 DEF ResourcesTypeOK
  <2>2. making' \in ChainAgents
    BY <1>2 DEF NoAgent, ChainAgents
  <2>3. configured' \in 0 .. Len(setting'.middleware)
    BY <1>2, <1>3, SettingIs
  <2> QED
    BY <1>2, <1>3, <1>7, <2>1, <2>2, <2>3 DEF ResourcesTypeOK, ToDo
<1>9. ChainInv'
  BY <1>2, <1>3, <1>4, SettingStays DEF ChainInv
<1>10. KeyInv'
  <2>1. ASSUME NEW i \in DOMAIN setting.llms, IsMade(i)' PROVE IsMade(i) \/ i = n
    BY <1>2, <1>3, <2>1 DEF IsMade
  <2>2. ASSUME NEW i \in DOMAIN setting.llms, NotBegun(i)' PROVE NotBegun(i) /\ i # n
    BY <1>2, <1>3, <1>4, <2>2 DEF NotBegun
  <2>3. {given_keys'[n].client, given_keys'[n].model} \ {Unset} = {KeyOf(n)} \ {Unset}
    <3>1. given_keys[n].client = IF has_client THEN KeyOf(n) ELSE Unset
      BY <1>6
    <3> QED
      BY <1>5, <1>7, <3>1
  <2>4. ASSUME NEW i \in DOMAIN setting.llms
        PROVE  /\ IsMade(i)' => {given_keys'[i].client, given_keys'[i].model} \ {Unset} = {KeyOf(i)} \ {Unset}
               /\ NotBegun(i)' => given_keys'[i] = [client |-> Unset, model |-> Unset]
    <3>1. CASE i = n
      BY <2>2, <2>3, <3>1
    <3>2. CASE i # n
      BY <1>3, <1>7, <2>1, <2>2, <3>2 DEF KeyInv
    <3> QED
      BY <3>1, <3>2
  <2> QED
    BY <1>2, <2>4, SettingStays DEF KeyInv
<1>11. OpenInv'
  <2>1. ASSUME NEW i \in DOMAIN setting.llms, IsMade(i)'
        PROVE  IsMade(i) \/ (i = n /\ to_do' = "middleware")
    BY <1>2, <1>3, <2>1 DEF IsMade
  <2>2. open \subseteq open'
    BY <1>2
  <2>3. to_do' = "middleware" => \A client \in Closes(n) : <<n, client>> \in open'
    BY <1>2, <1>3 DEF Closes, PolicyFor, Llm
  <2>4. ASSUME NEW i \in DOMAIN setting.llms, IsMade(i)'
        PROVE  \A client \in Closes(i) : <<i, client>> \in open'
    BY <1>3, <1>4, <2>1, <2>2, <2>3, <2>4, Zenon DEF OpenInv, Done
  <2> QED
    BY <1>2, <2>4, SettingStays DEF OpenInv
<1>12. ClosingInv'
  BY <1>2, Zenon DEF ClosingInv, Done
<1> QED
  BY <1>8, <1>9, <1>10, <1>11, <1>12 DEF ReleaseInv

\* An object that was not counted before, and is now.
IsNew(object) ==
    /\ object \in Objects
    /\ Get(indexes, object[1], 1) <= object[2]
    /\ object[2] < Get(indexes', object[1], 1)

Entry(k) == setting.middleware[k]
HasObject(k) == Entry(k).class # Unset
HasCheckpointer(k) == Entry(k).checkpointer # <<>> /\ Head(Entry(k).checkpointer).class # Unset

\* What one entry adds: an object, a checkpointer, both or nothing.
Adds(k, object, checkpointer) ==
    /\ making' = [middleware |-> IF object = NoObject THEN making.middleware
                                 ELSE Append(making.middleware, object),
                  checkpointer |-> IF making.checkpointer = NoObject THEN checkpointer
                                   ELSE making.checkpointer]
    /\ IF HasObject(k) THEN object[1] = Entry(k).class /\ IsNew(object) ELSE object = NoObject
    /\ IF HasCheckpointer(k)
       THEN checkpointer[1] = Head(Entry(k).checkpointer).class /\ IsNew(checkpointer)
       ELSE checkpointer = NoObject
    /\ HasObject(k) /\ HasCheckpointer(k) => object # checkpointer

LEMMA NoneIsNoObject == \A object \in Objects : object # NoObject
<1> SUFFICES ASSUME NEW object \in Objects PROVE object # NoObject
  OBVIOUS
<1>1. object = <<object[1], object[2]>>
  BY DEF Objects
<1>2. Len(object) = 2 /\ Len(<<>>) = 0
  BY ONLY <1>1
<1> QED
  BY ONLY <1>2 DEF NoObject

LEMMA EntryIs ==
    ASSUME ResourcesTypeOK, NEW k \in DOMAIN setting.middleware
    PROVE  /\ Entry(k).class \in STRING
           /\ Entry(k).checkpointer # <<>> => Head(Entry(k).checkpointer).class \in STRING
<1>1. setting.middleware[k] \in MiddlewareEntries
  BY SettingIs
<1>2. Entry(k).checkpointer \in Seq(Loadable)
  BY <1>1 DEF Entry, MiddlewareEntries
<1>3. Entry(k).checkpointer # <<>> => Head(Entry(k).checkpointer) \in Loadable
  BY <1>2
<1> QED
  BY <1>1, <1>3 DEF Entry, Loadable, MiddlewareEntries

LEMMA CreateMiddlewareIs ==
    ASSUME ResourcesTypeOK, CreateMiddleware, NEW k, k = configured + 1
    PROVE  /\ k \in DOMAIN setting.middleware /\ configured' = k /\ to_do = "middleware"
           /\ UNCHANGED <<setting, chain, given_keys, open, kept, closing>>
           /\ \/ to_do' = "raised" /\ UNCHANGED <<making, indexes>>
              \/ /\ to_do' = "middleware"
                 /\ DOMAIN indexes' \subseteq STRING
                 /\ \A name \in STRING : /\ Get(indexes', name, 1) \in Nat
                                         /\ Get(indexes, name, 1) <= Get(indexes', name, 1)
                 /\ \E object, checkpointer \in {NoObject} \cup Objects : Adds(k, object, checkpointer)
<1>1. /\ k \in DOMAIN setting.middleware /\ configured' = k /\ to_do = "middleware"
      /\ UNCHANGED <<setting, chain, given_keys, open, kept, closing>>
  <2>1. setting.middleware \in Seq(MiddlewareEntries)
    BY SettingIs
  <2>2. configured \in 0 .. Len(setting.middleware) /\ configured < Len(setting.middleware)
    BY DEF CreateMiddleware, ResourcesTypeOK
  <2>3. k \in DOMAIN setting.middleware
    BY <2>1, <2>2
  <2> QED
    BY <2>3 DEF CreateMiddleware, Keep
<1> DEFINE config == setting.middleware[k]
<1>2. PICK made : made = CreateClass(config, indexes)
  OBVIOUS
<1>3. PICK checkpointer :
        checkpointer = IF config.checkpointer = <<>>
                       THEN [state |-> "skipped", object |-> NoObject, counted |-> made.counted]
                       ELSE CreateClass(Head(config.checkpointer), made.counted)
  OBVIOUS
<1>4. \/ to_do' = "raised" /\ UNCHANGED <<making, indexes>>
      \/ /\ to_do' = to_do /\ made.state # "raised" /\ checkpointer.state # "raised"
         /\ making' = [middleware |-> IF made.state = "made"
                                      THEN Append(making.middleware, made.object)
                                      ELSE making.middleware,
                       checkpointer |-> Checkpointer(making.checkpointer, checkpointer)]
         /\ indexes' = checkpointer.counted
  BY <1>1, <1>2, <1>3 DEF CreateMiddleware
<1>5. /\ config.class \in STRING
      /\ config.checkpointer # <<>> => Head(config.checkpointer).class \in STRING
  BY <1>1, EntryIs DEF Entry
<1>6. /\ DOMAIN indexes \subseteq STRING
      /\ \A name \in STRING : Get(indexes, name, 1) \in Nat
  BY DEF ResourcesTypeOK
<1> HIDE DEF config
<1>7. /\ made.state \in {"skipped", "raised", "made"}
      /\ DOMAIN made.counted \subseteq STRING
      /\ \A name \in STRING : /\ Get(made.counted, name, 1) \in Nat
                              /\ Get(indexes, name, 1) <= Get(made.counted, name, 1)
      /\ made.state = "skipped" <=> config.class = Unset
      /\ made.state = "made" =>
            /\ made.object = <<config.class, Get(indexes, config.class, 1)>>
            /\ Get(indexes, config.class, 1) < Get(made.counted, config.class, 1)
  BY <1>2, <1>5, <1>6, CreateClassIs
<1> DEFINE name_of == Head(config.checkpointer).class
           has == config.checkpointer # <<>> /\ name_of # Unset
<1>8. /\ checkpointer.state \in {"skipped", "raised", "made"}
      /\ DOMAIN checkpointer.counted \subseteq STRING
      /\ \A name \in STRING : /\ Get(checkpointer.counted, name, 1) \in Nat
                              /\ Get(made.counted, name, 1) <= Get(checkpointer.counted, name, 1)
      /\ checkpointer.state = "skipped" <=> ~has
      /\ checkpointer.state = "made" =>
            /\ name_of \in STRING
            /\ checkpointer.object = <<name_of, Get(made.counted, name_of, 1)>>
            /\ Get(made.counted, name_of, 1) < Get(checkpointer.counted, name_of, 1)
  <2>1. CASE config.checkpointer = <<>>
    BY <1>3, <1>7, <2>1
  <2>2. CASE config.checkpointer # <<>>
    BY <1>3, <1>5, <1>7, <2>2, CreateClassIs
  <2> QED
    BY <2>1, <2>2
<1>9. CASE to_do' = "raised" /\ UNCHANGED <<making, indexes>>
  BY <1>1, <1>9
<1>10. CASE ~(to_do' = "raised" /\ UNCHANGED <<making, indexes>>)
  <2> DEFINE object == IF made.state = "made" THEN made.object ELSE NoObject
             keeper == IF checkpointer.state = "made" THEN checkpointer.object ELSE NoObject
             first == Get(indexes, config.class, 1)
             second == Get(made.counted, name_of, 1)
  <2>1. /\ to_do' = "middleware" /\ indexes' = checkpointer.counted
        /\ made.state = "made" <=> config.class # Unset
        /\ checkpointer.state = "made" <=> has
    BY <1>1, <1>4, <1>7, <1>8, <1>10
  <2>2. \A name \in STRING : Get(indexes', name, 1) = Get(checkpointer.counted, name, 1)
    BY <2>1 DEF Get
  <2>3. \A name \in STRING : /\ Get(indexes', name, 1) \in Nat
                             /\ Get(indexes, name, 1) <= Get(indexes', name, 1)
    BY <1>6, <1>7, <1>8, <2>2
  <2>4. config.class # Unset =>
            object = <<config.class, first>> /\ object[1] = config.class /\ IsNew(object)
    <3>1. SUFFICES ASSUME config.class # Unset
                   PROVE  object = <<config.class, first>> /\ object[1] = config.class /\ IsNew(object)
      OBVIOUS
    <3>2. object = <<config.class, first>>
      BY <1>7, <2>1, <3>1
    <3>3. object[1] = config.class /\ object[2] = first
      BY <3>2
    <3>6. first \in Nat /\ first <= first
      <4>1. \A name \in STRING : Get(indexes, name, 1) \in Nat
        BY <1>6
      <4>2. first \in Nat
        BY ONLY <1>5, <4>1
      <4> HIDE DEF first
      <4> QED
        BY <4>2
    <3>4. object \in Objects
      <4>1. config.class \in STRING /\ first \in Nat
        BY <1>5, <3>6
      <4> HIDE DEF first, object
      <4> QED
        BY <3>2, <4>1 DEF Objects
    <3>5. first < Get(indexes', config.class, 1)
      <4>1. /\ first \in Nat /\ Get(made.counted, config.class, 1) \in Nat
            /\ Get(checkpointer.counted, config.class, 1) \in Nat
        BY <1>5, <1>6, <1>7, <1>8
      <4>2. first < Get(made.counted, config.class, 1)
        BY <1>7, <2>1, <3>1
      <4>3. Get(made.counted, config.class, 1) <= Get(checkpointer.counted, config.class, 1)
        BY <1>5, <1>8
      <4>4. Get(indexes', config.class, 1) = Get(checkpointer.counted, config.class, 1)
        BY <1>5, <2>2
      <4> HIDE DEF first
      <4> QED
        BY ONLY <4>1, <4>2, <4>3, <4>4
    <3> HIDE DEF object
    <3> QED
      BY <3>2, <3>3, <3>4, <3>5, <3>6 DEF IsNew
  <2>5. has => keeper = <<name_of, second>> /\ keeper[1] = name_of /\ IsNew(keeper)
    <3>1. SUFFICES ASSUME has PROVE keeper = <<name_of, second>> /\ keeper[1] = name_of /\ IsNew(keeper)
      OBVIOUS
    <3>2. keeper = <<name_of, second>> /\ name_of \in STRING
      BY <1>8, <2>1, <3>1
    <3>3. keeper[1] = name_of /\ keeper[2] = second
      BY <3>2
    <3>4. second \in Nat /\ Get(indexes, name_of, 1) <= second
      BY <1>7, <3>2
    <3>5. keeper \in Objects
      BY <3>2, <3>4 DEF Objects
    <3>6. second < Get(indexes', name_of, 1)
      BY <1>8, <2>1, <2>2, <3>1, <3>2
    <3> HIDE DEF keeper
    <3> QED
      BY <3>2, <3>3, <3>4, <3>5, <3>6 DEF IsNew
  <2>6. config.class # Unset /\ has => object # keeper
    <3>1. SUFFICES ASSUME config.class # Unset, has, object = keeper PROVE FALSE
      OBVIOUS
    <3>2. config.class = name_of /\ first = second
      BY <2>4, <2>5, <3>1
    <3>3. first < Get(made.counted, config.class, 1)
      BY <1>7, <2>1, <3>1
    <3>4. first \in Nat /\ second = Get(made.counted, config.class, 1)
      BY <1>5, <1>6, <3>2
    <3> QED
      BY <3>2, <3>3, <3>4
  <2>7. object \in {NoObject} \cup Objects /\ keeper \in {NoObject} \cup Objects
    BY <2>1, <2>4, <2>5 DEF IsNew
  <2>8. (config.class = Unset => object = NoObject) /\ (~has => keeper = NoObject)
    BY <2>1
  <2>9. making' = [middleware |-> IF object = NoObject THEN making.middleware
                                  ELSE Append(making.middleware, object),
                   checkpointer |-> IF making.checkpointer = NoObject THEN keeper
                                    ELSE making.checkpointer]
    <3>1. made.state = "made" <=> object # NoObject
      BY <2>1, <2>4, <2>8, NoneIsNoObject DEF IsNew
    <3>2. Checkpointer(making.checkpointer, checkpointer)
            = IF making.checkpointer = NoObject THEN keeper ELSE making.checkpointer
      BY DEF Checkpointer
    <3> QED
      BY <1>4, <1>10, <3>1, <3>2
  <2> HIDE DEF object, keeper
  <2>10. Adds(k, object, keeper)
    BY <2>4, <2>5, <2>6, <2>8, <2>9 DEF Adds, HasObject, HasCheckpointer, Entry, config
  <2>11. DOMAIN indexes' \subseteq STRING
    BY <1>8, <2>1
  <2> QED
    BY <1>1, <2>1, <2>3, <2>7, <2>10, <2>11
<1> QED
  BY <1>9, <1>10

LEMMA CreateMiddlewareStep == ReleaseInv /\ CreateMiddleware => ReleaseInv'
<1> SUFFICES ASSUME ReleaseInv, CreateMiddleware PROVE ReleaseInv'
  OBVIOUS
<1> DEFINE k == configured + 1
<1>1. ResourcesTypeOK /\ ChainInv /\ KeyInv /\ OpenInv
  BY DEF ReleaseInv
<1>2. /\ k \in DOMAIN setting.middleware /\ configured' = k /\ to_do = "middleware"
      /\ UNCHANGED <<setting, chain, given_keys, open, kept, closing>>
      /\ \/ to_do' = "raised" /\ UNCHANGED <<making, indexes>>
         \/ /\ to_do' = "middleware"
            /\ DOMAIN indexes' \subseteq STRING
            /\ \A name \in STRING : /\ Get(indexes', name, 1) \in Nat
                                    /\ Get(indexes, name, 1) <= Get(indexes', name, 1)
            /\ \E object, checkpointer \in {NoObject} \cup Objects : Adds(k, object, checkpointer)
  BY <1>1, CreateMiddlewareIs
<1>3. making' \in ChainAgents
  <2>1. making \in ChainAgents
    BY <1>1 DEF ResourcesTypeOK
  <2>2. CASE making' = making
    BY <2>1, <2>2
  <2>3. ASSUME NEW object \in {NoObject} \cup Objects, NEW checkpointer \in {NoObject} \cup Objects,
               Adds(k, object, checkpointer)
        PROVE  making' \in ChainAgents
    <3>1. making' = [middleware |-> IF object = NoObject THEN making.middleware
                                    ELSE Append(making.middleware, object),
                     checkpointer |-> IF making.checkpointer = NoObject THEN checkpointer
                                      ELSE making.checkpointer]
      BY <2>3 DEF Adds
    <3>2. making.middleware \in Seq(Objects) /\ making.checkpointer \in {NoObject} \cup Objects
      BY <2>1 DEF ChainAgents
    <3>3. object # NoObject => Append(making.middleware, object) \in Seq(Objects)
      BY <2>3, <3>2
    <3> QED
      BY ONLY <2>3, <3>1, <3>2, <3>3 DEF ChainAgents
  <2> QED
    BY <1>2, <2>2, <2>3
<1>4. DOMAIN indexes' \subseteq STRING /\ \A name \in STRING : Get(indexes', name, 1) \in Nat
  <2>1. CASE indexes' = indexes
    BY <1>1, <2>1 DEF ResourcesTypeOK
  <2>2. CASE indexes' # indexes
    BY <1>2, <2>2
  <2> QED
    BY <2>1, <2>2
<1>5. configured' \in 0 .. Len(setting'.middleware)
  <2>1. setting.middleware \in Seq(MiddlewareEntries)
    BY <1>1, SettingIs
  <2>2. k \in 1 .. Len(setting.middleware) /\ Len(setting.middleware) \in Nat
    BY <1>2, <2>1
  <2> QED
    BY <1>2, <2>2
<1>6. ResourcesTypeOK'
  BY <1>1, <1>2, <1>3, <1>4, <1>5 DEF ResourcesTypeOK, ToDo
<1>7. to_do = "middleware" /\ to_do' \in {"raised", "middleware"}
  BY <1>2
<1>8. ChainInv'
  BY <1>1, <1>2, <1>7 DEF ChainInv
<1>9. KeyInv'
  <2>1. \A i : (IsMade(i)' => IsMade(i)) /\ (NotBegun(i)' => NotBegun(i))
    BY <1>2, <1>7 DEF IsMade, NotBegun
  <2> QED
    BY <1>1, <1>2, <1>7, <2>1, SettingStays DEF KeyInv
<1>10. OpenInv'
  <2>1. \A i : IsMade(i)' => IsMade(i)
    BY <1>2, <1>7 DEF IsMade
  <2> QED
    BY <1>1, <1>2, <1>7, <2>1, SettingStays, Zenon DEF OpenInv, Done
<1>11. ClosingInv'
  BY <1>7, Zenon DEF ClosingInv, Done
<1> QED
  BY <1>6, <1>8, <1>9, <1>10, <1>11 DEF ReleaseInv

LEMMA AgentCreatedStep == ReleaseInv /\ AgentCreated => ReleaseInv'
<1> SUFFICES ASSUME ReleaseInv, AgentCreated PROVE ReleaseInv'
  OBVIOUS
<1> DEFINE n == Len(chain) + 1
<1>1. /\ to_do = "middleware" /\ chain' = Append(chain, making) /\ to_do' = "agent"
      /\ kept' = IF n = 1 THEN n ELSE kept
      /\ UNCHANGED <<setting, making, configured, given_keys, open, closing, indexes>>
  BY DEF AgentCreated, Keep, KeepFirst, Current
<1>2. /\ ResourcesTypeOK /\ ChainInv /\ KeyInv /\ OpenInv
      /\ Len(chain) \in Nat /\ DOMAIN setting.llms = 1 .. Len(setting.llms)
      /\ Len(setting.llms) \in Nat
      /\ chain \in Seq(ChainAgents) /\ making \in ChainAgents
  BY CurrentIs DEF ReleaseInv, ResourcesTypeOK
<1>3. chain' \in Seq(ChainAgents) /\ Len(chain') = n /\ chain' # <<>>
  BY <1>1, <1>2
<1>4. n = 1 <=> chain = <<>>
  BY <1>2, EmptySeq
<1>5. ResourcesTypeOK'
  <2>1. kept' \in Nat
    BY <1>1, <1>2 DEF ResourcesTypeOK
  <2> QED
    BY <1>1, <1>2, <1>3, <2>1 DEF ResourcesTypeOK, ToDo
<1>6. ChainInv'
  <2>1. kept' = 1
    BY <1>1, <1>2, <1>4 DEF ChainInv
  <2>2. n <= Len(setting.llms)
    BY <1>1, <1>2 DEF ChainInv
  <2> QED
    BY <1>1, <1>3, <2>1, <2>2 DEF ChainInv
<1>7. \A i \in DOMAIN setting.llms : (IsMade(i)' => IsMade(i)) /\ (NotBegun(i)' => NotBegun(i))
  BY <1>1, <1>2, <1>3 DEF IsMade, NotBegun
<1>8. KeyInv'
  BY <1>1, <1>2, <1>7, SettingStays DEF KeyInv
<1>9. OpenInv'
  BY <1>1, <1>2, <1>7, SettingStays DEF OpenInv, Done
<1>10. ClosingInv'
  BY <1>1 DEF ClosingInv, Done
<1> QED
  BY <1>5, <1>6, <1>8, <1>9, <1>10 DEF ReleaseInv

LEMMA DeleteStep ==
    ReleaseInv /\ (ResourcesCreated \/ DeleteResources \/ ResourcesDeleted) => ReleaseInv'
<1> SUFFICES ASSUME ReleaseInv, ResourcesCreated \/ DeleteResources \/ ResourcesDeleted
             PROVE  ReleaseInv'
  OBVIOUS
<1>1. ResourcesTypeOK /\ ChainInv /\ KeyInv /\ OpenInv /\ ClosingInv
  BY DEF ReleaseInv
<1>2. /\ UNCHANGED <<setting, chain, making, configured, given_keys, open, indexes>>
      /\ \/ to_do = "agent" /\ to_do' = "ready" /\ UNCHANGED <<kept, closing>>
         \/ /\ to_do \in {"ready", "raised"} /\ to_do' = "deleting" /\ UNCHANGED kept
            /\ closing' = IF kept = 0 THEN <<>> ELSE WhatToClose(kept)
         \/ to_do = "deleting" /\ closing = <<>> /\ to_do' = "deleted" /\ UNCHANGED closing /\ kept' = 0
  BY DEF ResourcesCreated, DeleteResources, ResourcesDeleted, Keep
<1>3. chain # <<>> => 1 \in DOMAIN setting.llms /\ IsMade(1)
  <2>1. /\ Len(chain) \in Nat /\ DOMAIN setting.llms = 1 .. Len(setting.llms) /\ Len(setting.llms) \in Nat
    BY <1>1, CurrentIs
  <2>2. chain # <<>> => Len(chain) > 0
    BY <1>1, <2>1, EmptySeq DEF ResourcesTypeOK
  <2> QED
    BY <1>1, <2>1, <2>2 DEF ChainInv, IsMade
<1>4. to_do' = "deleting" =>
        /\ closing' = IF chain = <<>> THEN <<>> ELSE PolicyFor(1).closes
        /\ closing' \in Seq(ClientFields)
  <2>1. to_do' = "deleting" => closing' = IF chain = <<>> THEN <<>> ELSE PolicyFor(1).closes
    BY <1>1, <1>2 DEF ChainInv, WhatToClose, PolicyFor
  <2>2. chain # <<>> => PolicyFor(1).closes \in Seq(ClientFields)
    BY <1>1, <1>3, ClosesAre
  <2>3. <<>> \in Seq(ClientFields)
    OBVIOUS
  <2> HIDE DEF ClientFields
  <2> QED
    BY ONLY <2>1, <2>2, <2>3
<1>5. ResourcesTypeOK'
  <2>1. closing' \in Seq(ClientFields)
    BY <1>1, <1>2, <1>4 DEF ResourcesTypeOK
  <2>2. to_do' \in {"ready", "deleting", "deleted"} /\ kept' \in {0, kept}
    BY <1>2
  <2>3. to_do' \in ToDo
    BY <2>2, Zenon DEF ToDo, Done
  <2>4. kept' \in Nat
    BY <1>1, <2>2 DEF ResourcesTypeOK
  <2> QED
    BY <1>1, <1>2, <2>1, <2>3, <2>4 DEF ResourcesTypeOK
<1>6. ChainInv'
  BY <1>1, <1>2 DEF ChainInv
<1>7. \A i : (IsMade(i)' => IsMade(i)) /\ ~NotBegun(i)'
  BY <1>2 DEF IsMade, NotBegun, Done
<1>8. KeyInv'
  BY <1>1, <1>2, <1>7, SettingStays DEF KeyInv
<1>9. OpenInv'
  BY <1>1, <1>2, <1>7, SettingStays, Zenon DEF OpenInv, Done
<1>10. ClosingInv'
  <2>1. CASE to_do' = "ready"
    BY <2>1 DEF ClosingInv, Done
  <2>2. CASE to_do' = "deleted"
    BY <1>1, <1>2, <2>2, SettingStays DEF ClosingInv, Done, Jammed, ToSet
  <2>3. CASE to_do' = "deleting"
    <3>1. SUFFICES ASSUME chain # <<>> PROVE ClosingInv'
      BY <1>2 DEF ClosingInv
    <3>2. closing' = PolicyFor(1).closes /\ setting' = setting
      BY <1>2, <1>4, <2>3, <3>1
    <3>3. setting.llms[1].class = "bedrock" => closing' = <<"client", "bedrock_client">>
      BY <1>1, <1>3, <3>1, <3>2, ClosesAre
    <3>4. Closes(1)' = ToSet(closing)'
      BY <3>2, SettingStays DEF Closes
    <3> QED
      BY <2>3, <3>2, <3>3, <3>4 DEF ClosingInv
  <2> QED
    BY <1>2, <2>1, <2>2, <2>3
<1> QED
  BY <1>5, <1>6, <1>8, <1>9, <1>10 DEF ReleaseInv

LEMMA CloseClientStep == ReleaseInv /\ CloseClient => ReleaseInv'
<1> SUFFICES ASSUME ReleaseInv, CloseClient PROVE ReleaseInv'
  OBVIOUS
<1>1. ResourcesTypeOK /\ ChainInv /\ KeyInv /\ OpenInv /\ ClosingInv
  BY DEF ReleaseInv
<1> DEFINE first == Head(closing)
<1>2. /\ to_do = "deleting" /\ closing # <<>>
      /\ \/ /\ first \in setting.llms[kept].jammed /\ open' = open
            /\ to_do' = IF PolicyOf[setting.llms[kept].class].suppressed THEN "deleting" ELSE "not deleted"
         \/ /\ first \notin setting.llms[kept].jammed /\ open' = open \ {<<kept, first>>}
            /\ to_do' = "deleting"
      /\ closing' = Tail(closing)
      /\ UNCHANGED <<setting, chain, making, configured, given_keys, kept, indexes>>
  BY Zenon DEF CloseClient, Keep
<1>3. closing \in Seq(ClientFields)
  BY <1>1 DEF ResourcesTypeOK
<1>4. /\ Tail(closing) \in Seq(ClientFields) /\ first \in ClientFields /\ Len(closing) \in Nat \ {0}
      /\ Len(Tail(closing)) = Len(closing) - 1 /\ first = closing[1]
      /\ \A i \in 1 .. Len(closing) - 1 : Tail(closing)[i] = closing[i + 1]
  <2>1. closing # <<>>
    BY <1>2, Zenon
  <2> QED
    BY ONLY <1>3, <2>1, HeadTailProperties, EmptySeq
<1>5. ToSet(closing) \subseteq {first} \cup ToSet(Tail(closing))
  <2>1. SUFFICES ASSUME NEW i \in DOMAIN closing, i # 1
                 PROVE  closing[i] \in ToSet(Tail(closing))
    BY <1>3 DEF ToSet
  <2>2. i \in 2 .. Len(closing) /\ i - 1 \in 1 .. Len(closing) - 1
    BY <1>3, <1>4, <2>1
  <2>3. i - 1 \in DOMAIN Tail(closing) /\ Tail(closing)[i - 1] = closing[i]
    BY <1>4, <2>2
  <2> QED
    BY <2>3 DEF ToSet
<1>6. ResourcesTypeOK'
  <2>1. open' \subseteq open
    BY <1>2, Zenon
  <2>2. open' \subseteq Nat \X ClientFields
    BY <1>1, <2>1 DEF ResourcesTypeOK
  <2> QED
    BY <1>1, <1>2, <1>4, <2>2, Zenon DEF ResourcesTypeOK, ToDo, Done
<1>7. ChainInv'
  BY <1>1, <1>2, Zenon DEF ChainInv
<1>8. \A i : (IsMade(i)' => IsMade(i)) /\ ~NotBegun(i)'
  BY <1>2, Zenon DEF IsMade, NotBegun, Done
<1>9. KeyInv'
  BY <1>1, <1>2, <1>8, SettingStays, Zenon DEF KeyInv
<1>10. OpenInv'
  BY <1>2, Zenon DEF OpenInv, Done
<1>11. ClosingInv'
  <2> SUFFICES ASSUME chain # <<>> PROVE ClosingInv'
    BY <1>2, Zenon DEF ClosingInv
  <2>1. kept = 1
    BY <1>1, <1>2, Zenon DEF ChainInv
  <2> DEFINE its_llm == setting.llms[1]
  <2>2. 1 \in DOMAIN setting.llms
    <3>1. /\ Len(chain) \in Nat /\ DOMAIN setting.llms = 1 .. Len(setting.llms) /\ Len(setting.llms) \in Nat
      BY <1>1, CurrentIs
    <3>2. Len(chain) > 0
      BY <1>1, <3>1, EmptySeq DEF ResourcesTypeOK
    <3> QED
      BY <1>1, <3>1, <3>2 DEF ChainInv
  <2>3. /\ PolicyOf[its_llm.class].suppressed \/ its_llm.class = "bedrock"
        /\ its_llm.class = "bedrock" => Closes(1) = {"client", "bedrock_client"}
    <3>1. ToSet(<<"client", "bedrock_client">>) = {"client", "bedrock_client"}
      BY DEF ToSet
    <3> QED
      BY <1>1, <2>2, <3>1, ClosesAre DEF PolicyFor, Closes
  <2>4. its_llm.class = "bedrock" =>
            /\ closing \in {<<"client", "bedrock_client">>, <<"bedrock_client">>}
            /\ Tail(closing) \in {<<"bedrock_client">>, <<>>}
            /\ first = "client" \/ (first = "bedrock_client" /\ Tail(closing) = <<>>)
    <3>1. its_llm.class = "bedrock" => closing \in {<<"client", "bedrock_client">>, <<"bedrock_client">>}
      BY <1>1, <1>2, Zenon DEF ClosingInv, Done
    <3>2. closing = <<"client", "bedrock_client">> =>
            Tail(closing) = <<"bedrock_client">> /\ Head(closing) = "client"
      OBVIOUS
    <3>3. closing = <<"bedrock_client">> =>
            Tail(closing) = <<>> /\ Head(closing) = "bedrock_client"
      OBVIOUS
    <3> QED
      BY <3>1, <3>2, <3>3
  <2>5. ASSUME NEW client \in Closes(1), <<1, client>> \in open'
        PROVE  Jammed(client) \/ (to_do' = "deleting" /\ client \in ToSet(Tail(closing)))
    <3>1. Jammed(client) \/ client \in ToSet(closing)
      BY <1>1, <1>2, <2>5, Zenon DEF ClosingInv, Done
    <3>2. CASE first \notin its_llm.jammed
      BY <1>2, <1>5, <2>1, <2>5, <3>1, <3>2, Zenon
    <3>3. CASE first \in its_llm.jammed /\ PolicyOf[its_llm.class].suppressed
      BY <1>2, <1>5, <2>1, <3>1, <3>3 DEF Jammed
    <3>4. CASE first \in its_llm.jammed /\ ~PolicyOf[its_llm.class].suppressed
      <4>1. its_llm.class = "bedrock" /\ client \in {"client", "bedrock_client"}
        BY <2>3, <2>5, <3>4
      <4>2. CASE first = "client"
        BY <3>4, <4>1, <4>2 DEF Jammed
      <4>3. CASE first = "bedrock_client" /\ Tail(closing) = <<>>
        <5>1. ToSet(Tail(closing)) = {}
          BY <4>3 DEF ToSet
        <5> QED
          BY <1>5, <3>1, <3>4, <4>3, <5>1 DEF Jammed
      <4> QED
        BY <2>4, <4>1, <4>2, <4>3
    <3> QED
      BY <3>2, <3>3, <3>4
  <2>6. setting.llms' = setting.llms
    BY <1>2, Zenon
  <2>7. \A client : Jammed(client)' = Jammed(client)
    BY <1>2, Zenon DEF Jammed
  <2> HIDE DEF its_llm
  <2>8. Closes(1)' = Closes(1)
    BY <1>2, SettingStays, Zenon
  <2> QED
    BY <1>2, <2>4, <2>5, <2>7, <2>8, Zenon DEF ClosingInv, its_llm
<1> QED
  BY <1>6, <1>7, <1>9, <1>10, <1>11 DEF ReleaseInv

LEMMA ReleaseInvariant == ResourcesSpec => []ReleaseInv
<1>1. ReleaseInv /\ [ResourcesNext]_resourceVars => ReleaseInv'
  <2>1. ASSUME ReleaseInv, UNCHANGED resourceVars PROVE ReleaseInv'
    <3>1. /\ ResourcesTypeOK /\ ChainInv /\ KeyInv /\ OpenInv /\ ClosingInv
          /\ UNCHANGED <<setting, to_do, chain, making, configured, given_keys, open, kept,
                        closing, indexes>>
      BY <2>1 DEF ReleaseInv, resourceVars
    <3>2. ResourcesTypeOK' /\ ChainInv'
      BY <3>1 DEF ResourcesTypeOK, ChainInv, PolicyFor
    <3>3. \A i : IsMade(i)' = IsMade(i) /\ NotBegun(i)' = NotBegun(i) /\ Jammed(i)' = Jammed(i)
      BY <3>1 DEF IsMade, NotBegun, Jammed
    <3>4. ApiKey(setting.llms[Len(chain) + 1], FALSE)' = ApiKey(setting.llms[Len(chain) + 1], FALSE)
      BY <3>1 DEF ApiKey, GetValueOrEnv
    <3>5. KeyInv'
      BY <3>1, <3>3, <3>4, SettingStays DEF KeyInv
    <3>6. OpenInv'
      BY <3>1, <3>3, SettingStays DEF OpenInv
    <3>7. ClosingInv'
      BY <3>1, <3>3, SettingStays DEF ClosingInv
    <3> QED
      BY <3>2, <3>5, <3>6, <3>7 DEF ReleaseInv
  <2> QED
    BY <2>1, CreateClientStep, CreateModelStep, CreateMiddlewareStep, AgentCreatedStep,
       DeleteStep, CloseClientStep DEF ResourcesNext
<1> QED
  BY <1>1, ReleaseInit, PTL DEF ResourcesSpec

\* Whatever the settings of the agent are, what is made for it and what is open has the
\* form that the other theorems count on.
THEOREM ResourcesTypes == ResourcesSpec => []ResourcesTypeOK
<1>1. ReleaseInv => ResourcesTypeOK
  BY DEF ReleaseInv
<1> QED
  BY <1>1, ReleaseInvariant, PTL

\* Every LLM of the chain was given the key that its settings lead to, and has its
\* clients until the resources are deleted; from then on those of the first LLM are
\* closed, or do not let themselves be closed: whatever the LLMs are, and wherever
\* making them or closing them fails.
THEOREM ConnectionsReleased == ResourcesSpec => []ConnectionsAreReleased
<1>1. ReleaseInv => ConnectionsAreReleased
  <2> SUFFICES ASSUME ReleaseInv PROVE ConnectionsAreReleased
    OBVIOUS
  <2>1. /\ ResourcesTypeOK /\ ChainInv /\ KeyInv /\ OpenInv /\ ClosingInv
        /\ Len(chain) \in Nat /\ DOMAIN setting.llms = 1 .. Len(setting.llms)
        /\ Len(setting.llms) \in Nat
    BY CurrentIs DEF ReleaseInv
  <2>2. DOMAIN chain = 1 .. Len(chain)
    BY <2>1 DEF ResourcesTypeOK
  <2>3. ASSUME NEW i \in DOMAIN chain PROVE i \in DOMAIN setting.llms /\ IsMade(i)
    BY <2>1, <2>2, <2>3 DEF ChainInv, IsMade
  <2>4. ASSUME NEW i \in DOMAIN chain
        PROVE  {given_keys[i].client, given_keys[i].model} \ {Unset} = {KeyOf(i)} \ {Unset}
    BY <2>1, <2>3 DEF KeyInv
  <2>5. ASSUME to_do \notin {"deleting", "deleted", "not deleted"}, NEW i \in DOMAIN chain
        PROVE  \A client \in Closes(i) : <<i, client>> \in open
    BY <2>1, <2>3, <2>5, Zenon DEF OpenInv, Done
  <2>6. ASSUME to_do \in {"deleted", "not deleted"}, chain # <<>>, NEW client \in Closes(1),
               <<1, client>> \in open
        PROVE  Jammed(client)
    BY <2>1, <2>6, Zenon DEF ClosingInv, Done
  <2> QED
    BY <2>4, <2>5, <2>6, Zenon DEF ConnectionsAreReleased, KeyOf, PolicyFor, Closes, Jammed
<1> QED
  BY <1>1, ReleaseInvariant, PTL

\* The entries up to n that give an agent an object, those that give it a checkpointer,
\* and what the agent has of them.
Listed(entries, n) == {k \in 1 .. n : entries[k].class # Unset}
Offering(entries, n) ==
    {k \in 1 .. n : entries[k].checkpointer # <<>> /\ Head(entries[k].checkpointer).class # Unset}

InOrder(objects, entries, n) ==
    \E places \in [DOMAIN objects -> Listed(entries, n)] :
        /\ Range(places) = Listed(entries, n)
        /\ \A k, l \in DOMAIN objects : k < l => places[k] < places[l]
        /\ \A k \in DOMAIN objects : objects[k][1] = entries[places[k]].class

IsTheFirst(checkpointer, entries, n) ==
    IF Offering(entries, n) = {} THEN checkpointer = NoObject
    ELSE /\ checkpointer # NoObject
         /\ \E k \in Offering(entries, n) :
                /\ \A l \in Offering(entries, n) : k <= l
                /\ checkpointer[1] = Head(entries[k].checkpointer).class

IsBuilt(one, entries, n) ==
    InOrder(one.middleware, entries, n) /\ IsTheFirst(one.checkpointer, entries, n)

\* An agent has no object twice, and all of its objects are counted.
Instances(one) == ToSet(one.middleware) \cup ({one.checkpointer} \ {NoObject})
IsOwn(one) == IsInjective(one.middleware) /\ one.checkpointer \notin ToSet(one.middleware)
HasNumbers(one, counts) == \A object \in Instances(one) : object[2] < Get(counts, object[1], 1)

MiddlewareInv ==
    /\ \A i \in DOMAIN chain :
        /\ IsBuilt(chain[i], setting.middleware, Len(setting.middleware))
        /\ IsOwn(chain[i]) /\ HasNumbers(chain[i], indexes)
        /\ \A j \in DOMAIN chain \ {i} : Instances(chain[i]) \cap Instances(chain[j]) = {}
    /\ to_do = "middleware" =>
        /\ IsBuilt(making, setting.middleware, configured)
        /\ IsOwn(making) /\ HasNumbers(making, indexes)
        /\ \A i \in DOMAIN chain : Instances(making) \cap Instances(chain[i]) = {}

LEMMA OneMoreInOrder ==
    ASSUME NEW entries, NEW n \in Nat, NEW S, NEW objects \in Seq(S), NEW object \in S,
           InOrder(objects, entries, n),
           entries[n + 1].class # Unset, object[1] = entries[n + 1].class
    PROVE  InOrder(Append(objects, object), entries, n + 1)
<1> DEFINE more == Append(objects, object)
<1>1. PICK places \in [DOMAIN objects -> Listed(entries, n)] :
        /\ Range(places) = Listed(entries, n)
        /\ \A k, l \in DOMAIN objects : k < l => places[k] < places[l]
        /\ \A k \in DOMAIN objects : objects[k][1] = entries[places[k]].class
  BY DEF InOrder
<1> DEFINE m == Len(objects)
           longer == [k \in 1 .. m + 1 |-> IF k = m + 1 THEN n + 1 ELSE places[k]]
<1>2. /\ m \in Nat /\ DOMAIN objects = 1 .. m /\ DOMAIN more = 1 .. m + 1
      /\ \A k \in 1 .. m : more[k] = objects[k]
      /\ more[m + 1] = object
  OBVIOUS
<1>3. Listed(entries, n + 1) = Listed(entries, n) \cup {n + 1}
  BY DEF Listed
<1>4. /\ \A k \in 1 .. m : longer[k] = places[k] /\ places[k] \in Listed(entries, n)
      /\ longer[m + 1] = n + 1
  BY <1>2
<1>5. longer \in [DOMAIN more -> Listed(entries, n + 1)]
  BY <1>2, <1>3, <1>4
<1>6. Range(longer) = Listed(entries, n + 1)
  <2>1. \A k \in Listed(entries, n) : \E l \in 1 .. m : longer[l] = k
    BY <1>1, <1>2, <1>4 DEF Range
  <2>2. m + 1 \in 1 .. m + 1 /\ 1 .. m \subseteq 1 .. m + 1
    BY <1>2
  <2>3. DOMAIN longer = 1 .. m + 1
    OBVIOUS
  <2> HIDE DEF m, longer
  <2> QED
    BY <1>2, <1>3, <1>4, <1>5, <2>1, <2>2, <2>3 DEF Range
<1>7. ASSUME NEW k \in DOMAIN more, NEW l \in DOMAIN more, k < l PROVE longer[k] < longer[l]
  <2>1. k \in 1 .. m
    BY <1>2, <1>7
  <2>2. CASE l \in 1 .. m
    BY <1>1, <1>2, <1>4, <1>7, <2>1, <2>2
  <2>3. CASE l = m + 1
    <3>1. longer[k] \in 1 .. n /\ longer[l] = n + 1
      BY <1>4, <2>1, <2>3 DEF Listed
    <3> QED
      BY ONLY <3>1, n \in Nat
  <2> QED
    BY <1>2, <2>2, <2>3
<1>8. ASSUME NEW k \in DOMAIN more PROVE more[k][1] = entries[longer[k]].class
  <2>1. CASE k \in 1 .. m
    BY <1>1, <1>2, <1>4, <2>1
  <2>2. CASE k = m + 1
    BY <1>2, <1>4, <2>2
  <2> QED
    BY <1>2, <2>1, <2>2
<1> HIDE DEF longer, more
<1> QED
  BY <1>5, <1>6, <1>7, <1>8 DEF InOrder, more

LEMMA NothingMoreListed ==
    ASSUME NEW entries, NEW n \in Nat, entries[n + 1].class = Unset
    PROVE  \A objects : InOrder(objects, entries, n) => InOrder(objects, entries, n + 1)
<1>1. Listed(entries, n + 1) = Listed(entries, n)
  BY DEF Listed
<1> QED
  BY <1>1 DEF InOrder

LEMMA NoneInOrder == ASSUME NEW entries PROVE InOrder(<<>>, entries, 0)
<1>1. Listed(entries, 0) = {}
  BY DEF Listed
<1> DEFINE places == [k \in {} |-> k]
<1>2. places \in [DOMAIN <<>> -> {}] /\ Range(places) = {} /\ DOMAIN <<>> = {}
  BY DEF Range
<1> QED
  BY <1>1, <1>2 DEF InOrder

\* The first checkpointer stays the first.
LEMMA FirstStays ==
    ASSUME NEW entries, NEW n \in Nat, NEW had, NEW new,
           IsTheFirst(had, entries, n),
           IF n + 1 \in Offering(entries, n + 1)
           THEN new # NoObject /\ new[1] = Head(entries[n + 1].checkpointer).class
           ELSE new = NoObject
    PROVE  IsTheFirst(IF had = NoObject THEN new ELSE had, entries, n + 1)
<1>1. /\ Offering(entries, n) \subseteq 1 .. n
      /\ Offering(entries, n + 1) = Offering(entries, n) \cup (Offering(entries, n + 1) \cap {n + 1})
  BY DEF Offering
<1>2. CASE Offering(entries, n) = {}
  <2>1. had = NoObject
    BY <1>2 DEF IsTheFirst
  <2>2. CASE n + 1 \in Offering(entries, n + 1)
    <3>1. Offering(entries, n + 1) = {n + 1}
      BY <1>1, <1>2, <2>2
    <3> QED
      BY <2>1, <2>2, <3>1 DEF IsTheFirst
  <2>3. CASE n + 1 \notin Offering(entries, n + 1)
    <3>1. Offering(entries, n + 1) = {}
      BY <1>1, <1>2, <2>3
    <3> QED
      BY <2>1, <2>3, <3>1 DEF IsTheFirst
  <2> QED
    BY <2>2, <2>3
<1>3. CASE Offering(entries, n) # {}
  <2>1. had # NoObject
    BY <1>3 DEF IsTheFirst
  <2>2. PICK k \in Offering(entries, n) :
            /\ \A l \in Offering(entries, n) : k <= l
            /\ had[1] = Head(entries[k].checkpointer).class
    BY <1>3 DEF IsTheFirst
  <2>3. k \in Offering(entries, n + 1)
    BY <1>1
  <2>4. ASSUME NEW l \in Offering(entries, n + 1) PROVE k <= l
    <3>1. CASE l \in Offering(entries, n)
      BY <2>2, <3>1
    <3>2. CASE l = n + 1
      BY <1>1, <3>2
    <3> QED
      BY <1>1, <3>1, <3>2
  <2> QED
    BY <2>1, <2>2, <2>3, <2>4 DEF IsTheFirst
<1> QED
  BY <1>2, <1>3

LEMMA InstancesAre ==
    ASSUME NEW one \in ChainAgents
    PROVE  /\ one.middleware \in Seq(Objects) /\ one.checkpointer \in {NoObject} \cup Objects
           /\ Instances(one) \subseteq Objects
           /\ DOMAIN one.middleware = 1 .. Len(one.middleware) /\ Len(one.middleware) \in Nat
<1>1. one.middleware \in Seq(Objects) /\ one.checkpointer \in {NoObject} \cup Objects
  BY DEF ChainAgents
<1>2. ToSet(one.middleware) \subseteq Objects
  BY <1>1 DEF ToSet
<1> QED
  BY <1>1, <1>2 DEF Instances

\* What is counted stays counted.
LEMMA StaysCounted ==
    ASSUME NEW one \in ChainAgents, NEW counts, NEW more, HasNumbers(one, counts),
           \A name \in STRING : /\ Get(counts, name, 1) \in Nat /\ Get(more, name, 1) \in Nat
                                /\ Get(counts, name, 1) <= Get(more, name, 1)
    PROVE  HasNumbers(one, more)
<1> SUFFICES ASSUME NEW object \in Instances(one) PROVE object[2] < Get(more, object[1], 1)
  BY DEF HasNumbers
<1>1. object[1] \in STRING /\ object[2] \in Nat
  BY InstancesAre DEF Objects
<1>2. object[2] < Get(counts, object[1], 1)
  BY DEF HasNumbers
<1>3. /\ Get(counts, object[1], 1) \in Nat /\ Get(more, object[1], 1) \in Nat
      /\ Get(counts, object[1], 1) <= Get(more, object[1], 1)
  BY <1>1
<1> QED
  BY ONLY <1>1, <1>2, <1>3

\* A new object is nobody's yet.
LEMMA NewIsNobodys ==
    ASSUME ResourcesTypeOK, NEW object, IsNew(object), NEW one \in ChainAgents, HasNumbers(one, indexes)
    PROVE  object \notin Instances(one)
<1> SUFFICES ASSUME object \in Instances(one) PROVE FALSE
  OBVIOUS
<1>1. object[1] \in STRING /\ object[2] \in Nat /\ Get(indexes, object[1], 1) <= object[2]
  BY DEF IsNew, Objects
<1>2. object[2] < Get(indexes, object[1], 1)
  BY DEF HasNumbers
<1>3. Get(indexes, object[1], 1) \in Nat
  BY <1>1 DEF ResourcesTypeOK
<1> QED
  BY ONLY <1>1, <1>2, <1>3

\* One entry is added to what an agent has.
LEMMA MoreIsBuilt ==
    ASSUME ResourcesTypeOK, NEW k \in DOMAIN setting.middleware, k = configured + 1,
           NEW object \in {NoObject} \cup Objects, NEW checkpointer \in {NoObject} \cup Objects,
           Adds(k, object, checkpointer), NEW had, had = making, NEW has, has = making',
           IsBuilt(had, setting.middleware, configured), IsOwn(had), HasNumbers(had, indexes),
           \A name \in STRING : /\ Get(indexes, name, 1) \in Nat /\ Get(indexes', name, 1) \in Nat
                                /\ Get(indexes, name, 1) <= Get(indexes', name, 1)
    PROVE  /\ IsBuilt(has, setting.middleware, k) /\ IsOwn(has) /\ HasNumbers(has, indexes')
           /\ Instances(has) \subseteq Instances(had) \cup ({object, checkpointer} \ {NoObject})
           /\ object # NoObject => IsNew(object)
           /\ checkpointer # NoObject => IsNew(checkpointer)
<1> DEFINE entries == setting.middleware
<1>1. /\ has = [middleware |-> IF object = NoObject THEN had.middleware
                               ELSE Append(had.middleware, object),
                checkpointer |-> IF had.checkpointer = NoObject THEN checkpointer
                                 ELSE had.checkpointer]
      /\ IF HasObject(k) THEN object[1] = Entry(k).class /\ IsNew(object) ELSE object = NoObject
      /\ IF HasCheckpointer(k)
         THEN checkpointer[1] = Head(Entry(k).checkpointer).class /\ IsNew(checkpointer)
         ELSE checkpointer = NoObject
      /\ HasObject(k) /\ HasCheckpointer(k) => object # checkpointer
  BY DEF Adds
<1>2. /\ configured \in Nat /\ had \in ChainAgents
      /\ k \in 1 .. configured + 1
  <2>1. setting.middleware \in Seq(MiddlewareEntries)
    BY SettingIs
  <2>2. Len(setting.middleware) \in Nat
    BY <2>1
  <2> QED
    BY <2>2 DEF ResourcesTypeOK
<1>3. /\ had.middleware \in Seq(Objects) /\ had.checkpointer \in {NoObject} \cup Objects
      /\ Instances(had) \subseteq Objects
      /\ DOMAIN had.middleware = 1 .. Len(had.middleware) /\ Len(had.middleware) \in Nat
  BY <1>2, InstancesAre
<1>4. /\ HasObject(k) <=> object # NoObject
      /\ HasCheckpointer(k) <=> checkpointer # NoObject
      /\ object # NoObject => IsNew(object) /\ object \notin Instances(had)
      /\ checkpointer # NoObject => IsNew(checkpointer) /\ checkpointer \notin Instances(had)
  <2>1. IsNew(object) => object \in Objects /\ object # NoObject
    BY NoneIsNoObject DEF IsNew
  <2>2. IsNew(checkpointer) => checkpointer \in Objects /\ checkpointer # NoObject
    BY NoneIsNoObject DEF IsNew
  <2> QED
    BY <1>1, <1>2, <2>1, <2>2, NewIsNobodys
<1>5. /\ has.middleware = IF object = NoObject THEN had.middleware ELSE Append(had.middleware, object)
      /\ has.checkpointer = IF had.checkpointer = NoObject THEN checkpointer ELSE had.checkpointer
  BY <1>1
<1>6. object # NoObject => object \in Objects
  OBVIOUS
<1>7. IsBuilt(has, entries, k)
  <2>1. InOrder(had.middleware, entries, configured) /\ IsTheFirst(had.checkpointer, entries, configured)
    BY DEF IsBuilt
  <2>2. InOrder(has.middleware, entries, k)
    <3>1. CASE object # NoObject
      <4>1. entries[configured + 1].class # Unset /\ object[1] = entries[configured + 1].class
        BY <1>1, <1>4, <3>1 DEF HasObject, Entry
      <4>2. InOrder(Append(had.middleware, object), entries, configured + 1)
        BY <1>2, <1>3, <1>6, <2>1, <3>1, <4>1, OneMoreInOrder
      <4> QED
        BY <1>5, <3>1, <4>2
    <3>2. CASE object = NoObject
      <4>1. entries[configured + 1].class = Unset
        BY <1>4, <3>2 DEF HasObject, Entry
      <4> QED
        BY <1>2, <1>5, <2>1, <3>2, <4>1, NothingMoreListed
    <3> QED
      BY <3>1, <3>2
  <2>3. IsTheFirst(has.checkpointer, entries, k)
    <3>1. k \in Offering(entries, k) <=> HasCheckpointer(k)
      BY <1>2 DEF Offering, HasCheckpointer, Entry
    <3>2. IF configured + 1 \in Offering(entries, configured + 1)
          THEN checkpointer # NoObject
               /\ checkpointer[1] = Head(entries[configured + 1].checkpointer).class
          ELSE checkpointer = NoObject
      BY <1>1, <1>4, <3>1 DEF Entry
    <3> HIDE DEF entries
    <3> QED
      BY <1>2, <1>5, <2>1, <3>2, FirstStays
  <2> QED
    BY <2>2, <2>3 DEF IsBuilt
<1>8. Instances(has) \subseteq Instances(had) \cup ({object, checkpointer} \ {NoObject})
  <2>1. ToSet(has.middleware) \subseteq ToSet(had.middleware) \cup ({object} \ {NoObject})
    BY <1>3, <1>5, <1>6 DEF ToSet
  <2> QED
    BY <1>5, <2>1 DEF Instances
<1>9. IsOwn(has)
  <2>1. IsInjective(had.middleware) /\ had.checkpointer \notin ToSet(had.middleware)
    BY DEF IsOwn
  <2>2. ToSet(had.middleware) \subseteq Instances(had)
    BY DEF Instances
  <2>3. object # NoObject => object \notin ToSet(had.middleware)
    BY <1>4, <2>2
  <2>4. had.checkpointer # NoObject => had.checkpointer \in Instances(had)
    BY DEF Instances
  <2>5. IsInjective(has.middleware)
    <3>1. CASE object = NoObject
      BY <1>5, <2>1, <3>1
    <3>2. CASE object # NoObject
      <4>1. /\ has.middleware = Append(had.middleware, object)
            /\ DOMAIN has.middleware = 1 .. Len(had.middleware) + 1
            /\ \A i \in 1 .. Len(had.middleware) : has.middleware[i] = had.middleware[i]
            /\ has.middleware[Len(had.middleware) + 1] = object
        BY <1>3, <1>5, <1>6, <3>2
      <4>2. \A i \in 1 .. Len(had.middleware) : had.middleware[i] # object
        BY <1>3, <2>3, <3>2 DEF ToSet
      <4>3. \A i, j \in 1 .. Len(had.middleware) :
                had.middleware[i] = had.middleware[j] => i = j
        BY <1>3, <2>1 DEF IsInjective
      <4> QED
        BY <1>3, <4>1, <4>2, <4>3 DEF IsInjective
    <3> QED
      BY <3>1, <3>2
  <2>6. has.checkpointer \notin ToSet(has.middleware)
    <3>1. ToSet(has.middleware) \subseteq ToSet(had.middleware) \cup ({object} \ {NoObject})
      BY <1>3, <1>5, <1>6 DEF ToSet
    <3>2. NoObject \notin ToSet(had.middleware)
      BY <1>3, NoneIsNoObject DEF ToSet
    <3>3. CASE had.checkpointer # NoObject
      BY <1>4, <1>5, <2>1, <2>4, <3>1, <3>3
    <3>4. CASE had.checkpointer = NoObject
      BY <1>1, <1>4, <1>5, <2>2, <3>1, <3>2, <3>4
    <3> QED
      BY <3>3, <3>4
  <2> QED
    BY <2>5, <2>6 DEF IsOwn
<1>10. HasNumbers(has, indexes')
  <2> SUFFICES ASSUME NEW one \in Instances(has) PROVE one[2] < Get(indexes', one[1], 1)
    BY DEF HasNumbers
  <2>1. CASE one \in Instances(had)
    BY <1>2, <2>1, StaysCounted DEF HasNumbers
  <2>2. CASE one \in {object, checkpointer} \ {NoObject}
    BY <1>4, <2>2 DEF IsNew
  <2> QED
    BY <1>8, <2>1, <2>2
<1> QED
  BY <1>4, <1>7, <1>8, <1>9, <1>10

LEMMA CreateMiddlewareBuilds ==
    ResourcesTypeOK /\ MiddlewareInv /\ CreateMiddleware /\ ResourcesTypeOK' => MiddlewareInv'
<1> SUFFICES ASSUME ResourcesTypeOK, MiddlewareInv, CreateMiddleware, ResourcesTypeOK'
             PROVE  MiddlewareInv'
  OBVIOUS
<1> DEFINE k == configured + 1
<1>1. /\ k \in DOMAIN setting.middleware /\ configured' = k /\ to_do = "middleware"
      /\ UNCHANGED <<setting, chain>>
      /\ \/ to_do' = "raised" /\ UNCHANGED <<making, indexes>>
         \/ /\ to_do' = "middleware"
            /\ \A name \in STRING : /\ Get(indexes', name, 1) \in Nat
                                    /\ Get(indexes, name, 1) <= Get(indexes', name, 1)
            /\ \E object, checkpointer \in {NoObject} \cup Objects : Adds(k, object, checkpointer)
  BY CreateMiddlewareIs
<1>2. /\ making \in ChainAgents /\ \A i \in DOMAIN chain : chain[i] \in ChainAgents
      /\ \A name \in STRING : Get(indexes, name, 1) \in Nat
  BY DEF ResourcesTypeOK
<1>3. CASE to_do' = "raised" /\ UNCHANGED <<making, indexes>>
  BY <1>1, <1>3 DEF MiddlewareInv
<1>4. CASE ~(to_do' = "raised" /\ UNCHANGED <<making, indexes>>)
  <2>1. \A name \in STRING : /\ Get(indexes, name, 1) \in Nat /\ Get(indexes', name, 1) \in Nat
                             /\ Get(indexes, name, 1) <= Get(indexes', name, 1)
    BY <1>1, <1>2, <1>4
  <2>2. PICK object \in {NoObject} \cup Objects, checkpointer \in {NoObject} \cup Objects :
            Adds(k, object, checkpointer)
    BY <1>1, <1>4
  <2>3. PICK has : has = making'
    OBVIOUS
  <2>4. PICK had : had = making
    OBVIOUS
  <2>5. /\ IsBuilt(had, setting.middleware, configured) /\ IsOwn(had) /\ HasNumbers(had, indexes)
        /\ \A i \in DOMAIN chain : Instances(had) \cap Instances(chain[i]) = {}
    BY <1>1, <2>4 DEF MiddlewareInv
  <2>6. /\ IsBuilt(has, setting.middleware, k) /\ IsOwn(has) /\ HasNumbers(has, indexes')
        /\ Instances(has) \subseteq Instances(had) \cup ({object, checkpointer} \ {NoObject})
        /\ object # NoObject => IsNew(object)
        /\ checkpointer # NoObject => IsNew(checkpointer)
    BY <1>1, <2>1, <2>2, <2>3, <2>4, <2>5, MoreIsBuilt
  <2>7. ASSUME NEW i \in DOMAIN chain
        PROVE  HasNumbers(chain[i], indexes') /\ Instances(has) \cap Instances(chain[i]) = {}
    <3>1. HasNumbers(chain[i], indexes) /\ chain[i] \in ChainAgents
      BY <1>2 DEF MiddlewareInv
    <3>2. HasNumbers(chain[i], indexes')
      BY <2>1, <3>1, StaysCounted
    <3>3. /\ object # NoObject => object \notin Instances(chain[i])
          /\ checkpointer # NoObject => checkpointer \notin Instances(chain[i])
      BY <2>6, <3>1, NewIsNobodys
    <3> QED
      BY <2>5, <2>6, <3>2, <3>3
  <2>8. ASSUME NEW i \in DOMAIN chain
        PROVE  /\ IsBuilt(chain[i], setting.middleware, Len(setting.middleware)) /\ IsOwn(chain[i])
               /\ \A j \in DOMAIN chain \ {i} : Instances(chain[i]) \cap Instances(chain[j]) = {}
    BY DEF MiddlewareInv
  <2> QED
    BY <1>1, <2>3, <2>6, <2>7, <2>8 DEF MiddlewareInv
<1> QED
  BY <1>3, <1>4

LEMMA AgentCreatedBuilds ==
    ResourcesTypeOK /\ MiddlewareInv /\ AgentCreated => MiddlewareInv'
<1> SUFFICES ASSUME ResourcesTypeOK, MiddlewareInv, AgentCreated PROVE MiddlewareInv'
  OBVIOUS
<1>1. /\ to_do = "middleware" /\ configured = Len(setting.middleware) /\ to_do' = "agent"
      /\ chain' = Append(chain, making) /\ UNCHANGED <<setting, indexes>>
  BY DEF AgentCreated, Keep
<1> DEFINE n == Len(chain)
<1>2. chain \in Seq(ChainAgents) /\ n \in Nat /\ making \in ChainAgents /\ DOMAIN chain = 1 .. n
  BY DEF ResourcesTypeOK
<1>3. /\ DOMAIN chain' = 1 .. n + 1
      /\ \A i \in 1 .. n : chain'[i] = chain[i]
      /\ chain'[n + 1] = making
  BY <1>1, <1>2
<1> HIDE DEF n
<1>4. /\ IsBuilt(making, setting.middleware, Len(setting.middleware))
      /\ IsOwn(making) /\ HasNumbers(making, indexes)
      /\ \A i \in 1 .. n : Instances(making) \cap Instances(chain[i]) = {}
  BY <1>1, <1>2 DEF MiddlewareInv
<1>5. \A i \in 1 .. n :
        /\ IsBuilt(chain[i], setting.middleware, Len(setting.middleware))
        /\ IsOwn(chain[i]) /\ HasNumbers(chain[i], indexes)
        /\ \A j \in 1 .. n : j # i => Instances(chain[i]) \cap Instances(chain[j]) = {}
  BY <1>2 DEF MiddlewareInv
<1>6. ASSUME NEW i \in DOMAIN chain'
      PROVE  /\ IsBuilt(chain'[i], setting.middleware, Len(setting.middleware))
             /\ IsOwn(chain'[i]) /\ HasNumbers(chain'[i], indexes)
             /\ \A j \in DOMAIN chain' \ {i} : Instances(chain'[i]) \cap Instances(chain'[j]) = {}
  <2>1. CASE i \in 1 .. n
    <3>1. chain'[i] = chain[i]
      BY <1>3, <2>1
    <3>2. ASSUME NEW j \in DOMAIN chain' \ {i} PROVE Instances(chain[i]) \cap Instances(chain'[j]) = {}
      <4>1. CASE j \in 1 .. n
        BY <1>3, <1>5, <2>1, <4>1
      <4>2. CASE j = n + 1
        BY <1>3, <1>4, <2>1, <4>2
      <4> QED
        BY <1>2, <1>3, <4>1, <4>2
    <3> QED
      BY <1>5, <2>1, <3>1, <3>2
  <2>2. CASE i = n + 1
    <3>1. chain'[i] = making
      BY <1>3, <2>2
    <3>2. ASSUME NEW j \in DOMAIN chain' \ {i} PROVE Instances(making) \cap Instances(chain'[j]) = {}
      <4>1. j \in 1 .. n
        BY <1>2, <1>3, <2>2
      <4> QED
        BY <1>3, <1>4, <4>1
    <3> QED
      BY <1>4, <3>1, <3>2
  <2> QED
    BY <1>2, <1>3, <2>1, <2>2
<1> QED
  BY <1>1, <1>6 DEF MiddlewareInv

LEMMA CreateModelBuilds == MiddlewareInv /\ CreateModel => MiddlewareInv'
<1> SUFFICES ASSUME MiddlewareInv, CreateModel PROVE MiddlewareInv'
  OBVIOUS
<1>1. making' = NoAgent /\ configured' = 0 /\ UNCHANGED <<setting, chain, indexes>>
  BY DEF CreateModel, CreateModelGiven, Keep
<1>2. PICK entries : entries = setting.middleware
  OBVIOUS
<1>3. IsBuilt(NoAgent, entries, 0)
  <2>1. Offering(entries, 0) = {}
    BY DEF Offering
  <2> QED
    BY <2>1, NoneInOrder DEF IsBuilt, NoAgent, IsTheFirst
<1>4. Instances(NoAgent) = {}
  BY DEF Instances, NoAgent, ToSet
<1>5. IsOwn(NoAgent) /\ HasNumbers(NoAgent, indexes)
  BY <1>4 DEF IsOwn, NoAgent, IsInjective, ToSet, HasNumbers
<1> QED
  BY <1>1, <1>2, <1>3, <1>4, <1>5 DEF MiddlewareInv

LEMMA MiddlewareInvariant == ResourcesSpec => []MiddlewareInv
<1>1. ResourcesInit => MiddlewareInv
  BY DEF ResourcesInit, Begin, MiddlewareInv
<1>2. ResourcesTypeOK /\ MiddlewareInv /\ [ResourcesNext]_resourceVars /\ ResourcesTypeOK'
        => MiddlewareInv'
  <2> SUFFICES ASSUME ResourcesTypeOK, MiddlewareInv, [ResourcesNext]_resourceVars, ResourcesTypeOK'
               PROVE  MiddlewareInv'
    OBVIOUS
  <2>1. CASE CreateMiddleware \/ AgentCreated \/ CreateModel
    BY <2>1, CreateMiddlewareBuilds, AgentCreatedBuilds, CreateModelBuilds
  <2>2. CASE ~(CreateMiddleware \/ AgentCreated \/ CreateModel)
    <3>1. /\ UNCHANGED <<setting, chain, making, configured, indexes>>
          /\ to_do' = "middleware" => to_do = "middleware"
      BY <2>2, Zenon DEF ResourcesNext, resourceVars, CreateClient, ResourcesCreated, DeleteResources,
                  CloseClient, ResourcesDeleted, Keep
    <3> QED
      BY <3>1 DEF MiddlewareInv
  <2> QED
    BY <2>1, <2>2
<1> QED
  BY <1>1, <1>2, ResourcesTypes, PTL DEF ResourcesSpec

\* Each agent of the chain has what the list says, in the order it says it, with the
\* first checkpointer that is offered; and nothing is given to two of them, or twice:
\* for every list, whatever classes it names and how often.
THEOREM MiddlewareListed == ResourcesSpec => []MiddlewareIsAsListed
<1>1. ResourcesTypeOK /\ MiddlewareInv => MiddlewareIsAsListed
  <2> SUFFICES ASSUME ResourcesTypeOK, MiddlewareInv PROVE MiddlewareIsAsListed
    OBVIOUS
  <2> DEFINE entries == setting.middleware
             listed == {k \in DOMAIN entries : entries[k].class # Unset}
             offers == {k \in DOMAIN entries : /\ entries[k].checkpointer # <<>>
                                               /\ Head(entries[k].checkpointer).class # Unset}
  <2>1. entries \in Seq(MiddlewareEntries)
    BY SettingIs
  <2>2. DOMAIN entries = 1 .. Len(entries)
    BY <2>1
  <2>3. listed = Listed(entries, Len(entries)) /\ offers = Offering(entries, Len(entries))
    BY <2>2 DEF Listed, Offering
  <2>4. ASSUME NEW i \in DOMAIN chain, NEW one, one = chain[i]
        PROVE  /\ InOrder(one.middleware, entries, Len(entries))
               /\ one.checkpointer = NoObject <=> offers = {}
               /\ offers # {} => one.checkpointer[1] = Head(entries[
                        CHOOSE k \in offers : \A l \in offers : k <= l].checkpointer).class
               /\ IsInjective(one.middleware) /\ one.checkpointer \notin ToSet(one.middleware)
               /\ \A j \in DOMAIN chain \ {i} : Instances(one) \cap Instances(chain[j]) = {}
    <3>1. /\ InOrder(one.middleware, entries, Len(entries))
          /\ IsTheFirst(one.checkpointer, entries, Len(entries)) /\ IsOwn(one)
          /\ \A j \in DOMAIN chain \ {i} : Instances(one) \cap Instances(chain[j]) = {}
      BY <2>4 DEF MiddlewareInv, IsBuilt
    <3>2. one.checkpointer = NoObject <=> offers = {}
      BY <2>3, <3>1 DEF IsTheFirst
    <3>3. ASSUME offers # {}
          PROVE  one.checkpointer[1] = Head(entries[
                        CHOOSE k \in offers : \A l \in offers : k <= l].checkpointer).class
      <4>1. PICK k \in offers : /\ \A l \in offers : k <= l
                                /\ one.checkpointer[1] = Head(entries[k].checkpointer).class
        BY <2>3, <3>1, <3>3 DEF IsTheFirst
      <4>2. offers \subseteq Nat
        BY <2>2
      <4>3. \A m \in offers : (\A l \in offers : m <= l) => m = k
        BY <4>1, <4>2
      <4> HIDE DEF offers
      <4>4. (CHOOSE m \in offers : \A l \in offers : m <= l) = k
        BY <4>1, <4>3
      <4> QED
        BY <4>1, <4>4
    <3> QED
      BY <3>1, <3>2, <3>3, Zenon DEF IsOwn
  <2> HIDE DEF entries, listed, offers
  <2>5. ASSUME NEW objects, InOrder(objects, entries, Len(entries))
        PROVE  \E places \in [DOMAIN objects -> listed] :
                 /\ Range(places) = listed
                 /\ \A k, l \in DOMAIN objects : k < l => places[k] < places[l]
                 /\ \A k \in DOMAIN objects : objects[k][1] = entries[places[k]].class
    BY <2>3, <2>5 DEF InOrder
  <2>6. \A i \in DOMAIN chain :
          /\ \E places \in [DOMAIN chain[i].middleware -> listed] :
                /\ Range(places) = listed
                /\ \A k, l \in DOMAIN chain[i].middleware : k < l => places[k] < places[l]
                /\ \A k \in DOMAIN chain[i].middleware :
                        chain[i].middleware[k][1] = entries[places[k]].class
          /\ chain[i].checkpointer = NoObject <=> offers = {}
          /\ offers # {} => chain[i].checkpointer[1] = Head(entries[
                   CHOOSE k \in offers : \A l \in offers : k <= l].checkpointer).class
          /\ IsInjective(chain[i].middleware)
          /\ chain[i].checkpointer \notin ToSet(chain[i].middleware)
          /\ \A j \in DOMAIN chain \ {i} : Instances(chain[i]) \cap Instances(chain[j]) = {}
    BY <2>4, <2>5
  <2> QED
    BY <2>6, Zenon DEF MiddlewareIsAsListed, Instances, entries, listed, offers
<1> QED
  BY <1>1, MiddlewareInvariant, ResourcesTypes, PTL

(***************************************************************************)
(* ToolCalls.  For any agent and any tools: a call reaches the tool that   *)
(* was offered under its name.                                             *)
(***************************************************************************)

\* An agent whose function is offered can be called.
HasFunction(spec) ==
    IF spec.toolbox \in {"unset", "empty"} THEN spec.function = "complete"
    ELSE task.toolbox[spec.toolbox] = "coded"

\* What is offered for a reference.
ToolFor(tool, ref) ==
    /\ tool.of = ref
    /\ tool.kind \in {"function", "toolbox", "mcp"}
    /\ tool.kind = "function" =>
        /\ tool.name = GetSafeAgentName(ref)
        /\ IF ref \in Known THEN HasFunction(ToolSpec(ref)) ELSE ref \in Externals

IsOffer(made, ref) ==
    made.tools \in Seq(ToSet(made.tools)) /\ \A tool \in ToSet(made.tools) : ToolFor(tool, ref)

ToolsInv ==
    /\ task \in ToolChoices
    /\ handled \in 0 .. Len(task.tools)
    /\ offered \in Seq(ToSet(offered))
    /\ \A tool \in ToSet(offered) : tool.of \in ToSet(task.tools) /\ ToolFor(tool, tool.of)
    /\ RightToolIsCalled

LEMMA ToolSpecIs ==
    ASSUME NEW ref \in Known
    PROVE  ToolSpec(ref).name = ref /\ \E i \in DOMAIN task.network : ToolSpec(ref) = task.network[i]
BY DEF Known, AgentNames, ToolSpec, SpecOf

LEMMA NoOffers ==
    ASSUME NEW ref
    PROVE  IsOffer(NoOffer, ref) /\ IsOffer(Offers(<<>>), ref)
<1>1. ToSet(<<>>) = {}
  BY DEF ToSet
<1>2. <<>> \in Seq({})
  OBVIOUS
<1> QED
  BY <1>1, <1>2 DEF IsOffer, NoOffer, Offers

LEMMA ToleratedIs ==
    ASSUME NEW ref, NEW made, IsOffer(made, ref)
    PROVE  IsOffer(Tolerate(made), ref)
BY NoOffers DEF Tolerate

LEMMA FunctionToolIs ==
    ASSUME NEW function, NEW ref,
           function = "complete" => IF ref \in Known THEN HasFunction(ToolSpec(ref)) ELSE ref \in Externals
    PROVE  IsOffer(CreateFunctionTool(function, ref), ref)
<1>1. CASE function = "complete"
  <2> DEFINE tool == BaseTool("function", GetSafeAgentName(ref), ref)
  <2>1. CreateFunctionTool(function, ref).tools = <<tool>>
    BY <1>1 DEF CreateFunctionTool, Offers
  <2>2. ToSet(<<tool>>) = {tool} /\ <<tool>> \in Seq({tool})
    BY DEF ToSet
  <2>3. ToolFor(tool, ref)
    BY <1>1 DEF ToolFor, BaseTool
  <2> HIDE DEF tool
  <2> QED
    BY <2>1, <2>2, <2>3 DEF IsOffer
<1>2. CASE function # "complete"
  BY <1>2, NoOffers DEF CreateFunctionTool
<1> QED
  BY <1>1, <1>2

LEMMA ToolboxToolIs ==
    ASSUME NEW entry, NEW ref
    PROVE  IsOffer(CreateToolFromToolbox(entry, ref), ref)
<1>1. CASE entry = "tool"
  <2> DEFINE tool == BaseTool("toolbox", ref, ref)
  <2>1. CreateToolFromToolbox(entry, ref).tools = <<tool>>
    BY <1>1 DEF CreateToolFromToolbox, Offers
  <2>2. ToSet(<<tool>>) = {tool} /\ <<tool>> \in Seq({tool})
    BY DEF ToSet
  <2>3. ToolFor(tool, ref)
    BY DEF ToolFor, BaseTool
  <2> HIDE DEF tool
  <2> QED
    BY <2>1, <2>2, <2>3 DEF IsOffer
<1>2. CASE entry = "toolkit"
  <2> DEFINE tools == [k \in 1 .. 2 |-> BaseTool("toolbox", Prefixed(ref, k), ref)]
  <2>1. CreateToolFromToolbox(entry, ref).tools = tools
    BY <1>2 DEF CreateToolFromToolbox, Offers
  <2>2. tools \in Seq(ToSet(tools)) /\ \A tool \in ToSet(tools) : \E k : tool = BaseTool("toolbox", k, ref)
    BY DEF ToSet
  <2> HIDE DEF tools
  <2>3. \A tool \in ToSet(tools) : ToolFor(tool, ref)
    BY <2>2 DEF ToolFor, BaseTool
  <2> QED
    BY <2>1, <2>2, <2>3 DEF IsOffer
<1>3. CASE entry \notin {"tool", "toolkit"}
  BY <1>3, NoOffers DEF CreateToolFromToolbox
<1> QED
  BY <1>1, <1>2, <1>3

LEMMA InternalToolIs ==
    ASSUME NEW ref \in Known
    PROVE  IsOffer(CreateInternalTool(ToolSpec(ref)), ref)
<1> DEFINE spec == ToolSpec(ref)
           entry == task.toolbox[spec.toolbox]
           kind == IF entry = "coded" THEN "complete" ELSE entry
<1>1. spec.name = ref
  BY ToolSpecIs
<1>2. CASE spec.toolbox \notin {"unset", "empty"}
  <2>1. CASE entry = "fails"
    BY <1>2, <2>1, NoOffers DEF CreateInternalTool, CreateToolboxTool
  <2>2. CASE entry \in {"coded", "incomplete"}
    <3>1. kind = "complete" => HasFunction(spec)
      BY <1>2, <2>2 DEF HasFunction
    <3>2. IsOffer(Tolerate(CreateFunctionTool(kind, ref)), ref)
      BY <3>1, FunctionToolIs, ToleratedIs
    <3> QED
      BY <1>1, <1>2, <2>2, <3>2 DEF CreateInternalTool, CreateToolboxTool
  <2>3. CASE entry \notin {"coded", "incomplete", "fails"}
    <3>1. IsOffer(Tolerate(CreateToolFromToolbox(entry, ref)), ref)
      BY ToolboxToolIs, ToleratedIs
    <3> QED
      BY <1>1, <1>2, <2>3, <3>1 DEF CreateInternalTool, CreateToolboxTool
  <2> QED
    BY <2>1, <2>2, <2>3
<1>3. CASE spec.toolbox \in {"unset", "empty"} /\ spec.function = "none"
  BY <1>3, NoOffers DEF CreateInternalTool
<1>4. CASE spec.toolbox \in {"unset", "empty"} /\ spec.function # "none"
  <2>1. IsOffer(CreateFunctionTool(spec.function, ref), ref)
    BY <1>4, FunctionToolIs DEF HasFunction
  <2> QED
    BY <1>1, <1>4, <2>1 DEF CreateInternalTool
<1> QED
  BY <1>2, <1>3, <1>4

\* What an MCP server offers is one list, whatever is left out of it.
Served(names, n, allowed, ref) ==
    LET served[k \in 0 .. n] ==
            IF k = 0 THEN <<>>
            ELSE IF allowed # {} /\ names[k] \notin allowed THEN served[k - 1]
            ELSE Append(served[k - 1], BaseTool("mcp", names[k], ref))
    IN  served

LEMMA ServedAreListed ==
    ASSUME NEW names, NEW n \in Nat, NEW allowed, NEW ref, NEW X,
           \A k \in 1 .. n : BaseTool("mcp", names[k], ref) \in X
    PROVE  Served(names, n, allowed, ref)[n] \in Seq(X)
<1> DEFINE Taken(k, list) == IF allowed # {} /\ names[k] \notin allowed THEN list
                            ELSE Append(list, BaseTool("mcp", names[k], ref))
           Step == [k \in 1 .. n |-> [list \in Seq(X) |-> Taken(k, list)]]
<1>1. \A k \in 1 .. n : \A list \in Seq(X) : Taken(k, list) \in Seq(X)
  OBVIOUS
<1> HIDE DEF Taken
<1>2. Step \in [1 .. n -> [Seq(X) -> Seq(X)]] /\ <<>> \in Seq(X)
  BY <1>1
<1>3. \A k \in 1 .. n : \A list \in Seq(X) : Step[k][list] = Taken(k, list)
  OBVIOUS
<1> HIDE DEF Step
<1>4. PICK g \in [0 .. n -> Seq(X)] : g[0] = <<>> /\ \A d \in 1 .. n : g[d] = Step[d][g[d - 1]]
  <2>1. AreSteps(Step, n, Seq(X))
    BY <1>2 DEF AreSteps
  <2>2. PICK g : Follows(g, n, Seq(X), <<>>, Step)
    BY ONLY <1>2, <2>1, n \in Nat, Iterates
  <2> QED
    BY ONLY <2>2 DEF Follows
<1>5. g = [k \in 0 .. n |-> IF k = 0 THEN <<>> ELSE Taken(k, g[k - 1])]
  <2>1. ASSUME NEW k \in 0 .. n PROVE g[k] = IF k = 0 THEN <<>> ELSE Taken(k, g[k - 1])
    <3>1. CASE k = 0
      BY <1>4, <3>1
    <3>2. CASE k # 0
      <4>1. k \in 1 .. n /\ k - 1 \in 0 .. n
        BY <3>2
      <4> QED
        BY <1>3, <1>4, <3>2, <4>1
    <3> QED
      BY <3>1, <3>2
  <2> QED
    BY <2>1
<1> DEFINE served == Served(names, n, allowed, ref)
<1>6. served = [k \in 0 .. n |-> IF k = 0 THEN <<>> ELSE Taken(k, served[k - 1])]
  BY <1>5, Zenon DEF Taken, Served
<1> HIDE DEF served
<1>7. served[0] = <<>> /\ \A k \in 1 .. n : served[k] = Taken(k, served[k - 1])
  BY ONLY <1>6, n \in Nat
<1>8. \A k \in 0 .. n : served[k] \in Seq(X)
  <2>1. \A k \in 1 .. n : served[k - 1] \in Seq(X) => served[k] \in Seq(X)
    BY <1>1, <1>7
  <2> QED
    BY <1>2, <1>7, <2>1, HoldsAtEachStep
<1>9. n \in 0 .. n
  BY ONLY n \in Nat
<1> QED
  BY ONLY <1>8, <1>9 DEF served

LEMMA McpToolIs ==
    ASSUME task \in ToolChoices, NEW ref \in ToSet(task.tools) \cap (DictTools \cup McpUrls)
    PROVE  IsOffer(CreateMcpTool(ref), ref)
<1> DEFINE address == IF ref \in DictTools THEN task.dicts[ref].url ELSE ref
           mcp == task.servers[address]
           allowed == AllowedTools(ref, address)
           n == Len(mcp.tools)
           X == {BaseTool("mcp", mcp.tools[k], ref) : k \in 1 .. n}
           served == Served(mcp.tools, n, allowed, ref)
<1>1. n \in Nat
  <2>1. mcp.tools \in Seq(ToSet(mcp.tools))
    BY ToolsAssumption DEF IsTask
  <2> QED
    BY <2>1
<1>2. CreateMcpTool(ref) = IF mcp.up THEN Offers(served[n]) ELSE Offers(<<>>)
  BY Zenon DEF CreateMcpTool, Served
<1>3. \A k \in 1 .. n : BaseTool("mcp", mcp.tools[k], ref) \in X
  OBVIOUS
<1>4. \A tool \in X : ToolFor(tool, ref)
  <2>1. \A name : ToolFor(BaseTool("mcp", name, ref), ref)
    BY DEF ToolFor, BaseTool
  <2> QED
    BY <2>1
<1>5. served[n] \in Seq(X)
  <2> HIDE DEF X, n, mcp, allowed
  <2> QED
    BY <1>1, <1>3, ServedAreListed
<1> HIDE DEF served, n, X
<1>6. IsOffer(Offers(served[n]), ref)
  <2>1. Offers(served[n]).tools = served[n]
    BY DEF Offers
  <2>2. ToSet(served[n]) \subseteq X /\ served[n] \in Seq(ToSet(served[n]))
    BY <1>5 DEF ToSet
  <2> QED
    BY <1>4, <2>1, <2>2 DEF IsOffer
<1> QED
  BY <1>2, <1>6, NoOffers

\* The folders at and above the network's own that have a class, and the nearest one.
Own == task.path \o task.name_parts
AboveOwn(class) == {i \in Len(task.path) .. Len(Own) : SubSeq(Own, 1, i) \in task.homes[class]}
NearestToOwn(class) ==
    SubSeq(Own, 1, CHOOSE i \in AboveOwn(class) : \A j \in AboveOwn(class) : j <= i)
IsCalled(class, reached) ==
    (task.made[class] = "coded tool" /\ AboveOwn(class) # {} /\ Direct \notin task.homes[class]
        /\ ~task.path_ends_like_name) =>
            reached.by = "coded tool" /\ reached.at = NearestToOwn(class)

LEMMA CountedFromTheEnd ==
    ASSUME NEW p, p \in Nat, NEW l, l \in Nat, NEW n, n = p + l, NEW I, I \in SUBSET (p .. n), I # {}
    PROVE  \E least \in 0 .. l :
            /\ n - least \in I /\ \A j \in I : j <= n - least
            /\ \A i \in 0 .. l : n - i \in I => least <= i
<1> DEFINE found == {i \in 0 .. l : n - i \in I}
<1>1. \A j \in I : j \in Nat /\ n - j \in 0 .. l /\ n - (n - j) = j
  OBVIOUS
<1>2. found # {}
  BY <1>1
<1>3. PICK least \in found : \A i \in found : least <= i
  <2>1. found \in SUBSET Nat
    OBVIOUS
  <2> HIDE DEF found
  <2> QED
    BY <1>2, <2>1, LeastNumber
<1>4. least \in 0 .. l /\ n - least \in I
  OBVIOUS
<1>5. ASSUME NEW j \in I PROVE j <= n - least
  <2>1. n - j \in found
    BY <1>1
  <2>2. least <= n - j /\ j \in Nat
    BY <1>1, <1>3, <2>1
  <2> QED
    BY ONLY <1>4, <2>2, p \in Nat, l \in Nat, n = p + l
<1> QED
  BY <1>3, <1>4, <1>5

LEMMA NearestIsFound ==
    ASSUME task \in ToolChoices, NEW class \in DOMAIN task.homes, AboveOwn(class) # {},
           Direct \notin task.homes[class], ~task.path_ends_like_name
    PROVE  ResolveClass(class) = NearestToOwn(class) /\ ResolveClass(class) # Nowhere
<1> DEFINE homes == task.homes[class]
           p == Len(task.path)
           l == Len(task.name_parts)
           n == Len(Own)
           Folder(i) == SubSeq(Own, 1, n - i)
           found == {i \in FoldersTried : Folder(i) \in homes}
           Above == AboveOwn(class)
<1>1. /\ task.path \in Seq(STRING) /\ task.name_parts \in Seq(STRING)
      /\ Nowhere \notin homes
  BY ToolsAssumption DEF IsTask
<1>2. p \in Nat /\ l \in Nat /\ n = p + l /\ n \in Nat
  <2>1. Len(Own) = Len(task.path) + Len(task.name_parts)
    BY <1>1, ConcatProperties DEF Own
  <2>2. Len(task.path) \in Nat /\ Len(task.name_parts) \in Nat
    BY <1>1
  <2>3. n = p + l /\ p \in Nat /\ l \in Nat
    BY <2>1, <2>2
  <2> HIDE DEF n, p, l
  <2> QED
    BY ONLY <2>3
<1>3. ResolveClass(class) = IF found = {} THEN Nowhere
                            ELSE Folder(CHOOSE i \in found : \A j \in found : i <= j)
  BY DEF ResolveClass, DetermineAgentToolPath, Own
<1>4. \A i : i \in Above <=> i \in p .. n /\ SubSeq(Own, 1, i) \in homes
  BY DEF AboveOwn
<1>5. \A i : i \in found <=> i \in 0 .. l /\ SubSeq(Own, 1, n - i) \in homes
  BY DEF FoldersTried
<1>6. NearestToOwn(class) = SubSeq(Own, 1, CHOOSE i \in Above : \A j \in Above : j <= i)
  BY DEF NearestToOwn
<1> HIDE DEF found, Above, n, p, l, homes
<1>7. Above # {} /\ Above \in SUBSET (p .. n)
  BY <1>4 DEF Above
<1>8. PICK least \in 0 .. l :
        /\ n - least \in Above /\ \A j \in Above : j <= n - least
        /\ \A i \in 0 .. l : n - i \in Above => least <= i
  BY ONLY <1>2, <1>7, CountedFromTheEnd
<1>9. \A i \in found : i \in 0 .. l /\ n - i \in Above
  <2>1. \A i \in 0 .. l : n - i \in p .. n
    BY <1>2
  <2> QED
    BY <1>4, <1>5, <2>1
<1>10. least \in found /\ Folder(least) \in homes
  BY <1>4, <1>5, <1>8
<1>11. (CHOOSE i \in found : \A j \in found : i <= j) = least
  <2>1. \A i \in found : (\A j \in found : i <= j) => i = least
    BY <1>8, <1>9, <1>10
  <2>2. \A i \in found : least <= i
    BY <1>8, <1>9
  <2> QED
    BY ONLY <1>10, <2>1, <2>2
<1>12. (CHOOSE i \in Above : \A j \in Above : j <= i) = n - least
  <2>1. \A i \in Above : i \in Int
    BY <1>2, <1>7
  <2>2. \A i \in Above : (\A j \in Above : j <= i) => i = n - least
    BY <1>8, <2>1
  <2> QED
    BY ONLY <1>8, <2>2
<1> QED
  BY <1>1, <1>3, <1>6, <1>10, <1>11, <1>12

LEMMA ClassIsCalled ==
    ASSUME task \in ToolChoices, NEW class \in DOMAIN task.homes, NEW ref,
           NEW reached, reached = BuildClass(ref, class)
    PROVE  /\ reached.of = ref /\ reached.by \in {"exception", "coded tool", "error"}
           /\ reached \in [by : {"exception", "coded tool", "error"}, of : {ref}, at : {reached.at}, meant : {0}]
           /\ IsCalled(class, reached)
<1> DEFINE folder == ResolveClass(class)
           made == InstantiateCodedTool(class)
<1>1. reached = IF folder = Nowhere \/ made = "raised" THEN Exception(ref)
                ELSE Reaches(IF made = "coded tool" THEN made ELSE "error", ref, folder)
  BY Zenon DEF BuildClass
<1>2. CASE folder = Nowhere \/ made = "raised"
  <2>1. reached = [by |-> "exception", of |-> ref, at |-> <<>>, meant |-> 0]
    BY <1>1, <1>2, Zenon DEF Exception, Reaches
  <2>2. reached.at = <<>> /\ reached.of = ref /\ reached.by = "exception"
    BY <2>1
  <2>3. ~(task.made[class] = "coded tool" /\ folder # Nowhere)
    BY <1>2, Zenon DEF InstantiateCodedTool
  <2>4. IsCalled(class, reached)
    BY <2>3, NearestIsFound, Zenon DEF IsCalled
  <2> QED
    BY <2>1, <2>2, <2>4
<1>3. CASE ~(folder = Nowhere \/ made = "raised")
  <2>1. PICK by \in {"coded tool", "error"} : by = IF made = "coded tool" THEN made ELSE "error"
    BY Zenon
  <2>2. reached = [by |-> by, of |-> ref, at |-> folder, meant |-> 0]
    BY <1>1, <1>3, <2>1, Zenon DEF Reaches
  <2> HIDE DEF folder
  <2>3. reached.at = folder /\ reached.of = ref /\ reached.by = by /\ reached.meant = 0
    BY ONLY <2>2, Zenon
  <2>4. IsCalled(class, reached)
    BY <2>1, <2>3, NearestIsFound, Zenon DEF IsCalled, InstantiateCodedTool, folder
  <2>5. reached \in [by : {"exception", "coded tool", "error"}, of : {ref}, at : {reached.at}, meant : {0}]
    BY <2>1, <2>2, <2>3, Zenon
  <2> QED
    BY <2>1, <2>3, <2>4, <2>5, Zenon
<1> QED
  BY <1>2, <1>3, Zenon

\* What a function that was offered reaches.
CanBeCalled(ref) ==
    IF ref \in Known THEN HasFunction(ToolSpec(ref)) /\ ToolSpec(ref).toolbox # "empty"
    ELSE ref \in Externals
Answers(reached, ref) ==
    LET spec == ToolSpec(ref)
    IN  /\ reached.of = ref /\ reached.by # "front man" /\ DOMAIN reached = {"by", "of", "at", "meant"}
        /\ reached.by = "exception" => ref \in Known
        /\ ref \in Known /\ spec.toolbox # "unset" => IsCalled(spec.toolbox, reached)
        /\ ref \in Known /\ spec.toolbox = "unset" /\ spec.class # "none" => IsCalled(spec.class, reached)
        /\ ref \in Known /\ spec.toolbox = "unset" /\ spec.class = "none" => reached.by = "branch"

LEMMA ActivationIsRight ==
    ASSUME task \in ToolChoices, NEW ref, CanBeCalled(ref)
    PROVE  Answers(CreateAgentActivation(ref), ref)
<1> DEFINE spec == ToolSpec(ref)
<1> SUFFICES ASSUME NEW reached, reached = CreateAgentActivation(ref) PROVE Answers(reached, ref)
  OBVIOUS
<1>1. CASE ref \notin Known
  <2>1. reached = Reaches("external", ref, <<>>)
    BY <1>1 DEF CreateAgentActivation, CanBeCalled
  <2> QED
    BY <1>1, <2>1 DEF Reaches, Answers
<1>2. CASE ref \in Known
  <2>1. PICK i \in DOMAIN task.network : spec = task.network[i]
    BY <1>2, ToolSpecIs
  <2>2. /\ spec.toolbox \in {"unset", "empty"} \cup (DOMAIN task.toolbox \cap DOMAIN task.homes)
        /\ spec.class \in {"none"} \cup DOMAIN task.homes
    BY <2>1, ToolsAssumption DEF IsTask
  <2>3. CASE spec.toolbox # "unset"
    <3>1. task.toolbox[spec.toolbox] = "coded" /\ spec.toolbox \in DOMAIN task.toolbox \cap DOMAIN task.homes
      BY <1>2, <2>2, <2>3 DEF HasFunction, CanBeCalled
    <3>2. reached = BuildClass(ref, spec.toolbox)
      BY <1>2, <2>3, <3>1 DEF CreateAgentActivation, BuildToolbox
    <3>3. /\ reached.of = ref /\ reached.by \in {"exception", "coded tool", "error"}
          /\ reached \in [by : {"exception", "coded tool", "error"}, of : {ref}, at : {reached.at}, meant : {0}]
          /\ IsCalled(spec.toolbox, reached)
      BY <3>1, <3>2, ClassIsCalled, Zenon
    <3> QED
      BY <1>2, <2>3, <3>3, Zenon DEF Answers
  <2>4. CASE spec.toolbox = "unset" /\ spec.class # "none"
    <3>1. spec.function = "complete"
      BY <1>2, <2>4 DEF HasFunction, CanBeCalled
    <3>2. reached = BuildClass(ref, spec.class)
      BY <1>2, <2>4, <3>1 DEF CreateAgentActivation
    <3>3. /\ reached.of = ref /\ reached.by \in {"exception", "coded tool", "error"}
          /\ reached \in [by : {"exception", "coded tool", "error"}, of : {ref}, at : {reached.at}, meant : {0}]
          /\ IsCalled(spec.class, reached)
      BY <2>2, <2>4, <3>2, ClassIsCalled, Zenon
    <3> QED
      BY <1>2, <2>4, <3>3, Zenon DEF Answers
  <2>5. CASE spec.toolbox = "unset" /\ spec.class = "none"
    <3>1. spec.function = "complete"
      BY <1>2, <2>5 DEF HasFunction, CanBeCalled
    <3>2. reached = Reaches("branch", ref, <<>>)
      BY <1>2, <2>5, <3>1 DEF CreateAgentActivation
    <3> QED
      BY <1>2, <2>5, <3>2 DEF Reaches, Answers
  <2> QED
    BY <2>3, <2>4, <2>5
<1> QED
  BY <1>1, <1>2

LEMMA BaseToolIs ==
    ASSUME task \in ToolChoices, NEW ref \in ToSet(task.tools), NEW answer
    PROVE  IsOffer(CreateBaseTool(ref, answer), ref)
<1>1. CASE ref \in Known
  BY <1>1, InternalToolIs DEF CreateBaseTool
<1>2. CASE ref \notin Known
  <2>1. CreateBaseTool(ref, answer) = CreateExternalTool(ref, answer)
    BY <1>2 DEF CreateBaseTool
  <2>2. ref \in DictTools \cup McpUrls => IsOffer(CreateMcpTool(ref), ref)
    BY McpToolIs
  <2>3. ref \in Externals => IsOffer(Tolerate(CreateFunctionTool(answer, ref)), ref)
    BY <1>2, FunctionToolIs, ToleratedIs
  <2> QED
    BY <2>1, <2>2, <2>3, NoOffers DEF CreateExternalTool
<1> QED
  BY <1>1, <1>2

LEMMA MakeToolStep == ToolsInv /\ MakeTool => ToolsInv'
<1> SUFFICES ASSUME ToolsInv, MakeTool PROVE ToolsInv'
  OBVIOUS
<1> DEFINE ref == task.tools[handled + 1]
<1>1. /\ task \in ToolChoices /\ handled \in 0 .. Len(task.tools)
      /\ offered \in Seq(ToSet(offered))
      /\ \A tool \in ToSet(offered) : tool.of \in ToSet(task.tools) /\ ToolFor(tool, tool.of)
  BY DEF ToolsInv
<1>2. handled < Len(task.tools) /\ handled' = handled + 1 /\ task' = task
  BY DEF MakeTool
<1>3. PICK answer \in FunctionJsons :
        /\ offered' = offered \o CreateBaseTool(ref, answer).tools
        /\ result' \in {Reaches("raised", "nothing", <<>>), NoCall}
  BY <1>2 DEF MakeTool
<1>4. task.tools \in Seq(ToSet(task.tools)) /\ Len(task.tools) \in Nat
  BY <1>1, ToolsAssumption DEF IsTask
<1>5. ref \in ToSet(task.tools)
  BY <1>1, <1>2, <1>4 DEF ToSet
<1> DEFINE made == CreateBaseTool(ref, answer)
<1>6. IsOffer(made, ref)
  BY <1>1, <1>5, BaseToolIs
<1> HIDE DEF made, ref
<1> DEFINE S == ToSet(offered) \cup ToSet(made.tools)
<1>7. offered \in Seq(S) /\ made.tools \in Seq(S)
  BY <1>1, <1>6 DEF IsOffer
<1>8. offered' \in Seq(S)
  BY <1>3, <1>7 DEF made
<1>9. offered' \in Seq(ToSet(offered')) /\ ToSet(offered') \subseteq S
  BY <1>8 DEF ToSet
<1>10. ASSUME NEW tool \in S PROVE tool.of \in ToSet(task.tools) /\ ToolFor(tool, tool.of)
  <2>1. CASE tool \in ToSet(offered)
    BY <1>1, <2>1
  <2>2. CASE tool \in ToSet(made.tools)
    <3>1. ToolFor(tool, ref) /\ tool.of = ref
      BY <1>6, <2>2 DEF IsOffer, ToolFor
    <3> QED
      BY <1>5, <3>1
  <2> QED
    BY <2>1, <2>2
<1>11. \A tool, of : ToolFor(tool, of)' = ToolFor(tool, of)
  BY <1>2 DEF ToolFor, HasFunction, Known, ToolSpec
<1>12. RightToolIsCalled'
  <2>1. result'.meant = 0
    BY <1>3 DEF Reaches, NoCall
  <2> QED
    BY <2>1, Zenon DEF RightToolIsCalled
<1> HIDE DEF S
<1>13. handled' \in 0 .. Len(task'.tools)
  BY <1>1, <1>2, <1>4
<1>14. \A tool \in ToSet(offered') : tool.of \in ToSet(task.tools) /\ ToolFor(tool, tool.of)
  BY <1>9, <1>10
<1> QED
  BY <1>1, <1>2, <1>9, <1>11, <1>12, <1>13, <1>14 DEF ToolsInv

\* What a call must reach, if nothing but the tool has the name that is called.
IsInternal(tool) == tool.kind = "function" /\ tool.of \in Known
OnlyOne(tool, meant) ==
    /\ \A i \in DOMAIN offered : offered[i].name = tool.name => i = meant
    /\ tool.kind = "function" =>
        /\ ToSet(task.tools) \cap DictTools = {}
        /\ \A ref \in ToSet(task.tools) : GetSafeAgentName(ref) = tool.name => ref = tool.of
    /\ IsInternal(tool) => ToolSpec(tool.of).toolbox # "empty"
IsRight(reached, tool) ==
    /\ reached.of = tool.of
    /\ reached.by # "front man"
    /\ reached.by = "exception" => IsInternal(tool)
    /\ IsInternal(tool) /\ ToolSpec(tool.of).toolbox # "unset" =>
            IsCalled(ToolSpec(tool.of).toolbox, reached)
    /\ IsInternal(tool) /\ ToolSpec(tool.of).toolbox = "unset" /\ ToolSpec(tool.of).class # "none" =>
            IsCalled(ToolSpec(tool.of).class, reached)
    /\ IsInternal(tool) /\ ToolSpec(tool.of).toolbox = "unset" /\ ToolSpec(tool.of).class = "none" =>
            reached.by = "branch"

LEMMA AlwaysReaches ==
    ASSUME NEW ref PROVE \E by, of, place : CreateAgentActivation(ref) = Reaches(by, of, place)
<1>1. \A of, class : \E by, place : BuildClass(of, class) = Reaches(by, of, place)
  BY Zenon DEF BuildClass, Exception
<1>2. \A of, entry : \E by, place : BuildToolbox(of, entry) = Reaches(by, of, place)
  BY <1>1 DEF BuildToolbox, Exception
<1> DEFINE spec == ToolSpec(ref)
<1>3. CASE ref \notin Known
  <2>1. \E by : CreateAgentActivation(ref) = Reaches(by, ref, <<>>)
    BY <1>3 DEF CreateAgentActivation, Exception
  <2> QED
    BY <2>1
<1>4. CASE ref \in Known /\ spec.toolbox # "unset"
  <2>1. CreateAgentActivation(ref) = BuildToolbox(ref, spec.toolbox)
    BY <1>4 DEF CreateAgentActivation
  <2> QED
    BY <1>2, <2>1
<1>5. CASE ref \in Known /\ spec.toolbox = "unset" /\ spec.function = "none"
  <2>1. CreateAgentActivation(ref) = Reaches("front man", ref, <<>>)
    BY <1>5 DEF CreateAgentActivation
  <2> QED
    BY <2>1, Zenon
<1>6. CASE ref \in Known /\ spec.toolbox = "unset" /\ spec.function # "none"
  <2>1. CreateAgentActivation(ref) = IF spec.class # "none" THEN BuildClass(ref, spec.class)
                                     ELSE Reaches("branch", ref, <<>>)
    BY <1>6 DEF CreateAgentActivation
  <2> QED
    BY <1>1, <2>1
<1> QED
  BY <1>3, <1>4, <1>5, <1>6

LEMMA CallToolStep == ToolsInv /\ CallTool => ToolsInv'
<1> SUFFICES ASSUME ToolsInv, CallTool PROVE ToolsInv'
  OBVIOUS
<1>1. /\ task \in ToolChoices
      /\ offered \in Seq(ToSet(offered))
      /\ \A tool \in ToSet(offered) : tool.of \in ToSet(task.tools) /\ ToolFor(tool, tool.of)
  BY DEF ToolsInv
<1>2. UNCHANGED <<task, handled, offered>>
  BY DEF CallTool
<1>3. PICK meant \in DOMAIN offered :
        LET named == {i \in DOMAIN offered : offered[i].name = offered[meant].name}
            tool == offered[CHOOSE i \in named : \A j \in named : j <= i]
            reached == IF tool.kind = "function" THEN MakeOneToolFunctionCall(tool.name)
                       ELSE Reaches(tool.kind, tool.of, <<>>)
        IN  result' = [reached EXCEPT !.meant = meant]
  BY Zenon DEF CallTool
<1> DEFINE named == {i \in DOMAIN offered : offered[i].name = offered[meant].name}
           tool == offered[CHOOSE i \in named : \A j \in named : j <= i]
           reached == IF tool.kind = "function" THEN MakeOneToolFunctionCall(tool.name)
                      ELSE Reaches(tool.kind, tool.of, <<>>)
<1>4. result' = [reached EXCEPT !.meant = meant]
  BY <1>3
<1>5. meant \in Nat \ {0} /\ offered[meant] \in ToSet(offered)
  BY <1>1 DEF ToSet
<1>6. ASSUME OnlyOne(offered[meant], meant)
      PROVE  DOMAIN reached = {"by", "of", "at", "meant"} /\ IsRight(reached, offered[meant])
  <2>1. tool = offered[meant]
    <3>1. named = {meant}
      BY <1>6 DEF OnlyOne
    <3>2. meant <= meant
      BY <1>5
    <3> HIDE DEF named
    <3> QED
      BY <3>1, <3>2
  <2> HIDE DEF tool
  <2>2. tool.of \in ToSet(task.tools) /\ ToolFor(tool, tool.of)
    BY <1>1, <1>5, <2>1
  <2>3. CASE tool.kind = "function"
    <3> DEFINE spec == ToolSpec(tool.of)
               refs == {i \in DOMAIN task.tools : GetSafeAgentName(task.tools[i]) = tool.name}
               last == CHOOSE i \in refs : \A j \in refs : j <= i
    <3>1. /\ tool.name = GetSafeAgentName(tool.of)
          /\ IF tool.of \in Known THEN HasFunction(spec) ELSE tool.of \in Externals
      BY <2>2, <2>3 DEF ToolFor
    <3>2. /\ ToSet(task.tools) \cap DictTools = {}
          /\ \A ref \in ToSet(task.tools) : GetSafeAgentName(ref) = tool.name => ref = tool.of
          /\ tool.of \in Known => spec.toolbox # "empty"
      BY <1>6, <2>1, <2>3 DEF OnlyOne, IsInternal
    <3>3. task.tools \in Seq(ToSet(task.tools))
      BY <1>1, ToolsAssumption DEF IsTask
    <3>4. refs # {} /\ \A i \in refs : task.tools[i] = tool.of
      BY <2>2, <3>1, <3>2 DEF ToSet
    <3>5. last \in refs
      <4>1. /\ DOMAIN task.tools = 1 .. Len(task.tools) /\ Len(task.tools) \in Nat
        BY <3>3
      <4>2. refs \subseteq 1 .. Len(task.tools)
        BY <4>1
      <4> HIDE DEF refs
      <4>3. \E i \in refs : \A j \in refs : j <= i
        BY <3>4, <4>1, <4>2, GreatestNumber
      <4> QED
        BY <4>3
    <3>6. MakeOneToolFunctionCall(tool.name) = CreateAgentActivation(tool.of)
      <4>1. task.tools[last] = tool.of
        BY <3>4, <3>5
      <4>2. MakeOneToolFunctionCall(tool.name) = CreateAgentActivation(task.tools[last])
        BY <3>2, <3>4 DEF MakeOneToolFunctionCall
      <4> QED
        BY <4>1, <4>2
    <3> HIDE DEF refs, last
    <3>7. reached = CreateAgentActivation(tool.of)
      BY <2>3, <3>6
    <3> HIDE DEF reached
    <3>8. Answers(reached, tool.of)
      <4>1. CanBeCalled(tool.of)
        BY <3>1, <3>2 DEF CanBeCalled
      <4>2. \A ref : CanBeCalled(ref) => Answers(CreateAgentActivation(ref), ref)
        BY ONLY <1>1, ActivationIsRight
      <4> QED
        BY <3>7, <4>1, <4>2
    <3> QED
      BY <2>1, <2>3, <3>8, Zenon DEF IsRight, IsInternal, Answers
  <2>4. CASE tool.kind # "function"
    <3>1. reached = Reaches(tool.kind, tool.of, <<>>) /\ tool.kind \in {"toolbox", "mcp"}
      BY <2>2, <2>4 DEF ToolFor
    <3> QED
      BY <2>1, <2>4, <3>1, Zenon DEF Reaches, IsRight, IsInternal
  <2> QED
    BY <2>3, <2>4
<1> HIDE DEF reached, tool, named
<1>7. ASSUME OnlyOne(offered[meant], meant) PROVE IsRight(result', offered[meant])
  <2>1. DOMAIN reached = {"by", "of", "at", "meant"} /\ IsRight(reached, offered[meant])
    BY <1>6, <1>7
  <2>2. PICK new : new = result'
    OBVIOUS
  <2>3. new.by = reached.by /\ new.of = reached.of /\ new.at = reached.at
    BY <1>4, <2>1, <2>2
  <2>4. \A class : IsCalled(class, reached) => IsCalled(class, new)
    BY <2>3, Zenon DEF IsCalled
  <2>5. IsRight(new, offered[meant])
    BY <2>1, <2>3, <2>4, Zenon DEF IsRight
  <2> QED
    BY <2>2, <2>5
<1>8. result'.meant = meant
  <2>1. \A name : \E by, of, place : MakeOneToolFunctionCall(name) = Reaches(by, of, place)
    BY AlwaysReaches DEF MakeOneToolFunctionCall, Exception
  <2>2. \E by, of, place : reached = Reaches(by, of, place)
    BY <2>1 DEF reached
  <2>3. PICK by, of, place : reached = [by |-> by, of |-> of, at |-> place, meant |-> 0]
    BY <2>2, Zenon DEF Reaches
  <2> QED
    BY <1>4, <2>3
<1>9. RightToolIsCalled'
  <2>1. OnlyOne(offered[meant], meant)' = OnlyOne(offered[meant], meant)
    BY <1>2 DEF OnlyOne, IsInternal, Known, ToolSpec
  <2>2. IsRight(result, offered[meant])' = IsRight(result', offered[meant])
    BY <1>2 DEF IsRight, IsInternal, Known, ToolSpec, IsCalled, AboveOwn, NearestToOwn, Own
  <2>3. (OnlyOne(offered[result.meant], result.meant) => IsRight(result, offered[result.meant]))'
    BY <1>2, <1>7, <1>8, <2>1, <2>2
  <2> QED
    BY <2>3, Zenon DEF RightToolIsCalled, OnlyOne, IsRight, IsInternal, IsCalled, AboveOwn,
                NearestToOwn, Own
<1>10. \A one, of : ToolFor(one, of)' = ToolFor(one, of)
  BY <1>2 DEF ToolFor, HasFunction, Known, ToolSpec
<1> QED
  BY <1>2, <1>9, <1>10 DEF ToolsInv

LEMMA ToolsInvariant == ToolsSpec => []ToolsInv
<1>1. ToolsInit => ToolsInv
  <2> SUFFICES ASSUME ToolsInit PROVE ToolsInv
    OBVIOUS
  <2>1. task \in ToolChoices /\ handled = 0 /\ offered = <<>> /\ result = NoCall
    BY DEF ToolsInit
  <2>2. task.tools \in Seq(ToSet(task.tools))
    BY <2>1, ToolsAssumption DEF IsTask
  <2>3. handled \in 0 .. Len(task.tools)
    BY <2>1, <2>2
  <2>4. offered \in Seq(ToSet(offered)) /\ ToSet(offered) = {}
    BY <2>1 DEF ToSet
  <2>5. RightToolIsCalled
    BY <2>1, Zenon DEF RightToolIsCalled, NoCall
  <2> QED
    BY <2>1, <2>3, <2>4, <2>5 DEF ToolsInv
<1>2. ToolsInv /\ [ToolsNext]_toolVars => ToolsInv'
  <2>1. ASSUME ToolsInv, UNCHANGED toolVars PROVE ToolsInv'
    <3>1. UNCHANGED <<task, handled, offered, result>>
      BY <2>1 DEF toolVars
    <3>2. \A one, of : ToolFor(one, of)' = ToolFor(one, of)
      BY <3>1 DEF ToolFor, HasFunction, Known, ToolSpec
    <3>3. RightToolIsCalled'
      <4>1. RightToolIsCalled
        BY <2>1 DEF ToolsInv
      <4>2. task' = task /\ offered' = offered /\ result' = result
        BY <3>1
      <4> DEFINE tool == offered[result.meant]
      <4>3. result.meant # 0 => (OnlyOne(tool, result.meant) => IsRight(result, tool))
        BY ONLY <4>1, Zenon DEF RightToolIsCalled, OnlyOne, IsRight, IsInternal, IsCalled, AboveOwn,
                                NearestToOwn, Own
      <4>4. /\ OnlyOne(tool, result.meant)' = OnlyOne(tool, result.meant)
            /\ IsRight(result, tool)' = IsRight(result, tool)
        BY ONLY <4>2 DEF OnlyOne, IsInternal, Known, ToolSpec, IsRight, IsCalled, AboveOwn, NearestToOwn, Own
      <4>5. (result.meant # 0 => (OnlyOne(tool, result.meant) => IsRight(result, tool)))'
        BY ONLY <4>2, <4>3, <4>4
      <4> QED
        BY ONLY <4>5, Zenon DEF RightToolIsCalled, OnlyOne, IsRight, IsInternal, IsCalled, AboveOwn,
                                NearestToOwn, Own
    <3> QED
      BY <2>1, <3>1, <3>2, <3>3 DEF ToolsInv
  <2> QED
    BY <2>1, MakeToolStep, CallToolStep DEF ToolsNext
<1> QED
  BY <1>1, <1>2, PTL DEF ToolsSpec

\* A call reaches what was offered under its name, and a coded tool in the nearest of
\* its folders: for every agent and network, whatever its references are, wherever the
\* classes of its tools are found and whatever goes wrong on the way.
THEOREM CallsReachTheRightTool == ToolsSpec => []RightToolIsCalled
<1>1. ToolsInv => RightToolIsCalled
  BY DEF ToolsInv
<1> QED
  BY <1>1, ToolsInvariant, PTL

(***************************************************************************)
(* Manifests.  For any number of manifests: the last that has a name       *)
(* decides.                                                                *)
(***************************************************************************)

\* What the manifests give to one of the storages, and what it has of the first n.
EntriesOf(m) == FilterDicts(FilterKeys(given[m].entries))
GivenTo(public) ==
    [m \in DOMAIN given |-> IF public THEN RestoreOneManifest(given[m], m).public
                            ELSE RestoreOneManifest(given[m], m).protected]
IsLatest(m, n, name, gives) == name \in DOMAIN gives[m] /\ \A k \in m + 1 .. n : name \notin DOMAIN gives[k]
HasLatest(storage, gives, n) ==
    /\ \A name : name \in DOMAIN storage <=> \E m \in 1 .. n : name \in DOMAIN gives[m]
    /\ \A m \in 1 .. n : \A name : IsLatest(m, n, name, gives) => storage[name] = gives[m][name]
ServesLatest(storage, gives, n) ==
    /\ \A name \in DOMAIN storage : \E m \in 1 .. n : name \in DOMAIN gives[m]
    /\ \A m \in 1 .. n : \A name : IsLatest(m, n, name, gives) =>
        /\ name \in DOMAIN storage <=> gives[m][name] # NotServed
        /\ name \in DOMAIN storage => storage[name] = gives[m][name]

ManifestInv ==
    /\ stage \in {"manifests", "served"} => given \in ManifestChoices
    /\ stage = "manifests" =>
        /\ at \in 0 .. Len(given)
        /\ HasLatest(networks.public, GivenTo(TRUE), at)
        /\ HasLatest(networks.protected, GivenTo(FALSE), at)
    /\ stage = "served" =>
        /\ ServesLatest(networks.public, GivenTo(TRUE), Len(given))
        /\ ServesLatest(networks.protected, GivenTo(FALSE), Len(given))

LEMMA NothingGiven ==
    ASSUME NEW gives
    PROVE  HasLatest(NoKeys, gives, 0)
<1>1. DOMAIN NoKeys = {} /\ 1 .. 0 = {}
  BY DEF NoKeys
<1> QED
  BY <1>1 DEF HasLatest

LEMMA OverlaidIsLatest ==
    ASSUME NEW storage, NEW gives, NEW n, n \in Nat, HasLatest(storage, gives, n),
           NEW new, new = Overlay(storage, gives[n + 1])
    PROVE  HasLatest(new, gives, n + 1)
<1>1. /\ \A name : name \in DOMAIN storage <=> \E m \in 1 .. n : name \in DOMAIN gives[m]
      /\ \A m \in 1 .. n : \A name : IsLatest(m, n, name, gives) => storage[name] = gives[m][name]
  BY Zenon DEF HasLatest
<1>2. PICK next : next = gives[n + 1]
  OBVIOUS
<1>3. /\ DOMAIN new = DOMAIN storage \cup DOMAIN next
      /\ \A name \in DOMAIN next : new[name] = next[name]
      /\ \A name \in DOMAIN storage : name \notin DOMAIN next => new[name] = storage[name]
  <2>1. new = Overlay(storage, next)
    BY <1>2
  <2> QED
    BY ONLY <2>1 DEF Overlay
<1>4. \A m \in 1 .. n + 1 : m = n + 1 \/ (m \in 1 .. n /\ n + 1 \in m + 1 .. n + 1
                                        /\ \A k \in m + 1 .. n : k \in m + 1 .. n + 1)
  BY ONLY n \in Nat
<1>5. n + 1 \in 1 .. n + 1 /\ \A m \in 1 .. n : m \in 1 .. n + 1
  BY ONLY n \in Nat
<1>6. ASSUME NEW name PROVE name \in DOMAIN new <=> \E m \in 1 .. n + 1 : name \in DOMAIN gives[m]
  BY ONLY <1>1, <1>2, <1>3, <1>4, <1>5
<1>7. ASSUME NEW m \in 1 .. n + 1, NEW name, IsLatest(m, n + 1, name, gives)
      PROVE  new[name] = gives[m][name]
  <2>1. name \in DOMAIN gives[m] /\ \A k \in m + 1 .. n + 1 : name \notin DOMAIN gives[k]
    BY <1>7 DEF IsLatest
  <2>2. CASE m = n + 1
    BY ONLY <1>2, <1>3, <2>1, <2>2
  <2>3. CASE m # n + 1
    <3>1. /\ m \in 1 .. n /\ n + 1 \in m + 1 .. n + 1
          /\ \A k \in m + 1 .. n : k \in m + 1 .. n + 1
      BY ONLY <1>4, <2>3, m \in 1 .. n + 1
    <3>2. name \notin DOMAIN next /\ IsLatest(m, n, name, gives)
      BY ONLY <1>2, <2>1, <3>1 DEF IsLatest
    <3> QED
      BY ONLY <1>1, <1>3, <2>1, <3>1, <3>2
  <2> QED
    BY <2>2, <2>3
<1> QED
  BY ONLY <1>6, <1>7 DEF HasLatest

LEMMA DroppedServesLatest ==
    ASSUME NEW storage, NEW gives, NEW n, HasLatest(storage, gives, n),
           NEW new, new = DropNone(storage)
    PROVE  ServesLatest(new, gives, n)
<1>1. /\ \A name : name \in DOMAIN storage <=> \E m \in 1 .. n : name \in DOMAIN gives[m]
      /\ \A m \in 1 .. n : \A name : IsLatest(m, n, name, gives) => storage[name] = gives[m][name]
  BY Zenon DEF HasLatest
<1>2. /\ \A name : name \in DOMAIN new <=> name \in DOMAIN storage /\ storage[name] # NotServed
      /\ \A name \in DOMAIN new : new[name] = storage[name]
  BY DEF DropNone
<1>3. \A m \in 1 .. n : \A name : IsLatest(m, n, name, gives) => name \in DOMAIN storage
  BY ONLY <1>1 DEF IsLatest
<1> QED
  BY ONLY <1>1, <1>2, <1>3 DEF ServesLatest

LEMMA ManifestGives ==
    ASSUME NEW m \in DOMAIN given, NEW name
    PROVE  /\ name \in DOMAIN EntriesOf(m) => EntriesOf(m)[name].public \in BOOLEAN
           /\ \A public \in BOOLEAN :
                /\ name \in DOMAIN GivenTo(public)[m] <=>
                    name \in DOMAIN EntriesOf(m) /\ EntriesOf(m)[name].public = public /\ Fine(m, name)
                /\ name \in DOMAIN GivenTo(public)[m] =>
                    GivenTo(public)[m][name] = IF EntriesOf(m)[name].serve
                                               THEN [from |-> m, mcp |-> EntriesOf(m)[name].mcp] ELSE NotServed
<1> DEFINE entries == EntriesOf(m)
           Usable(n) == /\ Readable(given[m].files[n])
                        /\ Validate(given[m].files[n].network, ExternalNetworkNames(entries)) = {}
           Fit == {n \in DOMAIN entries : entries[n].serve => Usable(n)}
           Network(n) == IF entries[n].serve THEN [from |-> m, mcp |-> entries[n].mcp] ELSE NotServed
           Storage(public) == [n \in {k \in Fit : entries[k].public = public} |-> Network(n)]
<1>1. FilterManifest(given[m]) = entries
  BY DEF FilterManifest, FilterServed, EntriesOf
<1>2. RestoreOneManifest(given[m], m) = [public |-> Storage(TRUE), protected |-> Storage(FALSE)]
  BY <1>1, Zenon DEF RestoreOneManifest
<1>3. \A public \in BOOLEAN : GivenTo(public)[m] = Storage(public)
  <2> HIDE DEF Storage
  <2>1. PICK pub, pro : pub = Storage(TRUE) /\ pro = Storage(FALSE)
    OBVIOUS
  <2>2. RestoreOneManifest(given[m], m).public = pub /\ RestoreOneManifest(given[m], m).protected = pro
    BY <1>2, <2>1
  <2>3. GivenTo(TRUE)[m] = pub /\ GivenTo(FALSE)[m] = pro
    BY <2>2 DEF GivenTo
  <2> QED
    BY <2>1, <2>3
<1>4. \A n \in DOMAIN entries : (entries[n].serve => Usable(n)) <=> Fine(m, n)
  BY Zenon DEF Fine, EntriesOf
<1>5. name \in DOMAIN entries => entries[name].public \in BOOLEAN
  BY DEF EntriesOf, FilterDicts, MCP_DEFAULT_MODE
<1> HIDE DEF entries, Usable, Network
<1>6. \A public \in BOOLEAN :
        /\ name \in DOMAIN GivenTo(public)[m] <=>
            name \in DOMAIN entries /\ entries[name].public = public /\ Fine(m, name)
        /\ name \in DOMAIN GivenTo(public)[m] => GivenTo(public)[m][name] = Network(name)
  BY <1>3, <1>4
<1> QED
  BY <1>5, <1>6 DEF entries, Network

LEMMA RestoreManifestStep == ManifestInv /\ RestoreManifest => ManifestInv'
<1> SUFFICES ASSUME ManifestInv, RestoreManifest PROVE ManifestInv'
  OBVIOUS
<1>1. /\ given \in ManifestChoices /\ at \in 0 .. Len(given)
      /\ HasLatest(networks.public, GivenTo(TRUE), at)
      /\ HasLatest(networks.protected, GivenTo(FALSE), at)
  BY DEF ManifestInv, RestoreManifest
<1>2. at < Len(given) /\ at' = at + 1 /\ given' = given
  BY DEF RestoreManifest
<1>3. Len(given) \in Nat /\ DOMAIN given = 1 .. Len(given)
  BY <1>1, ManifestsAssumption
<1>4. at \in Nat /\ at' \in 0 .. Len(given) /\ at' \in DOMAIN given
  <2>1. PICK l : l = Len(given)
    OBVIOUS
  <2>2. at \in 0 .. l /\ l \in Nat /\ at < l
    BY <1>1, <1>2, <1>3, <2>1
  <2>3. at \in Nat /\ at + 1 \in 0 .. l /\ at + 1 \in 1 .. l
    BY ONLY <2>2
  <2> QED
    BY <1>2, <1>3, <2>1, <2>3
<1>5. CASE RestoreRaises(given[at'])
  <2>1. stage' = "raised"
    BY <1>5 DEF RestoreManifest
  <2> QED
    BY <2>1 DEF ManifestInv
<1>6. CASE ~RestoreRaises(given[at'])
  <2>1. stage' = "manifests" /\ networks' = OverlayNetworks(networks, RestoreOneManifest(given[at'], at'))
    BY <1>6 DEF RestoreManifest
  <2>2. /\ networks'.public = Overlay(networks.public, RestoreOneManifest(given[at'], at').public)
        /\ networks'.protected = Overlay(networks.protected, RestoreOneManifest(given[at'], at').protected)
    BY <2>1 DEF OverlayNetworks
  <2>3. /\ GivenTo(TRUE)[at'] = RestoreOneManifest(given[at'], at').public
        /\ GivenTo(FALSE)[at'] = RestoreOneManifest(given[at'], at').protected
    BY <1>4 DEF GivenTo
  <2>4. PICK n, one, two, gives, hides, new, other :
            /\ n = at /\ one = networks.public /\ two = networks.protected
            /\ gives = GivenTo(TRUE) /\ hides = GivenTo(FALSE)
            /\ new = networks'.public /\ other = networks'.protected
    OBVIOUS
  <2>5. /\ HasLatest(one, gives, n) /\ HasLatest(two, hides, n) /\ n \in Nat
        /\ new = Overlay(one, gives[n + 1]) /\ other = Overlay(two, hides[n + 1])
    BY <1>1, <1>2, <1>4, <2>2, <2>3, <2>4
  <2>6. HasLatest(new, gives, n + 1) /\ HasLatest(other, hides, n + 1)
    BY ONLY <2>5, OverlaidIsLatest
  <2>7. HasLatest(networks.public, GivenTo(TRUE), at)' /\ HasLatest(networks.protected, GivenTo(FALSE), at)'
    <3>1. GivenTo(TRUE)' = gives /\ GivenTo(FALSE)' = hides
      BY <1>2, <2>4 DEF GivenTo
    <3>2. HasLatest(new, gives, at')
          /\ HasLatest(other, hides, at')
      BY <1>2, <2>4, <2>6
    <3>3. HasLatest(networks'.public, GivenTo(TRUE)', at') /\ HasLatest(networks'.protected, GivenTo(FALSE)', at')
      BY ONLY <2>4, <3>1, <3>2
    <3> QED
      BY <3>3 DEF HasLatest, IsLatest
  <2> QED
    BY <1>1, <1>2, <1>4, <2>1, <2>7 DEF ManifestInv
<1> QED
  BY <1>5, <1>6

LEMMA RestoreFromFilesStep == ManifestInv /\ RestoreFromFiles => ManifestInv'
<1> SUFFICES ASSUME ManifestInv, RestoreFromFiles PROVE ManifestInv'
  OBVIOUS
<1>1. /\ given \in ManifestChoices /\ at = Len(given)
      /\ HasLatest(networks.public, GivenTo(TRUE), at)
      /\ HasLatest(networks.protected, GivenTo(FALSE), at)
  BY DEF ManifestInv, RestoreFromFiles
<1>2. given' = given /\ stage' = "served" /\ networks' = ServedNetworks(networks)
  BY DEF RestoreFromFiles
<1>3. networks'.public = DropNone(networks.public) /\ networks'.protected = DropNone(networks.protected)
  BY <1>2 DEF ServedNetworks
<1>4. PICK n, one, two, gives, hides, new, other :
        /\ n = at /\ one = networks.public /\ two = networks.protected
        /\ gives = GivenTo(TRUE) /\ hides = GivenTo(FALSE)
        /\ new = networks'.public /\ other = networks'.protected
  OBVIOUS
<1>5. /\ HasLatest(one, gives, n) /\ HasLatest(two, hides, n)
      /\ new = DropNone(one) /\ other = DropNone(two)
  BY <1>1, <1>3, <1>4
<1>6. ServesLatest(new, gives, n) /\ ServesLatest(other, hides, n)
  BY ONLY <1>5, DroppedServesLatest
<1>7. GivenTo(TRUE)' = gives /\ GivenTo(FALSE)' = hides
  BY <1>2, <1>4 DEF GivenTo
<1>8. /\ ServesLatest(networks'.public, GivenTo(TRUE)', Len(given)')
      /\ ServesLatest(networks'.protected, GivenTo(FALSE)', Len(given)')
  BY <1>1, <1>2, <1>4, <1>6, <1>7
<1>9. /\ ServesLatest(networks.public, GivenTo(TRUE), Len(given))'
      /\ ServesLatest(networks.protected, GivenTo(FALSE), Len(given))'
  BY ONLY <1>8 DEF ServesLatest, IsLatest
<1> QED
  BY <1>1, <1>2, <1>9 DEF ManifestInv

LEMMA ManifestInvariant == SetupSpec => []ManifestInv
<1>1. SetupInit => ManifestInv
  <2> SUFFICES ASSUME SetupInit PROVE ManifestInv
    OBVIOUS
  <2>1. at = 0 /\ networks = NoNetworks
        /\ stage # "served" /\ (stage = "manifests" => given \in ManifestChoices)
    BY DEF SetupInit
  <2>2. networks.public = NoKeys /\ networks.protected = NoKeys
    BY <2>1 DEF NoNetworks
  <2>3. HasLatest(networks.public, GivenTo(TRUE), at) /\ HasLatest(networks.protected, GivenTo(FALSE), at)
    BY <2>1, <2>2, NothingGiven
  <2>4. stage = "manifests" => at \in 0 .. Len(given)
    <3> SUFFICES ASSUME stage = "manifests" PROVE at \in 0 .. Len(given)
      OBVIOUS
    <3>1. Len(given) \in Nat
      BY <2>1, ManifestsAssumption
    <3> QED
      BY <2>1, <3>1
  <2> QED
    BY <2>1, <2>3, <2>4 DEF ManifestInv
<1>2. ManifestInv /\ [SetupNext]_allVars => ManifestInv'
  <2> SUFFICES ASSUME ManifestInv, [SetupNext]_allVars PROVE ManifestInv'
    OBVIOUS
  <2>1. CASE UNCHANGED setupVars
    <3>1. UNCHANGED <<stage, given, at, networks>>
      BY <2>1 DEF setupVars
    <3>2. GivenTo(TRUE)' = GivenTo(TRUE) /\ GivenTo(FALSE)' = GivenTo(FALSE)
      BY <3>1 DEF GivenTo
    <3>3. stage = "manifests" =>
            /\ HasLatest(networks'.public, GivenTo(TRUE)', at')
            /\ HasLatest(networks'.protected, GivenTo(FALSE)', at')
      BY <3>1, <3>2 DEF ManifestInv
    <3>4. stage = "served" =>
            /\ ServesLatest(networks'.public, GivenTo(TRUE)', Len(given)')
            /\ ServesLatest(networks'.protected, GivenTo(FALSE)', Len(given)')
      BY <3>1, <3>2 DEF ManifestInv
    <3>5. stage = "manifests" =>
            (HasLatest(networks.public, GivenTo(TRUE), at) /\ HasLatest(networks.protected, GivenTo(FALSE), at))'
      BY ONLY <3>3 DEF HasLatest, IsLatest
    <3>6. stage = "served" =>
            (/\ ServesLatest(networks.public, GivenTo(TRUE), Len(given))
             /\ ServesLatest(networks.protected, GivenTo(FALSE), Len(given)))'
      BY ONLY <3>4 DEF ServesLatest, IsLatest
    <3>7. stage = "manifests" => given \in ManifestChoices /\ at \in 0 .. Len(given)
      BY DEF ManifestInv
    <3>8. stage = "served" => given \in ManifestChoices
      BY DEF ManifestInv
    <3> QED
      BY <3>1, <3>5, <3>6, <3>7, <3>8 DEF ManifestInv
  <2>2. CASE PipelineStep
    <3>1. RestoreManifest \/ RestoreFromFiles \/ stage' \notin {"manifests", "served"}
      BY <2>2 DEF PipelineStep, CreateNetwork, Connectivity, ReportNodeConnectivity,
                  ConnectivityReported, FillAgentDefaults, CreateFullConfig, TryFactory, CreateLlm
    <3> QED
      BY <3>1, RestoreManifestStep, RestoreFromFilesStep DEF ManifestInv
  <2> QED
    BY <2>1, <2>2 DEF SetupNext, allVars
<1> QED
  BY <1>1, <1>2, PTL DEF SetupSpec

\* The last manifest that has a name decides: for any number of manifests, whatever
\* their entries and the files they name are.
THEOREM LastOneDecides == SetupSpec => []LastManifestDecides
<1>1. ManifestInv => LastManifestDecides
  <2> SUFFICES ASSUME ManifestInv, stage = "served" PROVE LastManifestDecides
    BY Zenon DEF LastManifestDecides
  <2> DEFINE Listing(name) == {m \in DOMAIN given : name \in DOMAIN EntriesOf(m)}
             Latest(name) == CHOOSE m \in Listing(name) : \A n \in Listing(name) : n <= m
             Steady(name) == \A m \in Listing(name) :
                Fine(m, name) /\ EntriesOf(m)[name].public = EntriesOf(Latest(name))[name].public
             l == Len(given)
  <2>1. /\ given \in ManifestChoices
        /\ ServesLatest(networks.public, GivenTo(TRUE), l)
        /\ ServesLatest(networks.protected, GivenTo(FALSE), l)
    BY DEF ManifestInv
  <2>2. l \in Nat /\ DOMAIN given = 1 .. l
    BY <2>1, ManifestsAssumption
  <2> HIDE DEF l
  <2>3. ASSUME NEW name, Listing(name) # {}, Steady(name)
        PROVE  LET entry == EntriesOf(Latest(name))[name]
                   storage == IF entry.public THEN networks.public ELSE networks.protected
                   elsewhere == IF entry.public THEN networks.protected ELSE networks.public
               IN  /\ name \notin DOMAIN elsewhere
                   /\ name \in DOMAIN storage <=> entry.serve
                   /\ entry.serve => storage[name] = [from |-> Latest(name), mcp |-> entry.mcp]
    <3>1. PICK last \in Listing(name) : \A n \in Listing(name) : n <= last
      <4>1. Listing(name) \subseteq 1 .. l
        BY <2>2
      <4> HIDE DEF Listing
      <4> QED
        BY ONLY <2>2, <2>3, <4>1, GreatestNumber
    <3>2. last \in 1 .. l /\ name \in DOMAIN EntriesOf(last)
      BY <2>2
    <3>3. Latest(name) = last
      <4>1. \A m \in Listing(name) : (\A n \in Listing(name) : n <= m) => m = last
        <5>1. \A m \in Listing(name) : m \in Nat
          BY <2>2
        <5> HIDE DEF Listing
        <5> QED
          BY ONLY <3>1, <5>1
      <4> HIDE DEF Listing
      <4> QED
        BY ONLY <3>1, <4>1
    <3>4. \A m \in 1 .. l : name \in DOMAIN EntriesOf(m) =>
            Fine(m, name) /\ EntriesOf(m)[name].public = EntriesOf(last)[name].public
      BY <2>2, <2>3, <3>3
    <3>5. \A k \in last + 1 .. l : name \notin DOMAIN EntriesOf(k)
      <4>1. \A k \in last + 1 .. l : k \in 1 .. l /\ ~(k <= last)
        BY ONLY <2>2, <3>2
      <4> QED
        BY <2>2, <3>1, <4>1
    <3> HIDE DEF Listing, Latest, Steady
    <3> DEFINE entry == EntriesOf(last)[name]
    <3>6. PICK public \in BOOLEAN : public = entry.public
      <4>1. entry.public \in BOOLEAN
        BY ONLY <2>2, <3>2, ManifestGives
      <4> QED
        BY ONLY <4>1
    <3>7. \A m \in 1 .. l : \A other \in BOOLEAN :
            name \in DOMAIN GivenTo(other)[m] =>
                name \in DOMAIN EntriesOf(m) /\ EntriesOf(m)[name].public = other
      BY <2>2, ManifestGives
    <3>8. \A m \in 1 .. l : name \notin DOMAIN GivenTo(~public)[m]
      BY <3>4, <3>6, <3>7
    <3>9. IsLatest(last, l, name, GivenTo(public))
      <4>1. name \in DOMAIN GivenTo(public)[last]
        BY <2>2, <3>2, <3>4, <3>6, ManifestGives
      <4>2. \A k \in last + 1 .. l : k \in 1 .. l
        BY ONLY <2>2, <3>2
      <4> QED
        BY <3>5, <3>7, <4>1, <4>2 DEF IsLatest
    <3>10. GivenTo(public)[last][name] = IF entry.serve THEN [from |-> last, mcp |-> entry.mcp] ELSE NotServed
      BY <2>2, <3>2, <3>4, <3>6, <3>9, ManifestGives DEF IsLatest
    <3>11. [from |-> last, mcp |-> entry.mcp] # NotServed
      BY <3>2 DEF NotServed
    <3> DEFINE storage == IF public THEN networks.public ELSE networks.protected
               elsewhere == IF public THEN networks.protected ELSE networks.public
    <3>12. ServesLatest(storage, GivenTo(public), l) /\ ServesLatest(elsewhere, GivenTo(~public), l)
      <4>1. CASE public = TRUE
        BY <2>1, <4>1
      <4>2. CASE public = FALSE
        BY <2>1, <4>2
      <4> QED
        BY <4>1, <4>2
    <3> HIDE DEF storage, elsewhere
    <3>13. name \notin DOMAIN elsewhere
      BY <3>8, <3>12 DEF ServesLatest
    <3>14. /\ name \in DOMAIN storage <=> GivenTo(public)[last][name] # NotServed
           /\ name \in DOMAIN storage => storage[name] = GivenTo(public)[last][name]
      BY <3>2, <3>9, <3>12 DEF ServesLatest
    <3>15. /\ name \in DOMAIN storage <=> entry.serve
           /\ entry.serve => storage[name] = [from |-> last, mcp |-> entry.mcp]
      BY <3>10, <3>11, <3>14
    <3> QED
      BY <3>3, <3>6, <3>13, <3>15 DEF storage, elsewhere
  <2>4. \A name \in UNION {DOMAIN EntriesOf(m) : m \in DOMAIN given} : Listing(name) # {}
    OBVIOUS
  <2> QED
    BY <2>3, <2>4, Zenon DEF LastManifestDecides, EntriesOf
<1> QED
  BY <1>1, ManifestInvariant, PTL

(***************************************************************************)
(* Network files.  For any network and definitions: the values and strings *)
(* that are used are replaced.                                             *)
(***************************************************************************)

\* A text after the words that are keys have given way: Given(word) in place of each.
LEMMA WordsReplaced ==
    ASSUME NEW X, NEW Y, NEW text, text \in Seq(X), NEW lists, DOMAIN lists = DOMAIN text,
           \A i \in DOMAIN text : lists[i] \in Seq(Y),
           lists = [i \in DOMAIN text |-> lists[i]]
    PROVE  /\ FlattenSeq(lists) \in Seq(Y)
           /\ text # <<>> /\ (\A i \in DOMAIN text : lists[i] # <<>>) => FlattenSeq(lists) # <<>>
<1>1. PICK n \in Nat : n = Len(text) /\ DOMAIN text = 1 .. n
  BY ONLY text \in Seq(X)
<1>2. ASSUME \A i \in DOMAIN text : lists[i] # <<>> PROVE lists \in Seq(Seq(Y) \ {<<>>})
  <2>1. lists \in [1 .. n -> Seq(Y) \ {<<>>}]
    BY ONLY <1>1, <1>2, DOMAIN lists = DOMAIN text, \A i \in DOMAIN text : lists[i] \in Seq(Y),
            lists = [i \in DOMAIN text |-> lists[i]]
  <2> QED
    BY ONLY <1>1, <2>1
<1>3. lists \in Seq(Seq(Y))
  <2>1. lists \in [1 .. n -> Seq(Y)]
    BY ONLY <1>1, DOMAIN lists = DOMAIN text, \A i \in DOMAIN text : lists[i] \in Seq(Y),
            lists = [i \in DOMAIN text |-> lists[i]]
  <2> QED
    BY ONLY <1>1, <2>1
<1>4. text # <<>> => lists # <<>>
  <2>1. text # <<>> => n # 0
    BY ONLY <1>1, text \in Seq(X), EmptySeq
  <2>2. n # 0 => 1 \in DOMAIN lists
    BY ONLY <1>1, DOMAIN lists = DOMAIN text
  <2>3. DOMAIN <<>> = {}
    OBVIOUS
  <2> QED
    BY ONLY <2>1, <2>2, <2>3
<1> QED
  BY ONLY <1>2, <1>3, <1>4, FlattenedHas

LEMMA ValuesReplaced ==
    ASSUME NEW X, NEW Y, NEW text, text \in Seq(X), NEW values,
           \A word \in X : IF word \in DOMAIN values THEN values[word] \in Seq(Y) ELSE word \in Y
    PROVE  ReplaceValues(text, values) \in Seq(Y)
<1>1. PICK lists : lists = [i \in DOMAIN text |->
                                IF text[i] \in DOMAIN values THEN values[text[i]] ELSE <<text[i]>>]
  OBVIOUS
<1>2. DOMAIN lists = DOMAIN text /\ lists = [i \in DOMAIN text |-> lists[i]]
  BY ONLY <1>1
<1>3. ASSUME NEW i \in DOMAIN text PROVE lists[i] \in Seq(Y)
  <2>1. text[i] \in X
    BY ONLY text \in Seq(X), i \in DOMAIN text
  <2>2. lists[i] = IF text[i] \in DOMAIN values THEN values[text[i]] ELSE <<text[i]>>
    BY ONLY <1>1, i \in DOMAIN text
  <2> QED
    BY <2>1, <2>2
<1>4. FlattenSeq(lists) \in Seq(Y)
  BY ONLY <1>2, <1>3, text \in Seq(X), WordsReplaced
<1> QED
  BY ONLY <1>1, <1>4 DEF ReplaceValues

\* One definition of a string after the other.
ReplaceOne(text, def) ==
    IF def.text = <<>> THEN text
    ELSE FlattenSeq([i \in DOMAIN text |-> IF text[i] = def.key THEN def.text ELSE <<text[i]>>])
ReplacedBy(text, strings) ==
    LET replaced[d \in 0 .. Len(strings)] ==
            IF d = 0 THEN text ELSE ReplaceOne(replaced[d - 1], strings[d])
    IN  replaced

LEMMA OneReplaced ==
    ASSUME NEW X, NEW Y, NEW text, text \in Seq(X), NEW def, def.text # <<>>,
           def.key \in X => def.text \in Seq(Y), \A word \in X : word # def.key => word \in Y
    PROVE  ReplaceOne(text, def) \in Seq(Y) /\ (text # <<>> => ReplaceOne(text, def) # <<>>)
<1>1. PICK lists : lists = [i \in DOMAIN text |-> IF text[i] = def.key THEN def.text ELSE <<text[i]>>]
  OBVIOUS
<1>2. DOMAIN lists = DOMAIN text /\ lists = [i \in DOMAIN text |-> lists[i]]
  BY ONLY <1>1
<1>3. ASSUME NEW i \in DOMAIN text PROVE lists[i] \in Seq(Y) /\ lists[i] # <<>>
  <2>1. text[i] \in X
    BY ONLY text \in Seq(X), i \in DOMAIN text
  <2>2. lists[i] = IF text[i] = def.key THEN def.text ELSE <<text[i]>>
    BY ONLY <1>1, i \in DOMAIN text
  <2>3. text[i] # def.key => <<text[i]>> \in Seq(Y) /\ <<text[i]>> # <<>>
    <3>1. text[i] # def.key => text[i] \in Y
      BY <2>1
    <3>2. \A word : word \in Y => <<word>> \in Seq(Y) /\ <<word>> # <<>>
      <4>1. \A word : Len(<<word>>) = 1 /\ Len(<<>>) = 0
        OBVIOUS
      <4> QED
        BY ONLY <4>1
    <3> QED
      BY ONLY <3>1, <3>2
  <2> QED
    BY ONLY <2>1, <2>2, <2>3, def.text # <<>>, def.key \in X => def.text \in Seq(Y)
<1>4. FlattenSeq(lists) \in Seq(Y) /\ (text # <<>> => FlattenSeq(lists) # <<>>)
  BY ONLY <1>2, <1>3, text \in Seq(X), WordsReplaced
<1> QED
  BY ONLY <1>1, <1>4, def.text # <<>> DEF ReplaceOne

LEMMA StringsReplaced ==
    ASSUME NEW U, NEW strings, NEW n, n \in Nat, n = Len(strings),
           \A d \in 1 .. n : strings[d].text \in Seq(U) /\ strings[d].text # <<>>,
           NEW X, \A d \in 0 .. n : X[d] \subseteq U,
           \A d \in 1 .. n : /\ \A word \in X[d - 1] : word # strings[d].key => word \in X[d]
                             /\ strings[d].key \in X[d - 1] => strings[d].text \in Seq(X[d]),
           NEW text, text \in Seq(X[0])
    PROVE  /\ ReplaceStrings(text, strings) \in Seq(X[n])
           /\ text # <<>> => ReplaceStrings(text, strings) # <<>>
<1> DEFINE Step == [d \in 1 .. n |-> [t \in Seq(U) |-> ReplaceOne(t, strings[d])]]
           replaced == ReplacedBy(text, strings)
<1>1. \A d \in 1 .. n : \A t \in Seq(U) : ReplaceOne(t, strings[d]) \in Seq(U)
  <2> SUFFICES ASSUME NEW d \in 1 .. n, NEW t \in Seq(U) PROVE ReplaceOne(t, strings[d]) \in Seq(U)
    OBVIOUS
  <2>1. PICK def : def = strings[d]
    OBVIOUS
  <2>2. def.text \in Seq(U) /\ def.text # <<>>
    BY <2>1
  <2>3. def.key \in U => def.text \in Seq(U)
    BY <2>2
  <2>4. \A word \in U : word # def.key => word \in U
    OBVIOUS
  <2>5. ReplaceOne(t, def) \in Seq(U)
    BY ONLY <2>2, <2>3, <2>4, t \in Seq(U), OneReplaced
  <2> QED
    BY <2>1, <2>5
<1>2. AreSteps(Step, n, Seq(U)) /\ text \in Seq(U)
  <2>1. 0 \in 0 .. n
    BY ONLY n \in Nat
  <2>2. X[0] \subseteq U
    BY <2>1
  <2> QED
    BY <1>1, <2>2 DEF AreSteps
<1>3. \A d \in 1 .. n : \A t \in Seq(U) : Step[d][t] = ReplaceOne(t, strings[d])
  OBVIOUS
<1> HIDE DEF Step
<1>4. PICK g : Follows(g, n, Seq(U), text, Step)
  BY ONLY <1>2, n \in Nat, Iterates
<1>5. g \in [0 .. n -> Seq(U)] /\ g[0] = text /\ \A d \in 1 .. n : g[d] = ReplaceOne(g[d - 1], strings[d])
  <2>1. g \in [0 .. n -> Seq(U)] /\ g[0] = text /\ \A d \in 1 .. n : g[d] = Step[d][g[d - 1]]
    BY ONLY <1>4 DEF Follows
  <2>2. \A d \in 1 .. n : g[d - 1] \in Seq(U)
    BY ONLY <2>1, n \in Nat
  <2> QED
    BY ONLY <1>3, <2>1, <2>2
<1>6. g = [d \in 0 .. n |-> IF d = 0 THEN text ELSE ReplaceOne(g[d - 1], strings[d])]
  <2>1. \A d \in 0 .. n : d # 0 => d \in 1 .. n
    BY ONLY n \in Nat
  <2> QED
    BY ONLY <1>5, <2>1
<1>7. replaced = [d \in 0 .. n |-> IF d = 0 THEN text ELSE ReplaceOne(replaced[d - 1], strings[d])]
  BY <1>6, Zenon DEF ReplacedBy
<1>8. ReplaceStrings(text, strings) = replaced[n]
  BY Zenon DEF ReplaceStrings, ReplacedBy, ReplaceOne
<1> HIDE DEF replaced
<1>9. replaced[0] = text /\ \A d \in 1 .. n : replaced[d] = ReplaceOne(replaced[d - 1], strings[d])
  <2>1. 0 \in 0 .. n /\ \A d \in 1 .. n : d \in 0 .. n /\ d # 0
    BY ONLY n \in Nat
  <2> QED
    BY ONLY <1>7, <2>1
<1>10. PICK F : F = [d \in 0 .. n |-> {t \in Seq(X[d]) : text # <<>> => t # <<>>}]
  OBVIOUS
<1>11. ASSUME NEW d \in 1 .. n, replaced[d - 1] \in F[d - 1] PROVE replaced[d] \in F[d]
  <2>1. d - 1 \in 0 .. n /\ d \in 0 .. n
    BY ONLY n \in Nat, d \in 1 .. n
  <2>2. PICK def, t, Y, Z : def = strings[d] /\ t = replaced[d - 1] /\ Y = X[d - 1] /\ Z = X[d]
    OBVIOUS
  <2>3. t \in Seq(Y) /\ (text # <<>> => t # <<>>)
    BY ONLY <1>10, <1>11, <2>1, <2>2
  <2>4. /\ def.text # <<>> /\ (def.key \in Y => def.text \in Seq(Z))
        /\ \A word \in Y : word # def.key => word \in Z
    BY <2>2
  <2>5. ReplaceOne(t, def) \in Seq(Z) /\ (t # <<>> => ReplaceOne(t, def) # <<>>)
    BY ONLY <2>3, <2>4, OneReplaced
  <2>6. replaced[d] = ReplaceOne(t, def)
    BY <1>9, <2>2
  <2> QED
    BY ONLY <1>10, <2>1, <2>2, <2>3, <2>5, <2>6
<1>12. replaced[0] \in F[0]
  <2>1. 0 \in 0 .. n
    BY ONLY n \in Nat
  <2> QED
    BY ONLY <1>9, <1>10, <2>1, text \in Seq(X[0])
<1>13. \A d \in 0 .. n : replaced[d] \in F[d]
  BY ONLY <1>11, <1>12, n \in Nat, HoldsStepwise
<1>14. replaced[n] \in F[n] /\ n \in 0 .. n
  BY ONLY <1>13, n \in Nat
<1> QED
  BY ONLY <1>8, <1>10, <1>14

\* A network is what the filters make of its file, as long as it is worked on.
FileInv ==
    /\ stage \in {"file", "created", "reporting", "reported"} => given \in ConfigChoices
    /\ stage \in {"created", "reporting", "reported"} => network = FilterConfig(given)

LEMMA FileInvariant == SetupSpec => []FileInv
<1>1. SetupInit => FileInv
  BY DEF SetupInit, FileInv
<1>2. FileInv /\ [SetupNext]_allVars => FileInv'
  <2> SUFFICES ASSUME FileInv, [SetupNext]_allVars PROVE FileInv'
    OBVIOUS
  <2>1. CASE UNCHANGED setupVars
    BY <2>1 DEF setupVars, FileInv
  <2>2. CASE RestoreManifest \/ RestoreFromFiles
    BY <2>2 DEF RestoreManifest, RestoreFromFiles, FileInv
  <2>3. CASE CreateNetwork
    BY <2>3 DEF CreateNetwork, FileInv
  <2>4. CASE Connectivity \/ ConnectivityReported
    BY <2>4 DEF Connectivity, ConnectivityReported, FileInv
  <2>5. CASE ReportNodeConnectivity
    <3>1. stage = "reporting" /\ stage' \in {"reporting", "raised"} /\ UNCHANGED <<given, network>>
      BY <2>5 DEF ReportNodeConnectivity
    <3> QED
      BY <3>1 DEF FileInv
  <2>6. CASE FillAgentDefaults \/ CreateFullConfig \/ TryFactory \/ CreateLlm
    <3>1. stage' \in {"filled", "configured", "llm", "raised"}
      BY <2>6 DEF FillAgentDefaults, CreateFullConfig, TryFactory, CreateLlm
    <3> QED
      BY <3>1 DEF FileInv
  <2> QED
    BY <2>1, <2>2, <2>3, <2>4, <2>5, <2>6 DEF SetupNext, PipelineStep, allVars
<1> QED
  BY <1>1, <1>2, PTL DEF SetupSpec

\* What the filters make of each agent.
ReplacedValues(one) == [k \in DOMAIN one.values |-> ReplaceValues(one.values[k], one.values)]
ReplacedStrings(one) ==
    [d \in DOMAIN one.strings |-> [one.strings[d] EXCEPT !.text = ReplaceStrings(@, one.strings)]]

IsFiltered(one, filtered) ==
    /\ DOMAIN filtered = DOMAIN one.network
    /\ filtered \in Seq(ToSet(filtered))
    /\ \A i \in DOMAIN filtered :
        /\ filtered[i].name = one.network[i].name
        /\ filtered[i].args = one.network[i].args
        /\ \E tools : filtered[i].tools = [j \in DOMAIN one.network[i].tools |-> tools[j]]
        /\ filtered[i].text = ReplaceStrings(
                ReplaceValues(one.network[i].text, ReplacedValues(one)), ReplacedStrings(one))

LEMMA FilteredIs ==
    ASSUME NEW one, IsFile(one), NEW filtered, filtered = FilterConfig(one)
    PROVE  IsFiltered(one, filtered)
<1> DEFINE values == ReplacedValues(one)
           strings == ReplacedStrings(one)
           first == FilterValues(one.network, one.values)
           second == FilterStrings(first, one.strings)
           Correct(t) == IF t \in Slashed \cap AgentNames(second) THEN Corrected[t] ELSE t
<1>1. PICK n \in Nat : n = Len(one.network) /\ DOMAIN one.network = 1 .. n
  <2>1. one.network \in Seq(ToSet(one.network))
    BY DEF IsFile
  <2> QED
    BY ONLY <2>1
<1>2. first = [i \in DOMAIN one.network |->
                [one.network[i] EXCEPT !.text = ReplaceValues(one.network[i].text, values)]]
  BY Zenon DEF FilterValues, ReplacedValues
<1>3. second = [i \in DOMAIN first |-> [first[i] EXCEPT !.text = ReplaceStrings(first[i].text, strings)]]
  BY Zenon DEF FilterStrings, ReplacedStrings
<1>4. filtered = [i \in DOMAIN second |->
                    [second[i] EXCEPT !.tools = [j \in DOMAIN second[i].tools |-> Correct(second[i].tools[j])]]]
  BY Zenon DEF FilterConfig, CorrectNames
<1> HIDE DEF values, strings, first, second, Correct
<1>5. DOMAIN first = 1 .. n /\ DOMAIN second = 1 .. n /\ DOMAIN filtered = 1 .. n
  BY <1>1, <1>2, <1>3, <1>4, Zenon
<1>6. filtered \in Seq(ToSet(filtered)) /\ Len(filtered) = n
  <2>1. filtered \in [1 .. n -> ToSet(filtered)]
    BY <1>4, <1>5 DEF ToSet
  <2> QED
    BY <1>5, <2>1
<1>7. ASSUME NEW i \in 1 .. n
      PROVE  /\ filtered[i].name = one.network[i].name
             /\ filtered[i].args = one.network[i].args
             /\ \E tools : filtered[i].tools = [j \in DOMAIN one.network[i].tools |-> tools[j]]
             /\ filtered[i].text = ReplaceStrings(ReplaceValues(one.network[i].text, values), strings)
  <2>1. PICK spec, a, b, c : spec = one.network[i] /\ a = first[i] /\ b = second[i] /\ c = filtered[i]
    OBVIOUS
  <2>2. {"name", "tools", "text"} \subseteq DOMAIN spec
    <3>1. spec \in ToSet(one.network)
      BY <1>1, <2>1 DEF ToSet
    <3> QED
      BY <3>1 DEF IsFile
  <2>3. a = [spec EXCEPT !.text = ReplaceValues(spec.text, values)]
    BY <1>1, <1>2, <2>1
  <2>4. b = [a EXCEPT !.text = ReplaceStrings(a.text, strings)]
    BY <1>3, <1>5, <2>1
  <2>5. c = [b EXCEPT !.tools = [j \in DOMAIN b.tools |-> Correct(b.tools[j])]]
    BY <1>4, <1>5, <2>1
  <2>6. /\ DOMAIN a = DOMAIN spec /\ a.text = ReplaceValues(spec.text, values)
        /\ a.name = spec.name /\ a.args = spec.args /\ a.tools = spec.tools
    BY ONLY <2>2, <2>3
  <2>7. /\ DOMAIN b = DOMAIN a /\ b.text = ReplaceStrings(a.text, strings)
        /\ b.name = a.name /\ b.args = a.args /\ b.tools = a.tools
    BY ONLY <2>2, <2>4, <2>6
  <2>8. /\ c.text = b.text /\ c.name = b.name /\ c.args = b.args
        /\ c.tools = [j \in DOMAIN b.tools |-> Correct(b.tools[j])]
    BY ONLY <2>2, <2>5, <2>6, <2>7
  <2>9. \E tools : c.tools = [j \in DOMAIN spec.tools |-> tools[j]]
    <3>1. PICK tools : tools = [j \in DOMAIN b.tools |-> Correct(b.tools[j])]
      OBVIOUS
    <3>2. tools = [j \in DOMAIN b.tools |-> tools[j]]
      BY ONLY <3>1
    <3> QED
      BY ONLY <2>6, <2>7, <2>8, <3>1, <3>2
  <2> QED
    BY ONLY <2>1, <2>6, <2>7, <2>8, <2>9
<1> QED
  BY <1>1, <1>5, <1>6, <1>7 DEF values, strings, IsFiltered

\* Definitions of which those that are used do not use more.
KeysOf(one) == {one.strings[d].key : d \in DOMAIN one.strings}
UsedBy(one, d) == ToSet(one.strings[d].text) \cap KeysOf(one)
Shallow(one) ==
    /\ \A k \in DOMAIN one.values : \A j \in ToSet(one.values[k]) \cap DOMAIN one.values :
            ToSet(one.values[j]) \cap DOMAIN one.values = {}
    /\ \A d \in DOMAIN one.strings :
        /\ one.strings[d].text # <<>> /\ ToSet(one.strings[d].text) \cap DOMAIN one.values = {}
        /\ \A e \in DOMAIN one.strings : one.strings[e].key \in UsedBy(one, d) => UsedBy(one, e) = {}

\* A string is replaced when all the definitions were gone through.
LEMMA StringIsReplaced ==
    ASSUME NEW one, IsFile(one), Shallow(one), NEW W, NEW U, W \subseteq U,
           NEW n, n \in Nat, n = Len(one.strings), DOMAIN one.strings = 1 .. n,
           \A e \in 1 .. n : one.strings[e].text \in Seq(W),
           NEW d, d \in 1 .. n
    PROVE  /\ ReplaceStrings(one.strings[d].text, one.strings) \in Seq(W \ KeysOf(one))
           /\ ReplaceStrings(one.strings[d].text, one.strings) # <<>>
<1> DEFINE Left(w, e) == w \notin KeysOf(one)
                         \/ (w \in UsedBy(one, d) /\ \A k \in 1 .. e : w # one.strings[k].key)
<1>1. PICK strings : strings = one.strings
  OBVIOUS
<1>2. \A e \in 1 .. n : /\ strings[e].text \in Seq(W) /\ strings[e].text # <<>>
                        /\ strings[e].key \in KeysOf(one)
                        /\ strings[e].key \in UsedBy(one, d) => UsedBy(one, e) = {}
  BY <1>1 DEF Shallow, KeysOf
<1>3. PICK X : X = [e \in 0 .. n |-> {w \in W : Left(w, e)}]
  OBVIOUS
<1>4. \A e \in 0 .. n : X[e] \subseteq W
  BY <1>3
<1>5. \A e \in 1 .. n : \A w \in X[e - 1] : w # strings[e].key => w \in X[e]
  <2> SUFFICES ASSUME NEW e \in 1 .. n, NEW w \in X[e - 1], w # strings[e].key PROVE w \in X[e]
    OBVIOUS
  <2>1. e - 1 \in 0 .. n /\ e \in 0 .. n /\ \A k \in 1 .. e : k = e \/ k \in 1 .. e - 1
    BY ONLY n \in Nat, e \in 1 .. n
  <2>2. w \in W /\ Left(w, e - 1)
    BY <1>3, <2>1
  <2>3. (\A k \in 1 .. e - 1 : w # one.strings[k].key) => \A k \in 1 .. e : w # one.strings[k].key
    BY <1>1, <2>1
  <2>4. Left(w, e)
    BY ONLY <2>2, <2>3
  <2> QED
    BY ONLY <1>3, <2>1, <2>2, <2>4
<1>6. \A e \in 1 .. n : strings[e].key \in X[e - 1] => strings[e].text \in Seq(X[e])
  <2> SUFFICES ASSUME NEW e \in 1 .. n, strings[e].key \in X[e - 1] PROVE strings[e].text \in Seq(X[e])
    OBVIOUS
  <2>1. e - 1 \in 0 .. n /\ e \in 0 .. n
    BY ONLY n \in Nat, e \in 1 .. n
  <2>2. Left(strings[e].key, e - 1)
    BY <1>3, <2>1
  <2>3. UsedBy(one, e) = {}
    BY <1>2, <2>2
  <2>4. \A w \in ToSet(strings[e].text) : w \notin KeysOf(one)
    BY <1>1, <2>3 DEF UsedBy
  <2>5. ToSet(strings[e].text) \subseteq W /\ strings[e].text \in Seq(ToSet(strings[e].text))
    BY ONLY <1>2, e \in 1 .. n, WordsOf
  <2>6. ToSet(strings[e].text) \subseteq X[e]
    BY ONLY <1>3, <2>1, <2>4, <2>5
  <2> QED
    BY ONLY <2>5, <2>6, SubsetOfSeq
<1>7. PICK text : text = strings[d].text
  OBVIOUS
<1>8. text \in Seq(X[0]) /\ text # <<>>
  <2>1. ToSet(text) \subseteq W /\ text \in Seq(ToSet(text)) /\ text # <<>>
    BY ONLY <1>2, <1>7, d \in 1 .. n, WordsOf
  <2>2. \A w \in ToSet(text) : Left(w, 0)
    BY <1>1, <1>7 DEF UsedBy
  <2>3. 0 \in 0 .. n
    BY ONLY n \in Nat
  <2>4. ToSet(text) \subseteq X[0]
    BY ONLY <1>3, <2>1, <2>2, <2>3
  <2> QED
    BY ONLY <2>1, <2>4, SubsetOfSeq
<1> HIDE DEF Left
<1>9. ReplaceStrings(text, strings) \in Seq(X[n]) /\ ReplaceStrings(text, strings) # <<>>
  <2>1. \A e \in 1 .. n : strings[e].text \in Seq(W) /\ strings[e].text # <<>>
    BY <1>2
  <2>2. \A e \in 1 .. n : /\ \A w \in X[e - 1] : w # strings[e].key => w \in X[e]
                          /\ strings[e].key \in X[e - 1] => strings[e].text \in Seq(X[e])
    BY ONLY <1>5, <1>6
  <2>3. n = Len(strings)
    BY <1>1
  <2> QED
    BY ONLY <1>4, <1>8, <2>1, <2>2, <2>3, n \in Nat, StringsReplaced
<1>10. X[n] \subseteq W \ KeysOf(one)
  <2>1. n \in 0 .. n
    BY ONLY n \in Nat
  <2>2. \A w \in KeysOf(one) : ~Left(w, n)
    BY DEF Left, KeysOf
  <2> QED
    BY ONLY <1>3, <2>1, <2>2
<1> QED
  BY ONLY <1>1, <1>7, <1>9, <1>10, SubsetOfSeq

LEMMA NothingIsLeft ==
    ASSUME NEW one, IsFile(one), Shallow(one), NEW i, i \in DOMAIN one.network,
           NEW text, text = ReplaceStrings(ReplaceValues(one.network[i].text, ReplacedValues(one)),
                                           ReplacedStrings(one))
    PROVE  ToSet(text) \cap (DOMAIN one.values \cup KeysOf(one)) = {}
<1> DEFINE V == DOMAIN one.values
           n == Len(one.strings)
           U == ToSet(one.network[i].text) \cup (UNION {ToSet(one.values[k]) : k \in V})
                \cup (UNION {ToSet(one.strings[d].text) : d \in 1 .. n})
           W == U \ V
<1>1. n \in Nat /\ DOMAIN one.strings = 1 .. n
  <2>1. one.strings \in Seq(ToSet(one.strings))
    BY DEF IsFile
  <2> QED
    BY ONLY <2>1
<1>2. PICK first : first = one.network[i].text
  OBVIOUS
<1>3. first \in Seq(ToSet(first)) /\ ToSet(first) \subseteq U
  <2>1. one.network[i] \in ToSet(one.network)
    BY DEF ToSet
  <2> QED
    BY <1>2, <2>1 DEF IsFile
<1>4. \A k \in V : one.values[k] \in Seq(ToSet(one.values[k])) /\ ToSet(one.values[k]) \subseteq U
  BY DEF IsFile
<1>5. \A d \in 1 .. n : /\ one.strings[d].text \in Seq(ToSet(one.strings[d].text))
                        /\ ToSet(one.strings[d].text) \subseteq W
                        /\ one.strings[d].text # <<>> /\ "text" \in DOMAIN one.strings[d]
  <2> SUFFICES ASSUME NEW d \in 1 .. n
               PROVE  /\ one.strings[d].text \in Seq(ToSet(one.strings[d].text))
                      /\ ToSet(one.strings[d].text) \subseteq W
                      /\ one.strings[d].text # <<>> /\ "text" \in DOMAIN one.strings[d]
    OBVIOUS
  <2>1. one.strings[d] \in ToSet(one.strings)
    BY <1>1 DEF ToSet
  <2>2. one.strings[d].text \in Seq(ToSet(one.strings[d].text)) /\ "text" \in DOMAIN one.strings[d]
    BY <2>1 DEF IsFile
  <2>3. one.strings[d].text # <<>> /\ ToSet(one.strings[d].text) \cap V = {}
    BY <1>1 DEF Shallow
  <2>4. ToSet(one.strings[d].text) \subseteq U
    OBVIOUS
  <2> QED
    BY ONLY <2>2, <2>3, <2>4
<1>6. \A k \in V : \A j \in ToSet(one.values[k]) \cap V : ToSet(one.values[j]) \subseteq W
  BY <1>4 DEF Shallow
<1> HIDE DEF U
<1>7. PICK values : values = ReplacedValues(one)
  OBVIOUS
<1>8. DOMAIN values = V /\ \A k \in V : values[k] \in Seq(W)
  <2>1. DOMAIN values = V /\ \A k \in V : values[k] = ReplaceValues(one.values[k], one.values)
    BY <1>7 DEF ReplacedValues
  <2>2. ASSUME NEW k \in V PROVE ReplaceValues(one.values[k], one.values) \in Seq(W)
    <3>1. PICK X, given_values, words :
            X = ToSet(one.values[k]) /\ given_values = one.values /\ words = one.values[k]
      OBVIOUS
    <3>2. words \in Seq(X)
      BY <1>4, <3>1
    <3>3. \A w \in X : IF w \in DOMAIN given_values THEN given_values[w] \in Seq(W) ELSE w \in W
      <4> SUFFICES ASSUME NEW w \in X
                   PROVE  IF w \in DOMAIN given_values THEN given_values[w] \in Seq(W) ELSE w \in W
        OBVIOUS
      <4>1. w \in U
        BY <1>4, <3>1
      <4>2. ASSUME w \in V PROVE one.values[w] \in Seq(W)
        <5>1. ToSet(one.values[w]) \subseteq W /\ one.values[w] \in Seq(ToSet(one.values[w]))
          BY <1>4, <1>6, <3>1, <4>2
        <5> HIDE DEF W
        <5> QED
          BY ONLY <5>1, SubsetOfSeq
      <4> QED
        BY <3>1, <4>1, <4>2
    <3> HIDE DEF W
    <3>4. ReplaceValues(words, given_values) \in Seq(W)
      BY ONLY <3>2, <3>3, ValuesReplaced
    <3> QED
      BY ONLY <3>1, <3>4
  <2> QED
    BY <2>1, <2>2
<1>9. PICK second : second = ReplaceValues(first, values) /\ second \in Seq(W)
  <2>1. PICK X : X = ToSet(first)
    OBVIOUS
  <2>2. \A w \in X : IF w \in DOMAIN values THEN values[w] \in Seq(W) ELSE w \in W
    BY <1>3, <1>8, <2>1
  <2>3. first \in Seq(X)
    BY <1>3, <2>1
  <2> HIDE DEF W
  <2>4. ReplaceValues(first, values) \in Seq(W)
    BY ONLY <2>2, <2>3, ValuesReplaced
  <2> QED
    BY ONLY <2>4
<1>10. \A d \in 1 .. n : /\ ReplaceStrings(one.strings[d].text, one.strings) \in Seq(W \ KeysOf(one))
                         /\ ReplaceStrings(one.strings[d].text, one.strings) # <<>>
  <2>1. W \subseteq U
    OBVIOUS
  <2> HIDE DEF W
  <2>2. \A d \in 1 .. n : one.strings[d].text \in Seq(W)
    BY ONLY <1>5, SubsetOfSeq
  <2>3. PICK l : l = n
    OBVIOUS
  <2>4. l \in Nat /\ l = Len(one.strings) /\ DOMAIN one.strings = 1 .. l
        /\ \A d \in 1 .. l : one.strings[d].text \in Seq(W)
    BY ONLY <1>1, <2>2, <2>3
  <2>5. \A d \in 1 .. l : /\ ReplaceStrings(one.strings[d].text, one.strings) \in Seq(W \ KeysOf(one))
                          /\ ReplaceStrings(one.strings[d].text, one.strings) # <<>>
    BY ONLY <2>1, <2>4, IsFile(one), Shallow(one), StringIsReplaced
  <2> QED
    BY ONLY <2>3, <2>5
<1> HIDE DEF W
<1>11. PICK strings : strings = ReplacedStrings(one)
  OBVIOUS
<1>12. /\ DOMAIN strings = 1 .. n /\ n = Len(strings)
       /\ \A d \in 1 .. n : /\ strings[d].key = one.strings[d].key
                            /\ strings[d].text \in Seq(W \ KeysOf(one)) /\ strings[d].text # <<>>
  <2>1. strings = [d \in 1 .. n |->
            [one.strings[d] EXCEPT !.text = ReplaceStrings(one.strings[d].text, one.strings)]]
    BY <1>1, <1>11 DEF ReplacedStrings
  <2>2. DOMAIN strings = 1 .. n /\ n = Len(strings)
    BY <1>1, <2>1
  <2>3. ASSUME NEW d \in 1 .. n
        PROVE  strings[d].key = one.strings[d].key
               /\ strings[d].text = ReplaceStrings(one.strings[d].text, one.strings)
    <3>1. PICK def, new, words :
            def = one.strings[d] /\ new = strings[d] /\ words = ReplaceStrings(one.strings[d].text, one.strings)
      OBVIOUS
    <3>2. new = [def EXCEPT !.text = words] /\ "text" \in DOMAIN def
      BY <1>5, <2>1, <3>1
    <3>3. new.key = def.key /\ new.text = words
      BY ONLY <3>2
    <3> QED
      BY ONLY <3>1, <3>3
  <2> QED
    BY ONLY <1>10, <2>2, <2>3
<1> DEFINE Left(w, e) == \A k \in 1 .. e : w # strings[k].key
<1>13. PICK X : X = [e \in 0 .. n |-> {w \in W : Left(w, e)}]
  OBVIOUS
<1>14. \A e \in 0 .. n : X[e] \subseteq W /\ W \ KeysOf(one) \subseteq X[e]
  <2>1. \A e \in 0 .. n : \A w : w \notin KeysOf(one) => Left(w, e)
    <3>1. \A e \in 0 .. n : \A k \in 1 .. e : k \in 1 .. n
      BY ONLY <1>1
    <3>2. \A k \in 1 .. n : strings[k].key \in KeysOf(one)
      BY <1>1, <1>12 DEF KeysOf
    <3> QED
      BY ONLY <3>1, <3>2
  <2> HIDE DEF Left
  <2> QED
    BY ONLY <1>13, <2>1
<1>15. \A e \in 1 .. n : \A w \in X[e - 1] : w # strings[e].key => w \in X[e]
  <2> SUFFICES ASSUME NEW e \in 1 .. n, NEW w \in X[e - 1], w # strings[e].key PROVE w \in X[e]
    OBVIOUS
  <2>1. e - 1 \in 0 .. n /\ e \in 0 .. n /\ \A k \in 1 .. e : k = e \/ k \in 1 .. e - 1
    BY ONLY <1>1, e \in 1 .. n
  <2>2. w \in W /\ Left(w, e - 1)
    BY ONLY <1>13, <2>1, w \in X[e - 1]
  <2>3. Left(w, e)
    BY ONLY <2>1, <2>2, w # strings[e].key
  <2> HIDE DEF Left
  <2> QED
    BY ONLY <1>13, <2>1, <2>2, <2>3
<1>16. \A e \in 1 .. n : strings[e].text \in Seq(X[e])
  <2>1. \A e \in 1 .. n : e \in 0 .. n
    BY ONLY <1>1
  <2> QED
    BY ONLY <1>12, <1>14, <2>1, SubsetOfSeq
<1>17. second \in Seq(X[0])
  <2>1. 0 \in 0 .. n /\ 1 .. 0 = {}
    BY ONLY <1>1
  <2>2. W \subseteq X[0]
    BY ONLY <1>13, <2>1
  <2> QED
    BY ONLY <1>9, <2>2, SubsetOfSeq
<1>18. ReplaceStrings(second, strings) \in Seq(X[n])
  <2>1. PICK l : l = n
    OBVIOUS
  <2>2. /\ \A e \in 1 .. l : strings[e].text \in Seq(W) /\ strings[e].text # <<>>
        /\ \A e \in 0 .. l : X[e] \subseteq W
        /\ \A e \in 1 .. l : /\ \A w \in X[e - 1] : w # strings[e].key => w \in X[e]
                             /\ strings[e].key \in X[e - 1] => strings[e].text \in Seq(X[e])
    <3>1. W \ KeysOf(one) \subseteq W
      OBVIOUS
    <3>2. \A e \in 1 .. l : strings[e].text \in Seq(W)
      BY ONLY <1>12, <2>1, <3>1, SubsetOfSeq
    <3> QED
      BY ONLY <1>12, <1>14, <1>15, <1>16, <2>1, <3>2
  <2>3. l \in Nat /\ l = Len(strings)
    BY ONLY <1>1, <1>12, <2>1
  <2>4. ReplaceStrings(second, strings) \in Seq(X[l])
    BY ONLY <1>17, <2>2, <2>3, StringsReplaced
  <2> QED
    BY ONLY <2>1, <2>4
<1>19. X[n] \cap (V \cup KeysOf(one)) = {}
  <2>1. n \in 0 .. n
    BY ONLY <1>1
  <2>2. \A w \in KeysOf(one) : ~Left(w, n)
    BY <1>1, <1>12 DEF KeysOf
  <2>3. \A w \in X[n] : w \in W /\ Left(w, n)
    BY ONLY <1>13, <2>1
  <2> HIDE DEF Left
  <2> QED
    BY ONLY <2>2, <2>3 DEF W
<1>20. ToSet(text) \subseteq X[n]
  <2>1. text = ReplaceStrings(second, strings)
    BY <1>2, <1>7, <1>9, <1>11
  <2> QED
    BY ONLY <1>18, <2>1 DEF ToSet
<1> QED
  BY ONLY <1>19, <1>20

\* Nothing is left to be replaced: for any number of definitions of values and strings,
\* in any order, and texts of any length.
THEOREM NothingLeft == SetupSpec => []NothingLeftToReplace
<1>1. FileInv => NothingLeftToReplace
  <2> SUFFICES ASSUME FileInv, stage = "created" PROVE NothingLeftToReplace
    BY DEF NothingLeftToReplace
  <2>1. given \in ConfigChoices /\ network = FilterConfig(given)
    BY DEF FileInv
  <2>2. PICK one : one = given
    OBVIOUS
  <2>3. IsFile(one) /\ network = FilterConfig(one)
    BY <2>1, <2>2, FilesAssumption
  <2>4. ASSUME Shallow(one), NEW i \in DOMAIN network
        PROVE  ToSet(network[i].text) \cap (DOMAIN one.values \cup KeysOf(one)) = {}
    <3>1. i \in DOMAIN one.network
          /\ network[i].text = ReplaceStrings(
                ReplaceValues(one.network[i].text, ReplacedValues(one)), ReplacedStrings(one))
      <4>1. IsFiltered(one, network)
        BY ONLY <2>3, FilteredIs
      <4> QED
        BY ONLY <4>1, i \in DOMAIN network DEF IsFiltered
    <3>2. PICK text : text = network[i].text
      OBVIOUS
    <3>3. text = ReplaceStrings(
            ReplaceValues(one.network[i].text, ReplacedValues(one)), ReplacedStrings(one))
      BY ONLY <3>1, <3>2
    <3>4. ToSet(text) \cap (DOMAIN one.values \cup KeysOf(one)) = {}
      BY ONLY <2>3, <2>4, <3>1, <3>3, NothingIsLeft
    <3> QED
      BY ONLY <3>2, <3>4
  <2>5. Shallow(given) =>
            \A i \in DOMAIN network : ToSet(network[i].text) \cap (DOMAIN given.values \cup KeysOf(given)) = {}
    BY ONLY <2>2, <2>4
  <2> QED
    BY ONLY <2>5, Zenon DEF NothingLeftToReplace, Shallow, UsedBy, KeysOf
<1> QED
  BY <1>1, FileInvariant, PTL

(***************************************************************************)
(* The report of connectivity.  For networks of any shape.                 *)
(***************************************************************************)

\* The tools of an agent, each once, are those of its lists.
ToolsListed(tools) ==
    LET list[n \in 0 .. Len(tools)] ==
            IF n = 0 THEN <<>>
            ELSE IF Contains(list[n - 1], tools[n]) THEN list[n - 1]
            ELSE Append(list[n - 1], tools[n])
    IN  list

LEMMA EachToolListed ==
    ASSUME NEW X, NEW tools, tools \in Seq(X)
    PROVE  /\ ToolsListed(tools)[Len(tools)] \in Seq(X)
           /\ ToSet(ToolsListed(tools)[Len(tools)]) = ToSet(tools)
<1> DEFINE ListNext(k, list) == IF Contains(list, tools[k]) THEN list ELSE Append(list, tools[k])
           n == Len(tools)
           Step == [k \in 1 .. n |-> [list \in Seq(X) |-> ListNext(k, list)]]
           listed == ToolsListed(tools)
<1>1. n \in Nat /\ \A k \in 1 .. n : tools[k] \in X
  BY ONLY tools \in Seq(X)
<1>2. \A k \in 1 .. n : \A list \in Seq(X) :
        ListNext(k, list) \in Seq(X) /\ ToSet(ListNext(k, list)) = ToSet(list) \cup {tools[k]}
  <2> SUFFICES ASSUME NEW k \in 1 .. n, NEW list \in Seq(X)
               PROVE  ListNext(k, list) \in Seq(X) /\ ToSet(ListNext(k, list)) = ToSet(list) \cup {tools[k]}
    OBVIOUS
  <2>1. CASE Contains(list, tools[k])
    <3>1. tools[k] \in ToSet(list)
      BY <2>1 DEF Contains, ToSet
    <3> QED
      BY <2>1, <3>1
  <2>2. CASE ~Contains(list, tools[k])
    <3>1. PICK e \in X : e = tools[k]
      BY <1>1
    <3>2. Append(list, e) \in Seq(X) /\ ToSet(Append(list, e)) = ToSet(list) \cup {e}
      BY ONLY list \in Seq(X), e \in X, AppendedHas
    <3> QED
      BY <2>2, <3>1, <3>2
  <2> QED
    BY <2>1, <2>2
<1> HIDE DEF ListNext
<1>3. AreSteps(Step, n, Seq(X)) /\ <<>> \in Seq(X)
  BY <1>2 DEF AreSteps
<1>4. \A k \in 1 .. n : \A list \in Seq(X) : Step[k][list] = ListNext(k, list)
  OBVIOUS
<1> HIDE DEF Step
<1>5. PICK g : Follows(g, n, Seq(X), <<>>, Step)
  <2> HIDE DEF n
  <2> QED
    BY ONLY <1>1, <1>3, Iterates
<1>6. g \in [0 .. n -> Seq(X)] /\ g[0] = <<>> /\ \A d \in 1 .. n : g[d] = ListNext(d, g[d - 1])
  <2>1. g \in [0 .. n -> Seq(X)] /\ g[0] = <<>> /\ \A d \in 1 .. n : g[d] = Step[d][g[d - 1]]
    BY ONLY <1>5 DEF Follows
  <2>2. \A d \in 1 .. n : g[d - 1] \in Seq(X)
    <3> HIDE DEF n
    <3> QED
      BY ONLY <1>1, <2>1
  <2> QED
    BY ONLY <1>4, <2>1, <2>2
<1>7. g = [d \in 0 .. n |-> IF d = 0 THEN <<>> ELSE ListNext(d, g[d - 1])]
  <2> HIDE DEF n
  <2>1. \A d \in 0 .. n : d # 0 => d \in 1 .. n
    BY ONLY <1>1
  <2> QED
    BY ONLY <1>6, <2>1
<1>8. listed = [d \in 0 .. n |-> IF d = 0 THEN <<>> ELSE ListNext(d, listed[d - 1])]
  BY <1>7, Zenon DEF ToolsListed, ListNext
<1> HIDE DEF listed, n
<1>9. listed[0] = <<>> /\ \A d \in 1 .. n : listed[d] = ListNext(d, listed[d - 1])
  <2>1. 0 \in 0 .. n /\ \A d \in 1 .. n : d \in 0 .. n /\ d # 0
    BY ONLY <1>1
  <2> QED
    BY ONLY <1>8, <2>1
<1>10. PICK F : F = [d \in 0 .. n |-> {list \in Seq(X) : ToSet(list) = {tools[i] : i \in 1 .. d}}]
  OBVIOUS
<1>11. listed[0] \in F[0]
  <2>1. 0 \in 0 .. n /\ 1 .. 0 = {}
    BY ONLY <1>1
  <2>2. ToSet(<<>>) = {}
    BY DEF ToSet
  <2> QED
    BY ONLY <1>3, <1>9, <1>10, <2>1, <2>2
<1>12. ASSUME NEW d \in 1 .. n, listed[d - 1] \in F[d - 1] PROVE listed[d] \in F[d]
  <2>1. d - 1 \in 0 .. n /\ d \in 0 .. n /\ \A i : i \in 1 .. d <=> i = d \/ i \in 1 .. d - 1
    BY ONLY <1>1, d \in 1 .. n
  <2>2. listed[d - 1] \in Seq(X) /\ ToSet(listed[d - 1]) = {tools[i] : i \in 1 .. d - 1}
    BY ONLY <1>10, <1>12, <2>1
  <2>3. listed[d] \in Seq(X) /\ ToSet(listed[d]) = {tools[i] : i \in 1 .. d - 1} \cup {tools[d]}
    BY ONLY <1>2, <1>9, <2>2, d \in 1 .. n
  <2>4. {tools[i] : i \in 1 .. d - 1} \cup {tools[d]} = {tools[i] : i \in 1 .. d}
    BY ONLY <2>1
  <2> QED
    BY ONLY <1>10, <2>1, <2>3, <2>4
<1>13. listed[n] \in F[n] /\ n \in 0 .. n
  <2>1. \A d \in 0 .. n : listed[d] \in F[d]
    BY ONLY <1>1, <1>11, <1>12, HoldsStepwise
  <2> QED
    BY ONLY <1>1, <2>1
<1>14. ToSet(tools) = {tools[i] : i \in 1 .. n}
  BY ONLY tools \in Seq(X) DEF ToSet, n
<1> QED
  BY ONLY <1>10, <1>13, <1>14 DEF listed, n

\* Networks whose agents have lists of tools.
IsNetwork(one) ==
    /\ one \in Seq(ToSet(one)) /\ one # <<>>
    /\ \A i \in DOMAIN one : one[i].tools \in Seq(ToSet(one[i].tools)) /\ one[i].args \in Seq(ToSet(one[i].args))

LEMMA FilteredIsNetwork ==
    ASSUME NEW one, IsFile(one), NEW filtered, filtered = FilterConfig(one), HasFrontMan(filtered)
    PROVE  IsNetwork(filtered)
<1>1. /\ DOMAIN filtered = DOMAIN one.network /\ filtered \in Seq(ToSet(filtered))
      /\ \A i \in DOMAIN filtered :
            /\ filtered[i].args = one.network[i].args
            /\ \E Correct : filtered[i].tools = [j \in DOMAIN one.network[i].tools |-> Correct[j]]
  <2>1. IsFiltered(one, filtered)
    BY ONLY IsFile(one), filtered = FilterConfig(one), FilteredIs
  <2> QED
    BY ONLY <2>1 DEF IsFiltered
<1>2. ASSUME NEW i \in DOMAIN filtered
      PROVE  filtered[i].tools \in Seq(ToSet(filtered[i].tools)) /\ filtered[i].args \in Seq(ToSet(filtered[i].args))
  <2>1. one.network[i] \in ToSet(one.network)
    BY <1>1 DEF ToSet
  <2>2. PICK tools, arg_tools : tools = one.network[i].tools /\ arg_tools = one.network[i].args
                           /\ tools \in Seq(ToSet(tools)) /\ arg_tools \in Seq(ToSet(arg_tools))
    BY <2>1 DEF IsFile
  <2>3. PICK Correct, new : new = filtered[i].tools /\ new = [j \in DOMAIN tools |-> Correct[j]]
    BY ONLY <1>1, <2>2, i \in DOMAIN filtered
  <2>4. new \in Seq(ToSet(new))
    <3>1. PICK n \in Nat : DOMAIN tools = 1 .. n
      BY ONLY <2>2
    <3>2. new \in [1 .. n -> ToSet(new)]
      BY ONLY <2>3, <3>1 DEF ToSet
    <3> QED
      BY ONLY <3>1, <3>2
  <2> QED
    BY ONLY <1>1, <2>2, <2>3, <2>4, i \in DOMAIN filtered
<1>3. filtered # <<>>
  BY DEF HasFrontMan
<1> QED
  BY ONLY <1>1, <1>2, <1>3 DEF IsNetwork

\* What an agent leads to, and what the front man leads to.
AllIn(one) == AgentNames(one) \cup Externals
LinksOf(one, a) ==
    IF a \in Externals THEN {}
    ELSE AllIn(one) \cap (ToSet(SpecOf(one, a).tools)
                          \cup (IF SpecOf(one, a).args_named THEN {} ELSE ToSet(SpecOf(one, a).args)))

LEMMA ToolListIs ==
    ASSUME NEW one, IsNetwork(one), NEW a \in AllIn(one)
    PROVE  /\ ToolList(one, a) \in Seq(ToSet(ToolList(one, a)))
           /\ AllIn(one) \cap ToSet(ToolList(one, a)) = LinksOf(one, a)
<1>1. CASE a \in Externals
  <2>1. ToolList(one, a) = <<>> /\ LinksOf(one, a) = {}
    BY <1>1 DEF ToolList, LinksOf
  <2>2. ToSet(<<>>) = {} /\ <<>> \in Seq({})
    BY DEF ToSet
  <2> QED
    BY ONLY <2>1, <2>2
<1>2. CASE a \notin Externals
  <2>1. PICK i \in DOMAIN one : SpecOf(one, a) = one[i]
    BY <1>2 DEF AllIn, AgentNames, SpecOf
  <2>2. PICK spec, tools, arg_tools, named :
            /\ spec = SpecOf(one, a) /\ tools = spec.tools /\ arg_tools = spec.args /\ named = spec.args_named
            /\ tools \in Seq(ToSet(tools)) /\ arg_tools \in Seq(ToSet(arg_tools))
    BY <2>1 DEF IsNetwork
  <2>3. PICK more, all : more = (IF named THEN <<>> ELSE arg_tools) /\ all = tools \o more
    OBVIOUS
  <2>4. more \in Seq(ToSet(arg_tools)) /\ ToSet(more) = IF named THEN {} ELSE ToSet(arg_tools)
    <3>1. ToSet(<<>>) = {} /\ <<>> \in Seq(ToSet(arg_tools))
      BY DEF ToSet
    <3>2. CASE named
      BY ONLY <2>3, <3>1, <3>2
    <3>3. CASE ~named
      BY ONLY <2>2, <2>3, <3>3
    <3> QED
      BY <3>2, <3>3
  <2> DEFINE X == ToSet(tools) \cup ToSet(arg_tools)
  <2>5. all \in Seq(X) /\ ToSet(all) = ToSet(tools) \cup ToSet(more)
    <3>0. ToSet(tools) \subseteq X /\ ToSet(arg_tools) \subseteq X
      OBVIOUS
    <3> HIDE DEF X
    <3>1. tools \in Seq(X)
      BY ONLY <2>2, <3>0, SubsetOfSeq
    <3>2. more \in Seq(X)
      BY ONLY <2>4, <3>0, SubsetOfSeq
    <3>3. tools \o more \in Seq(X) /\ ToSet(tools \o more) = ToSet(tools) \cup ToSet(more)
      BY ONLY <3>1, <3>2, JoinedHas
    <3> QED
      BY ONLY <2>3, <3>3
  <2> HIDE DEF X
  <2>6. ToolList(one, a) = ToolsListed(all)[Len(all)]
    <3>1. ToolList(one, a) = AssembleToolList(spec)
      BY <1>2, <2>2 DEF ToolList
    <3>2. AssembleToolList(spec) = ToolsListed(all)[Len(all)]
      <4>1. PICK whole : whole = spec.tools \o (IF spec.args_named THEN <<>> ELSE spec.args)
        OBVIOUS
      <4>2. AssembleToolList(spec) = ToolsListed(whole)[Len(whole)]
        BY ONLY <4>1, Zenon DEF AssembleToolList, ToolsListed
      <4>3. whole = all
        BY ONLY <2>2, <2>3, <4>1
      <4> QED
        BY ONLY <4>2, <4>3
    <3> QED
      BY ONLY <3>1, <3>2
  <2>7. ToolsListed(all)[Len(all)] \in Seq(X) /\ ToSet(ToolsListed(all)[Len(all)]) = ToSet(all)
    BY ONLY <2>5, EachToolListed
  <2>8. ToolList(one, a) \in Seq(X) /\ ToSet(ToolList(one, a)) = ToSet(tools) \cup ToSet(more)
    BY ONLY <2>5, <2>6, <2>7
  <2>9. ToolList(one, a) \in Seq(ToSet(ToolList(one, a)))
    BY ONLY <2>8, WordsOf
  <2>10. LinksOf(one, a) = AllIn(one) \cap (ToSet(tools) \cup (IF named THEN {} ELSE ToSet(arg_tools)))
    BY <1>2, <2>2 DEF LinksOf
  <2> QED
    BY ONLY <2>4, <2>8, <2>9, <2>10
<1> QED
  BY <1>1, <1>2

ReachedIn(one) ==
    LET Links(a) == LinksOf(one, a) IN ReachedFrom({FindFrontMan(one)}, Links, AllIn(one))

LEMMA ReportIsClosed ==
    ASSUME NEW one, IsNetwork(one)
    PROVE  /\ FindFrontMan(one) \in ReachedIn(one) /\ ReachedIn(one) \subseteq AllIn(one)
           /\ \A a \in ReachedIn(one) : LinksOf(one, a) \subseteq ReachedIn(one)
           /\ \A S \in SUBSET AllIn(one) :
                FindFrontMan(one) \in S /\ (\A a \in S : LinksOf(one, a) \subseteq S) => ReachedIn(one) \subseteq S
<1>1. FindFrontMan(one) \in AllIn(one)
  <2>1. 1 \in DOMAIN one
    <3>1. one \in Seq(ToSet(one)) /\ one # <<>>
      BY DEF IsNetwork
    <3> QED
      BY ONLY <3>1, EmptySeq
  <2> QED
    BY <2>1 DEF FindFrontMan, AllIn, AgentNames
<1>2. \A a : a \in ReachedIn(one) <=>
        a \in AllIn(one) /\ \A S \in SUBSET AllIn(one) :
            (FindFrontMan(one) \in S /\ \A b \in S : LinksOf(one, b) \subseteq S) => a \in S
  BY DEF ReachedIn, ReachedFrom
<1>3. \A a : LinksOf(one, a) \subseteq AllIn(one)
  BY DEF LinksOf
<1>4. ASSUME NEW a \in ReachedIn(one), NEW b \in LinksOf(one, a) PROVE b \in ReachedIn(one)
  BY ONLY <1>2, <1>3, a \in ReachedIn(one), b \in LinksOf(one, a)
<1> QED
  BY ONLY <1>1, <1>2, <1>4

\* What is reported, and what is still to be reported, hangs together.
Reporting(one, said, todo) ==
    LET All == AllIn(one)
        ToolsAt(i) == ToSet(ToolList(one, said[i].origin))
    IN  /\ said \in Seq(ToSet(said)) /\ todo \in Seq(ToSet(todo))
        /\ \A i \in DOMAIN said : said[i].origin \in All
        /\ \A i, j \in DOMAIN said : said[i].origin = said[j].origin => i = j
        /\ Origins(said) \subseteq ReachedIn(one) /\ ToSet(todo) \cap All \subseteq ReachedIn(one)
        /\ \A a \in Origins(said) : LinksOf(one, a) \subseteq Origins(said) \cup ToSet(todo)
        /\ IF said = <<>> THEN todo = <<FindFrontMan(one)>>
           ELSE /\ said[1].origin = FindFrontMan(one)
                /\ \A a \in ToSet(todo) : \E i \in DOMAIN said : a \in ToolsAt(i)
        /\ \A i \in 2 .. Len(said) : \E j \in 1 .. i - 1 : said[i].origin \in LinksOf(one, said[j].origin)

LEMMA TodoIs ==
    ASSUME NEW todo, todo \in Seq(ToSet(todo)), todo # <<>>
    PROVE  /\ ToSet(todo) = {Head(todo)} \cup ToSet(Tail(todo))
           /\ Tail(todo) \in Seq(ToSet(Tail(todo)))
<1>1. /\ Head(todo) \in ToSet(todo) /\ Tail(todo) \in Seq(ToSet(todo))
      /\ Len(Tail(todo)) = Len(todo) - 1 /\ \A i \in 1 .. Len(Tail(todo)) : Tail(todo)[i] = todo[i + 1]
  BY ONLY todo \in Seq(ToSet(todo)), todo # <<>>, HeadTailProperties
<1>2. PICK n, rest : /\ n = Len(todo) /\ rest = Tail(todo) /\ n \in Nat /\ DOMAIN todo = 1 .. n
                     /\ DOMAIN rest = 1 .. n - 1 /\ n # 0
  <2>1. Len(todo) \in Nat /\ DOMAIN todo = 1 .. Len(todo) /\ Len(todo) # 0
    BY ONLY todo \in Seq(ToSet(todo)), todo # <<>>, EmptySeq
  <2>2. DOMAIN Tail(todo) = 1 .. Len(Tail(todo))
    BY ONLY <1>1
  <2> QED
    BY ONLY <1>1, <2>1, <2>2
<1>3. Head(todo) = todo[1]
  BY DEF Head
<1>4. \A i \in 1 .. n - 1 : i + 1 \in 1 .. n /\ rest[i] = todo[i + 1]
  BY ONLY <1>1, <1>2
<1>5. \A i \in 1 .. n : i = 1 \/ (i - 1 \in 1 .. n - 1 /\ (i - 1) + 1 = i)
  BY ONLY <1>2
<1>6. ToSet(todo) = {Head(todo)} \cup ToSet(rest)
  <2>1. 1 \in 1 .. n
    BY ONLY <1>2
  <2>2. \A i \in 1 .. n : todo[i] = todo[1] \/ \E j \in 1 .. n - 1 : todo[i] = rest[j]
    BY ONLY <1>4, <1>5
  <2>3. ToSet(todo) \subseteq {Head(todo)} \cup ToSet(rest)
    <3> SUFFICES ASSUME NEW x \in ToSet(todo) PROVE x \in {Head(todo)} \cup ToSet(rest)
      OBVIOUS
    <3>1. PICK i \in 1 .. n : x = todo[i]
      BY ONLY <1>2, x \in ToSet(todo) DEF ToSet
    <3>2. CASE \E j \in 1 .. n - 1 : todo[i] = rest[j]
      BY ONLY <1>2, <3>1, <3>2 DEF ToSet
    <3> QED
      BY ONLY <1>3, <2>2, <3>1, <3>2
  <2>4. Head(todo) \in ToSet(todo)
    BY ONLY <1>1
  <2>5. ToSet(rest) \subseteq ToSet(todo)
    BY ONLY <1>2, <1>4 DEF ToSet
  <2> QED
    BY ONLY <2>3, <2>4, <2>5
<1>7. Tail(todo) \in Seq(ToSet(Tail(todo)))
  BY ONLY <1>1, WordsOf
<1> QED
  BY ONLY <1>2, <1>6, <1>7

LEMMA NothingSaid ==
    ASSUME NEW one, IsNetwork(one)
    PROVE  Reporting(one, <<>>, <<FindFrontMan(one)>>)
<1>1. /\ ToSet(<<>>) = {} /\ ToSet(<<FindFrontMan(one)>>) = {FindFrontMan(one)}
      /\ Len(<<>>) = 0 /\ DOMAIN <<>> = {} /\ Origins(<<>>) = {}
  BY DEF ToSet, Origins
<1>2. <<>> \in Seq({}) /\ <<FindFrontMan(one)>> \in Seq({FindFrontMan(one)})
  OBVIOUS
<1>3. FindFrontMan(one) \in ReachedIn(one)
  BY ReportIsClosed
<1>4. 2 .. 0 = {}
  OBVIOUS
<1> QED
  BY ONLY <1>1, <1>2, <1>3, <1>4 DEF Reporting

\* One that was reported, or is not there, is passed over.
LEMMA PassedOver ==
    ASSUME NEW one, IsNetwork(one), NEW said, NEW todo, Reporting(one, said, todo), todo # <<>>,
           Head(todo) \in Origins(said) \/ Head(todo) \notin AllIn(one)
    PROVE  Reporting(one, said, Tail(todo))
<1> DEFINE All == AllIn(one)
           ToolsAt(i) == ToSet(ToolList(one, said[i].origin))
<1>1. /\ said \in Seq(ToSet(said)) /\ todo \in Seq(ToSet(todo))
      /\ \A i \in DOMAIN said : said[i].origin \in All
      /\ \A i, j \in DOMAIN said : said[i].origin = said[j].origin => i = j
      /\ Origins(said) \subseteq ReachedIn(one) /\ ToSet(todo) \cap All \subseteq ReachedIn(one)
      /\ \A a \in Origins(said) : LinksOf(one, a) \subseteq Origins(said) \cup ToSet(todo)
      /\ IF said = <<>> THEN todo = <<FindFrontMan(one)>>
         ELSE /\ said[1].origin = FindFrontMan(one)
              /\ \A a \in ToSet(todo) : \E i \in DOMAIN said : a \in ToolsAt(i)
      /\ \A i \in 2 .. Len(said) : \E j \in 1 .. i - 1 : said[i].origin \in LinksOf(one, said[j].origin)
  BY Zenon DEF Reporting
<1>2. PICK rest : rest = Tail(todo) /\ ToSet(todo) = {Head(todo)} \cup ToSet(rest) /\ rest \in Seq(ToSet(rest))
  BY <1>1, TodoIs
<1>3. said # <<>>
  <2>1. CASE said = <<>>
    <3>1. todo = <<FindFrontMan(one)>> /\ Origins(said) = {}
      BY <1>1, <2>1 DEF Origins
    <3>2. Head(todo) = FindFrontMan(one) /\ FindFrontMan(one) \in All
      BY <3>1, ReportIsClosed
    <3> QED
      BY <3>1, <3>2
  <2> QED
    BY <2>1
<1>4. \A a \in Origins(said) : LinksOf(one, a) \subseteq Origins(said) \cup ToSet(rest)
  <2>1. \A a : LinksOf(one, a) \subseteq All
    BY DEF LinksOf
  <2> QED
    BY <1>1, <1>2, <2>1
<1>5. ToSet(rest) \subseteq ToSet(todo)
  BY <1>2
<1>6. Reporting(one, said, rest)
  BY ONLY <1>1, <1>2, <1>3, <1>4, <1>5 DEF Reporting
<1> QED
  BY <1>2, <1>6

LEMMA Reported ==
    ASSUME NEW one, IsNetwork(one), NEW said, NEW todo, Reporting(one, said, todo), todo # <<>>,
           NEW node, node = Head(todo), node \notin Origins(said), node \in AllIn(one),
           NEW tools, tools = ToolList(one, node)
    PROVE  Reporting(one, Append(said, [origin |-> node, tools |-> tools]), tools \o Tail(todo))
<1> DEFINE All == AllIn(one)
           ToolsAt(i) == ToSet(ToolList(one, said[i].origin))
<1>1. /\ said \in Seq(ToSet(said)) /\ todo \in Seq(ToSet(todo))
      /\ \A i \in DOMAIN said : said[i].origin \in All
      /\ \A i, j \in DOMAIN said : said[i].origin = said[j].origin => i = j
      /\ Origins(said) \subseteq ReachedIn(one) /\ ToSet(todo) \cap All \subseteq ReachedIn(one)
      /\ \A a \in Origins(said) : LinksOf(one, a) \subseteq Origins(said) \cup ToSet(todo)
      /\ IF said = <<>> THEN todo = <<FindFrontMan(one)>>
         ELSE /\ said[1].origin = FindFrontMan(one)
              /\ \A a \in ToSet(todo) : \E i \in DOMAIN said : a \in ToolsAt(i)
      /\ \A i \in 2 .. Len(said) : \E j \in 1 .. i - 1 : said[i].origin \in LinksOf(one, said[j].origin)
  BY Zenon DEF Reporting
<1> HIDE DEF ToolsAt
<1>2. PICK rest : rest = Tail(todo) /\ ToSet(todo) = {node} \cup ToSet(rest) /\ rest \in Seq(ToSet(rest))
  BY <1>1, TodoIs
<1>3. tools \in Seq(ToSet(tools)) /\ All \cap ToSet(tools) = LinksOf(one, node)
  BY ToolListIs
<1>4. PICK new, entry, later :
        /\ entry = [origin |-> node, tools |-> tools] /\ new = Append(said, entry) /\ later = tools \o rest
  BY Zenon
<1>5. entry.origin = node
  BY <1>4
<1>6. PICK n \in Nat : /\ n = Len(said) /\ DOMAIN said = 1 .. n /\ DOMAIN new = 1 .. n + 1 /\ Len(new) = n + 1
                       /\ new[n + 1] = entry /\ \A i \in 1 .. n : new[i] = said[i]
  <2>1. /\ Len(said) \in Nat /\ DOMAIN said = 1 .. Len(said)
        /\ DOMAIN Append(said, entry) = 1 .. Len(said) + 1 /\ Len(Append(said, entry)) = Len(said) + 1
        /\ Append(said, entry)[Len(said) + 1] = entry
        /\ \A i \in 1 .. Len(said) : Append(said, entry)[i] = said[i]
    BY ONLY <1>1
  <2> QED
    BY ONLY <1>4, <2>1, Zenon
<1>7. new \in Seq(ToSet(new))
  <2>1. new \in [1 .. n + 1 -> ToSet(new)]
    <3>1. new = [i \in DOMAIN new |-> new[i]]
      BY ONLY <1>1, <1>4
    <3> QED
      BY ONLY <1>6, <3>1 DEF ToSet
  <2>2. n + 1 \in Nat
    BY ONLY n \in Nat
  <2> QED
    BY ONLY <2>1, <2>2
<1>8. later \in Seq(ToSet(later)) /\ ToSet(later) = ToSet(tools) \cup ToSet(rest)
  <2>1. PICK X : ToSet(tools) \subseteq X /\ ToSet(rest) \subseteq X
    <3>1. ToSet(tools) \subseteq ToSet(tools) \cup ToSet(rest) /\ ToSet(rest) \subseteq ToSet(tools) \cup ToSet(rest)
      OBVIOUS
    <3> QED
      BY ONLY <3>1
  <2>4. tools \in Seq(X)
    BY ONLY <1>3, <2>1, SubsetOfSeq
  <2>5. rest \in Seq(X)
    BY ONLY <1>2, <2>1, SubsetOfSeq
  <2>6. tools \o rest \in Seq(X) /\ ToSet(tools \o rest) = ToSet(tools) \cup ToSet(rest)
    BY ONLY <2>4, <2>5, JoinedHas
  <2>2. later \in Seq(X) /\ ToSet(later) = ToSet(tools) \cup ToSet(rest)
    BY ONLY <1>4, <2>6
  <2>3. later \in Seq(ToSet(later))
    BY ONLY <2>2, WordsOf
  <2> QED
    BY ONLY <2>2, <2>3
<1>9. \A i \in 1 .. n + 1 : i = n + 1 \/ i \in 1 .. n
  BY ONLY n \in Nat
<1>10. /\ n + 1 \in 1 .. n + 1 /\ n + 1 \notin 1 .. n /\ \A i \in 1 .. n : i \in 1 .. n + 1
  BY ONLY n \in Nat
<1>11. Origins(new) = Origins(said) \cup {node}
  BY ONLY <1>5, <1>6, <1>9, <1>10 DEF Origins
<1>12. \A i \in DOMAIN new : new[i].origin \in All
  BY ONLY <1>1, <1>5, <1>6, <1>9, node \in AllIn(one)
<1>13. \A i, j \in DOMAIN new : new[i].origin = new[j].origin => i = j
  <2>1. \A i \in 1 .. n : said[i].origin # node
    BY ONLY <1>6, node \notin Origins(said) DEF Origins
  <2> QED
    BY ONLY <1>1, <1>5, <1>6, <1>9, <2>1
<1>14. Origins(new) \subseteq ReachedIn(one) /\ ToSet(later) \cap All \subseteq ReachedIn(one)
  <2>1. node \in ReachedIn(one)
    BY ONLY <1>1, <1>2, node \in AllIn(one)
  <2>2. LinksOf(one, node) \subseteq ReachedIn(one)
    BY ONLY <2>1, IsNetwork(one), ReportIsClosed
  <2> QED
    BY ONLY <1>1, <1>2, <1>3, <1>8, <1>11, <2>1, <2>2
<1>15. \A a \in Origins(new) : LinksOf(one, a) \subseteq Origins(new) \cup ToSet(later)
  BY ONLY <1>1, <1>2, <1>3, <1>8, <1>11
<1>16. said # <<>> => 1 \in 1 .. n
  <2>1. said # <<>> => n # 0
    BY ONLY <1>1, <1>6, EmptySeq
  <2> QED
    BY ONLY <2>1, n \in Nat
<1>17. said = <<>> => n = 0 /\ node = FindFrontMan(one) /\ ToSet(rest) = {}
  <2> SUFFICES ASSUME said = <<>> PROVE n = 0 /\ node = FindFrontMan(one) /\ ToSet(rest) = {}
    OBVIOUS
  <2>1. todo = <<FindFrontMan(one)>> /\ n = 0
    BY <1>1, <1>6
  <2>2. node = FindFrontMan(one) /\ rest = <<>>
    BY <1>2, <2>1
  <2>3. ToSet(<<>>) = {}
    BY DEF ToSet
  <2> QED
    BY ONLY <2>1, <2>2, <2>3
<1>18. new[1].origin = FindFrontMan(one)
  BY ONLY <1>1, <1>5, <1>6, <1>16, <1>17
<1>19. \A a \in ToSet(later) : \E i \in DOMAIN new : a \in ToSet(ToolList(one, new[i].origin))
  <2> SUFFICES ASSUME NEW a \in ToSet(later)
               PROVE  \E i \in DOMAIN new : a \in ToSet(ToolList(one, new[i].origin))
    OBVIOUS
  <2>1. CASE a \in ToSet(tools)
    BY <1>5, <1>6, <1>10, <2>1
  <2>2. CASE a \in ToSet(rest)
    <3>1. said # <<>>
      BY <1>17, <2>2
    <3>2. PICK i \in DOMAIN said : a \in ToolsAt(i)
      BY <1>1, <1>2, <2>2, <3>1
    <3>3. i \in 1 .. n + 1 /\ new[i] = said[i]
      BY <1>6, <1>10
    <3> QED
      BY <1>6, <3>2, <3>3 DEF ToolsAt
  <2> QED
    BY <1>8, <2>1, <2>2
<1>23. ASSUME NEW i \in 2 .. n + 1
       PROVE  \E j \in 1 .. i - 1 : new[i].origin \in LinksOf(one, new[j].origin)
  <2>1. /\ i = n + 1 \/ i \in 2 .. n
        /\ i \in 2 .. n => i \in 1 .. n /\ \A j \in 1 .. i - 1 : j \in 1 .. n
        /\ i = n + 1 => n # 0 /\ i - 1 = n
    BY ONLY n \in Nat, i \in 2 .. n + 1
  <2>2. CASE i \in 2 .. n
    <3>1. PICK j \in 1 .. i - 1 : said[i].origin \in LinksOf(one, said[j].origin)
      BY ONLY <1>1, <1>6, <2>2
    <3> QED
      BY ONLY <1>6, <2>1, <2>2, <3>1
  <2>3. CASE i = n + 1
    <3>1. said # <<>>
      BY <1>17, <2>1, <2>3
    <3>2. PICK j \in 1 .. n : node \in ToolsAt(j)
      BY <1>1, <1>2, <1>6, <3>1
    <3>3. said[j].origin \in All
      BY ONLY <1>1, <1>6, j \in 1 .. n
    <3>4. All \cap ToSet(ToolList(one, said[j].origin)) = LinksOf(one, said[j].origin)
      BY ONLY <3>3, IsNetwork(one), ToolListIs
    <3>5. node \in LinksOf(one, said[j].origin)
      BY ONLY <3>2, <3>4, node \in AllIn(one) DEF ToolsAt
    <3> QED
      BY ONLY <1>5, <1>6, <2>1, <2>3, <3>5, j \in 1 .. n
  <2> QED
    BY <2>1, <2>2, <2>3
<1>20. \A i \in 2 .. Len(new) : \E j \in 1 .. i - 1 : new[i].origin \in LinksOf(one, new[j].origin)
  <2>1. Len(new) = n + 1
    BY ONLY <1>6
  <2> QED
    BY ONLY <1>23, <2>1, Zenon
<1>21. new # <<>>
  <2>1. DOMAIN <<>> = {}
    OBVIOUS
  <2> QED
    BY ONLY <1>6, <1>10, <2>1
<1>22. Reporting(one, new, later)
  BY ONLY <1>7, <1>8, <1>12, <1>13, <1>14, <1>15, <1>18, <1>19, <1>20, <1>21 DEF Reporting
<1> QED
  BY <1>2, <1>4, <1>22

\* What holds of a report while it is made.
ReportInv ==
    /\ stage \in {"reporting", "reported"} =>
        IsNetwork(network) /\ Reporting(network, report, pending)
    /\ stage = "reported" => pending = <<>>
    /\ stage \in {"file", "created"} => report = <<>>

LEMMA ReportedHasAll ==
    ASSUME NEW one, IsNetwork(one), NEW said, Reporting(one, said, <<>>)
    PROVE  /\ Origins(said) = ReachedIn(one) /\ Cardinality(Origins(said)) = Len(said)
           /\ said[1].origin = FindFrontMan(one)
           /\ \A i \in 2 .. Len(said) : \E j \in 1 .. i - 1 : said[i].origin \in LinksOf(one, said[j].origin)
<1>1. ToSet(<<>>) = {} /\ <<>> # <<FindFrontMan(one)>>
  BY DEF ToSet
<1>2. /\ said \in Seq(ToSet(said)) /\ said # <<>> /\ said[1].origin = FindFrontMan(one)
      /\ \A i, j \in DOMAIN said : said[i].origin = said[j].origin => i = j
      /\ Origins(said) \subseteq ReachedIn(one)
      /\ \A a \in Origins(said) : LinksOf(one, a) \subseteq Origins(said)
      /\ \A i \in 2 .. Len(said) : \E j \in 1 .. i - 1 : said[i].origin \in LinksOf(one, said[j].origin)
  <2>1. PICK todo : todo = <<>> /\ Reporting(one, said, todo)
    OBVIOUS
  <2>2. /\ said \in Seq(ToSet(said))
        /\ \A i, j \in DOMAIN said : said[i].origin = said[j].origin => i = j
        /\ Origins(said) \subseteq ReachedIn(one)
        /\ \A a \in Origins(said) : LinksOf(one, a) \subseteq Origins(said) \cup ToSet(todo)
        /\ IF said = <<>> THEN todo = <<FindFrontMan(one)>> ELSE said[1].origin = FindFrontMan(one)
        /\ \A i \in 2 .. Len(said) : \E j \in 1 .. i - 1 : said[i].origin \in LinksOf(one, said[j].origin)
    BY ONLY <2>1, Zenon DEF Reporting
  <2> QED
    BY ONLY <1>1, <2>1, <2>2
<1>3. PICK n \in Nat : n = Len(said) /\ DOMAIN said = 1 .. n /\ n # 0
  BY ONLY <1>2, EmptySeq
<1>4. Origins(said) = ReachedIn(one)
  <2>1. FindFrontMan(one) \in Origins(said)
    <3>1. 1 \in 1 .. n
      BY ONLY <1>3
    <3> QED
      BY ONLY <1>2, <1>3, <3>1 DEF Origins
  <2>2. Origins(said) \in SUBSET AllIn(one)
    BY ONLY <1>2, IsNetwork(one), ReportIsClosed
  <2>3. ReachedIn(one) \subseteq Origins(said)
    BY ONLY <1>2, <2>1, <2>2, IsNetwork(one), ReportIsClosed
  <2> QED
    BY ONLY <1>2, <2>3
<1>5. Cardinality(Origins(said)) = n
  <2>1. PICK f : f = [i \in 1 .. n |-> said[i].origin]
    OBVIOUS
  <2>2. f \in Bijection(1 .. n, Origins(said))
    <3>1. f \in [1 .. n -> Origins(said)] /\ \A a \in Origins(said) : \E i \in 1 .. n : f[i] = a
      BY ONLY <1>3, <2>1 DEF Origins
    <3>2. \A i, j \in 1 .. n : f[i] = f[j] => i = j
      BY ONLY <1>2, <1>3, <2>1
    <3> QED
      BY ONLY <3>1, <3>2 DEF Bijection, Injection, Surjection, IsInjective
  <2>3. IsFiniteSet(1 .. n) /\ Cardinality(1 .. n) = n
    <3>1. IsFiniteSet(1 .. n) /\ Cardinality(1 .. n) = IF 1 > n THEN 0 ELSE n - 1 + 1
      BY FS_Interval
    <3> QED
      BY ONLY <3>1, <1>3
  <2>4. Cardinality(Origins(said)) = Cardinality(1 .. n)
    <3>1. ExistsBijection(1 .. n, Origins(said))
      BY <2>2 DEF ExistsBijection
    <3>2. PICK S, T : S = 1 .. n /\ T = Origins(said) /\ IsFiniteSet(S) /\ ExistsBijection(S, T)
      BY <2>3, <3>1
    <3>3. Cardinality(S) = Cardinality(T)
      BY ONLY <3>2, FS_Bijection
    <3> QED
      BY ONLY <3>2, <3>3
  <2> QED
    BY ONLY <2>3, <2>4
<1> QED
  BY ONLY <1>2, <1>3, <1>4, <1>5

LEMMA ReportStep ==
    ASSUME FileInv, ReportInv, ReportNodeConnectivity
    PROVE  ReportInv'
<1>1. /\ stage = "reporting" /\ pending # <<>> /\ network' = network
      /\ IsNetwork(network) /\ Reporting(network, report, pending)
  BY DEF ReportNodeConnectivity, ReportInv
<1>2. PICK node : node = Head(pending)
  OBVIOUS
<1>3. CASE node \in Origins(report) \/ node \notin Externals \cup AgentNames(network)
  <2>1. stage' = stage /\ report' = report /\ pending' = Tail(pending)
    BY <1>2, <1>3 DEF ReportNodeConnectivity
  <2>2. Reporting(network, report, Tail(pending))
    BY ONLY <1>1, <1>2, <1>3, PassedOver DEF AllIn
  <2>3. stage' = "reporting" /\ IsNetwork(network') /\ Reporting(network', report', pending')
    BY ONLY <1>1, <2>1, <2>2
  <2> QED
    BY ONLY <2>3 DEF ReportInv
<1>4. CASE /\ node \notin Origins(report) /\ node \in Externals \cup AgentNames(network)
           /\ CannotBeReported(network, node)
  <2>1. stage' = "raised"
    BY <1>2, <1>4 DEF ReportNodeConnectivity
  <2> QED
    BY <2>1 DEF ReportInv
<1>5. CASE /\ node \notin Origins(report) /\ node \in Externals \cup AgentNames(network)
           /\ ~CannotBeReported(network, node)
  <2>1. PICK tools : tools = ToolList(network, node)
    OBVIOUS
  <2>2. /\ stage' = stage /\ report' = Append(report, [origin |-> node, tools |-> tools])
        /\ pending' = tools \o Tail(pending)
    BY <1>2, <1>5, <2>1 DEF ReportNodeConnectivity
  <2>3. node \in AllIn(network)
    BY <1>5 DEF AllIn
  <2>4. Reporting(network, Append(report, [origin |-> node, tools |-> tools]), tools \o Tail(pending))
    BY ONLY <1>1, <1>2, <1>5, <2>1, <2>3, Reported
  <2>5. stage' = "reporting" /\ IsNetwork(network') /\ Reporting(network', report', pending')
    BY ONLY <1>1, <2>2, <2>4
  <2> QED
    BY ONLY <2>5 DEF ReportInv
<1> QED
  BY <1>3, <1>4, <1>5

LEMMA ReportInvariant == SetupSpec => []ReportInv
<1>1. SetupInit => ReportInv
  BY DEF SetupInit, ReportInv
<1>2. FileInv /\ ReportInv /\ [SetupNext]_allVars => ReportInv'
  <2> SUFFICES ASSUME FileInv, ReportInv, [SetupNext]_allVars PROVE ReportInv'
    OBVIOUS
  <2>1. CASE UNCHANGED setupVars
    <3>1. UNCHANGED <<stage, network, report, pending>>
      BY <2>1 DEF setupVars
    <3>2. CASE stage \in {"reporting", "reported"}
      <4>1. IsNetwork(network) /\ Reporting(network, report, pending)
        BY <3>2 DEF ReportInv
      <4>2. IsNetwork(network') /\ Reporting(network', report', pending')
        BY ONLY <3>1, <4>1
      <4>3. stage' = "reported" => pending' = <<>>
        BY <3>1 DEF ReportInv
      <4>4. stage' \in {"reporting", "reported"}
        BY <3>1, <3>2
      <4> QED
        BY ONLY <4>2, <4>3, <4>4 DEF ReportInv
    <3>3. CASE stage \notin {"reporting", "reported"}
      BY <3>1, <3>3 DEF ReportInv
    <3> QED
      BY <3>2, <3>3
  <2>2. CASE RestoreManifest \/ RestoreFromFiles
    <3>1. stage' \in {"manifests", "served", "raised"}
      BY <2>2 DEF RestoreManifest, RestoreFromFiles
    <3> QED
      BY <3>1 DEF ReportInv
  <2>3. CASE CreateNetwork
    <3>1. stage = "file" /\ stage' \in {"created", "raised"} /\ report' = report
      BY <2>3 DEF CreateNetwork
    <3> QED
      BY <3>1 DEF ReportInv
  <2>4. CASE Connectivity
    <3>1. CASE HasFrontMan(network)
      <4>1. PICK one, filtered : /\ IsFile(one) /\ filtered = FilterConfig(one) /\ filtered = network
        <5>1. given \in ConfigChoices /\ network = FilterConfig(given)
          BY <2>4 DEF Connectivity, FileInv
        <5> QED
          BY <5>1, FilesAssumption
      <4>2. IsNetwork(filtered)
        BY ONLY <3>1, <4>1, FilteredIsNetwork, Zenon
      <4>3. Reporting(filtered, <<>>, <<FindFrontMan(filtered)>>)
        BY ONLY <4>2, NothingSaid
      <4>4. /\ stage' = "reporting" /\ pending' = <<FindFrontMan(network)>> /\ report' = <<>>
            /\ network' = network
        BY <2>4, <3>1 DEF Connectivity, ReportInv
      <4>5. IsNetwork(network') /\ Reporting(network', report', pending')
        BY ONLY <4>1, <4>2, <4>3, <4>4
      <4> QED
        BY ONLY <4>4, <4>5 DEF ReportInv
    <3>2. CASE ~HasFrontMan(network)
      <4>1. stage' = "raised"
        BY <2>4, <3>2 DEF Connectivity
      <4> QED
        BY <4>1 DEF ReportInv
    <3> QED
      BY <3>1, <3>2
  <2>5. CASE ReportNodeConnectivity
    BY ONLY FileInv, ReportInv, <2>5, ReportStep
  <2>6. CASE ConnectivityReported
    <3>1. /\ stage = "reporting" /\ pending = <<>> /\ stage' = "reported" /\ UNCHANGED <<network, report, pending>>
      BY <2>6 DEF ConnectivityReported
    <3>2. IsNetwork(network) /\ Reporting(network, report, pending)
      BY <3>1 DEF ReportInv
    <3>3. IsNetwork(network') /\ Reporting(network', report', pending')
      BY ONLY <3>1, <3>2
    <3> QED
      BY ONLY <3>1, <3>3 DEF ReportInv
  <2>7. CASE FillAgentDefaults \/ CreateFullConfig \/ TryFactory \/ CreateLlm
    <3>1. stage' \in {"filled", "configured", "llm", "raised"}
      BY <2>7 DEF FillAgentDefaults, CreateFullConfig, TryFactory, CreateLlm
    <3> QED
      BY <3>1 DEF ReportInv
  <2> QED
    BY <2>1, <2>2, <2>3, <2>4, <2>5, <2>6, <2>7
       DEF SetupNext, PipelineStep, allVars
<1> QED
  BY <1>1, <1>2, FileInvariant, PTL DEF SetupSpec

\* What an agent names as its tools, also in a dictionary, and what that leads to.
NamedBy(one, a) ==
    IF a \in Externals THEN {}
    ELSE AllIn(one) \cap (ToSet(SpecOf(one, a).tools) \cup ToSet(SpecOf(one, a).args))
LedTo(one) ==
    LET Links(a) == NamedBy(one, a) IN ReachedFrom({FindFrontMan(one)}, Links, AllIn(one))
NamesTools(one, a) ==
    a \notin Externals /\ SpecOf(one, a).args_named /\ SpecOf(one, a).args # <<>>

LEMMA NamedAre ==
    ASSUME NEW one, NEW a
    PROVE  /\ LinksOf(one, a) \subseteq NamedBy(one, a) /\ NamedBy(one, a) \subseteq AllIn(one)
           /\ ~NamesTools(one, a) => NamedBy(one, a) = LinksOf(one, a)
<1>1. ToSet(<<>>) = {}
  BY DEF ToSet
<1> QED
  BY <1>1 DEF LinksOf, NamedBy, NamesTools

LEMMA LedToIs ==
    ASSUME NEW one, IsNetwork(one)
    PROVE  /\ ReachedIn(one) \subseteq LedTo(one)
           /\ \A S \in SUBSET AllIn(one) :
                FindFrontMan(one) \in S /\ (\A a \in S : NamedBy(one, a) \subseteq S) => LedTo(one) \subseteq S
<1>1. \A a : a \in LedTo(one) <=>
        a \in AllIn(one) /\ \A S \in SUBSET AllIn(one) :
            (FindFrontMan(one) \in S /\ \A b \in S : NamedBy(one, b) \subseteq S) => a \in S
  BY DEF LedTo, ReachedFrom
<1>2. LedTo(one) \in SUBSET AllIn(one) /\ FindFrontMan(one) \in LedTo(one)
  <2>1. FindFrontMan(one) \in AllIn(one)
    BY ONLY IsNetwork(one), ReportIsClosed
  <2> QED
    BY ONLY <1>1, <2>1
<1>3. ASSUME NEW a \in LedTo(one), NEW b \in LinksOf(one, a) PROVE b \in LedTo(one)
  <2>1. b \in NamedBy(one, a) /\ b \in AllIn(one)
    BY ONLY NamedAre, b \in LinksOf(one, a)
  <2> QED
    BY ONLY <1>1, <2>1, a \in LedTo(one)
<1>4. ReachedIn(one) \subseteq LedTo(one)
  BY ONLY <1>2, <1>3, IsNetwork(one), ReportIsClosed
<1>5. \A S \in SUBSET AllIn(one) :
        FindFrontMan(one) \in S /\ (\A a \in S : NamedBy(one, a) \subseteq S) => LedTo(one) \subseteq S
  BY ONLY <1>1
<1> QED
  BY ONLY <1>4, <1>5

\* A report that comes to its end has nothing but what the front man leads to, each agent
\* once, the front man first and every other after one that has it as a tool, for networks
\* of any shape, with cycles too; and it has all of that, unless an agent that it has
\* names tools in a dictionary, which the code leaves out.
THEOREM ReportIsComplete == SetupSpec => []ReportIsExact
<1>1. ReportInv => ReportIsExact
  <2> SUFFICES ASSUME ReportInv, stage = "reported" PROVE ReportIsExact
    BY Zenon DEF ReportIsExact
  <2>1. IsNetwork(network) /\ Reporting(network, report, <<>>)
    BY DEF ReportInv
  <2>2. /\ Origins(report) = ReachedIn(network) /\ Cardinality(Origins(report)) = Len(report)
        /\ report[1].origin = FindFrontMan(network)
        /\ \A i \in 2 .. Len(report) : \E j \in 1 .. i - 1 : report[i].origin \in LinksOf(network, report[j].origin)
    BY ONLY <2>1, ReportedHasAll
  <2>3. Origins(report) \subseteq LedTo(network)
    BY ONLY <2>1, <2>2, LedToIs
  <2>4. (\A a \in Origins(report) : ~NamesTools(network, a)) => LedTo(network) \subseteq Origins(report)
    <3> SUFFICES ASSUME \A a \in Origins(report) : ~NamesTools(network, a)
                 PROVE  LedTo(network) \subseteq Origins(report)
      OBVIOUS
    <3>1. /\ Origins(report) \in SUBSET AllIn(network) /\ FindFrontMan(network) \in Origins(report)
          /\ \A a \in Origins(report) : LinksOf(network, a) \subseteq Origins(report)
      BY ONLY <2>1, <2>2, ReportIsClosed
    <3>2. \A a \in Origins(report) : NamedBy(network, a) \subseteq Origins(report)
      BY ONLY <3>1, NamedAre, \A a \in Origins(report) : ~NamesTools(network, a)
    <3> QED
      BY ONLY <2>1, <3>1, <3>2, LedToIs
  <2>5. \A i \in 2 .. Len(report) : \E j \in 1 .. i - 1 : report[i].origin \in NamedBy(network, report[j].origin)
    BY ONLY <2>2, NamedAre
  <2> QED
    BY ONLY <2>2, <2>3, <2>4, <2>5, Zenon
       DEF ReportIsExact, LedTo, NamedBy, NamesTools, AllIn, FindFrontMan
<1> QED
  BY <1>1, ReportInvariant, PTL

(***************************************************************************)
(* LlmConfig.  For any settings and factories.                             *)
(***************************************************************************)

\* The first factory that can make the LLM does, unless one before it ends the search.
FirstMakesIt(factories, made) ==
    LET Ends(outcome) == {i \in DOMAIN factories : factories[i] = outcome}
    IN  \A i \in Ends("llm") :
            (\A j \in Ends("llm") \cup Ends("api key") \cup Ends("old resources") : i <= j)
                => made = [by |-> "factory", at |-> i]

\* What asking the first n factories has found, and nothing before ended the search.
WasAsked(factories, n, found) ==
    /\ n \in 0 .. Len(factories)
    /\ found = IF n = 0 THEN NothingFound ELSE AskFactory(factories[n], n)
    /\ \A i \in 1 .. n - 1 : factories[i] \notin {"llm", "api key", "old resources"}

\* Which factories were asked, and what the last one said.
LlmInv ==
    /\ stage \in {"settings", "filled", "configured", "llm"} => given \in LlmChoices
    /\ stage \in {"settings", "filled"} => at = 0 /\ llm = NoLlm
    /\ stage \in {"filled", "configured", "llm"} => agent = FillDefaults(given.network, given.agent)
    /\ stage \in {"configured", "llm"} =>
        /\ llm \in [full : {llm.full}, made : {llm.made}]
        /\ llm.full # Error
        /\ llm.full = CreateFullLlmConfig(LoadLlmInfos(given.default, given.user), agent.llm_config)
    /\ stage = "configured" => WasAsked(given.factories, at, llm.made)
    /\ stage = "llm" => FirstMakesIt(given.factories, llm.made)

LEMMA OverlaysAre ==
    ASSUME NEW class_args, NEW default, NEW config, NEW names, NEW share,
           DOMAIN names = {"class", "model_name"}, DOMAIN share = {"max_tokens"},
           NEW full, full = Overlay(Overlay(Overlay(Overlay(class_args, default), config), names), share),
           NEW key, key \in DOMAIN full \ {"class", "model_name", "max_tokens"}
    PROVE  /\ key \in DOMAIN config => full[key] = config[key]
           /\ key \notin DOMAIN config /\ key \in DOMAIN default => full[key] = default[key]
<1>1. PICK inner, outer, named :
        inner = Overlay(class_args, default) /\ outer = Overlay(inner, config) /\ named = Overlay(outer, names)
  OBVIOUS
<1>2. full = Overlay(named, share)
  BY <1>1
<1>3. full[key] = named[key] /\ key \in DOMAIN named
  BY ONLY <1>2, DOMAIN share = {"max_tokens"}, key \in DOMAIN full \ {"class", "model_name", "max_tokens"}
     DEF Overlay
<1>4. named[key] = outer[key] /\ key \in DOMAIN outer
  BY ONLY <1>1, <1>3, DOMAIN names = {"class", "model_name"},
          key \in DOMAIN full \ {"class", "model_name", "max_tokens"} DEF Overlay
<1>5. key \in DOMAIN config => outer[key] = config[key]
  BY ONLY <1>1 DEF Overlay
<1>6. key \notin DOMAIN config => outer[key] = inner[key] /\ key \in DOMAIN inner
  BY ONLY <1>1, <1>4 DEF Overlay
<1>7. key \in DOMAIN default => inner[key] = default[key]
  BY ONLY <1>1 DEF Overlay
<1> QED
  BY ONLY <1>3, <1>4, <1>5, <1>6, <1>7

LEMMA FullConfigIs ==
    ASSUME NEW infos, NEW config, "class" \notin DOMAIN config,
           NEW full, full = CreateFullLlmConfig(infos, config), full # Error,
           NEW key \in DOMAIN full.config \ {"class", "model_name", "max_tokens"}
    PROVE  /\ key \in DOMAIN config => full.config[key] = config[key]
           /\ key \notin DOMAIN config /\ key \in DOMAIN infos.default_config =>
                full.config[key] = infos.default_config[key]
<1> DEFINE default == infos.default_config
           asked == Overlay(default, config)["model_name"]
           entry == infos.models[ModelEntry(infos, asked)]
           inner == Overlay(GetChatClassArgs(infos, entry.class), default)
           outer == Overlay(inner, config)
           names == [class |-> entry.class,
                     model_name |-> IF entry.use_model_name = "none" THEN ModelEntry(infos, asked)
                                    ELSE entry.use_model_name]
           named == Overlay(outer, names)
           share == [max_tokens |-> GetMaxPromptTokens(infos, named)]
<1>1. full = [state |-> "made", config |-> Overlay(named, share)]
  BY DEF CreateFullLlmConfig
<1>2. full.config = Overlay(named, share)
  BY <1>1
<1>3. DOMAIN names = {"class", "model_name"} /\ DOMAIN share = {"max_tokens"}
  OBVIOUS
<1> HIDE DEF names, share
<1>4. PICK class_args, over, last, basis, new :
        /\ new = Overlay(Overlay(Overlay(Overlay(class_args, basis), config), over), last)
        /\ over = names /\ last = share /\ basis = default /\ new = full.config
  BY <1>2
<1> HIDE DEF default
<1>5. DOMAIN over = {"class", "model_name"} /\ DOMAIN last = {"max_tokens"}
  BY <1>3, <1>4
<1>6. key \in DOMAIN new \ {"class", "model_name", "max_tokens"}
  BY <1>4
<1>7. /\ key \in DOMAIN config => new[key] = config[key]
      /\ key \notin DOMAIN config /\ key \in DOMAIN basis => new[key] = basis[key]
  BY ONLY <1>4, <1>5, <1>6, OverlaysAre
<1> QED
  BY <1>4, <1>7 DEF default

\* The levels of an argument, the most specific one first.
Levels(one) == <<one.agent.llm_config, one.network.llm_config,
                 one.user.default_config, one.default.default_config>>
MostSpecific(one, config, key) ==
    LET levels == Levels(one)
        says == {i \in DOMAIN levels : key \in DOMAIN levels[i]}
    IN  says # {} => config[key] = levels[CHOOSE i \in says : \A j \in says : i <= j][key]

LEMMA FirstOfFour ==
    ASSUME NEW says \in SUBSET (1 .. 4), says # {}
    PROVE  \E first \in says : /\ \A j \in says : first <= j
                               /\ (CHOOSE i \in says : \A j \in says : i <= j) = first
<1>1. PICK first \in says : \A j \in says : first <= j
  <2>1. says \in SUBSET Nat
    OBVIOUS
  <2> QED
    BY ONLY <2>1, says # {}, LeastNumber
<1>2. \A i \in says : (\A j \in says : i <= j) => i = first
  BY <1>1
<1>3. (CHOOSE i \in says : \A j \in says : i <= j) = first
  BY ONLY <1>1, <1>2
<1> QED
  BY <1>1, <1>3

LEMMA ConfigIsMostSpecific ==
    ASSUME NEW one, NEW settings, settings = FillDefaults(one.network, one.agent),
           "class" \notin DOMAIN settings.llm_config, NEW full, full # Error,
           full = CreateFullLlmConfig(LoadLlmInfos(one.default, one.user), settings.llm_config),
           NEW key \in DOMAIN full.config \ {"class", "model_name", "max_tokens"}
    PROVE  MostSpecific(one, full.config, key)
<1> DEFINE levels == Levels(one)
           says == {i \in DOMAIN levels : key \in DOMAIN levels[i]}
           infos == LoadLlmInfos(one.default, one.user)
           config == settings.llm_config
<1>1. /\ levels[1] = one.agent.llm_config /\ levels[2] = one.network.llm_config
      /\ levels[3] = one.user.default_config /\ levels[4] = one.default.default_config
      /\ DOMAIN levels = 1 .. 4
  BY DEF Levels
<1>2. config = Overlay(levels[2], levels[1])
  BY <1>1 DEF FillDefaults
<1>3. infos.default_config = Overlay(levels[4], levels[3])
  BY <1>1 DEF LoadLlmInfos
<1> HIDE DEF levels, infos, config
<1>4. /\ key \in DOMAIN config => full.config[key] = config[key]
      /\ key \notin DOMAIN config /\ key \in DOMAIN infos.default_config =>
            full.config[key] = infos.default_config[key]
  BY FullConfigIs DEF infos, config
<1>5. ASSUME says # {} PROVE full.config[key] = levels[CHOOSE i \in says : \A j \in says : i <= j][key]
  <2>1. says \in SUBSET (1 .. 4)
    BY <1>1
  <2>2. PICK first \in says :
            /\ \A j \in says : first <= j
            /\ (CHOOSE i \in says : \A j \in says : i <= j) = first
    <3> HIDE DEF says
    <3> QED
      BY ONLY <1>5, <2>1, FirstOfFour
  <2>3. first \in 1 .. 4 /\ key \in DOMAIN levels[first]
    BY <2>1
  <2>4. \A i \in 1 .. 4 : i < first => key \notin DOMAIN levels[i]
    <3>1. \A i \in 1 .. 4 : i < first => i \notin says
      BY <2>2, <2>3
    <3> QED
      BY <1>1, <3>1
  <2> HIDE DEF says
  <2>5. full.config[key] = levels[first][key]
    <3>1. /\ key \in DOMAIN config <=> key \in DOMAIN levels[1] \/ key \in DOMAIN levels[2]
          /\ key \in DOMAIN levels[1] => config[key] = levels[1][key]
          /\ key \notin DOMAIN levels[1] /\ key \in DOMAIN levels[2] => config[key] = levels[2][key]
      BY ONLY <1>2 DEF Overlay
    <3>2. /\ key \in DOMAIN infos.default_config <=> key \in DOMAIN levels[3] \/ key \in DOMAIN levels[4]
          /\ key \in DOMAIN levels[3] => infos.default_config[key] = levels[3][key]
          /\ key \notin DOMAIN levels[3] /\ key \in DOMAIN levels[4] =>
                infos.default_config[key] = levels[4][key]
      BY ONLY <1>3 DEF Overlay
    <3>3. first \in {1, 2, 3, 4}
      BY <2>3
    <3> QED
      BY ONLY <1>4, <2>3, <2>4, <3>1, <3>2, <3>3
  <2> QED
    BY ONLY <2>2, <2>5
<1> QED
  BY <1>5, Zenon DEF MostSpecific, says, levels

LEMMA AskFactoryIs ==
    ASSUME NEW i, NEW outcome \in Outcomes
    PROVE  /\ outcome = "llm" => AskFactory(outcome, i) = [by |-> "factory", at |-> i]
           /\ EndsTheSearch(AskFactory(outcome, i)) => outcome \in {"llm", "api key", "old resources"}
           /\ outcome \in {"llm", "api key", "old resources"} => EndsTheSearch(AskFactory(outcome, i))
<1>1. CASE outcome = "llm"
  BY <1>1, Zenon DEF AskFactory, EndsTheSearch
<1>2. CASE outcome = "nothing"
  BY <1>2, Zenon DEF AskFactory, EndsTheSearch, NothingFound
<1>3. CASE outcome = "refuses"
  BY <1>3, Zenon DEF AskFactory, EndsTheSearch
<1>4. CASE outcome = "api key"
  BY <1>4, Zenon DEF AskFactory, EndsTheSearch
<1>5. CASE outcome = "old resources"
  BY <1>5, Zenon DEF AskFactory, EndsTheSearch
<1> QED
  BY <1>1, <1>2, <1>3, <1>4, <1>5, Zenon DEF Outcomes

LEMMA NothingAsked ==
    ASSUME NEW factories, factories \in Seq(Outcomes)
    PROVE  WasAsked(factories, 0, NothingFound)
BY DEF WasAsked

LEMMA AskedNext ==
    ASSUME NEW factories, factories \in Seq(Outcomes), NEW n, NEW found, WasAsked(factories, n, found),
           n < Len(factories), ~EndsTheSearch(found)
    PROVE  WasAsked(factories, n + 1, AskFactory(factories[n + 1], n + 1))
<1> DEFINE l == Len(factories)
<1>1. l \in Nat
  BY ONLY factories \in Seq(Outcomes)
<1>2. /\ n \in 0 .. l
      /\ found = IF n = 0 THEN NothingFound ELSE AskFactory(factories[n], n)
      /\ \A i \in 1 .. n - 1 : factories[i] \notin {"llm", "api key", "old resources"}
  BY Zenon DEF WasAsked
<1>3. n < l
  OBVIOUS
<1> HIDE DEF l
<1>4. /\ n + 1 \in 0 .. l /\ n + 1 # 0 /\ n + 1 - 1 = n /\ (n # 0 => n \in 1 .. l)
      /\ \A i \in 1 .. n : n # 0 /\ (i = n \/ i \in 1 .. n - 1)
  <2>1. n \in 0 .. l
    BY ONLY <1>2, Zenon
  <2>2. n \in Nat /\ n < l
    BY ONLY <1>1, <1>3, <2>1
  <2> QED
    BY ONLY <1>1, <2>2
<1>5. n # 0 => factories[n] \notin {"llm", "api key", "old resources"}
  <2> SUFFICES ASSUME n # 0 PROVE factories[n] \notin {"llm", "api key", "old resources"}
    BY Zenon
  <2>1. n \in 1 .. l
    BY ONLY <1>4, n # 0
  <2>2. factories[n] \in Outcomes
    BY ONLY <2>1, factories \in Seq(Outcomes) DEF l
  <2>3. ~EndsTheSearch(AskFactory(factories[n], n))
    BY <1>2, Zenon
  <2> QED
    BY ONLY <2>2, <2>3, AskFactoryIs, Zenon
<1>6. \A i \in 1 .. n : factories[i] \notin {"llm", "api key", "old resources"}
  BY ONLY <1>2, <1>4, <1>5, Zenon
<1>7. n + 1 \in 0 .. Len(factories)
  BY <1>4 DEF l
<1>8. AskFactory(factories[n + 1], n + 1) =
        IF n + 1 = 0 THEN NothingFound ELSE AskFactory(factories[n + 1], n + 1)
  BY <1>4, Zenon
<1>9. \A i \in 1 .. (n + 1) - 1 : factories[i] \notin {"llm", "api key", "old resources"}
  <2>1. (n + 1) - 1 = n
    BY <1>4
  <2> QED
    BY ONLY <1>6, <2>1, Zenon
<1> QED
  BY ONLY <1>7, <1>8, <1>9, Zenon DEF WasAsked

LEMMA AskedEnough ==
    ASSUME NEW factories, factories \in Seq(Outcomes), NEW n, NEW found, WasAsked(factories, n, found),
           n = Len(factories) \/ EndsTheSearch(found), NEW standard
    PROVE  FirstMakesIt(factories, UserClass(found, standard))
<1> DEFINE l == Len(factories)
<1>1. l \in Nat /\ DOMAIN factories = 1 .. l
  BY ONLY factories \in Seq(Outcomes)
<1>2. /\ n \in 0 .. l
      /\ found = IF n = 0 THEN NothingFound ELSE AskFactory(factories[n], n)
      /\ \A i \in 1 .. n - 1 : factories[i] \notin {"llm", "api key", "old resources"}
  BY Zenon DEF WasAsked
<1>3. n = l \/ EndsTheSearch(found)
  OBVIOUS
<1>4. \A k \in 1 .. l : factories[k] \in Outcomes
  BY ONLY factories \in Seq(Outcomes)
<1> HIDE DEF l
<1>5. n \in Nat /\ n <= l /\ (n # 0 => n \in 1 .. l)
  <2>1. n \in 0 .. l
    BY ONLY <1>2, Zenon
  <2> QED
    BY ONLY <1>1, <2>1
<1>6. ASSUME NEW i \in DOMAIN factories, factories[i] = "llm",
             \A j \in DOMAIN factories :
                factories[j] \in {"llm", "api key", "old resources"} => i <= j
      PROVE  UserClass(found, standard) = [by |-> "factory", at |-> i]
  <2>1. i \in 1 .. l
    BY <1>1
  <2>2. EndsTheSearch(found) => n \in 1 .. l /\ i <= n
    <3> SUFFICES ASSUME EndsTheSearch(found) PROVE n \in 1 .. l /\ i <= n
      OBVIOUS
    <3>1. n # 0
      BY ONLY <1>2, EndsTheSearch(found), Zenon DEF EndsTheSearch, NothingFound
    <3>2. n \in 1 .. l /\ found = AskFactory(factories[n], n)
      BY ONLY <1>2, <1>5, <3>1, Zenon
    <3>3. factories[n] \in {"llm", "api key", "old resources"}
      BY ONLY <1>4, <3>2, EndsTheSearch(found), AskFactoryIs, Zenon
    <3> QED
      BY <1>1, <1>6, <3>2, <3>3, Zenon
  <2>3. i <= n
    BY ONLY <1>1, <1>3, <2>1, <2>2
  <2>4. i \notin 1 .. n - 1
    BY ONLY <1>2, <1>6, i \in DOMAIN factories, Zenon
  <2>5. i = n /\ n # 0
    BY ONLY <1>1, <1>5, <2>1, <2>3, <2>4
  <2>6. found = [by |-> "factory", at |-> i]
    <3>1. "llm" \in Outcomes
      BY Zenon DEF Outcomes
    <3>2. found = AskFactory("llm", n)
      BY <1>2, <1>6, <2>5, Zenon
    <3>3. AskFactory("llm", n) = [by |-> "factory", at |-> n]
      BY ONLY <3>1, AskFactoryIs, Zenon
    <3> QED
      BY ONLY <2>5, <3>2, <3>3
  <2> QED
    BY ONLY <2>6 DEF UserClass
<1> QED
  BY ONLY <1>6, Zenon DEF FirstMakesIt

LEMMA CreateFullConfigStep == LlmInv /\ CreateFullConfig => LlmInv'
<1> SUFFICES ASSUME LlmInv, CreateFullConfig PROVE LlmInv'
  OBVIOUS
<1> DEFINE full == CreateFullLlmConfig(LoadLlmInfos(given.default, given.user), agent.llm_config)
<1>1. given \in LlmChoices /\ at = 0 /\ llm = NoLlm /\ agent = FillDefaults(given.network, given.agent)
  BY DEF LlmInv, CreateFullConfig
<1>2. llm' = [llm EXCEPT !.full = full]
  BY DEF CreateFullConfig
<1>3. stage' = (IF llm'.full = Error THEN "raised" ELSE "configured") /\ UNCHANGED <<given, at, agent>>
  BY DEF CreateFullConfig
<1> HIDE DEF full
<1>4. llm'.full = full /\ llm'.made = NothingFound /\ llm' \in [full : {llm'.full}, made : {llm'.made}]
  <2>1. llm \in [full : {Error}, made : {NothingFound}]
    BY <1>1 DEF NoLlm
  <2> QED
    BY ONLY <1>2, <2>1
<1>5. WasAsked(given'.factories, at', llm'.made)
  <2>1. WasAsked(given.factories, 0, NothingFound)
    BY <1>1, LlmsAssumption, NothingAsked
  <2> QED
    BY <1>1, <1>3, <1>4, <2>1
<1> QED
  BY <1>1, <1>3, <1>4, <1>5 DEF LlmInv, full

LEMMA TryFactoryStep == LlmInv /\ TryFactory => LlmInv'
<1> SUFFICES ASSUME LlmInv, TryFactory PROVE LlmInv'
  OBVIOUS
<1>1. /\ given \in LlmChoices /\ agent = FillDefaults(given.network, given.agent)
      /\ llm \in [full : {llm.full}, made : {llm.made}] /\ llm.full # Error
      /\ llm.full = CreateFullLlmConfig(LoadLlmInfos(given.default, given.user), agent.llm_config)
      /\ WasAsked(given.factories, at, llm.made)
  BY DEF LlmInv, TryFactory
<1>2. /\ stage = "configured" /\ at < Len(given.factories) /\ ~EndsTheSearch(llm.made)
      /\ at' = at + 1 /\ UNCHANGED <<stage, given, agent>>
      /\ llm' = [llm EXCEPT !.made = AskFactory(given.factories[at'], at')]
  BY DEF TryFactory
<1>3. /\ llm'.full = llm.full /\ llm' \in [full : {llm'.full}, made : {llm'.made}]
      /\ llm'.made = AskFactory(given.factories[at'], at')
  BY ONLY <1>1, <1>2
<1>4. WasAsked(given'.factories, at', llm'.made)
  <2>1. PICK factories, n, found : factories = given.factories /\ n = at /\ found = llm.made
    OBVIOUS
  <2>2. factories \in Seq(Outcomes) /\ WasAsked(factories, n, found)
        /\ n < Len(factories) /\ ~EndsTheSearch(found)
    BY <1>1, <1>2, <2>1, LlmsAssumption
  <2>3. WasAsked(factories, n + 1, AskFactory(factories[n + 1], n + 1))
    BY ONLY <2>2, AskedNext
  <2> QED
    BY <1>2, <1>3, <2>1, <2>3
<1>5. /\ given' \in LlmChoices /\ agent' = FillDefaults(given'.network, given'.agent)
      /\ llm' \in [full : {llm'.full}, made : {llm'.made}] /\ llm'.full # Error
      /\ llm'.full = CreateFullLlmConfig(LoadLlmInfos(given'.default, given'.user), agent'.llm_config)
  BY <1>1, <1>2, <1>3
<1> QED
  BY <1>2, <1>4, <1>5 DEF LlmInv

LEMMA CreateLlmStep == LlmInv /\ CreateLlm => LlmInv'
<1> SUFFICES ASSUME LlmInv, CreateLlm PROVE LlmInv'
  OBVIOUS
<1>1. /\ given \in LlmChoices /\ agent = FillDefaults(given.network, given.agent)
      /\ llm \in [full : {llm.full}, made : {llm.made}] /\ llm.full # Error
      /\ llm.full = CreateFullLlmConfig(LoadLlmInfos(given.default, given.user), agent.llm_config)
      /\ WasAsked(given.factories, at, llm.made)
  BY DEF LlmInv, CreateLlm
<1>2. PICK standard : llm' = [llm EXCEPT !.made = UserClass(llm.made, standard)]
  <2>1. PICK standard : standard =
            (llm.full.config["class"] \in DOMAIN LoadLlmInfos(given.default, given.user).classes)
    OBVIOUS
  <2>2. llm' = [llm EXCEPT !.made = UserClass(llm.made, standard)]
    BY <2>1, Zenon DEF CreateLlm
  <2> QED
    BY <2>2
<1>3. /\ at = Len(given.factories) \/ EndsTheSearch(llm.made)
      /\ stage' = "llm" /\ UNCHANGED <<given, at, agent>>
  BY DEF CreateLlm
<1>4. /\ llm'.full = llm.full /\ llm' \in [full : {llm'.full}, made : {llm'.made}]
      /\ llm'.made = UserClass(llm.made, standard)
  BY ONLY <1>1, <1>2
<1>5. FirstMakesIt(given.factories, llm'.made)
  <2>1. PICK factories, n, found : factories = given.factories /\ n = at /\ found = llm.made
    OBVIOUS
  <2>2. factories \in Seq(Outcomes) /\ WasAsked(factories, n, found)
        /\ (n = Len(factories) \/ EndsTheSearch(found))
    BY <1>1, <1>3, <2>1, LlmsAssumption
  <2>3. FirstMakesIt(factories, UserClass(found, standard))
    BY ONLY <2>2, AskedEnough
  <2> QED
    BY <1>4, <2>1, <2>3
<1> QED
  BY <1>1, <1>3, <1>4, <1>5 DEF LlmInv

LEMMA LlmStep == LlmInv /\ PipelineStep => LlmInv'
<1> SUFFICES ASSUME LlmInv, PipelineStep PROVE LlmInv'
  OBVIOUS
<1>1. CASE RestoreManifest \/ RestoreFromFiles
  BY <1>1 DEF RestoreManifest, RestoreFromFiles, LlmInv
<1>2. CASE CreateNetwork \/ Connectivity \/ ConnectivityReported
  BY <1>2 DEF CreateNetwork, Connectivity, ConnectivityReported, LlmInv
<1>3. CASE ReportNodeConnectivity
  <2>1. stage' \in {"reporting", "raised"}
    BY <1>3 DEF ReportNodeConnectivity
  <2> QED
    BY <2>1 DEF LlmInv
<1>4. CASE FillAgentDefaults
  BY <1>4 DEF FillAgentDefaults, LlmInv
<1> QED
  BY <1>1, <1>2, <1>3, <1>4, CreateFullConfigStep, TryFactoryStep, CreateLlmStep DEF PipelineStep

LEMMA LlmInvariant == SetupSpec => []LlmInv
<1>1. SetupInit => LlmInv
  BY DEF SetupInit, LlmInv
<1>2. LlmInv /\ [SetupNext]_allVars => LlmInv'
  <2> SUFFICES ASSUME LlmInv, [SetupNext]_allVars PROVE LlmInv'
    OBVIOUS
  <2>1. CASE UNCHANGED setupVars
    BY <2>1, Zenon DEF setupVars, LlmInv, FirstMakesIt
  <2>2. CASE PipelineStep
    BY <2>2, LlmStep
  <2> QED
    BY <2>1, <2>2 DEF SetupNext, allVars
<1> QED
  BY <1>1, <1>2, PTL DEF SetupSpec

\* What is most specific wins, and the first factory that can make the LLM does: for
\* every choice of files, classes, models and factories.
THEOREM SpecificWins == SetupSpec => []MostSpecificWins
<1>1. LlmInv => MostSpecificWins
  <2> SUFFICES ASSUME LlmInv PROVE MostSpecificWins
    OBVIOUS
  <2>1. ASSUME stage \in {"configured", "llm"}, "class" \notin DOMAIN agent.llm_config,
               NEW key \in DOMAIN llm.full.config \ {"class", "model_name", "max_tokens"}
        PROVE  MostSpecific(given, llm.full.config, key)
    <3>1. PICK one, settings, full : one = given /\ settings = agent /\ full = llm.full
      OBVIOUS
    <3>2. /\ settings = FillDefaults(one.network, one.agent) /\ full # Error
          /\ full = CreateFullLlmConfig(LoadLlmInfos(one.default, one.user), settings.llm_config)
      BY <2>1, <3>1 DEF LlmInv
    <3>3. "class" \notin DOMAIN settings.llm_config
          /\ key \in DOMAIN full.config \ {"class", "model_name", "max_tokens"}
      BY <2>1, <3>1
    <3>4. MostSpecific(one, full.config, key)
      BY ONLY <3>2, <3>3, ConfigIsMostSpecific
    <3> QED
      BY ONLY <3>1, <3>4
  <2>2. stage = "llm" => FirstMakesIt(given.factories, llm.made)
    BY DEF LlmInv
  <2> QED
    BY ONLY <2>1, <2>2, Zenon DEF MostSpecificWins, MostSpecific, Levels, FirstMakesIt
<1> QED
  BY <1>1, LlmInvariant, PTL
=============================================================================
