------------------------ MODULE StructureValidation ------------------------
(***************************************************************************)
(* StructureNetworkValidator: the validation of the topology of an agent   *)
(* network.  Three validators look at it one after the other: for agents   *)
(* on cycles, for tools that no node defines, and for agents that the one  *)
(* top agent does not reach.  Their two depth-first searches are machines  *)
(* with an explicit call stack.                                            *)
(***************************************************************************)
EXTENDS Naturals, Sequences, FiniteSets

CONSTANTS
    Order,      \* the names of the agents, in the order of the network
    Others,     \* names that are no agent's
    Urls,       \* those among them that are URLs or paths
    Graphs      \* the networks that are validated

Agents == {Order[i] : i \in 1 .. Len(Order)}

\* A network: the down-chains of each agent, and what its args.tools names.
GraphType == [tools : [Agents -> Seq(Agents \cup Others)], args : [Agents -> Seq(Agents \cup Others)]]

ASSUME StructureAssumption ==
    /\ Order \in Seq(Agents) /\ Order # <<>>
    /\ Agents \cap Others = {}
    /\ Urls \subseteq Others
    /\ Graphs \subseteq GraphType

VARIABLES
    graph,      \* the network
    phase,      \* "cycles", "reach" or "done"
    start,      \* position in Order of the next agent to start a search from
    state,      \* GraphVisitationState of each agent
    stack,      \* the calls in progress: an agent, and the children it still has to visit
    cyclical,   \* cyclical_agents
    missing,    \* agents with tools that no node defines
    top_agents,
    reachable   \* reachable_agents, which is also what was visited

structureVars == <<graph, phase, start, state, stack, cyclical, missing, top_agents, reachable>>

Names(list) == {list[i] : i \in 1 .. Len(list)}

StructureInit ==
    /\ graph \in Graphs
    /\ phase = "cycles"
    /\ start = 1
    /\ state = [a \in Agents |-> "unvisited"]
    /\ stack = <<>>
    /\ cyclical = {}
    /\ missing = {}
    /\ top_agents = {}
    /\ reachable = {}

\* Nothing is validated.
StructureIdle ==
    /\ LET none == [a \in Agents |-> <<>>] IN graph = [tools |-> none, args |-> none]
    /\ phase = "idle" /\ start = 1
    /\ state = [a \in Agents |-> "unvisited"] /\ stack = <<>>
    /\ cyclical = {} /\ missing = {} /\ top_agents = {} /\ reachable = {}

-----------------------------------------------------------------------------
(* The calls in progress                                                   *)

Top == stack[Len(stack)]
Caller == SubSeq(stack, 1, Len(stack) - 1)

\* The loop over the children goes on.
NextChild == Append(Caller, [Top EXCEPT !.children = Tail(@)])

Call(calls, agent, children) == Append(calls, [agent |-> agent, children |-> children])

-----------------------------------------------------------------------------
(* CyclesNetworkValidator                                                  *)

\* Mutant: the agents before the cycle are taken for part of it.
CycleOnPathWhole(agent) == {stack[j].agent : j \in 1 .. Len(stack)}

\* The agents of the path from the one that is met again.
CycleOnPath(agent) ==
    {stack[j].agent : j \in {k \in 1 .. Len(stack) :
        \E i \in 1 .. k : stack[i].agent = agent}}

\* find_cyclical_agents(): a search from each agent no earlier one has visited.
StartSearch ==
    /\ phase = "cycles"
    /\ stack = <<>>
    /\ start <= Len(Order)
    /\ start' = start + 1
    /\ IF state[Order[start]] = "unvisited"
       THEN /\ stack' = Call(stack, Order[start], graph.tools[Order[start]])
            /\ state' = [state EXCEPT ![Order[start]] = "processing"]
       ELSE UNCHANGED <<stack, state>>
    /\ UNCHANGED <<graph, phase, cyclical, missing, top_agents, reachable>>

\* dfs_cycle_detection() of a child: a cycle, a call, or nothing to do.
VisitChild ==
    /\ phase = "cycles"
    /\ stack # <<>> /\ Top.children # <<>>
    /\ LET child == Head(Top.children) IN
       IF child \in Agents /\ state[child] = "unvisited"
       THEN /\ stack' = Call(NextChild, child, graph.tools[child])
            /\ state' = [state EXCEPT ![child] = "processing"]
            /\ UNCHANGED cyclical
       ELSE /\ stack' = NextChild
            /\ cyclical' = IF child \in Agents /\ state[child] = "processing"
                           THEN cyclical \cup CycleOnPath(child) ELSE cyclical
            /\ UNCHANGED state
    /\ UNCHANGED <<graph, phase, start, missing, top_agents, reachable>>

\* The end of dfs_cycle_detection(): the agent leaves the path, fully processed.
Backtrack ==
    /\ phase = "cycles"
    /\ stack # <<>> /\ Top.children = <<>>
    /\ stack' = Caller
    /\ state' = [state EXCEPT ![Top.agent] = "processed"]
    /\ UNCHANGED <<graph, phase, start, cyclical, missing, top_agents, reachable>>

-----------------------------------------------------------------------------
(* MissingNodesNetworkValidator and UnreachableNodesNetworkValidator       *)

\* Mutant: the tools themselves, not the agents that refer to them.
FindMissingTools ==
    UNION {Names(graph.tools[a]) \cap (Others \ Urls) : a \in Agents}

FindMissingAgentNodes ==
    {a \in Agents : Names(graph.tools[a]) \cap (Others \ Urls) # {}}

\* Agents that have down-chains and are in nobody's, or the only one there is.
FindAllTopAgents ==
    LET HasDownChains == {a \in Agents : graph.tools[a] # <<>>}
        DownChains == UNION {Names(graph.tools[a]) : a \in Agents}
        Found == HasDownChains \ DownChains
    IN  IF Found = {} /\ Cardinality(Agents) = 1 THEN Agents ELSE Found

\* Mutant: the tools of a coded tool's args are left out.
ChildrenWithoutArgs(a) == graph.tools[a]

Children(a) == graph.tools[a] \o graph.args[a]

\* The last search is over; the other two validators look at the network, and
\* with one top agent a search begins for what it reaches.
LookForTheTop ==
    /\ phase = "cycles"
    /\ stack = <<>> /\ start > Len(Order)
    /\ missing' = FindMissingAgentNodes
    /\ top_agents' = FindAllTopAgents
    /\ IF Cardinality(FindAllTopAgents) = 1
       THEN LET top == CHOOSE a \in FindAllTopAgents : TRUE IN
            /\ phase' = "reach"
            /\ reachable' = {top}
            /\ stack' = Call(<<>>, top, Children(top))
       ELSE /\ phase' = "done"
            /\ UNCHANGED <<reachable, stack>>
    /\ UNCHANGED <<graph, start, state, cyclical>>

\* dfs_reachability_traversal() of a child.
Reach ==
    /\ phase = "reach"
    /\ stack # <<>> /\ Top.children # <<>>
    /\ LET child == Head(Top.children) IN
       IF child \in Agents \ reachable
       THEN /\ reachable' = reachable \cup {child}
            /\ stack' = Call(NextChild, child, Children(child))
       ELSE stack' = NextChild /\ UNCHANGED reachable
    /\ UNCHANGED <<graph, phase, start, state, cyclical, missing, top_agents>>

ReturnFromReach ==
    /\ phase = "reach"
    /\ stack # <<>> /\ Top.children = <<>>
    /\ stack' = Caller
    /\ phase' = IF Caller = <<>> THEN "done" ELSE "reach"
    /\ UNCHANGED <<graph, start, state, cyclical, missing, top_agents, reachable>>

-----------------------------------------------------------------------------

StructureNext ==
    \/ StartSearch \/ VisitChild \/ Backtrack
    \/ LookForTheTop \/ Reach \/ ReturnFromReach

StructureSpec == StructureInit /\ [][StructureNext]_structureVars

-----------------------------------------------------------------------------
(* What is to be found                                                     *)

Tools(a) == Names(graph.tools[a]) \cap Agents
ToolsAndArgs(a) == Names(graph.tools[a] \o graph.args[a]) \cap Agents

\* The agents reached from the set From: those in each set that has From and all
\* that its members lead to.
Reached(From, Down(_)) ==
    {a \in Agents : \A S \in SUBSET Agents :
        (From \subseteq S /\ \A b \in S : Down(b) \subseteq S) => a \in S}

Cyclical == {a \in Agents : a \in Reached(Tools(a), Tools)}

\* Each agent that is reported is on a cycle, and no network with a cycle is passed:
\* an agent is reported if any is on one.
CyclesAreFound ==
    /\ cyclical \subseteq Cyclical
    /\ phase # "cycles" /\ Cyclical # {} => cyclical # {}

\* When the search from the top agent ends it has reached what there is to reach,
\* by the down-chains and by the tools in the args of coded tools.
ReachableIsExact ==
    phase = "done" /\ Cardinality(top_agents) = 1 =>
        reachable = Reached(top_agents, ToolsAndArgs)
=============================================================================
