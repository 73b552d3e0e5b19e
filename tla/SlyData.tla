------------------------------- MODULE SlyData -------------------------------
(***************************************************************************)
(* sly_data: a dictionary of private values that a client sends along with *)
(* its request, that every agent and coded tool of the network reads and   *)
(* writes, and that LLMs never see.  A call of another network as a tool   *)
(* takes along what the calling agent allows to go downstream, and brings  *)
(* back what the other network's front man allows upstream and the calling *)
(* agent accepts.  Calls of one network run at the same time and merge     *)
(* what they bring back into the one dictionary as they return.            *)
(*                                                                         *)
(* A call of a network and the session that serves it have one number.     *)
(* Number 0 is the client, whose requests are calls like the others.       *)
(***************************************************************************)
EXTENDS Naturals, Sequences, FiniteSets

CONSTANTS
    Networks,       \* agent networks, each one a tool of others
    Client,         \* the caller of the first one
    First,          \* the network the client asks
    FrontMan,       \* the front man of a network
    Agents,         \* the agents of a network, or the client
    External,       \* the networks among an agent's tools
    Writes,         \* the keys that a network's coded tools write
    Given,          \* the keys the client sends
    Keys,           \* of sly_data
    Metadata,       \* the key "request_metadata"
    AllowChoices,   \* the "allow" blocks of all agents
    MaxCalls,       \* bound: calls of a behaviour
    No              \* what stands in a dictionary for a key that is not let through

Parties == Networks \cup {Client}
Sessions == 0 .. MaxCalls

\* What "sly_data" of an "allow" block says: nothing at all, true, false, or what
\* becomes of single keys, in order.  A list of keys is made a dictionary that
\* says true of each, which is the key itself here.
Unset == [form |-> "unset", says |-> <<>>]
Rule == [form : {"unset", "true", "false", "dict"},
         says : Seq([from : Keys, to : Keys \cup {No}])]
Block == [sly_data : Rule, to_downstream : Rule, from_downstream : Rule, to_upstream : Rule]

ASSUME ConstantsAssumption ==
    /\ First \in Networks /\ Client \notin Networks
    /\ \A p \in Parties : External[p] \in [Agents[p] -> SUBSET Networks]
    /\ \A n \in Networks : FrontMan[n] \in Agents[n]
    /\ Writes \in [Networks -> SUBSET Keys]
    /\ Given \subseteq Keys /\ Metadata \in Keys \ Parties /\ No \notin Keys
    /\ \A choice \in AllowChoices : \A p \in Parties : \A a \in Agents[p] : choice[a] \in Block
    /\ MaxCalls \in Nat

-----------------------------------------------------------------------------
(* What is allowed                                                         *)

\* Does a rule let the key k through, as the key to?
Lets(rule, k, to) ==
    \/ rule.form = "true" /\ k = to
    \/ rule.form = "dict" /\ \E i \in DOMAIN rule.says : rule.says[i] = [from |-> k, to |-> to]

\* What says how the data of agent a goes downstream: "allow.to_downstream" is the
\* more specific one.
Downstream(block) == IF block.to_downstream.form = "unset" THEN block.sly_data ELSE block.to_downstream

\* A value is known by where it was written first.
Value(by, key) == [by |-> by, key |-> key]

Values ==
    {Value(Client, k) : k \in Given}
        \cup (UNION {{Value(n, k) : k \in Writes[n]} : n \in Networks})
        \cup {Value(Metadata, Metadata)}

\* A step of a value from under the key k of party n to under the key to of party m.
Step(choice, n, k, m, to) ==
    \/ /\ m \in Networks
       /\ \E a \in Agents[n] : m \in External[n][a] /\ Lets(Downstream(choice[a]), k, to)
    \/ /\ n \in Networks
       /\ \E a \in Agents[m], over \in Keys :
             /\ n \in External[m][a]
             /\ Lets(choice[FrontMan[n]].to_upstream, k, over)
             /\ Lets(choice[a].from_downstream, over, to)

\* Where a value is at first: each session has the metadata.
Start(v) == IF v.by = Metadata THEN {<<n, Metadata>> : n \in Networks} ELSE {<<v.by, v.key>>}

\* Where each value may get, in any number of steps: the least set that has where it
\* is at first and is closed under the steps.
Places == Parties \X Keys
Steps(choice) ==
    {w \in Places \X Places : Step(choice, w[1][1], w[1][2], w[2][1], w[2][2])}
Closed(steps) == {S \in SUBSET Places : \A w \in steps : w[1] \in S => w[2] \in S}
Least(closed) == {w \in Values \X Places : \A S \in closed : Start(w[1]) \subseteq S => w[2] \in S}

\* The same as Least(Closed(Steps(choice))), of which TLC computes each set once.
Once(S) == {x : x \in S}
Ways(choice) ==
    UNION {Least(closed) : closed \in {Once(Closed(steps)) : steps \in {Once(Steps(choice))}}}

-----------------------------------------------------------------------------

VARIABLES
    allow,      \* the "allow" block of each agent
    ways,       \* by what they say, for SlyDataIsAllowed
    place,      \* of a session: "free", "made", "running", "over", "returned", "raised"
    network,    \* whose session it is
    caller,     \* the session that calls it
    agent,      \* the caller's agent
    merges,     \* is what it brings back merged?  use_tool() does not
    sent,       \* what goes along: a copy, or the caller's own dictionary
    sly_data,   \* the dictionary of the session
    returned    \* what came with its last message

calls == <<network, caller, agent, merges>>
blocks == <<allow, ways>>
vars == <<blocks, place, calls, sent, sly_data, returned>>

Empty == [k \in {} |-> k]
Update(d, e) == [k \in DOMAIN d \cup DOMAIN e |-> IF k \in DOMAIN e THEN e[k] ELSE d[k]]
Set(f, s, v) == [f EXCEPT ![s] = v]

Init ==
    /\ allow \in AllowChoices /\ ways = Ways(allow)
    /\ place = [s \in Sessions |-> IF s = 0 THEN "running" ELSE "free"]
    /\ network = [s \in Sessions |-> Client]
    /\ caller = [s \in Sessions |-> 0] /\ agent = [s \in Sessions |-> Client]
    /\ merges = [s \in Sessions |-> TRUE]
    /\ sent = [s \in Sessions |-> [shared |-> FALSE, data |-> Empty]]
    /\ sly_data = [s \in Sessions |-> IF s = 0 THEN [k \in Given |-> Value(Client, k)] ELSE Empty]
    /\ returned = [s \in Sessions |-> Empty]

-----------------------------------------------------------------------------
(* SlyDataRedactor                                                         *)

\* Mutant: the keys the other way round.
FirstOf(first, second) == IF first # Unset THEN first ELSE second

\* The keys of the configuration in increasing precedence: the last that is set.
LastOf(first, second) == IF second # Unset THEN second ELSE first

\* filter_config(): of several keys that become the same one the last one wins.
Through(rule, data) ==
    {i \in DOMAIN rule.says : rule.says[i].from \in DOMAIN data /\ rule.says[i].to # No}
LastTo(rule, data, k) ==
    CHOOSE i \in Through(rule, data) :
        /\ rule.says[i].to = k
        /\ \A j \in Through(rule, data) : rule.says[j].to = k => j <= i
FilterConfig(rule, data) ==
    CASE rule.form = "true" -> data
      [] rule.form = "dict" ->
            [k \in {rule.says[i].to : i \in Through(rule, data)}
                |-> data[rule.says[LastTo(rule, data, k)].from]]
      [] OTHER -> Empty

-----------------------------------------------------------------------------
(* Calls                                                                   *)

\* create_agent_activation() of an external agent redacts the sly_data.  "true" lets
\* the dictionary itself through, and not a copy of it.
Create(s, a, m, merge) ==
    LET rule == LastOf(allow[a].sly_data, allow[a].to_downstream)
        c == CHOOSE i \in Sessions : place[i] = "free" /\ \A j \in Sessions : place[j] = "free" => i <= j
    IN  /\ place[s] = "running"
        /\ \E i \in Sessions : place[i] = "free"
        /\ a \in Agents[network[s]] /\ m \in External[network[s]][a]
        /\ place' = Set(place, c, "made")
        /\ network' = Set(network, c, m)
        /\ caller' = Set(caller, c, s)
        /\ agent' = Set(agent, c, a)
        /\ merges' = Set(merges, c, merge)
        /\ sent' = Set(sent, c, [shared |-> rule.form = "true", data |-> FilterConfig(rule, sly_data[s])])
        /\ UNCHANGED <<blocks, sly_data, returned>>

CallNetwork(s, a, m) == Create(s, a, m, TRUE)

\* use_tool() of code that is an agent: what comes back is not integrated.
UseTool(s, a, m) == s # 0 /\ Create(s, a, m, FALSE)

\* The session's dictionary at first: a copy of what came with the request, with the
\* metadata if it was not among it.
SetUp(data) == Update([k \in {Metadata} |-> Value(Metadata, Metadata)], data)

\* build() has written that the tool starts, and sends the request, which is text
\* from there on; the session of the other network begins.
StreamingChat(c) ==
    /\ place[c] = "made"
    /\ place' = Set(place, c, "running")
    /\ sly_data' = Set(sly_data, c, SetUp(IF sent[c].shared THEN sly_data[caller[c]] ELSE sent[c].data))
    /\ UNCHANGED <<blocks, calls, sent, returned>>

\* async_invoke() of a coded tool gets the dictionary and may write to it.
Invoke(s, k) ==
    /\ place[s] = "running" /\ s # 0
    /\ k \in Writes[network[s]]
    /\ sly_data' = Set(sly_data, s, Update(sly_data[s], [key \in {k} |-> Value(network[s], k)]))
    /\ UNCHANGED <<blocks, place, calls, sent, returned>>

InMotion(s) == {c \in Sessions \ {0} : caller[c] = s /\ place[c] \in {"made", "running", "over"}}

\* run_it() ends when nothing of it is in motion: the last message has what the
\* front man allows.
RunIt(c) ==
    /\ place[c] = "running" /\ c # 0
    /\ InMotion(c) = {}
    /\ place' = Set(place, c, "over")
    /\ returned' = Set(returned, c, FilterConfig(allow[FrontMan[network[c]]].to_upstream, sly_data[c]))
    /\ UNCHANGED <<blocks, calls, sent, sly_data>>

\* Mutant: what came back is the dictionary now.
ParseToolOutputReplaces(data, output) == IF output = Empty THEN data ELSE output

\* parse_tool_output(): what came back is merged into the one dictionary.
ParseToolOutput(data, output) == IF output = Empty \/ output = data THEN data ELSE Update(data, output)

\* build() returns and the caller integrates what it accepts.
Return(c) ==
    LET accepted == FilterConfig(allow[agent[c]].from_downstream, returned[c]) IN
    /\ place[c] = "over"
    /\ place' = Set(place, c, "returned")
    /\ sly_data' = IF merges[c]
                   THEN Set(sly_data, caller[c], ParseToolOutput(sly_data[caller[c]], accepted))
                   ELSE sly_data
    /\ UNCHANGED <<blocks, calls, sent, returned>>

\* A session and what it has called, and what that has called.
Gone(c) == {s \in Sessions : \A S \in SUBSET Sessions :
                c \in S /\ (\A d \in Sessions \ {0} : caller[d] \in S => d \in S) => s \in S}

\* The request or the answer is lost, or the time of a caller is up: nothing comes
\* back, and the session and what it has called are not waited for.
Raise(c) ==
    /\ c # 0 /\ place[c] \in {"made", "running", "over"}
    /\ place' = [s \in Sessions |-> IF s \in Gone(c) /\ place[s] \in {"made", "running", "over"}
                                     THEN "raised" ELSE place[s]]
    /\ UNCHANGED <<blocks, calls, sent, sly_data, returned>>

Next ==
    \/ \E s \in Sessions : \E a \in Agents[network[s]] : \E m \in External[network[s]][a] :
          CallNetwork(s, a, m) \/ UseTool(s, a, m)
    \/ \E s \in Sessions, k \in Keys : Invoke(s, k)
    \/ \E c \in Sessions : StreamingChat(c) \/ RunIt(c) \/ Return(c) \/ Raise(c)

Spec == Init /\ [][Next]_vars

-----------------------------------------------------------------------------
(* Properties                                                              *)

\* A value that a session has under some key was given or written in that network
\* under that key, or came to it from where it was along what each agent on the way
\* allows and accepts, however many calls were in motion and in whatever order they
\* returned.  Each session has the metadata.
SlyDataIsAllowed ==
    \A s \in Sessions : \A k \in DOMAIN sly_data[s] :
        <<sly_data[s][k], <<network[s], k>>>> \in ways

\* A dictionary loses no key, and a key of it that no answer of another network may
\* fill keeps its value until a coded tool of its own network writes it.
OwnDataStays ==
    [][\A s \in Sessions : \A k \in DOMAIN sly_data[s] :
        /\ k \in DOMAIN sly_data'[s]
        /\ \/ sly_data'[s][k] = sly_data[s][k]
           \/ s # 0 /\ sly_data'[s][k] = Value(network[s], k)
           \/ \E a \in Agents[network[s]], from \in Keys : Lets(allow[a].from_downstream, from, k)]_vars
=============================================================================
