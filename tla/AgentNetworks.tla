--------------------------- MODULE AgentNetworks ---------------------------
(***************************************************************************)
(* Agent networks as data: the filters that a file goes through when it is *)
(* read, the registration of its agents, the validators of a manifest, and *)
(* the report on how its agents are connected.                             *)
(*                                                                         *)
(* A network is the sequence of its agent specs.  A text is a sequence of  *)
(* words; a word that is a key of the commondefs stands for a value to be  *)
(* replaced (or, in a string, for the key in braces).                      *)
(***************************************************************************)
EXTENDS Naturals, FiniteSets, SequencesExt

CONSTANTS
    Externals,      \* references to agents of other networks, and URLs
    DictTools,      \* tools that are dictionaries (MCP servers)
    Slashed,        \* agent names that have a "/" in them
    Corrected       \* a function from these to the names without

\* args are the tools of a coded tool (args.tools in the file), with args_named if they
\* come as a dictionary; an agent without any has <<>>.
AgentSpec(name, tools) ==
    [name |-> name, tools |-> tools, args |-> <<>>, args_named |-> FALSE,
     hidden |-> FALSE, kind |-> "llm", instructions |-> "text", text |-> <<>>]

AgentNames(network) == {network[i].name : i \in DOMAIN network}
SpecOf(network, name) == network[CHOOSE i \in DOMAIN network : network[i].name = name]

-----------------------------------------------------------------------------
(* commondefs                                                              *)

\* DictionaryCommonDefsConfigFilter: each word that is a key gives way to its value.
ReplaceValues(text, values) ==
    FlattenSeq([i \in DOMAIN text |->
        IF text[i] \in DOMAIN values THEN values[text[i]] ELSE <<text[i]>>])

\* StringCommonDefsConfigFilter: one key after the other, in the order of the
\* dictionary; a key without a text is passed over.
ReplaceStrings(text, strings) ==
    LET ReplaceOne(t, def) ==
            IF def.text = <<>> THEN t
            ELSE FlattenSeq([i \in DOMAIN t |-> IF t[i] = def.key THEN def.text ELSE <<t[i]>>])
        replaced[d \in 0 .. Len(strings)] ==
            IF d = 0 THEN text ELSE ReplaceOne(replaced[d - 1], strings[d])
    IN  replaced[Len(strings)]

\* Mutant: the definitions themselves are left as they are.
FilterValuesOnce(network, values) ==
    [i \in DOMAIN network |-> [network[i] EXCEPT !.text = ReplaceValues(@, values)]]

\* filter_config(): first the definitions among themselves, each with the ones
\* that were given, then the agents.
FilterValues(network, values) ==
    LET replaced == [k \in DOMAIN values |-> ReplaceValues(values[k], values)]
    IN  [i \in DOMAIN network |-> [network[i] EXCEPT !.text = ReplaceValues(@, replaced)]]

FilterStrings(network, strings) ==
    LET replaced == [d \in DOMAIN strings |->
                        [strings[d] EXCEPT !.text = ReplaceStrings(@, strings)]]
    IN  [i \in DOMAIN network |-> [network[i] EXCEPT !.text = ReplaceStrings(@, replaced)]]

-----------------------------------------------------------------------------
(* Names                                                                   *)

\* NameCorrectionConfigFilter: the references to an agent are corrected, its own
\* name is not (the correction is stored under another key).
CorrectNames(network) ==
    LET Correct(t) == IF t \in Slashed \cap AgentNames(network) THEN Corrected[t] ELSE t
    IN  [i \in DOMAIN network |->
            [network[i] EXCEPT !.tools = [j \in DOMAIN @ |-> Correct(@[j])]]]

\* AgentNetworkRestorer.filter_config(): the chain, in its order; what
\* DefaultsConfigFilter does is in LlmConfig.
FilterConfig(config) ==
    CorrectNames(FilterStrings(FilterValues(config.network, config.values), config.strings))

\* AgentNetwork.register() raises at the second agent of a name.
HasDuplicates(network) == Cardinality(AgentNames(network)) < Len(network)

\* The front man is the first agent, and it must not be coded.
HasFrontMan(network) == network # <<>> /\ network[1].kind = "llm"
FindFrontMan(network) == network[1].name

-----------------------------------------------------------------------------
(* ManifestNetworkValidator                                                *)

KeywordErrors(network) ==
    {name \in AgentNames(network) : SpecOf(network, name).instructions = "empty"}

ToolNameErrors(network) == AgentNames(network) \cap Slashed

ToolsOf(network, name) == ToSet(SpecOf(network, name).tools) \ DictTools

UrlErrors(network, urls) ==
    {name \in AgentNames(network) : (ToolsOf(network, name) \cap Externals) \ urls # {}}

MissingErrors(network) ==
    {name \in AgentNames(network) :
        ToolsOf(network, name) \ (Externals \cup AgentNames(network)) # {}}

TopAgents(network) ==
    LET Has == {name \in AgentNames(network) : SpecOf(network, name).tools # <<>>}
        Found == Has \ UNION {ToolsOf(network, name) : name \in AgentNames(network)}
    IN  IF Found = {} /\ Len(network) = 1 THEN AgentNames(network) ELSE Found

\* All that can be reached from the set From by Down.
ReachedFrom(From, Down(_), All) ==
    {a \in All : \A S \in SUBSET All : (From \subseteq S /\ \A b \in S : Down(b) \subseteq S) => a \in S}

HasOneTop(network) == Cardinality(TopAgents(network)) = 1

ReachableAgents(network) ==
    LET Names == AgentNames(network)
        Down(a) == (ToolsOf(network, a) \cup ToSet(SpecOf(network, a).args)) \cap Names
    IN  ReachedFrom(TopAgents(network), Down, Names)

\* The search takes the args for a dictionary; a list has no values() and raises.
SearchRaises(network) ==
    /\ HasOneTop(network)
    /\ \E a \in ReachableAgents(network) :
        SpecOf(network, a).args # <<>> /\ ~SpecOf(network, a).args_named

UnreachableErrors(network) ==
    IF HasOneTop(network) THEN AgentNames(network) \ ReachableAgents(network)
                          ELSE {"not one top agent"}

Validate(network, urls) ==
    KeywordErrors(network) \cup MissingErrors(network) \cup UnreachableErrors(network)
        \cup ToolNameErrors(network) \cup UrlErrors(network, urls)

-----------------------------------------------------------------------------
(* ConnectivityReporter                                                    *)

\* Mutant: tools of the args are not looked at.
AssembleToolsOnly(spec) == spec.tools

\* assemble_tool_list(): the tools in order without repeats, then those of the
\* args if they come as a list; the values of a dictionary are not one.
AssembleToolList(spec) ==
    LET tools == spec.tools \o (IF spec.args_named THEN <<>> ELSE spec.args)
        list[n \in 0 .. Len(tools)] ==
            IF n = 0 THEN <<>>
            ELSE IF Contains(list[n - 1], tools[n]) THEN list[n - 1]
            ELSE Append(list[n - 1], tools[n])
    IN  list[Len(tools)]

\* What is reported of an agent of another network is that it is there.
ToolList(network, agent) ==
    IF agent \in Externals THEN <<>> ELSE AssembleToolList(SpecOf(network, agent))

\* A tool that is a dictionary cannot go into a set, and a spec that is not to be
\* shown has no display_as to be asked for.
CannotBeReported(network, agent) ==
    /\ agent \notin Externals
    /\ SpecOf(network, agent).hidden \/ ToSet(ToolList(network, agent)) \cap DictTools # {}

Origins(report) == {report[i].origin : i \in DOMAIN report}
=============================================================================
