---------------------------- MODULE NetworkSetup ----------------------------
(***************************************************************************)
(* How files become something that runs: manifests become the networks of  *)
(* the two storages, a network file becomes an agent network whose         *)
(* connectivity is reported, and an agent's llm_config becomes an LLM.     *)
(* Each is a pipeline over an input that never changes; "given" is one.    *)
(* The searches of the validators, which AgentNetworks states by what they *)
(* find, go step by step over graphs of their own, and so do the tools of  *)
(* an agent of a network and the LLMs and middleware that it works with.   *)
(***************************************************************************)
EXTENDS Manifests, LlmConfig, StructureValidation, ToolCalls, AgentResources

CONSTANTS
    ManifestChoices,    \* sequences of manifests
    ConfigChoices,      \* network files: network, values and strings
    LlmChoices          \* files with infos, network, agent, factories

VARIABLES
    stage,      \* what was done last
    given,      \* the input
    at,         \* manifests restored, or factories asked
    networks,   \* the networks by storage
    network,    \* the agent network
    report,     \* its connectivity
    pending,    \* what is still to be reported, in order
    agent,      \* the agent's settings with defaults
    llm         \* its full config, and what made it

setupVars == <<stage, given, at, networks, network, report, pending, agent, llm>>
allVars == <<setupVars, structureVars, toolVars, resourceVars>>

NoNetworks == [public |-> NoKeys, protected |-> NoKeys]
NoLlm == [full |-> Error, made |-> NothingFound]

\* What is read is lists of things that have what is asked of them.
Outcomes == {"llm", "nothing", "refuses", "api key", "old resources"}
IsFile(one) ==
    /\ one.network \in Seq(ToSet(one.network))
    /\ \A spec \in ToSet(one.network) :
        /\ {"name", "tools", "text"} \subseteq DOMAIN spec
        /\ spec.tools \in Seq(ToSet(spec.tools)) /\ spec.args \in Seq(ToSet(spec.args))
        /\ spec.text \in Seq(ToSet(spec.text))
    /\ \A key \in DOMAIN one.values : one.values[key] \in Seq(ToSet(one.values[key]))
    /\ one.strings \in Seq(ToSet(one.strings))
    /\ \A def \in ToSet(one.strings) : "text" \in DOMAIN def /\ def.text \in Seq(ToSet(def.text))

ASSUME ManifestsAssumption == \A one \in ManifestChoices : one \in Seq(ToSet(one))
ASSUME FilesAssumption == \A one \in ConfigChoices : IsFile(one)
ASSUME LlmsAssumption == \A one \in LlmChoices : one.factories \in Seq(Outcomes)

SetupInit ==
    /\ \/ stage = "manifests" /\ given \in ManifestChoices
       \/ stage = "file" /\ given \in ConfigChoices
       \/ stage = "settings" /\ given \in LlmChoices
       \/ stage \in {"graph", "tools", "resources"} /\ given = NoKeys
    /\ IF stage = "graph" THEN StructureInit ELSE StructureIdle
    /\ IF stage = "tools" THEN ToolsInit ELSE ToolsIdle
    /\ IF stage = "resources" THEN ResourcesInit ELSE ResourcesIdle
    /\ at = 0 /\ networks = NoNetworks
    /\ network = <<>> /\ report = <<>> /\ pending = <<>>
    /\ agent = NoKeys /\ llm = NoLlm

-----------------------------------------------------------------------------

RestoreManifest ==
    /\ stage = "manifests"
    /\ at < Len(given)
    /\ at' = at + 1
    /\ IF RestoreRaises(given[at'])
       THEN stage' = "raised" /\ UNCHANGED networks
       ELSE /\ networks' = OverlayNetworks(networks, RestoreOneManifest(given[at'], at'))
            /\ UNCHANGED stage
    /\ UNCHANGED <<given, network, report, pending, agent, llm>>

RestoreFromFiles ==
    /\ stage = "manifests"
    /\ at = Len(given)
    /\ networks' = ServedNetworks(networks)
    /\ stage' = "served"
    /\ UNCHANGED <<given, at, network, report, pending, agent, llm>>

CreateNetwork ==
    /\ stage = "file"
    /\ network' = FilterConfig(given)
    /\ stage' = IF HasDuplicates(network') THEN "raised" ELSE "created"
    /\ UNCHANGED <<given, at, networks, report, pending, agent, llm>>

\* report_network_connectivity()
Connectivity ==
    /\ stage = "created"
    /\ IF HasFrontMan(network)
       THEN stage' = "reporting" /\ pending' = <<FindFrontMan(network)>>
       ELSE stage' = "raised" /\ UNCHANGED pending
    /\ UNCHANGED <<given, at, networks, network, report, agent, llm>>

\* report_node_connectivity(), depth first: what the calls have still to go through is
\* pending.  What was reported, or is not in the network, is passed over.
ReportNodeConnectivity ==
    /\ stage = "reporting" /\ pending # <<>>
    /\ LET node == Head(pending)
       IN  IF node \in Origins(report) \/ node \notin Externals \cup AgentNames(network)
           THEN pending' = Tail(pending) /\ UNCHANGED <<stage, report>>
           ELSE IF CannotBeReported(network, node)
           THEN stage' = "raised" /\ UNCHANGED <<report, pending>>
           ELSE /\ report' = Append(report, [origin |-> node, tools |-> ToolList(network, node)])
                /\ pending' = ToolList(network, node) \o Tail(pending)
                /\ UNCHANGED stage
    /\ UNCHANGED <<given, at, networks, network, agent, llm>>

ConnectivityReported ==
    /\ stage = "reporting" /\ pending = <<>>
    /\ stage' = "reported"
    /\ UNCHANGED <<given, at, networks, network, report, pending, agent, llm>>

FillAgentDefaults ==
    /\ stage = "settings"
    /\ agent' = FillDefaults(given.network, given.agent)
    /\ stage' = "filled"
    /\ UNCHANGED <<given, at, networks, network, report, pending, llm>>

CreateFullConfig ==
    /\ stage = "filled"
    /\ llm' = [llm EXCEPT !.full =
                CreateFullLlmConfig(LoadLlmInfos(given.default, given.user), agent.llm_config)]
    /\ stage' = IF llm'.full = Error THEN "raised" ELSE "configured"
    /\ UNCHANGED <<given, at, networks, network, report, pending, agent>>

\* create_llm_resources(): the factories in order until one makes the LLM.
TryFactory ==
    /\ stage = "configured"
    /\ at < Len(given.factories) /\ ~EndsTheSearch(llm.made)
    /\ at' = at + 1
    /\ llm' = [llm EXCEPT !.made = AskFactory(given.factories[at'], at')]
    /\ UNCHANGED <<stage, given, networks, network, report, pending, agent>>

CreateLlm ==
    /\ stage = "configured"
    /\ at = Len(given.factories) \/ EndsTheSearch(llm.made)
    /\ LET infos == LoadLlmInfos(given.default, given.user)
       IN  llm' = [llm EXCEPT !.made =
                    UserClass(@, llm.full.config["class"] \in DOMAIN infos.classes)]
    /\ stage' = "llm"
    /\ UNCHANGED <<given, at, networks, network, report, pending, agent>>

PipelineStep ==
    \/ RestoreManifest \/ RestoreFromFiles
    \/ CreateNetwork
    \/ Connectivity \/ ReportNodeConnectivity \/ ConnectivityReported
    \/ FillAgentDefaults \/ CreateFullConfig \/ TryFactory \/ CreateLlm

SetupNext ==
    \/ PipelineStep /\ UNCHANGED <<structureVars, toolVars, resourceVars>>
    \/ StructureNext /\ UNCHANGED <<setupVars, toolVars, resourceVars>>
    \/ ToolsNext /\ UNCHANGED <<setupVars, structureVars, resourceVars>>
    \/ ResourcesNext /\ UNCHANGED <<setupVars, structureVars, toolVars>>

SetupSpec == SetupInit /\ [][SetupNext]_allVars

-----------------------------------------------------------------------------

\* Can manifest m's network be served, if it is to be?
Fine(m, name) ==
    LET entries == FilterDicts(FilterKeys(given[m].entries))
        file == given[m].files[name]
    IN  entries[name].serve =>
            Readable(file) /\ Validate(file.network, ExternalNetworkNames(entries)) = {}

\* "This allows for multiple manifest overlays to work": the last manifest that has
\* a name decides whether and from where it is served, if the network files are fine
\* and no manifest moves the name from one storage to the other.
LastManifestDecides ==
    stage = "served" =>
        LET Entries(m) == FilterDicts(FilterKeys(given[m].entries))
            Listing(name) == {m \in DOMAIN given : name \in DOMAIN Entries(m)}
            Latest(name) == CHOOSE m \in Listing(name) : \A n \in Listing(name) : n <= m
            Steady(name) == \A m \in Listing(name) :
                Fine(m, name) /\ Entries(m)[name].public = Entries(Latest(name))[name].public
        IN  \A name \in UNION {DOMAIN Entries(m) : m \in DOMAIN given} :
                Steady(name) =>
                    LET entry == Entries(Latest(name))[name]
                        storage == IF entry.public THEN networks.public ELSE networks.protected
                        elsewhere == IF entry.public THEN networks.protected ELSE networks.public
                    IN  /\ name \notin DOMAIN elsewhere
                        /\ name \in DOMAIN storage <=> entry.serve
                        /\ entry.serve => storage[name] = [from |-> Latest(name), mcp |-> entry.mcp]

\* Definitions may use others ("these cannot have cycles"): if those they use do
\* not use more, nothing is left to be replaced, in whatever order they come.  Strings
\* may be used by values, which are replaced first, but may not use them.
NothingLeftToReplace ==
    stage = "created" =>
        LET values == DOMAIN given.values
            strings == {given.strings[d].key : d \in DOMAIN given.strings}
            Values(k) == ToSet(given.values[k]) \cap values
            Strings(d) == ToSet(given.strings[d].text) \cap strings
            shallow ==
                /\ \A k \in values : \A j \in Values(k) : Values(j) = {}
                /\ \A d \in DOMAIN given.strings :
                    /\ given.strings[d].text # <<>> /\ ToSet(given.strings[d].text) \cap values = {}
                    /\ \A e \in DOMAIN given.strings : given.strings[e].key \in Strings(d) => Strings(e) = {}
        IN  shallow => \A i \in DOMAIN network : ToSet(network[i].text) \cap (values \cup strings) = {}

\* A report that comes to its end has nothing but what the front man leads to, each of
\* it once, the front man first and no agent before one that has it as a tool; and it
\* has all of that, unless some agent that it has names tools in a dictionary.  These
\* are lost, although assemble_tool_list() says that it is to check for "a coded tool
\* [that] takes a dictionary of key/value pairs mapping function -> tool name".
ReportIsExact ==
    stage = "reported" =>
        LET All == AgentNames(network) \cup Externals
            Links(a) == IF a \in Externals THEN {}
                        ELSE All \cap (ToSet(SpecOf(network, a).tools)
                                       \cup ToSet(SpecOf(network, a).args))
            LedTo == ReachedFrom({network[1].name}, Links, All)
            NamesTools(a) ==
                /\ a \notin Externals
                /\ SpecOf(network, a).args_named /\ SpecOf(network, a).args # <<>>
        IN  /\ Origins(report) \subseteq LedTo
            /\ (\A a \in Origins(report) : ~NamesTools(a)) => LedTo \subseteq Origins(report)
            /\ Cardinality(Origins(report)) = Len(report)
            /\ report[1].origin = network[1].name
            /\ \A i \in 2 .. Len(report) : \E j \in 1 .. i - 1 : report[i].origin \in Links(report[j].origin)

\* An argument of an LLM is the agent's if it has one, else the network's, else the
\* user's or the default one, and only then the class's; and the first factory that
\* can make the LLM makes it, unless one before it ends the search.
MostSpecificWins ==
    /\ stage \in {"configured", "llm"} /\ "class" \notin DOMAIN agent.llm_config =>
        \A key \in DOMAIN llm.full.config \ {"class", "model_name", "max_tokens"} :
            LET levels == <<given.agent.llm_config, given.network.llm_config,
                            given.user.default_config, given.default.default_config>>
                says == {i \in DOMAIN levels : key \in DOMAIN levels[i]}
            IN  says # {} => llm.full.config[key] = levels[CHOOSE i \in says : \A j \in says : i <= j][key]
    /\ stage = "llm" =>
        LET Ends(outcome) == {i \in DOMAIN given.factories : given.factories[i] = outcome}
        IN  \A i \in Ends("llm") :
                (\A j \in Ends("llm") \cup Ends("api key") \cup Ends("old resources") : i <= j)
                    => llm.made = [by |-> "factory", at |-> i]
=============================================================================
