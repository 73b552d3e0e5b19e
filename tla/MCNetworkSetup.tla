-------------------------- MODULE MCNetworkSetup --------------------------
(***************************************************************************)
(* Inputs for NetworkSetup: two manifests with two names, networks of three *)
(* agents, commondefs of three keys, and LLMs with settings at every level. *)
(***************************************************************************)
EXTENDS NetworkSetup

CONSTANTS x, y, ref_x, ref_y, a, b, c, slashed, unslashed, server,
          k1, k2, k3, word, model, other, ghost, url,
          ref_z, mcp_url, number, safe_x, safe_y, box, class, t1, t2

MCReference(name) == IF name = x THEN ref_x ELSE ref_y
MCCorrected == slashed :> unslashed

-----------------------------------------------------------------------------
(* Manifests: the first one may say anything of x and y, also twice, the    *)
(* second one anything of x.                                                *)

Bool(value) == [kind |-> "bool", serve |-> value, public |-> FALSE, mcp |-> FALSE]
Entries ==
    {Bool(TRUE), Bool(FALSE), [Bool(TRUE) EXCEPT !.kind = "other"]}
        \cup [kind : {"dict"}, serve : BOOLEAN, public : BOOLEAN, mcp : BOOLEAN]
Named(name, entry) == [name |-> name, kind |-> entry.kind, serve |-> entry.serve,
                       public |-> entry.public, mcp |-> entry.mcp]

OneOf(name, tools, args, named, hidden) ==
    [AgentSpec(name, tools) EXCEPT !.args = args, !.args_named = named, !.hidden = hidden]

Nothing == [state |-> "missing", network |-> <<>>]
Broken == [state |-> "broken", network |-> <<>>]
File(network_in_it) == [state |-> "network", network |-> network_in_it]
Plain == File(<<AgentSpec(a, <<>>)>>)
Files ==
    {Nothing, Broken, Plain,
     File(<<AgentSpec(a, <<ref_y>>)>>),
     File(<<AgentSpec(a, <<b>>)>>),
     File(<<AgentSpec(a, <<a>>), AgentSpec(b, <<>>)>>),
     File(<<AgentSpec(slashed, <<>>)>>),
     File(<<[AgentSpec(a, <<>>) EXCEPT !.instructions = "empty"]>>),
     File(<<AgentSpec(a, <<>>), AgentSpec(a, <<>>)>>),
     File(<<AgentSpec(a, <<b>>), OneOf(b, <<>>, <<c>>, TRUE, FALSE), AgentSpec(c, <<server>>)>>),
     File(<<AgentSpec(a, <<b>>), OneOf(b, <<>>, <<c>>, TRUE, FALSE), AgentSpec(c, <<>>)>>),
     File(<<AgentSpec(a, <<b>>), OneOf(b, <<>>, <<c>>, FALSE, FALSE), AgentSpec(c, <<>>)>>)}

MCManifests ==
    {<<[entries |-> first, files |-> (x :> f @@ y :> Plain)],
       [entries |-> second, files |-> (x :> g @@ y :> Plain)]>> :
        first \in {<<Named(x, e)>> : e \in Entries} \cup {<<Named(y, Bool(TRUE)), Named(x, e)>> : e \in Entries},
        second \in {<<>>} \cup {<<Named(x, e)>> : e \in Entries}
                   \cup {<<Named(x, Bool(TRUE)), Named(x, e)>> : e \in Entries},
        f \in Files, g \in {Nothing, Plain}}

-----------------------------------------------------------------------------
(* Network files                                                           *)

Config(network_in_it) == [network |-> network_in_it, values |-> NoKeys, strings |-> <<>>]

Lists == {<<>>, <<ref_x>>, <<server>>} \cup {<<i>> : i \in {a, b, c}} \cup {<<b, c>>, <<c, b>>, <<b, b>>}
Networks ==
    {<<AgentSpec(a, ta), OneOf(b, tb, args, named, FALSE), OneOf(c, tc, <<>>, FALSE, hidden)>> :
        ta \in Lists, tb \in Lists, tc \in Lists \ {<<server>>}, args \in {<<>>, <<a, c>>},
        named \in BOOLEAN, hidden \in BOOLEAN}
    \cup {<<[AgentSpec(a, <<>>) EXCEPT !.kind = "class"]>>,
          <<AgentSpec(a, <<slashed>>), AgentSpec(slashed, <<>>)>>,
          <<AgentSpec(a, <<>>), AgentSpec(a, <<>>)>>}

Keys == {k1, k2, k3}
Words == {<<word>>, <<>>, <<k1>>, <<k2, word>>, <<k3>>}
Used == {<<k1>>, <<k2, k3>>}
Defs == [key : Keys, text : Words]
Text(t) == <<[AgentSpec(a, <<>>) EXCEPT !.text = t]>>
MCConfigs ==
    {Config(n) : n \in Networks}
    \cup {[network |-> Text(t), values |-> v, strings |-> <<>>] : t \in Used, v \in [Keys -> Words]}
    \cup {[network |-> Text(t), values |-> NoKeys,
           strings |-> <<[key |-> k1, text |-> w1], [key |-> k2, text |-> w2], [key |-> k3, text |-> w3]>>] :
            t \in Used, w1 \in Words, w2 \in Words, w3 \in Words}
    \cup {[network |-> Text(<<k1>>), values |-> (k1 :> v), strings |-> <<[key |-> k2, text |-> w]>>] :
            v \in Words, w \in {<<word>>, <<k1>>}}

-----------------------------------------------------------------------------
(* LLMs                                                                    *)

Temperature(level) == {NoKeys, "temperature" :> level}
Model(m) == "model_name" :> m
Class(args, extends) == [args |-> args, extends |-> extends]
MCLlms ==
    {[network |-> [llm_config |-> n, verbose |-> "false"],
      agent |-> [llm_config |-> g, verbose |-> v],
      default |-> [default_config |-> Model(model) @@ d,
                   classes |-> ("openai" :> Class("temperature" :> "class", "none")
                                @@ "azure" :> Class(NoKeys, "openai")),
                   models |-> (model :> [alias |-> FALSE, class |-> "azure", use_model_name |-> "none",
                                         max_output_tokens |-> "entry"])],
      user |-> [default_config |-> u, classes |-> NoKeys, models |-> m],
      factories |-> <<s, f>>] :
        n \in Temperature("network") \cup {"verbose" :> "true"},
        g \in Temperature("agent")
              \cup {Model(other), "max_tokens" :> "agent", "class" :> "mine", "class" :> "openai"},
        d \in Temperature("default"),
        u \in Temperature("user"),
        m \in {NoKeys, other :> [alias |-> TRUE, class |-> "none", use_model_name |-> model,
                                 max_output_tokens |-> "entry"]},
        v \in {"unset", "true"},
        s \in {"llm", "refuses", "api key"},
        f \in {"llm", "refuses", "nothing", "old resources"}}
-----------------------------------------------------------------------------
(* Graphs: every network of three agents with up to two down-chains each,  *)
(* in any order, where one agent may have one tool in its args.            *)

MCOrder == <<a, b, c>>

DownChains ==
    {<<>>, <<ghost>>, <<url>>}
        \cup {<<n>> : n \in Agents}
        \cup {<<n, t>> : n \in Agents, t \in Agents \cup {ghost}}

NoArgs == [n \in Agents |-> <<>>]
OneArg == {[NoArgs EXCEPT ![n] = <<t>>] : n \in Agents, t \in Agents}

MCGraphs == [tools : [Agents -> DownChains], args : OneArg \cup {NoArgs}]

-----------------------------------------------------------------------------
(* Tools: an agent with one or two references, to agents of every kind, to *)
(* others' front men, two of which have the same path, and to MCP servers; *)
(* and a coded tool whose class is found in any of three folders.          *)

MCSafeNameOf(ref) == IF ref = ref_y THEN safe_y ELSE safe_x
MCPrefixed(name, k) == <<name, k>>

ToolAgent(name, toolbox, function, python) ==
    [name |-> name, toolbox |-> toolbox, function |-> function, class |-> python]
Plainest == ToolAgent(c, "unset", "complete", "none")
ToolAgents ==
    {ToolAgent(b, "unset", f, k) : f \in {"none", "incomplete", "complete"}, k \in {"none", class}}
    \cup {ToolAgent(b, "empty", "complete", "none"), ToolAgent(b, box, "none", "none")}
References == {b, c, ref_x, ref_y, ref_z, mcp_url, server, number, ghost}

Folders == {<<>>, <<"tools">>, <<"tools", "p">>, <<"tools", "p", "q">>}
Task(tools, spec, entry, homes, made, like, up, filter, list) ==
    [tools |-> tools, network |-> <<spec, Plainest>>, toolbox |-> box :> entry,
     servers |-> mcp_url :> [up |-> up, tools |-> <<t1, t2>>, filter |-> filter],
     dicts |-> server :> [url |-> mcp_url, tools |-> list],
     path |-> <<"tools">>, name_parts |-> <<"p", "q">>, path_ends_like_name |-> like,
     homes |-> box :> homes @@ class :> homes, made |-> box :> made @@ class :> made]

MCTools ==
    {Task(tools, spec, entry, {<<"tools">>}, "coded tool", FALSE, TRUE, {}, <<>>) :
        tools \in [1 .. 2 -> References], spec \in ToolAgents,
        entry \in {"tool", "toolkit", "coded", "incomplete", "missing", "no class", "refuses", "fails"}}
    \cup {Task(<<r>>, Plainest, "tool", {}, "coded tool", FALSE, up, filter, list) :
        r \in {mcp_url, server}, up \in BOOLEAN, filter \in {{}, {t1}}, list \in {<<>>, <<{}>>, <<{t2}>>}}
    \cup {Task(<<b>>, spec, "coded", homes, made, like, TRUE, {}, <<>>) :
        spec \in {ToolAgent(b, "unset", "complete", class), ToolAgent(b, box, "none", "none")},
        homes \in SUBSET Folders, made \in {"coded tool", "needs arguments", "something else"}, like \in BOOLEAN}

-----------------------------------------------------------------------------
(* Resources: one or two LLMs of any class, each of which may be refused or *)
(* not let itself be closed; and up to two entries of middleware.           *)

Refusals == {"no", "client", "model"}
Jams == {{}, {"client"}, {"http_client"}, {"async_client"}}
LlmsOf(classes, own) == [class : classes, key : own, refused : Refusals, jammed : Jams]
PlainLlm(llm_class) == [class |-> llm_class, key |-> Unset, refused |-> "no", jammed |-> {}]
LlmLists ==
    {<<>>} \cup {<<l>> : l \in LlmsOf(Providers, {Unset, "own"})}
    \cup {<<l, PlainLlm(k)>> : l \in LlmsOf(Providers, {Unset}), k \in {"openai", "gemini"}}

Classes == {[class |-> Unset, loads |-> "loads"], [class |-> "copy", loads |-> "fails"]}
           \cup [class : {"copy", "summarize"}, loads : {"loads"}]
Middleware ==
    {[kind |-> "dictionary", class |-> k.class, loads |-> k.loads, checkpointer |-> p] :
        k \in Classes, p \in {<<>>} \cup {<<q>> : q \in Classes}}
    \cup {[kind |-> "text", class |-> Unset, loads |-> "loads", checkpointer |-> <<>>]}

MCAgents ==
    [llms : LlmLists, middleware : {<<>>}, env : SUBSET {"OPENAI_API_KEY", "AZURE_OPENAI_API_KEY"}]
    \cup [llms : {<<PlainLlm("openai")>>, <<PlainLlm("openai"), PlainLlm("ollama")>>},
          middleware : {<<d, e>> : d \in Middleware, e \in Middleware}, env : {{}}]
=============================================================================
