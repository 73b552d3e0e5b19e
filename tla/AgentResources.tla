--------------------------- MODULE AgentResources ---------------------------
(***************************************************************************)
(* What a run context makes before its agent can work: a chain of agents,  *)
(* one for each LLM of the "fallbacks" in its llm_config, each with        *)
(* middleware of its own (LangChainRunContext, MiddlewareFactory); and the *)
(* network clients these LLMs open, which an LlmPolicy makes or reaches    *)
(* into in order to close them (delete_resources()).                       *)
(***************************************************************************)
EXTENDS Naturals, SequencesExt, Dictionaries

CONSTANT AgentChoices   \* agents: LLMs, middleware, environment

VARIABLES
    setting,    \* the agent
    to_do,      \* what is done next
    chain,      \* agents that are made
    making,     \* the middleware and the checkpointer of the next one
    configured, \* entries of its middleware that are dealt with
    given_keys, \* LLM -> the API keys its client and its model were given
    open,       \* network clients, by LLM
    kept,       \* llm_resources of the run context: an LLM, or 0
    closing,    \* what its policy has still to close
    indexes     \* Origination: class name -> how often it was instantiated

resourceVars ==
    <<setting, to_do, chain, making, configured, given_keys, open, kept, closing, indexes>>

Unset == "Unset"
NoSetting == [llms |-> <<>>]
NoObject == <<>>
NoAgent == [middleware |-> <<>>, checkpointer |-> NoObject]

-----------------------------------------------------------------------------
(* LlmPolicy: is a client made for the LLM, where its key may be found,    *)
(* what is closed, and does it matter if that fails                        *)

Policy(client, envs, closes, suppressed) ==
    [client |-> client, envs |-> envs, closes |-> closes, suppressed |-> suppressed]

OpenAILlmPolicy == Policy(TRUE, <<"OPENAI_API_KEY">>, <<"http_client">>, TRUE)
AzureLlmPolicy == [OpenAILlmPolicy EXCEPT !.envs = <<"AZURE_OPENAI_API_KEY", "OPENAI_API_KEY">>]
AnthropicLlmPolicy == Policy(FALSE, <<"ANTHROPIC_API_KEY">>, <<"async_client">>, TRUE)
BedrockLlmPolicy == Policy(FALSE, <<"AWS_ACCESS_KEY_ID">>, <<"client", "bedrock_client">>, FALSE)
GeminiLlmPolicy == Policy(FALSE, <<"GOOGLE_API_KEY">>, <<"client", "async_client">>, TRUE)
NvidiaLlmPolicy == Policy(FALSE, <<"NVIDIA_API_KEY">>, <<>>, TRUE)
OllamaLlmPolicy == Policy(FALSE, <<>>, <<"async_client">>, TRUE)

Providers == {"openai", "azure-openai", "anthropic", "bedrock", "gemini", "nvidia", "ollama"}

PolicyOf ==
    [class \in Providers |->
        CASE class = "openai" -> OpenAILlmPolicy
          [] class = "azure-openai" -> AzureLlmPolicy
          [] class = "anthropic" -> AnthropicLlmPolicy
          [] class = "bedrock" -> BedrockLlmPolicy
          [] class = "gemini" -> GeminiLlmPolicy
          [] class = "nvidia" -> NvidiaLlmPolicy
          [] class = "ollama" -> OllamaLlmPolicy]

\* What an agent's settings say of its LLMs and of its middleware.
Llms == [class : Providers, key : STRING, refused : {"no", "client", "model"}, jammed : SUBSET STRING]
Loadable == [class : STRING, loads : STRING]
MiddlewareEntries == [kind : STRING, class : STRING, loads : STRING, checkpointer : Seq(Loadable)]
Settings == [llms : Seq(Llms), env : SUBSET STRING, middleware : Seq(MiddlewareEntries)]

ASSUME ResourcesAssumption == AgentChoices \subseteq Settings

\* Nothing if another object has the value; else the config's, else the environment's.
GetValueOrEnv(value, env, none_obj) ==
    IF none_obj THEN Unset
    ELSE IF value # Unset THEN value
    ELSE IF env \in setting.env THEN env ELSE Unset

\* The config is looked at again for each name that the variable may have.
ApiKey(llm, none_obj) ==
    LET Value(env) == GetValueOrEnv(llm.key, env, none_obj)
        envs == PolicyOf[llm.class].envs
        found == {e \in DOMAIN envs : Value(envs[e]) # Unset}
    IN  IF found = {} THEN Unset ELSE Value(envs[CHOOSE e \in found : \A f \in found : e <= f])

-----------------------------------------------------------------------------

Current == Len(chain) + 1
Llm == setting.llms[Current]

Begin(one) ==
    /\ setting = one
    /\ to_do = "agent"
    /\ given_keys = [i \in DOMAIN one.llms |-> [client |-> Unset, model |-> Unset]]
    /\ chain = <<>> /\ making = NoAgent /\ configured = 0
    /\ open = {} /\ kept = 0 /\ closing = <<>>
    /\ indexes = NoKeys

ResourcesInit == \E one \in AgentChoices : Begin(one)
ResourcesIdle == Begin(NoSetting)

Keep(kept_as_they_are) == UNCHANGED <<setting, kept_as_they_are>>

\* create_client(): the pool of connections comes first, then the provider's client,
\* which may raise, for instance without a key.
CreateClient ==
    /\ to_do = "agent" /\ Current <= Len(setting.llms)
    /\ PolicyOf[Llm.class].client
    /\ open' = open \cup {<<Current, "http_client">>}
    /\ given_keys' = [given_keys EXCEPT ![Current].client = ApiKey(Llm, FALSE)]
    /\ to_do' = IF Llm.refused = "client" THEN "raised" ELSE "llm"
    /\ Keep(<<chain, making, configured, kept, closing, indexes>>)

\* create_llm(): a model without a client opens its own, if its constructor does not raise.
CreateModelGiven(has_client) ==
    /\ given_keys' = [given_keys EXCEPT ![Current].model = ApiKey(Llm, has_client)]
    /\ IF Llm.refused = "model"
       THEN to_do' = "raised" /\ UNCHANGED open
       ELSE /\ to_do' = "middleware"
            /\ open' = open \cup {<<Current, c>> : c \in ToSet(PolicyOf[Llm.class].closes)}
    /\ making' = NoAgent /\ configured' = 0
    /\ Keep(<<chain, kept, closing, indexes>>)

CreateModel ==
    \/ to_do = "llm" /\ CreateModelGiven(TRUE)
    \/ /\ to_do = "agent" /\ Current <= Len(setting.llms)
       /\ ~PolicyOf[Llm.class].client
       /\ CreateModelGiven(FALSE)

-----------------------------------------------------------------------------
(* MiddlewareFactory                                                       *)

\* create_class(): what has no class is skipped, with a warning; a class that cannot
\* be loaded or instantiated raises.  The origin counts its instances.
CreateClass(config, counted) ==
    IF config.class = Unset THEN [state |-> "skipped", object |-> NoObject, counted |-> counted]
    ELSE IF config.loads # "loads" THEN [state |-> "raised", object |-> NoObject, counted |-> counted]
    ELSE LET index == Get(counted, config.class, 1)
         IN  [state |-> "made", object |-> <<config.class, index>>,
              counted |-> Overlay(counted, Only(config.class, index + 1))]

\* Mutant: the last checkpointer is used.
LastCheckpointer(had, made) == IF made.state = "made" THEN made.object ELSE had

\* "Multiple Checkpointers specified. Using the first one."
Checkpointer(had, made) == IF had = NoObject /\ made.state = "made" THEN made.object ELSE had

\* An entry that is no dictionary is skipped by create_class(), but then its
\* checkpointer is asked for.
CreateMiddleware ==
    /\ to_do = "middleware" /\ configured < Len(setting.middleware)
    /\ configured' = configured + 1
    /\ LET config == setting.middleware[configured']
           made == CreateClass(config, indexes)
           checkpointer == IF config.checkpointer = <<>>
                           THEN [state |-> "skipped", object |-> NoObject, counted |-> made.counted]
                           ELSE CreateClass(Head(config.checkpointer), made.counted)
       IN  IF config.kind # "dictionary" \/ "raised" \in {made.state, checkpointer.state}
           THEN to_do' = "raised" /\ UNCHANGED <<making, indexes>>
           ELSE /\ making' = [middleware |-> IF made.state = "made"
                                             THEN Append(making.middleware, made.object)
                                             ELSE making.middleware,
                              checkpointer |-> Checkpointer(making.checkpointer, checkpointer)]
                /\ indexes' = checkpointer.counted
                /\ UNCHANGED to_do
    /\ Keep(<<chain, given_keys, open, kept, closing>>)

\* Mutant: the LLM of the last fallback is the one that is kept.
KeepLast == Current

\* "For now. Could be problems with different providers w/ token counting."
KeepFirst == IF Current = 1 THEN Current ELSE kept

AgentCreated ==
    /\ to_do = "middleware" /\ configured = Len(setting.middleware)
    /\ chain' = Append(chain, making)
    /\ kept' = KeepFirst
    /\ to_do' = "agent"
    /\ Keep(<<making, configured, given_keys, open, closing, indexes>>)

ResourcesCreated ==
    /\ to_do = "agent" /\ setting # NoSetting
    /\ Current > Len(setting.llms)
    /\ to_do' = "ready"
    /\ Keep(<<chain, making, configured, given_keys, open, kept, closing, indexes>>)

-----------------------------------------------------------------------------
(* delete_resources(), at the end of the agent or of the whole session     *)

WhatToClose(llm) == PolicyOf[setting.llms[llm].class].closes

DeleteResources ==
    /\ to_do \in {"ready", "raised"}
    /\ closing' = IF kept = 0 THEN <<>> ELSE WhatToClose(kept)
    /\ to_do' = "deleting"
    /\ Keep(<<chain, making, configured, given_keys, open, kept, indexes>>)

\* What close() or aclose() raises is suppressed, or ends delete_resources().
CloseClient ==
    /\ to_do = "deleting" /\ closing # <<>>
    /\ LET llm == setting.llms[kept]
           client == Head(closing)
       IN  IF client \in llm.jammed
           THEN /\ to_do' = IF PolicyOf[llm.class].suppressed THEN "deleting" ELSE "not deleted"
                /\ UNCHANGED open
           ELSE open' = open \ {<<kept, client>>} /\ UNCHANGED to_do
    /\ closing' = Tail(closing)
    /\ Keep(<<chain, making, configured, given_keys, kept, indexes>>)

ResourcesDeleted ==
    /\ to_do = "deleting" /\ closing = <<>>
    /\ kept' = 0
    /\ to_do' = "deleted"
    /\ Keep(<<chain, making, configured, given_keys, open, closing, indexes>>)

ResourcesNext ==
    \/ CreateClient \/ CreateModel \/ CreateMiddleware \/ AgentCreated \/ ResourcesCreated
    \/ DeleteResources \/ CloseClient \/ ResourcesDeleted

ResourcesSpec == ResourcesInit /\ [][ResourcesNext]_resourceVars

-----------------------------------------------------------------------------

\* An LLM is reached over one connection, with the key of its configuration or else of
\* the first variable that is set, which either its client or its model is given; as
\* long as the agent is at work no client is closed, and when its resources are deleted
\* those of its first LLM are, whatever goes wrong with one of them ("this allows server
\* infrastructure to better account for outstanding connections").  What is left open
\* are the LLMs of fallbacks, those of agents that could not be made, and with Bedrock
\* what comes after a client that does not close.
ConnectionsAreReleased ==
    /\ \A i \in DOMAIN chain :
        LET llm == setting.llms[i]
            policy == PolicyOf[llm.class]
            set == {e \in DOMAIN policy.envs : policy.envs[e] \in setting.env}
            key == IF policy.envs = <<>> THEN Unset
                   ELSE IF llm.key # Unset THEN llm.key
                   ELSE IF set = {} THEN Unset
                   ELSE policy.envs[CHOOSE e \in set : \A f \in set : e <= f]
        IN  {given_keys[i].client, given_keys[i].model} \ {Unset} = {key} \ {Unset}
    /\ to_do \notin {"deleting", "deleted", "not deleted"} =>
        \A i \in DOMAIN chain : \A c \in ToSet(PolicyOf[setting.llms[i].class].closes) : <<i, c>> \in open
    /\ to_do \in {"deleted", "not deleted"} /\ chain # <<>> =>
        \A c \in ToSet(PolicyOf[setting.llms[1].class].closes) :
            <<1, c>> \in open => \/ c \in setting.llms[1].jammed
                                 \/ setting.llms[1].class = "bedrock" /\ "client" \in setting.llms[1].jammed

\* "In the order they were specified": each agent of the chain has the middleware of the
\* list, but for what has no class, and the first checkpointer of it; and no two of them,
\* also of two agents, have the same origin.
MiddlewareIsAsListed ==
    LET Instances(one) == ToSet(one.middleware) \cup ({one.checkpointer} \ {NoObject})
        listed == {k \in DOMAIN setting.middleware : setting.middleware[k].class # Unset}
        IsInOrder(objects) ==
            \E at \in [DOMAIN objects -> listed] :
                /\ Range(at) = listed
                /\ \A k, l \in DOMAIN objects : k < l => at[k] < at[l]
                /\ \A k \in DOMAIN objects : objects[k][1] = setting.middleware[at[k]].class
        offers == {k \in DOMAIN setting.middleware :
                    /\ setting.middleware[k].checkpointer # <<>>
                    /\ Head(setting.middleware[k].checkpointer).class # Unset}
    IN  \A i \in DOMAIN chain :
            LET one == chain[i]
            IN  /\ IsInOrder(one.middleware)
                /\ one.checkpointer = NoObject <=> offers = {}
                /\ offers # {} => one.checkpointer[1] = Head(setting.middleware[
                        CHOOSE k \in offers : \A l \in offers : k <= l].checkpointer).class
                /\ IsInjective(one.middleware) /\ one.checkpointer \notin ToSet(one.middleware)
                /\ \A j \in DOMAIN chain \ {i} : Instances(one) \cap Instances(chain[j]) = {}
=============================================================================
