----------------------------- MODULE LlmConfig -----------------------------
(***************************************************************************)
(* From the llm_config of a network and of one of its agents to the LLM:   *)
(* DefaultsConfigFilter, and DefaultLlmFactory with the files that         *)
(* describe classes and models (llm_infos).                                *)
(***************************************************************************)
EXTENDS Naturals, SequencesExt, Dictionaries

\* Mutant: the agent's values are the ones that can be overridden.
FillDefaultsBackwards(network, agent) ==
    [llm_config |-> Overlay(agent.llm_config, network.llm_config), verbose |-> agent.verbose]

\* DefaultsConfigFilter: what an agent does not say is what its network says; for
\* "verbose" the network's llm_config comes before the network itself.
FillDefaults(network, agent) ==
    [llm_config |-> Overlay(network.llm_config, agent.llm_config),
     verbose |-> IF agent.verbose # "unset" THEN agent.verbose
                 ELSE Get(network.llm_config, "verbose", network.verbose)]

\* load(): the user's file over the default one.
LoadLlmInfos(default, user) ==
    [default_config |-> Overlay(default.default_config, user.default_config),
     classes |-> Overlay(default.classes, user.classes),
     models |-> Overlay(default.models, user.models)]

\* get_chat_class_args(): a class's arguments under those of the class it extends.
GetChatClassArgs(infos, class) ==
    LET classes == infos.classes
        args[c \in DOMAIN classes] ==
            IF classes[c].extends \in DOMAIN classes
            THEN Overlay(classes[c].args, args[classes[c].extends])
            ELSE classes[c].args
    IN  Get(args, class, NoKeys)

\* Every class that get_chat_class_args() looks up has to exist if a model asks.
HasClass(infos, class) ==
    LET classes == infos.classes
        found[c \in DOMAIN classes] ==
            \/ classes[c].extends = "none"
            \/ classes[c].extends \in DOMAIN classes /\ found[classes[c].extends]
    IN  Get(found, class, FALSE)

\* A model's entry; one with at most two keys is an alias of use_model_name.
ModelEntry(infos, model) ==
    IF infos.models[model].alias THEN infos.models[model].use_model_name ELSE model

Error == [state |-> "error", config |-> NoKeys]

\* get_max_prompt_tokens(): the config's max_tokens if there is one, else a share
\* of what the model can put out.
GetMaxPromptTokens(infos, config) ==
    Get(config, "max_tokens", infos.models[ModelEntry(infos, config["model_name"])].max_output_tokens)

\* create_full_llm_config()
CreateFullLlmConfig(infos, config) ==
    IF "class" \in DOMAIN config
    THEN [state |-> "made", config |-> Overlay(GetChatClassArgs(infos, config["class"]), config)]
    ELSE
    LET default == infos.default_config
        asked == Overlay(default, config)["model_name"]
        known == /\ asked \in DOMAIN infos.models
                 /\ ModelEntry(infos, asked) \in DOMAIN infos.models
        entry == infos.models[ModelEntry(infos, asked)]
        full == Overlay(Overlay(GetChatClassArgs(infos, entry.class), default), config)
        named == Overlay(full, [class |-> entry.class,
                                model_name |-> IF entry.use_model_name = "none"
                                               THEN ModelEntry(infos, asked)
                                               ELSE entry.use_model_name])
    IN  IF ~known \/ ~HasClass(infos, entry.class) \/ named["model_name"] \notin DOMAIN infos.models
        THEN Error
        ELSE [state |-> "made",
              config |-> Overlay(named, [max_tokens |-> GetMaxPromptTokens(infos, named)])]

\* create_llm_resources(): what is found out by asking factory number i.  A ValueError
\* counts until another factory comes along without one, whatever that one makes; an
\* API key error ends the search, and so does the LLM of an older kind of factory that
\* comes with its resources, which is lost.
NothingFound == [by |-> "nothing", at |-> 0]
EndsTheSearch(found) == found.by \in {"factory", "api key", "lost"}

AskFactory(outcome, i) ==
    CASE outcome = "llm" -> [by |-> "factory", at |-> i]
      [] outcome = "nothing" -> NothingFound
      [] outcome = "refuses" -> [by |-> "error", at |-> 0]
      [] outcome = "api key" -> [by |-> "api key", at |-> i]
      [] outcome = "old resources" -> [by |-> "lost", at |-> i]

\* The class that the user named is tried when the last word was a ValueError.
UserClass(found, standard) ==
    IF found.by = "error" /\ ~standard THEN [by |-> "user class", at |-> 0] ELSE found
=============================================================================
