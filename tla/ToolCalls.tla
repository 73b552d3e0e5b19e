----------------------------- MODULE ToolCalls -----------------------------
(***************************************************************************)
(* What the model of an agent is offered to call, and what a call reaches. *)
(* Each reference in the "tools" of the agent is made into tools of        *)
(* langchain with names of their own (BaseToolFactory, when the resources  *)
(* of the run context are created).  When the model calls a name, langchain*)
(* runs the tool that has it; a function tool asks its agent, which looks  *)
(* the name up again, in the references, and creates an activation         *)
(* (CallingActivation, ActivationFactory).  Nothing but the names ties the *)
(* two ends together.                                                      *)
(***************************************************************************)
EXTENDS AgentNetworks

CONSTANTS
    McpUrls,        \* references that look like the URL of an MCP server
    Malformed,      \* references that are neither texts nor dictionaries
    SafeNameOf(_),  \* the name for an external reference: "__" and its path
    Prefixed(_, _), \* the name for a tool of an agent's toolkit
    ToolChoices     \* agents with their network, toolbox and surroundings

VARIABLES
    task,       \* the agent and its surroundings
    handled,    \* references made into tools
    offered,    \* the tools of langchain, in order
    result      \* what the call of the model reached

toolVars == <<task, handled, offered, result>>

NoCall == [by |-> "nothing", of |-> "nothing", at |-> <<>>, meant |-> 0]
NoTask == [tools |-> <<>>]

\* Folders are named, and what a task speaks of is there.
Nowhere == <<"nowhere">>
IsTask(one) ==
    LET Address(ref) == IF ref \in DictTools THEN one.dicts[ref].url ELSE ref
    IN  /\ one.tools \in Seq(ToSet(one.tools))
        /\ \A ref \in ToSet(one.tools) \cap (DictTools \cup McpUrls) :
                one.servers[Address(ref)].tools \in Seq(ToSet(one.servers[Address(ref)].tools))
        /\ \A i \in DOMAIN one.network :
            /\ one.network[i].toolbox \in {"unset", "empty"} \cup (DOMAIN one.toolbox \cap DOMAIN one.homes)
            /\ one.network[i].class \in {"none"} \cup DOMAIN one.homes
        /\ one.path \in Seq(STRING) /\ one.name_parts \in Seq(STRING)
        /\ \A class \in DOMAIN one.homes : Nowhere \notin one.homes[class]

ASSUME ToolsAssumption == \A one \in ToolChoices : IsTask(one)

ToolsInit == task \in ToolChoices /\ handled = 0 /\ offered = <<>> /\ result = NoCall
ToolsIdle == task = NoTask /\ handled = 0 /\ offered = <<>> /\ result = NoCall

Known == AgentNames(task.network)
ToolSpec(ref) == SpecOf(task.network, ref)

-----------------------------------------------------------------------------
(* BaseToolFactory                                                         *)

NoOffer == [raised |-> TRUE, tools |-> <<>>]
Offers(tools) == [raised |-> FALSE, tools |-> tools]
BaseTool(kind, name, of) == [kind |-> kind, name |-> name, of |-> of]

GetSafeAgentName(ref) == IF ref \in Externals THEN SafeNameOf(ref) ELSE ref

\* create_function_tool(): the description must have what a call needs.
CreateFunctionTool(function, ref) ==
    IF function = "complete" THEN Offers(<<BaseTool("function", GetSafeAgentName(ref), ref)>>)
    ELSE NoOffer

\* A ValueError is told in the journal, and the tool is left out.
Tolerate(made) == IF made.raised THEN Offers(<<>>) ELSE made

\* create_tool_from_toolbox(): one tool with the name of the agent, or a toolkit of
\* which each tool has the name before its own; an entry with a description is
\* returned as it is, for a coded tool.  The reasons that are foreseen to make none
\* of it (no such entry, no class, arguments it does not have) are ValueErrors.
CreateToolFromToolbox(entry, name) ==
    CASE entry = "tool" -> Offers(<<BaseTool("toolbox", name, name)>>)
      [] entry = "toolkit" -> Offers([k \in 1 .. 2 |-> BaseTool("toolbox", Prefixed(name, k), name)])
      [] OTHER -> NoOffer

CreateToolboxTool(spec) ==
    LET entry == task.toolbox[spec.toolbox]
    IN  IF entry = "fails" THEN NoOffer
        ELSE Tolerate(IF entry \in {"coded", "incomplete"}
                      THEN CreateFunctionTool(IF entry = "coded" THEN "complete" ELSE entry, spec.name)
                      ELSE CreateToolFromToolbox(entry, spec.name))

CreateInternalTool(spec) ==
    IF spec.toolbox \notin {"unset", "empty"} THEN CreateToolboxTool(spec)
    ELSE IF spec.function = "none" THEN Offers(<<>>)
    ELSE CreateFunctionTool(spec.function, spec.name)

\* The list of the reference goes before the one in the file of servers; an empty
\* list leaves nothing out.  "here" is a list if it is not empty, and a list of one.
AllowedTools(ref, address) ==
    LET here == IF ref \in DictTools THEN task.dicts[ref].tools ELSE <<>>
    IN  IF here # <<>> THEN Head(here) ELSE task.servers[address].filter

CreateMcpTool(ref) ==
    LET address == IF ref \in DictTools THEN task.dicts[ref].url ELSE ref
        mcp == task.servers[address]
        allowed == AllowedTools(ref, address)
        served[n \in 0 .. Len(mcp.tools)] ==
            IF n = 0 THEN <<>>
            ELSE IF allowed # {} /\ mcp.tools[n] \notin allowed THEN served[n - 1]
            ELSE Append(served[n - 1], BaseTool("mcp", mcp.tools[n], ref))
    IN  IF mcp.up THEN Offers(served[Len(mcp.tools)]) ELSE Offers(<<>>)

\* ExternalToolAdapter: the front man of another network answers with its function,
\* which may be incomplete, or what prevents it is a ValueError.
FunctionJsons == {"complete", "incomplete", "unreachable"}

CreateExternalTool(ref, answer) ==
    CASE ref \in Malformed -> NoOffer
      [] ref \in DictTools \cup McpUrls -> CreateMcpTool(ref)
      [] ref \in Externals \ McpUrls -> Tolerate(CreateFunctionTool(answer, ref))
      [] OTHER -> Offers(<<>>)

CreateBaseTool(ref, answer) ==
    IF ref \in Known THEN CreateInternalTool(ToolSpec(ref)) ELSE CreateExternalTool(ref, answer)

-----------------------------------------------------------------------------
(* AbstractClassActivation: where the class of a coded tool is found.      *)

\* The folder of the network, unless the path ends (as a text) like its name.
DetermineAgentToolPath ==
    IF task.path_ends_like_name THEN task.path ELSE task.path \o task.name_parts

\* Mutant: the shared folder is left out.
FoldersBelowShared == 0 .. Len(task.name_parts) - 1

\* One folder for each part of the name, and the one above.
FoldersTried == 0 .. Len(task.name_parts)

Direct == <<>>

ResolveClass(class) ==
    LET path == DetermineAgentToolPath
        Folder(i) == SubSeq(path, 1, Len(path) - i)
        found == {i \in FoldersTried : Folder(i) \in task.homes[class]}
    IN  IF Direct \in task.homes[class] THEN Direct
        ELSE IF found = {} THEN Nowhere
        ELSE Folder(CHOOSE i \in found : \A j \in found : i <= j)

-----------------------------------------------------------------------------
(* CallingActivation and ActivationFactory                                 *)

Reaches(by, of, at) == [by |-> by, of |-> of, at |-> at, meant |-> 0]
Exception(of) == Reaches("exception", of, <<>>)

\* The coded tool is made without arguments.
InstantiateCodedTool(class) ==
    IF task.made[class] = "needs arguments" THEN "raised" ELSE task.made[class]

\* build(): the result of something that is no coded tool is a text that says so.
BuildClass(ref, class) ==
    LET at == ResolveClass(class)
        made == InstantiateCodedTool(class)
    IN  IF at = Nowhere \/ made = "raised" THEN Exception(ref)
        ELSE Reaches(IF made = "coded tool" THEN made ELSE "error", ref, at)

\* get_shared_coded_tool_class() fails for what is not in the toolbox.
BuildToolbox(ref, entry) ==
    IF entry \in DOMAIN task.toolbox /\ task.toolbox[entry] # "missing"
    THEN BuildClass(ref, entry) ELSE Exception(ref)

CreateAgentActivation(ref) ==
    IF ref \notin Known
    THEN IF ref \in Externals THEN Reaches("external", ref, <<>>) ELSE Exception(ref)
    ELSE LET spec == ToolSpec(ref)
         IN  CASE spec.toolbox # "unset" -> BuildToolbox(ref, spec.toolbox)
               [] spec.toolbox = "unset" /\ spec.function = "none" -> Reaches("front man", ref, <<>>)
               [] spec.toolbox = "unset" /\ spec.function # "none" ->
                    IF spec.class # "none" THEN BuildClass(ref, spec.class)
                    ELSE Reaches("branch", ref, <<>>)

\* get_callable_tool_dict(): the references by their safe names, the last one for
\* those that share one.  A dictionary among them has no path to parse.
MakeOneToolFunctionCall(name) ==
    LET named == {i \in DOMAIN task.tools : GetSafeAgentName(task.tools[i]) = name}
        last == CHOOSE i \in named : \A j \in named : j <= i
    IN  IF ToSet(task.tools) \cap DictTools # {} \/ named = {} THEN Exception(name)
        ELSE CreateAgentActivation(task.tools[last])

\* create_resources(): one reference after the other.  What is raised ends the turn.
MakeTool ==
    /\ task # NoTask /\ result = NoCall
    /\ handled < Len(task.tools)
    /\ handled' = handled + 1
    /\ \E answer \in FunctionJsons :
        LET made == CreateBaseTool(task.tools[handled'], answer)
        IN  /\ offered' = offered \o made.tools
            /\ result' = IF made.raised THEN Reaches("raised", "nothing", <<>>) ELSE NoCall
    /\ UNCHANGED task

\* langchain runs the last tool of those that have the name that the model called.
CallTool ==
    /\ task # NoTask /\ result = NoCall
    /\ handled = Len(task.tools)
    /\ \E meant \in DOMAIN offered :
        LET named == {i \in DOMAIN offered : offered[i].name = offered[meant].name}
            tool == offered[CHOOSE i \in named : \A j \in named : j <= i]
            reached == IF tool.kind = "function" THEN MakeOneToolFunctionCall(tool.name)
                       ELSE Reaches(tool.kind, tool.of, <<>>)
        IN  result' = [reached EXCEPT !.meant = meant]
    /\ UNCHANGED <<task, handled, offered>>

ToolsNext == MakeTool \/ CallTool
ToolsSpec == ToolsInit /\ [][ToolsNext]_toolVars

-----------------------------------------------------------------------------

\* What the model calls is what it was offered: the agent that described the function
\* is the one that runs, and if it is a coded tool, then the one in the network's own
\* folder, or else the nearest one above ("if there is no appropriate class found there,
\* then a shared coded tool is looked for one level up").  Two tools or references with
\* one name, a dictionary among the references and a toolbox that is an empty text are
\* exceptions, and so is a class that can be imported as it stands.
RightToolIsCalled ==
    result.meant # 0 =>
        LET tool == offered[result.meant]
            own == task.path \o task.name_parts
            Above(class) == {i \in Len(task.path) .. Len(own) : SubSeq(own, 1, i) \in task.homes[class]}
            Nearest(class) == SubSeq(own, 1, CHOOSE i \in Above(class) : \A j \in Above(class) : j <= i)
            Called(class) ==
                (task.made[class] = "coded tool" /\ Above(class) # {} /\ Direct \notin task.homes[class]
                    /\ ~task.path_ends_like_name) =>
                        result.by = "coded tool" /\ result.at = Nearest(class)
            internal == tool.kind = "function" /\ tool.of \in Known
        IN  (\A i \in DOMAIN offered : offered[i].name = tool.name => i = result.meant)
                /\ (tool.kind = "function" =>
                        /\ ToSet(task.tools) \cap DictTools = {}
                        /\ \A ref \in ToSet(task.tools) : GetSafeAgentName(ref) = tool.name => ref = tool.of)
                /\ (internal => ToolSpec(tool.of).toolbox # "empty") =>
                /\ result.of = tool.of
                /\ result.by # "front man"
                /\ result.by = "exception" => internal
                /\ (internal /\ ToolSpec(tool.of).toolbox # "unset") => Called(ToolSpec(tool.of).toolbox)
                /\ (internal /\ ToolSpec(tool.of).toolbox = "unset" /\ ToolSpec(tool.of).class # "none") =>
                        Called(ToolSpec(tool.of).class)
                /\ (internal /\ ToolSpec(tool.of).toolbox = "unset" /\ ToolSpec(tool.of).class = "none") =>
                        result.by = "branch"
=============================================================================
