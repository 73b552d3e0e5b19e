------------------------------- MODULE McpServer ------------------------------
(* The requests that ask AgentAuthorizationPolicy before they reach an agent:  *)
(* MCP's tools/list and tools/call, the list of the concierge, and get_service *)
(* of the HTTP handlers, which may first have to find a temporary network.     *)
(*                                                                             *)
(* Each question is a session of the OpenFgaAuthorizer. Other threads change   *)
(* the public storage and, by its listeners, the table of the policy; whoever  *)
(* administers the authorization server changes the grants.                    *)
EXTENDS OpenFgaAuthorizer, Naturals

CONSTANTS TempAgents,   \* the agents whose names are those of reservations
          McpAgents,    \* the agents that are tools for MCP
          MaxChanges    \* bound: changes by other threads and administrators

VARIABLES stored,       \* the agents in the public storage
          allowed,      \* the agents in the policy's table
          req,          \* request -> what its handler does
          changes,      \* history: the changes so far
          seen          \* history: request -> what held at some time of it

vars == <<authVars, stored, allowed, req, changes, seen>>

Methods == {"tools/list", "tools/call", "list", "service"}

NoRequest == [pc |-> "idle", method |-> None, agent |-> None,
              listed |-> {}, todo |-> {}, given |-> {}, found |-> None]

Granted == IF authorizer = "yes" THEN Agents ELSE grants

Init == /\ AuthInit
        /\ stored \in SUBSET (Agents \ TempAgents) /\ allowed = stored
        /\ req = [r \in Requests |-> NoRequest]
        /\ changes = 0
        /\ seen = [r \in Requests |-> [granted |-> {}, known |-> {}]]

Step(r, next) == req' = [req EXCEPT ![r] = next]
Ask(r, about) == session' = [session EXCEPT ![r] = Began(about)]
Leave(r) == session' = [session EXCEPT ![r] = NoSession]
ServerKeeps == UNCHANGED <<authorizer, grants, store, cached, lock, client, blocked,
                           stored, changes>>
HandlerKeeps == ServerKeeps /\ UNCHANGED <<allowed, seen>>

(* What every request sees that is under way: that agents are granted or known. *)
Working == {r \in Requests : req[r].pc \notin {"idle", "answered"}}
See(granted, known) == seen' = [r \in Requests |->
  IF r \notin Working THEN seen[r]
  ELSE [granted |-> seen[r].granted \cup granted, known |-> seen[r].known \cup known]]

-------------------------------------------------------------------------------
(* Requests that come *)

(* The answer, a refusal or an error among them, and the agents it gives away. *)
Answer(given) == [NoRequest EXCEPT !.pc = "answered", !.given = given]

(* What is no request of MCP, has a protocol version that is not ours or no    *)
(* such method, and the methods that ask for no agent.                         *)
AnswerAtOnce(r) == /\ MayRun(r) /\ req[r].pc = "idle"
                   /\ Step(r, Answer({}))
                   /\ UNCHANGED session /\ HandlerKeeps

AskPolicy(r) ==
  /\ MayRun(r) /\ req[r].pc = "idle"
  /\ \E method \in Methods :
       LET all == method \in {"tools/list", "list"}
       IN  \E agent \in IF all THEN {Everything} ELSE Agents :
             /\ Step(r, [NoRequest EXCEPT !.pc = "asked", !.method = method, !.agent = agent])
             /\ Ask(r, agent)
  /\ seen' = [seen EXCEPT ![r] = [granted |-> Granted, known |-> allowed]]
  /\ ServerKeeps /\ UNCHANGED allowed

(* A session that raised ends its request: for MCP and for Tornado it is 500.  *)
RaiseError(r) == /\ MayRun(r) /\ session[r].pc = "over" /\ session[r].failed
                 /\ Step(r, Answer({}))
                 /\ Leave(r)
                 /\ HandlerKeeps

(* The end of a session whose answer is in. *)
At(r, method, pc) == /\ MayRun(r) /\ session[r].pc = "over" /\ ~session[r].failed
                     /\ req[r].method = method /\ req[r].pc = pc

-------------------------------------------------------------------------------
(* tools/call *)

CallTool(r) ==
  /\ At(r, "tools/call", "asked")
  /\ Step(r, IF req[r].agent \in allowed \cap session[r].reply \cap McpAgents
               THEN [req[r] EXCEPT !.pc = "chat"]
               ELSE Answer({}))
  /\ Leave(r)
  /\ HandlerKeeps

(* The stream ends, fails, is cut off or takes too long: it is closed then.    *)
ToolEnds(r) ==
  /\ MayRun(r) /\ req[r].pc = "chat"
  /\ Step(r, Answer({req[r].agent}))
  /\ UNCHANGED session /\ HandlerKeeps

-------------------------------------------------------------------------------
(* tools/list and the concierge's list *)

(* The names the authorizer knows that exist; for the default, the table as it *)
(* is whenever it is looked at.                                                *)
Listed(r) == IF authorizer = "yes" THEN allowed ELSE req[r].listed

ListAgents(r) ==
  /\ \/ At(r, "tools/list", "asked") \/ At(r, "list", "asked")
  /\ Step(r, [req[r] EXCEPT !.pc = "list", !.listed = session[r].reply \cap allowed,
                            !.todo = stored])
  /\ Leave(r)
  /\ HandlerKeeps

AnswerList(r) == /\ MayRun(r) /\ req[r].pc = "list" /\ req[r].method = "list"
                 /\ Step(r, Answer(req[r].todo \cap Listed(r)))
                 /\ UNCHANGED session /\ HandlerKeeps

(* Each name of the list in turn; what is still there and a tool for MCP is    *)
(* asked about a second time.                                                  *)
DescribeNext(r) ==
  /\ MayRun(r) /\ req[r].pc = "list" /\ req[r].method = "tools/list"
  /\ \E a \in req[r].todo :
       LET rest == [req[r] EXCEPT !.todo = @ \ {a}]
       IN  IF a \in Listed(r) \cap stored \cap McpAgents
             THEN Step(r, [rest EXCEPT !.pc = "describe", !.agent = a]) /\ Ask(r, a)
             ELSE Step(r, rest) /\ UNCHANGED session
  /\ HandlerKeeps

(* What is not there or not authorized any more leaves a hole in the list.     *)
Described(r) == IF req[r].agent \in allowed \cap session[r].reply THEN req[r].agent ELSE None

GetToolDescription(r) ==
  /\ At(r, "tools/list", "describe")
  /\ Step(r, [req[r] EXCEPT !.pc = "list", !.given = @ \cup {Described(r)}])
  /\ Leave(r)
  /\ HandlerKeeps

AnswerTools(r) == /\ MayRun(r) /\ req[r].pc = "list" /\ req[r].method = "tools/list"
                  /\ req[r].todo = {}
                  /\ Step(r, Answer(req[r].given))
                  /\ UNCHANGED session /\ HandlerKeeps

-------------------------------------------------------------------------------
(* get_service() of the HTTP handlers *)

(* Mutant: what exists is served before anybody looks whether it is allowed.   *)
ServiceWhenFound(next, authorized) ==
  IF next.agent \in allowed THEN Answer({next.agent})
  ELSE IF ~authorized THEN Answer({})
  ELSE IF next.agent \in TempAgents THEN [next EXCEPT !.pc = "look up"]
  ELSE Answer({})

GetService(next, authorized) ==
  IF ~authorized THEN Answer({})
  ELSE IF next.agent \in allowed THEN Answer({next.agent})
  ELSE IF next.agent \in TempAgents THEN [next EXCEPT !.pc = "look up"]
  ELSE Answer({})

ServeAgent(r) == /\ At(r, "service", "asked")
                 /\ Step(r, GetService(req[r], req[r].agent \in session[r].reply))
                 /\ Leave(r)
                 /\ HandlerKeeps

(* A thread looks for the network here and in the external storage. What it    *)
(* finds there is in the table then; what it finds here need not be.           *)
LookUp(r) ==
  /\ req[r].pc = "look up" /\ req[r].found = None
  /\ \E found \in BOOLEAN, new \in SUBSET {req[r].agent} :
       /\ new # {} => found
       /\ Step(r, [req[r] EXCEPT !.found = found])
       /\ allowed' = allowed \cup new /\ See({}, new)
  /\ UNCHANGED session /\ ServerKeeps

(* What the external storage raises, the thread hands on to the handler. *)
LookUpRaises(r) ==
  /\ MayRun(r) /\ req[r].pc = "look up" /\ req[r].found = None
  /\ Step(r, Answer({}))
  /\ UNCHANGED session /\ HandlerKeeps

AskAgain(r) ==
  /\ MayRun(r) /\ req[r].pc = "look up" /\ req[r].found # None
  /\ IF req[r].found
       THEN Step(r, [req[r] EXCEPT !.pc = "asked again"]) /\ Ask(r, req[r].agent)
       ELSE Step(r, Answer({})) /\ UNCHANGED session
  /\ HandlerKeeps

(* Whether it is authorized has been said before. *)
ServeTemporary(r) ==
  /\ At(r, "service", "asked again")
  /\ Step(r, IF req[r].agent \in allowed THEN Answer({req[r].agent})
             ELSE Answer({}))
  /\ Leave(r)
  /\ HandlerKeeps

-------------------------------------------------------------------------------
(* Other threads, and the authorization server *)

Change == /\ changes < MaxChanges /\ changes' = changes + 1
          /\ UNCHANGED <<authorizer, store, cached, lock, client, session, blocked, req>>

ChangeStorage == /\ \E a \in Agents \ TempAgents :
                      stored' = IF a \in stored THEN stored \ {a} ELSE stored \cup {a}
                 /\ Change /\ UNCHANGED <<grants, allowed, seen>>

NotifyListeners == /\ \E a \in (stored \ allowed) \cup (allowed \ (stored \cup TempAgents)) :
                     /\ allowed' = IF a \in stored THEN allowed \cup {a} ELSE allowed \ {a}
                     /\ See({}, {a} \cap stored)
                   /\ UNCHANGED <<authVars, stored, req, changes>>

ExpireTemporary == /\ \E a \in TempAgents \cap allowed : allowed' = allowed \ {a}
                   /\ Change /\ UNCHANGED <<grants, stored, seen>>

ChangeGrants == /\ \E a \in Agents : \/ Grant(a) /\ See({a}, {})
                                     \/ Revoke(a) /\ UNCHANGED seen
                /\ Change /\ UNCHANGED <<stored, allowed>>

-------------------------------------------------------------------------------
Arrive(r) == AnswerAtOnce(r) \/ AskPolicy(r)

Progress(r) ==
  \/ SessionStep(r) /\ UNCHANGED <<stored, allowed, req, changes, seen>>
  \/ RaiseError(r)
  \/ CallTool(r) \/ ToolEnds(r)
  \/ ListAgents(r) \/ AnswerList(r) \/ DescribeNext(r) \/ GetToolDescription(r) \/ AnswerTools(r)
  \/ ServeAgent(r) \/ LookUp(r) \/ LookUpRaises(r) \/ AskAgain(r) \/ ServeTemporary(r)

Others == ChangeStorage \/ NotifyListeners \/ ExpireTemporary \/ ChangeGrants

Next == (\E r \in Requests : Arrive(r) \/ Progress(r)) \/ Others

Spec == Init /\ [][Next]_vars

(* The loop lets everybody go on, and every call outside is answered or fails. *)
Fairness == \A r \in Requests : WF_vars(Progress(r))
FairSpec == Spec /\ Fairness

-------------------------------------------------------------------------------
(* A request gives away no agent that was not granted to its actor, or did not *)
(* exist, at any moment from its arrival to its answer: whatever other         *)
(* requests, threads and administrators do between its questions.              *)
AnswersWereAllowed == \A r \in Requests : req[r].pc = "answered" =>
  req[r].given \ {None} \subseteq seen[r].granted \cap seen[r].known

(* The loop waits for a lock whose holder waits for the loop. *)
WaitsForItself == blocked /\ lock # None /\ Initializing(lock)

Started(r) == req[r].pc # "idle"
IsAnswered(r) == req[r].pc = "answered"

(* Every request is answered, also when others close its client, or nobody     *)
(* answers at the authorization server, or the first try to set that up        *)
(* fails: unless two requests are the first to use it at the same time.        *)
RequestsAreAnswered == \A r \in Requests : Started(r) ~> (IsAnswered(r) \/ WaitsForItself)

(* get_client() promises ":return: a connection to the OpenFGA authorization   *)
(* server", and of its lock the code says that it is "Threaded lock - on       *)
(* purpose even though async access is used": so each request is answered.     *)
EveryRequestIsAnswered == \A r \in Requests : Started(r) ~> IsAnswered(r)
===============================================================================
