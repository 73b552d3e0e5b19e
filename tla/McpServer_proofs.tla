--------------------------- MODULE McpServer_proofs ---------------------------
(* A request gives away nothing that was not granted and known while it was    *)
(* under way, for any number of requests and agents and any interleaving.      *)
EXTENDS McpServer, TLAPS

(* Where a handler is, and where the session it has opened.                    *)
Places == {"idle", "asked", "chat", "list", "describe", "look up", "asked again", "answered"}
SessionPlaces == {"none", "enter", "close_old", "list_stores", "create_store", "find_model",
                  "write_model", "asking", "over", "close"}
Names == Agents \cup {Everything, None}

TypeOK ==
  /\ authorizer \in {"yes", "openfga"}
  /\ grants \subseteq Agents /\ stored \subseteq Agents /\ allowed \subseteq Agents
  /\ session \in [Requests -> [pc : SessionPlaces, about : Names, reply : SUBSET Agents,
                               failed : BOOLEAN]]
  /\ req \in [Requests -> [pc : Places, method : Methods \cup {None}, agent : Names,
                           listed : SUBSET Agents, todo : SUBSET Agents,
                           given : SUBSET (Agents \cup {None}), found : BOOLEAN \cup {None}]]
  /\ seen \in [Requests -> [granted : SUBSET Agents, known : SUBSET Agents]]

(* What a request that is under way has seen includes what holds now. Its      *)
(* session's reply and its own list are from the time since it came, and who   *)
(* has been let on to an agent was granted it. A session is open only while    *)
(* its handler waits for it.                                                   *)
Sound(request, opened, saw) ==
  /\ opened.pc # "none" => request.pc \in {"asked", "describe", "asked again"}
  /\ request.pc \notin {"idle", "answered"} =>
       /\ Granted \subseteq saw.granted /\ allowed \subseteq saw.known
       /\ opened.reply \subseteq saw.granted
       /\ request.listed \subseteq saw.granted \cap saw.known
  /\ request.pc \in {"chat", "look up", "asked again"} => request.agent \in saw.granted
  /\ request.pc = "chat" => request.agent \in saw.known
  /\ request.given \ {None} \subseteq saw.granted \cap saw.known

RequestInv(r) == Sound(req[r], session[r], seen[r])

IInv == TypeOK /\ \A r \in Requests : RequestInv(r)

-------------------------------------------------------------------------------
(* A step of one handler leaves the other requests as they are, and what they  *)
(* have seen, but for what they see of a network that a look-up has found.     *)
Elsewhere(r) == \A x \in Requests \ {r} : /\ req'[x] = req[x] /\ session'[x] = session[x]
                                          /\ seen'[x] = seen[x]

LEMMA OthersKeepTheirs ==
  ASSUME IInv, NEW r \in Requests, Elsewhere(r), UNCHANGED <<authorizer, grants, allowed>>
  PROVE  \A x \in Requests \ {r} : RequestInv(x)'
BY DEF IInv, RequestInv, Sound, Elsewhere, Granted

LEMMA InitIsFine == Init => IInv
<1> SUFFICES ASSUME Init PROVE IInv
  OBVIOUS
<1>1. TypeOK
  BY DEF Init, AuthInit, NoSession, NoRequest, TypeOK, Places, SessionPlaces, Names, Methods
<1>2. ASSUME NEW r \in Requests PROVE RequestInv(r)
  BY DEF Init, AuthInit, NoSession, NoRequest, RequestInv, Sound
<1> QED
  BY <1>1, <1>2 DEF IInv

-------------------------------------------------------------------------------
(* Types                                                                       *)

SessionRecord == [pc : SessionPlaces, about : Names, reply : SUBSET Agents, failed : BOOLEAN]
RequestRecord == [pc : Places, method : Methods \cup {None}, agent : Names,
                  listed : SUBSET Agents, todo : SUBSET Agents,
                  given : SUBSET (Agents \cup {None}), found : BOOLEAN \cup {None}]

LEMMA GotoTypes ==
  ASSUME session \in [Requests -> SessionRecord], NEW r \in Requests,
         NEW p \in SessionPlaces, Goto(r, p)
  PROVE  session' \in [Requests -> SessionRecord]
BY DEF SessionRecord, Goto

LEMMA OverTypes ==
  ASSUME session \in [Requests -> SessionRecord], NEW r \in Requests,
         NEW failed \in BOOLEAN, Over(r, failed)
  PROVE  session' \in [Requests -> SessionRecord]
BY DEF SessionRecord, Over, SessionPlaces

LEMMA SessionTypes ==
  ASSUME TypeOK, NEW r \in Requests, SessionStep(r)
  PROVE  session' \in [Requests -> SessionRecord] /\ UNCHANGED <<authorizer, grants>>
<1>0. session \in [Requests -> SessionRecord] /\ grants \in SUBSET Agents
  BY DEF TypeOK, SessionRecord
<1>p. \A p \in SessionPlaces : Goto(r, p) => session' \in [Requests -> SessionRecord]
  BY <1>0, GotoTypes
<1>o. \A f \in BOOLEAN : Over(r, f) => session' \in [Requests -> SessionRecord]
  BY <1>0, OverTypes
<1> USE DEF SessionPlaces
<1>1. CASE CloseOld(r)
  BY <1>p, <1>1 DEF CloseOld
<1>2. CASE GetCachedClient(r)
  BY <1>p, <1>2 DEF GetCachedClient, OpenClient
<1>3. CASE AcquireLock(r)
  BY <1>0, <1>p, <1>3 DEF AcquireLock
<1>4. CASE MaybeInitializeStore(r)
  <2>1. \E p \in SessionPlaces : Goto(r, p)
    BY <1>4 DEF MaybeInitializeStore
  <2> QED
    BY <1>p, <1>4, <2>1 DEF MaybeInitializeStore
<1>5. CASE UpdateAuthModel(r)
  BY <1>p, <1>5 DEF UpdateAuthModel
<1>6. CASE StoreInitialized(r)
  BY <1>p, <1>6 DEF StoreInitialized, OpenClient
<1>7. CASE InitializeFails(r)
  BY <1>o, <1>7 DEF InitializeFails
<1>8. ASSUME NEW failed \in BOOLEAN, Exit(r, failed)
      PROVE  session' \in [Requests -> SessionRecord] /\ UNCHANGED <<authorizer, grants>>
  <2> DEFINE pc == IF client = None THEN "over" ELSE "close"
             fails == failed \/ client = None
             reply == IF session[r].about = Everything THEN grants
                      ELSE grants \cap {session[r].about}
  <2>1. pc \in SessionPlaces /\ reply \in SUBSET Agents
    BY <1>0
  <2>0. fails \in BOOLEAN
    OBVIOUS
  <2>2. session' = [session EXCEPT ![r].pc = pc, ![r].failed = fails, ![r].reply = reply]
    BY <1>8 DEF Exit
  <2> HIDE DEF pc, fails, reply
  <2> DEFINE with == [session[r] EXCEPT !.pc = pc, !.failed = fails, !.reply = reply]
  <2>3. with \in SessionRecord
    BY <1>0, <2>0, <2>1 DEF SessionRecord
  <2>4. session' = [session EXCEPT ![r] = with]
    BY <1>0, <2>2 DEF SessionRecord
  <2> HIDE DEF with
  <2>5. session' \in [Requests -> SessionRecord]
    BY <1>0, <2>3, <2>4
  <2> QED
    BY <1>8, <2>5 DEF Exit
<1>9. CASE Closed(r)
  <2>1. session[r].failed \in BOOLEAN
    BY <1>0 DEF SessionRecord
  <2> QED
    BY <1>o, <1>9, <2>1 DEF Closed
<1> QED
  BY <1>1, <1>2, <1>3, <1>4, <1>5, <1>6, <1>7, <1>8, <1>9 DEF SessionStep, Answered, AskFails

-------------------------------------------------------------------------------
(* A session of the authorizer                                                 *)

(* What a session replies is granted when it does.                             *)
LEMMA RepliesAreGrants ==
  ASSUME TypeOK, NEW r \in Requests, SessionStep(r)
  PROVE  /\ session[r].pc # "none"
         /\ session'[r].reply \subseteq session[r].reply \cup grants
         /\ \A x \in Requests \ {r} : session'[x] = session[x]
<1> DEFINE Moves == /\ session'[r].reply = session[r].reply
                    /\ \A x \in Requests \ {r} : session'[x] = session[x]
<1>g. (\E p : Goto(r, p)) => Moves
  BY DEF TypeOK, Goto
<1>o. (\E f : Over(r, f)) => Moves
  BY DEF TypeOK, Over
<1>u. UNCHANGED session => Moves
  OBVIOUS
<1> HIDE DEF Moves
<1>1. CASE CloseOld(r) \/ GetCachedClient(r) \/ AcquireLock(r)
  <2>1. AtGetClient(r) \/ session[r].pc = "enter"
    BY <1>1 DEF CloseOld, GetCachedClient, AcquireLock
  <2>2. Moves
    BY <1>1, <1>g, <1>u DEF CloseOld, GetCachedClient, OpenClient, AcquireLock
  <2> QED
    BY <2>1, <2>2 DEF Moves, AtGetClient
<1>2. CASE MaybeInitializeStore(r) \/ UpdateAuthModel(r) \/ StoreInitialized(r)
  <2>1. session[r].pc \in {"list_stores", "create_store", "find_model", "write_model"}
    BY <1>2 DEF MaybeInitializeStore, UpdateAuthModel, StoreInitialized
  <2>2. Moves
    BY <1>2, <1>g DEF MaybeInitializeStore, UpdateAuthModel, StoreInitialized, OpenClient
  <2> QED
    BY <2>1, <2>2 DEF Moves
<1>3. CASE InitializeFails(r) \/ Closed(r)
  <2>1. session[r].pc \in {"list_stores", "create_store", "find_model", "write_model", "close"}
    BY <1>3 DEF InitializeFails, Closed, Initializing
  <2>2. Moves
    BY <1>3, <1>o DEF InitializeFails, Closed
  <2> QED
    BY <2>1, <2>2 DEF Moves
<1>4. CASE Answered(r) \/ AskFails(r)
  BY <1>4 DEF TypeOK, Answered, AskFails, Exit
<1> QED
  BY <1>1, <1>2, <1>3, <1>4 DEF SessionStep

LEMMA SessionStepKeeps ==
  ASSUME IInv, NEW r \in Requests, SessionStep(r), UNCHANGED <<stored, allowed, req, changes, seen>>
  PROVE  IInv'
<1>1. TypeOK'
  BY SessionTypes DEF IInv, TypeOK, SessionRecord
<1>2. grants \subseteq Granted /\ Granted' = Granted
  BY SessionTypes DEF IInv, TypeOK, Granted
<1>3. RequestInv(r)'
  BY <1>2, RepliesAreGrants DEF IInv, RequestInv, Sound
<1>4. \A x \in Requests \ {r} : RequestInv(x)'
  BY SessionTypes, RepliesAreGrants, OthersKeepTheirs DEF IInv, Elsewhere
<1> QED
  BY <1>1, <1>3, <1>4 DEF IInv

-------------------------------------------------------------------------------
(* The handlers                                                                *)

(* A handler's step is right if what it makes of its own request is.           *)
LEMMA HandlerStep ==
  ASSUME IInv, NEW r \in Requests, NEW next \in RequestRecord, NEW with \in SessionRecord,
         Step(r, next), session' = [session EXCEPT ![r] = with], HandlerKeeps,
         Sound(next, with, seen[r])
  PROVE  IInv'
<1>1. TypeOK'
  BY DEF IInv, TypeOK, Step, HandlerKeeps, ServerKeeps, SessionRecord, RequestRecord
<1>2. \A x \in Requests \ {r} : RequestInv(x)'
  BY OthersKeepTheirs DEF IInv, TypeOK, Elsewhere, Step, HandlerKeeps, ServerKeeps
<1>3. RequestInv(r)'
  BY DEF IInv, TypeOK, RequestInv, Sound, Granted, Step, HandlerKeeps, ServerKeeps
<1> QED
  BY <1>1, <1>2, <1>3 DEF IInv

(* Sessions that are closed and opened, and answers.                           *)
LEMMA Records ==
  ASSUME TypeOK
  PROVE  /\ NoSession \in SessionRecord
         /\ \A about \in Names : Began(about) \in SessionRecord
         /\ \A given \in SUBSET (Agents \cup {None}) : Answer(given) \in RequestRecord
         /\ \A r \in Requests : req[r] \in RequestRecord /\ session[r] \in SessionRecord
<1>1. NoSession \in SessionRecord
  BY DEF NoSession, SessionRecord, SessionPlaces, Names
<1>2. ASSUME NEW about \in Names PROVE Began(about) \in SessionRecord
  BY DEF Began, NoSession, SessionRecord, SessionPlaces, Names
<1>3. ASSUME NEW given \in SUBSET (Agents \cup {None}) PROVE Answer(given) \in RequestRecord
  BY DEF Answer, NoRequest, RequestRecord, Places, Names
<1>4. \A r \in Requests : req[r] \in RequestRecord /\ session[r] \in SessionRecord
  BY DEF TypeOK, RequestRecord, SessionRecord
<1> QED
  BY <1>1, <1>2, <1>3, <1>4

LEMMA AnswersAreSound ==
  ASSUME IInv, NEW r \in Requests, NEW given \in SUBSET (Agents \cup {None}),
         given \ {None} \subseteq seen[r].granted \cap seen[r].known, HandlerKeeps,
         Step(r, Answer(given)),
         Leave(r) \/ (UNCHANGED session /\ session[r].pc = "none")
  PROVE  IInv'
<1>1. Answer(given) \in RequestRecord /\ NoSession \in SessionRecord /\ session[r] \in SessionRecord
  BY Records DEF IInv
<1>2. CASE Leave(r)
  <2>1. Sound(Answer(given), NoSession, seen[r])
    BY DEF Sound, Answer, NoRequest, NoSession
  <2> QED
    BY <1>1, <1>2, <2>1, HandlerStep DEF Leave
<1>3. CASE UNCHANGED session /\ session[r].pc = "none"
  <2>1. Sound(Answer(given), session[r], seen[r])
    BY <1>3 DEF Sound, Answer, NoRequest
  <2>2. session' = [session EXCEPT ![r] = session[r]]
    BY <1>3 DEF IInv, TypeOK
  <2> QED
    BY <1>1, <2>1, <2>2, HandlerStep
<1> QED
  BY <1>2, <1>3

LEMMA AnswerSteps ==
  ASSUME IInv, NEW r \in Requests,
         \/ AnswerAtOnce(r) \/ RaiseError(r) \/ ToolEnds(r)
         \/ AnswerList(r) \/ AnswerTools(r) \/ LookUpRaises(r)
  PROVE  IInv'
<1> USE DEF IInv
<1>0. /\ RequestInv(r) /\ allowed \subseteq Agents /\ Granted \subseteq Agents
      /\ req[r] \in RequestRecord /\ Listed(r) \in SUBSET Agents
  BY Records DEF TypeOK, Granted, Listed, RequestRecord
<1>1. CASE AnswerAtOnce(r)
  BY <1>0, <1>1, AnswersAreSound DEF AnswerAtOnce, RequestInv, Sound
<1>2. CASE RaiseError(r)
  BY <1>2, AnswersAreSound DEF RaiseError
<1>3. CASE ToolEnds(r)
  <2>1. {req[r].agent} \subseteq seen[r].granted \cap seen[r].known /\ session[r].pc = "none"
    BY <1>0, <1>3 DEF ToolEnds, RequestInv, Sound
  <2>2. {req[r].agent} \in SUBSET (Agents \cup {None})
    BY <1>3, <2>1 DEF TypeOK
  <2> QED
    BY <1>3, <2>1, <2>2, AnswersAreSound DEF ToolEnds
<1>4. CASE AnswerList(r)
  <2>1. Listed(r) \subseteq seen[r].granted \cap seen[r].known /\ session[r].pc = "none"
    BY <1>0, <1>4 DEF AnswerList, RequestInv, Sound, Listed, Granted
  <2>2. req[r].todo \cap Listed(r) \in SUBSET (Agents \cup {None})
    BY <1>0
  <2> QED
    BY <1>4, <2>1, <2>2, AnswersAreSound DEF AnswerList
<1>5. CASE AnswerTools(r)
  <2>1. /\ req[r].given \ {None} \subseteq seen[r].granted \cap seen[r].known
        /\ session[r].pc = "none" /\ req[r].given \in SUBSET (Agents \cup {None})
    BY <1>0, <1>5 DEF AnswerTools, RequestInv, Sound, RequestRecord
  <2> QED
    BY <1>5, <2>1, AnswersAreSound DEF AnswerTools
<1>6. CASE LookUpRaises(r)
  BY <1>0, <1>6, AnswersAreSound DEF LookUpRaises, RequestInv, Sound
<1> QED
  BY <1>1, <1>2, <1>3, <1>4, <1>5, <1>6

(* A handler that has its reply, which is from the time since its request came. *)
LEMMA ReplySteps ==
  ASSUME IInv, NEW r \in Requests,
         CallTool(r) \/ ListAgents(r) \/ GetToolDescription(r) \/ ServeAgent(r) \/ ServeTemporary(r)
  PROVE  IInv'
<1> USE DEF IInv
<1>0. /\ RequestInv(r) /\ allowed \in SUBSET Agents /\ stored \in SUBSET Agents
      /\ req[r] \in RequestRecord /\ session[r].reply \in SUBSET Agents
      /\ NoSession \in SessionRecord
  BY Records DEF TypeOK
<1>1. CASE CallTool(r)
  <2> DEFINE next == [req[r] EXCEPT !.pc = "chat"]
             lets == req[r].agent \in allowed \cap session[r].reply \cap McpAgents
  <2>1. Sound(req[r], session[r], seen[r]) /\ req[r].pc = "asked"
    BY <1>0, <1>1 DEF CallTool, At, RequestInv
  <2>2. CASE lets
    <3>1. next \in RequestRecord
      BY <1>0 DEF RequestRecord, Places
    <3>2. Sound(next, NoSession, seen[r])
      BY <1>0, <2>1, <2>2 DEF Sound, NoSession, RequestRecord
    <3>3. Step(r, next) /\ session' = [session EXCEPT ![r] = NoSession] /\ HandlerKeeps
      BY <1>1, <2>2 DEF CallTool, Leave
    <3> QED
      BY <1>0, <3>1, <3>2, <3>3, HandlerStep
  <2>3. CASE ~lets
    BY <1>1, <2>3, AnswersAreSound DEF CallTool
  <2> QED
    BY <2>2, <2>3
<1>2. CASE ListAgents(r)
  <2> DEFINE next == [req[r] EXCEPT !.pc = "list", !.listed = session[r].reply \cap allowed,
                                    !.todo = stored]
  <2>1. Sound(req[r], session[r], seen[r]) /\ req[r].pc = "asked"
    BY <1>0, <1>2 DEF ListAgents, At, RequestInv
  <2>2. next \in RequestRecord
    BY <1>0 DEF RequestRecord, Places
  <2>3. Sound(next, NoSession, seen[r])
    BY <1>0, <2>1 DEF Sound, NoSession, RequestRecord
  <2>4. Step(r, next) /\ session' = [session EXCEPT ![r] = NoSession] /\ HandlerKeeps
    BY <1>2 DEF ListAgents, Leave
  <2> QED
    BY <1>0, <2>2, <2>3, <2>4, HandlerStep
<1>3. CASE GetToolDescription(r)
  <2> DEFINE next == [req[r] EXCEPT !.pc = "list", !.given = @ \cup {Described(r)}]
  <2>1. Sound(req[r], session[r], seen[r]) /\ req[r].pc = "describe"
    BY <1>0, <1>3 DEF GetToolDescription, At, RequestInv
  <2>2. {Described(r)} \ {None} \subseteq Agents \cap seen[r].granted \cap seen[r].known
    BY <1>0, <2>1 DEF Described, Sound
  <2>3. next \in RequestRecord
    BY <1>0, <2>2 DEF RequestRecord, Places
  <2>4. Sound(next, NoSession, seen[r])
    BY <1>0, <2>1, <2>2 DEF Sound, NoSession, RequestRecord
  <2>5. Step(r, next) /\ session' = [session EXCEPT ![r] = NoSession] /\ HandlerKeeps
    BY <1>3 DEF GetToolDescription, Leave
  <2> QED
    BY <1>0, <2>3, <2>4, <2>5, HandlerStep
<1>4. CASE ServeAgent(r)
  <2> DEFINE next == [req[r] EXCEPT !.pc = "look up"]
  <2>1. Sound(req[r], session[r], seen[r]) /\ req[r].pc = "asked"
    BY <1>0, <1>4 DEF ServeAgent, At, RequestInv
  <2>2. CASE req[r].agent \notin session[r].reply
    BY <1>4, <2>2, AnswersAreSound DEF ServeAgent, GetService
  <2>3. CASE req[r].agent \in session[r].reply \cap allowed
    <3>1. {req[r].agent} \subseteq seen[r].granted \cap seen[r].known \cap Agents
      BY <1>0, <2>1, <2>3 DEF Sound
    <3> QED
      BY <1>4, <2>3, <3>1, AnswersAreSound DEF ServeAgent, GetService
  <2>4. CASE req[r].agent \in session[r].reply \ allowed /\ req[r].agent \in TempAgents
    <3>1. next \in RequestRecord
      BY <1>0 DEF RequestRecord, Places
    <3>2. Sound(next, NoSession, seen[r])
      BY <1>0, <2>1, <2>4 DEF Sound, NoSession, RequestRecord
    <3>3. Step(r, next) /\ session' = [session EXCEPT ![r] = NoSession] /\ HandlerKeeps
      BY <1>4, <2>4 DEF ServeAgent, GetService, Leave
    <3> QED
      BY <1>0, <3>1, <3>2, <3>3, HandlerStep
  <2>5. CASE req[r].agent \in session[r].reply \ allowed /\ req[r].agent \notin TempAgents
    BY <1>4, <2>5, AnswersAreSound DEF ServeAgent, GetService
  <2> QED
    BY <2>2, <2>3, <2>4, <2>5
<1>5. CASE ServeTemporary(r)
  <2>1. Sound(req[r], session[r], seen[r]) /\ req[r].pc = "asked again"
    BY <1>0, <1>5 DEF ServeTemporary, At, RequestInv
  <2>2. CASE req[r].agent \in allowed
    <3>1. {req[r].agent} \subseteq seen[r].granted \cap seen[r].known \cap Agents
      BY <1>0, <2>1, <2>2 DEF Sound
    <3> QED
      BY <1>5, <2>2, <3>1, AnswersAreSound DEF ServeTemporary
  <2>3. CASE req[r].agent \notin allowed
    BY <1>5, <2>3, AnswersAreSound DEF ServeTemporary
  <2> QED
    BY <2>2, <2>3
<1> QED
  BY <1>1, <1>2, <1>3, <1>4, <1>5

(* A handler that asks once more.                                              *)
LEMMA Asking ==
  ASSUME IInv, NEW r \in Requests, NEW next \in RequestRecord, next.agent \in Agents,
         next.pc \in {"describe", "asked again"}, req[r].pc \in {"list", "look up"},
         next.listed = req[r].listed, next.given = req[r].given,
         next.pc = "asked again" => req[r].pc = "look up" /\ next.agent = req[r].agent,
         Step(r, next), Ask(r, next.agent), HandlerKeeps
  PROVE  IInv'
<1>1. Began(next.agent) \in SessionRecord
  BY Records DEF IInv, Names
<1>2. Began(next.agent).reply \subseteq Granted
  BY DEF Began, NoSession, Granted
<1>3. Sound(next, Began(next.agent), seen[r])
  BY <1>2 DEF IInv, RequestInv, Sound
<1> QED
  BY <1>1, <1>3, HandlerStep DEF Ask

LEMMA AskingSteps ==
  ASSUME IInv, NEW r \in Requests, DescribeNext(r) \/ AskAgain(r)
  PROVE  IInv'
<1> USE DEF IInv
<1>0. /\ RequestInv(r) /\ req[r] \in RequestRecord /\ session[r] \in SessionRecord
      /\ session = [session EXCEPT ![r] = session[r]]
  BY Records DEF TypeOK
<1>1. CASE DescribeNext(r)
  <2>1. PICK a \in req[r].todo :
          LET rest == [req[r] EXCEPT !.todo = @ \ {a}]
          IN  IF a \in Listed(r) \cap stored \cap McpAgents
                THEN Step(r, [rest EXCEPT !.pc = "describe", !.agent = a]) /\ Ask(r, a)
                ELSE Step(r, rest) /\ UNCHANGED session
    BY <1>1 DEF DescribeNext
  <2> DEFINE rest == [req[r] EXCEPT !.todo = @ \ {a}]
             next == [rest EXCEPT !.pc = "describe", !.agent = a]
  <2>2. a \in Agents /\ rest \in RequestRecord /\ req[r].pc = "list"
    BY <1>0, <1>1 DEF RequestRecord, DescribeNext
  <2>3. CASE a \in Listed(r) \cap stored \cap McpAgents
    <3>1. next \in RequestRecord /\ next.agent = a /\ next.pc = "describe"
          /\ next.listed = req[r].listed /\ next.given = req[r].given
      BY <1>0, <2>2 DEF RequestRecord, Places, Names
    <3>2. Step(r, next) /\ Ask(r, next.agent) /\ HandlerKeeps
      BY <1>1, <2>1, <2>3, <3>1 DEF DescribeNext
    <3> QED
      BY <2>2, <3>1, <3>2, Asking
  <2>4. CASE ~(a \in Listed(r) \cap stored \cap McpAgents)
    <3>1. Step(r, rest) /\ UNCHANGED session /\ HandlerKeeps
      BY <1>1, <2>1, <2>4 DEF DescribeNext
    <3>2. Sound(rest, session[r], seen[r])
      BY <1>0 DEF RequestInv, Sound, RequestRecord
    <3> QED
      BY <1>0, <2>2, <3>1, <3>2, HandlerStep
  <2> QED
    BY <2>3, <2>4
<1>2. CASE AskAgain(r)
  <2> DEFINE next == [req[r] EXCEPT !.pc = "asked again"]
  <2>1. CASE req[r].found
    <3>1. next \in RequestRecord /\ next.pc = "asked again" /\ next.agent = req[r].agent
          /\ next.listed = req[r].listed /\ next.given = req[r].given
      BY <1>0 DEF RequestRecord, Places
    <3>2. req[r].pc = "look up" /\ next.agent \in Agents
      BY <1>0, <1>2, <3>1 DEF AskAgain, RequestInv, Sound, TypeOK
    <3>3. Step(r, next) /\ Ask(r, next.agent) /\ HandlerKeeps
      BY <1>2, <2>1, <3>1 DEF AskAgain
    <3> QED
      BY <3>1, <3>2, <3>3, Asking
  <2>2. CASE ~req[r].found
    <3>1. session[r].pc = "none"
      BY <1>0, <1>2 DEF AskAgain, RequestInv, Sound
    <3> QED
      BY <1>2, <2>2, <3>1, AnswersAreSound DEF AskAgain
  <2> QED
    BY <2>1, <2>2
<1> QED
  BY <1>1, <1>2

(* A request that comes: what it has seen is what holds now.                   *)
LEMMA Arriving ==
  ASSUME IInv, NEW r \in Requests, AskPolicy(r)
  PROVE  IInv'
<1>1. PICK method \in Methods, agent \in Names :
        /\ Step(r, [NoRequest EXCEPT !.pc = "asked", !.method = method, !.agent = agent])
        /\ Ask(r, agent)
  BY DEF AskPolicy, Names
<1> DEFINE next == [NoRequest EXCEPT !.pc = "asked", !.method = method, !.agent = agent]
           saw == [granted |-> Granted, known |-> allowed]
<1>2. next \in RequestRecord /\ next.pc = "asked" /\ next.listed = {} /\ next.given = {}
  BY DEF NoRequest, RequestRecord, Places, Names
<1>3. Began(agent) \in SessionRecord
  BY Records DEF IInv
<1>4. /\ req' = [req EXCEPT ![r] = next] /\ session' = [session EXCEPT ![r] = Began(agent)]
      /\ seen' = [seen EXCEPT ![r] = saw] /\ ServerKeeps /\ UNCHANGED allowed
  BY <1>1 DEF AskPolicy, Step, Ask
<1>5. saw \in [granted : SUBSET Agents, known : SUBSET Agents]
  BY DEF IInv, TypeOK, Granted
<1>6. Sound(next, Began(agent), saw)
  <2>1. Began(agent).reply \subseteq Granted
    BY DEF Began, NoSession, Granted
  <2> QED
    BY <1>2, <2>1 DEF Sound
<1> HIDE DEF next, saw
<1>7. TypeOK'
  BY <1>2, <1>3, <1>4, <1>5 DEF IInv, TypeOK, ServerKeeps, RequestRecord, SessionRecord
<1>8. \A x \in Requests \ {r} : RequestInv(x)'
  BY <1>4, OthersKeepTheirs DEF IInv, TypeOK, Elsewhere, ServerKeeps
<1>9. RequestInv(r)'
  <2>1. req'[r] = next /\ session'[r] = Began(agent) /\ seen'[r] = saw
    BY <1>4 DEF IInv, TypeOK
  <2>2. Granted' = Granted /\ allowed' = allowed
    BY <1>4 DEF ServerKeeps, Granted
  <2> QED
    BY <1>6, <2>1, <2>2 DEF RequestInv, Sound
<1> QED
  BY <1>7, <1>8, <1>9 DEF IInv

-------------------------------------------------------------------------------
(* Whatever grants and tables become                                           *)

(* A change that every request under way sees keeps them sound: all that is    *)
(* granted and known after it was so before it, or is among what they see.     *)
LEMMA SeenByAll ==
  ASSUME IInv, NEW granted \in SUBSET Agents, NEW known \in SUBSET Agents,
         See(granted, known), UNCHANGED <<authorizer, session, stored>>,
         grants' \subseteq grants \cup granted, allowed' \subseteq allowed \cup known,
         \/ UNCHANGED req
         \/ \E r \in Requests, found \in BOOLEAN :
              req' = [req EXCEPT ![r] = [req[r] EXCEPT !.found = found]]
  PROVE  IInv'
<1> DEFINE Same(x) == /\ req'[x].pc = req[x].pc /\ req'[x].agent = req[x].agent
                      /\ req'[x].listed = req[x].listed /\ req'[x].given = req[x].given
<1>1. req' \in [Requests -> RequestRecord] /\ \A x \in Requests : Same(x)
  <2>0. req \in [Requests -> RequestRecord]
    BY DEF IInv, TypeOK, RequestRecord
  <2>1. CASE UNCHANGED req
    BY <2>0, <2>1
  <2>2. ASSUME NEW r \in Requests, NEW found \in BOOLEAN,
               req' = [req EXCEPT ![r] = [req[r] EXCEPT !.found = found]]
        PROVE  req' \in [Requests -> RequestRecord] /\ \A x \in Requests : Same(x)
    <3> DEFINE next == [req[r] EXCEPT !.found = found]
    <3>1. next \in RequestRecord /\ next.pc = req[r].pc /\ next.agent = req[r].agent
          /\ next.listed = req[r].listed /\ next.given = req[r].given
      BY <2>0 DEF RequestRecord
    <3> HIDE DEF next
    <3>2. req' = [req EXCEPT ![r] = next]
      BY <2>2 DEF next
    <3> QED
      BY <2>0, <3>1, <3>2
  <2> QED
    BY <2>1, <2>2
<1>2. seen' \in [Requests -> [granted : SUBSET Agents, known : SUBSET Agents]]
  BY DEF IInv, TypeOK, See
<1>3. TypeOK'
  BY <1>1, <1>2 DEF IInv, TypeOK, RequestRecord
<1>4. Granted' \subseteq Granted \cup granted
  BY DEF Granted
<1>5. ASSUME NEW x \in Requests PROVE RequestInv(x)'
  <2>1. Sound(req[x], session[x], seen[x]) /\ Same(x) /\ session'[x] = session[x]
    BY <1>1, <1>5 DEF IInv, RequestInv
  <2>2. CASE x \in Working
    <3>1. /\ seen'[x].granted = seen[x].granted \cup granted
          /\ seen'[x].known = seen[x].known \cup known
      BY <2>2 DEF See
    <3> QED
      BY <1>4, <2>1, <2>2, <3>1 DEF RequestInv, Sound, Working
  <2>3. CASE x \notin Working
    <3>1. seen'[x] = seen[x]
      BY <2>3 DEF See
    <3> QED
      BY <2>1, <2>3, <3>1 DEF RequestInv, Sound, Working
  <2> QED
    BY <2>2, <2>3
<1> QED
  BY <1>3, <1>5 DEF IInv

(* What goes away takes nothing from what requests have seen.                  *)
LEMMA UnseenByAll ==
  ASSUME IInv, UNCHANGED <<authorizer, session, req, seen>>,
         stored' \subseteq Agents, grants' \subseteq grants, allowed' \subseteq allowed
  PROVE  IInv'
<1>1. TypeOK'
  BY DEF IInv, TypeOK
<1>2. Granted' \subseteq Granted
  BY DEF Granted
<1>3. \A x \in Requests : RequestInv(x)'
  BY <1>2 DEF IInv, RequestInv, Sound
<1> QED
  BY <1>1, <1>3 DEF IInv

LEMMA OtherSteps == ASSUME IInv, Others PROVE IInv'
<1> USE DEF authVars
<1>1. CASE ChangeStorage
  BY <1>1, UnseenByAll DEF ChangeStorage, Change, IInv, TypeOK
<1>2. CASE NotifyListeners
  <2>1. PICK a \in (stored \ allowed) \cup (allowed \ (stored \cup TempAgents)) :
          /\ allowed' = IF a \in stored THEN allowed \cup {a} ELSE allowed \ {a}
          /\ See({}, {a} \cap stored)
    BY <1>2 DEF NotifyListeners
  <2>2. {a} \cap stored \in SUBSET Agents /\ {} \in SUBSET Agents
    BY DEF IInv, TypeOK
  <2>3. UNCHANGED <<authorizer, grants, session, stored, req>>
    BY <1>2 DEF NotifyListeners
  <2>4. allowed' \subseteq allowed \cup ({a} \cap stored)
    BY <2>1
  <2> QED
    BY <2>1, <2>2, <2>3, <2>4, SeenByAll
<1>3. CASE ExpireTemporary
  BY <1>3, UnseenByAll DEF ExpireTemporary, Change, IInv, TypeOK
<1>4. CASE ChangeGrants
  <2>1. PICK a \in Agents : \/ Grant(a) /\ See({a}, {})
                            \/ Revoke(a) /\ UNCHANGED seen
    BY <1>4 DEF ChangeGrants
  <2>2. UNCHANGED <<authorizer, session, stored, allowed, req>>
    BY <1>4 DEF ChangeGrants, Change
  <2>3. CASE Revoke(a) /\ UNCHANGED seen
    BY <2>2, <2>3, UnseenByAll DEF Revoke, IInv, TypeOK
  <2>4. CASE Grant(a) /\ See({a}, {})
    <3>1. grants' = grants \cup {a} /\ See({a}, {})
      BY <2>4 DEF Grant
    <3> QED
      BY <2>2, <3>1, SeenByAll
  <2> QED
    BY <2>1, <2>3, <2>4
<1> QED
  BY <1>1, <1>2, <1>3, <1>4 DEF Others

LEMMA LookUpStep == ASSUME IInv, NEW r \in Requests, LookUp(r) PROVE IInv'
<1>1. PICK found \in BOOLEAN, new \in SUBSET {req[r].agent} :
        /\ Step(r, [req[r] EXCEPT !.found = found])
        /\ allowed' = allowed \cup new /\ See({}, new)
  BY DEF LookUp
<1>2. req[r].agent \in Agents
  BY DEF LookUp, IInv, RequestInv, Sound, TypeOK
<1>3. new \in SUBSET Agents /\ allowed' = allowed \cup new /\ See({}, new)
  BY <1>1, <1>2
<1>4. UNCHANGED <<authorizer, grants, stored, session>>
  BY DEF LookUp, ServerKeeps
<1>5. req' = [req EXCEPT ![r] = [req[r] EXCEPT !.found = found]]
  BY <1>1 DEF Step
<1> QED
  BY <1>3, <1>4, <1>5, SeenByAll

-------------------------------------------------------------------------------
(* All steps                                                                   *)

LEMMA NextKeeps == ASSUME IInv, [Next]_vars PROVE IInv'
<1>1. ASSUME NEW r \in Requests, Arrive(r) PROVE IInv'
  BY <1>1, AnswerSteps, Arriving DEF Arrive
<1>2. ASSUME NEW r \in Requests, Progress(r) PROVE IInv'
  BY <1>2, SessionStepKeeps, AnswerSteps, ReplySteps, AskingSteps, LookUpStep DEF Progress
<1>3. CASE Others
  BY <1>3, OtherSteps
<1>4. CASE UNCHANGED vars
  BY <1>4, UnseenByAll DEF vars, authVars, IInv, TypeOK
<1> QED
  BY <1>1, <1>2, <1>3, <1>4 DEF Next

LEMMA Invariance == Spec => []IInv
BY InitIsFine, NextKeeps, PTL DEF Spec

(* Types: whatever the order of the requests, the threads and the changes.     *)
THEOREM TypeCorrect == Spec => []TypeOK
BY Invariance, PTL DEF IInv

(* No handler gives away an agent that was not granted to its actor, or that   *)
(* did not exist, at any moment from its request to its answer, whatever other *)
(* requests, threads and administrators do between the questions of MCP's      *)
(* tools/list and tools/call, of the concierge and of get_service().           *)
THEOREM OnlyAllowedIsGiven == Spec => []AnswersWereAllowed
<1>1. IInv => AnswersWereAllowed
  BY DEF IInv, RequestInv, Sound, AnswersWereAllowed
<1> QED
  BY <1>1, Invariance, PTL
===============================================================================
