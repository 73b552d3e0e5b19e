---------------------------- MODULE AgentRun_proofs ---------------------------
(***************************************************************************)
(* The safety of a conversation's turns, for any network, any number of    *)
(* calls, retries and turns, and any behaviour of LLMs and tools.          *)
(***************************************************************************)
EXTENDS AgentRun, TLAPS, SequenceTheorems, WellFoundedInduction

Places == {"free", "asked", "running", "answered", "timed out", "closing",
           "cancelled", "raised", "returned"}
Messages == [by : {"user", "agent", "tool", "framework", "nobody"},
             says : {"question", "answer", "nothing"}, turn : Nat]
Histories == Seq(Messages)

TypeOK ==
    /\ turn \in Nat /\ phase \in {"idle", "running", "over"}
    /\ context \in Histories /\ answer \in Messages
    /\ used \in 0 .. MaxCalls
    /\ place \in [Calls -> Places] /\ agent \in [Calls -> Agents \cup {NoAgent}]
    /\ callers \in [Calls -> SUBSET Calls]
    /\ tool_to_index_map \in [Agents -> Nat \ {0}] /\ index \in [Calls -> Nat]
    /\ attempts \in [Calls -> Nat] /\ iterations \in [Calls -> Nat]
    /\ chat_history \in [Calls -> Histories]
    /\ replies \in [Calls -> Nat] /\ token_accounting \in [Calls -> Nat]
    /\ late \subseteq Calls /\ open \subseteq Calls

(* The calls so far have an agent, and are called by agents with an LLM, the    *)
(* front man among them.                                                        *)
CallInv(c) ==
    /\ place[c] = "free" <=> c > used
    /\ place[c] = "free" => callers[c] = {}
    /\ place[c] = "asked" => c # Front
    /\ place[c] # "free" => agent[c] \in Agents
    /\ place[c] # "free" => IF c = Front THEN agent[c] = FrontMan /\ callers[c] = {}
                            ELSE Front \in callers[c]
    /\ c \notin callers[c]
    /\ \A s \in callers[c] :
          place[s] # "free" /\ agent[s] \notin Code /\ callers[s] \subseteq callers[c]

(* An origin was taken from the map, which is ahead of it now.                  *)
OriginInv(c) ==
    /\ place[c] = "free" => index[c] = 0
    /\ index[c] # 0 => index[c] < tool_to_index_map[agent[c]]

(* Who waits for a call in motion is running, and so is the turn.               *)
MotionInv(c) == Live(c) => phase = "running" /\ \A s \in callers[c] : place[s] = "running"

Answers == Message("agent", "answer")
(* An agent has said something while it is under way, its answer if it is done. *)
SpeechInv(c) == agent[c] \notin Code =>
    /\ place[c] \in {"running", "answered", "timed out", "closing"} => chat_history[c] # <<>>
    /\ c \notin late /\ place[c] \in {"answered", "closing", "returned"} =>
          chat_history[c] # <<>> /\ LastOf(chat_history[c]) = Answers
    /\ place[c] = "timed out" => c \in late

(* Nothing in a history is from the future, and a tool has answered this turn.  *)
HistoryInv(c) == \A i \in 1 .. Len(chat_history[c]) :
    LET m == chat_history[c][i]
    IN  m.turn <= turn /\ (late = {} /\ m.by = "tool" /\ m.turn = turn => m.says = "answer")

(* Replies are counted for an agent that is under way, and reported at its end. *)
TokenInv(c) ==
    /\ place[c] \in {"free", "asked"} => replies[c] = 0
    /\ place[c] \in {"free", "asked", "running", "answered", "timed out", "raised"} =>
          token_accounting[c] = 0
    /\ place[c] \in {"closing", "returned"} => token_accounting[c] = replies[c]
    /\ agent[c] \in Code => replies[c] = 0 /\ token_accounting[c] = 0
    /\ c \in open => place[c] \notin {"free", "asked", "returned"}

TurnInv ==
    /\ phase = "idle" => used = 0
    /\ phase # "over" => answer = NoMessage
    /\ \A i \in 1 .. Len(context) : IF phase = "over" THEN context[i].turn <= turn ELSE context[i].turn < turn
    /\ phase = "over" =>
          /\ late = {} => IF place[Front] = "raised" THEN answer = NoMessage
                          ELSE answer.turn = turn /\ answer.by # "tool"
          /\ used > 0 /\ Front \notin late /\ place[Front] # "raised" => context # <<>> /\ LastOf(context) = Answers

Whole(c) == /\ CallInv(c) /\ OriginInv(c) /\ MotionInv(c) /\ SpeechInv(c)
            /\ HistoryInv(c) /\ TokenInv(c)

IInv == TypeOK /\ TurnInv /\ OriginsAreUnique /\ \A c \in Calls : Whole(c)

-----------------------------------------------------------------------------
(* What the operators do                                                       *)

LEMMA LeastNumber ==
    ASSUME NEW T \in SUBSET Nat, T # {}
    PROVE  \E x \in T : \A y \in T : x <= y
<1>1. PICK x \in T : \A y \in T : ~ (<<y, x>> \in OpToRel(<, Nat))
    BY WFMin, NatLessThanWellFounded
<1>2. \A y \in T : ~ (y < x)
    BY <1>1 DEF OpToRel
<1>3. \A y \in T : x <= y
    BY <1>2
<1> QED
    BY <1>3

LEMMA Last ==
    ASSUME NEW n \in Nat, NEW T \in SUBSET (1 .. n), T # {}
    PROVE  \E i \in T : \A j \in T : j <= i
<1> DEFINE Rest == {n - i : i \in T}
<1>0. \A i \in T : i \in Nat /\ n - i \in Nat
    OBVIOUS
<1>1. Rest \in SUBSET Nat /\ Rest # {}
    BY <1>0
<1>2. PICK x \in Rest : \A y \in Rest : x <= y
    BY <1>1, LeastNumber
<1>3. PICK i \in T : x = n - i
    OBVIOUS
<1>4. \A j \in T : n - i <= n - j
    BY <1>2, <1>3
<1>5. \A j \in T : j <= i
    BY <1>0, <1>4
<1> QED
    BY <1>5

LEMMA Numbers ==
    /\ MaxCalls \in Nat /\ Calls = 1 .. MaxCalls /\ Calls \in SUBSET Nat
    /\ Front \in Calls /\ \A c \in Calls : Front <= c /\ c <= MaxCalls
BY ConstantsAssumption DEF Calls, Front

LEMMA SetPlace ==
    ASSUME TypeOK, NEW c \in Calls, NEW p \in Places, place' = Set(place, c, p)
    PROVE  /\ place' \in [Calls -> Places] /\ place'[c] = p
           /\ \A x \in Calls \ {c} : place'[x] = place[x]
<1>1. place \in [Calls -> Places]
    BY DEF TypeOK
<1> QED
    BY <1>1 DEF Set

LEMMA SetHistory ==
    ASSUME TypeOK, NEW c \in Calls, NEW h \in Histories, chat_history' = Set(chat_history, c, h)
    PROVE  /\ chat_history' \in [Calls -> Histories] /\ chat_history'[c] = h
           /\ \A x \in Calls \ {c} : chat_history'[x] = chat_history[x]
<1>1. chat_history \in [Calls -> Histories]
    BY DEF TypeOK
<1> QED
    BY <1>1 DEF Set

LEMMA CallerWaits ==
    ASSUME NEW c \in Calls, callers[c] \in SUBSET Calls, callers[c] # {}
    PROVE  Caller(c) \in callers[c]
<1>1. \E s \in callers[c] : \A t \in callers[c] : t <= s
    BY Numbers, Last
<1> QED
    BY <1>1 DEF Caller

LEMMA MessageIs ==
    ASSUME turn \in Nat
    PROVE  /\ \A by \in {"user", "agent", "tool", "framework"}, says \in {"question", "answer", "nothing"} :
                /\ Message(by, says) \in Messages /\ Message(by, says).by = by
                /\ Message(by, says).says = says /\ Message(by, says).turn = turn
           /\ Answers = Message("agent", "answer")
           /\ NoMessage \in Messages
BY DEF Message, Messages, Answers, NoMessage

(* A message more at the end of a history                                      *)
LEMMA AppendIs ==
    ASSUME NEW h \in Histories, NEW m \in Messages
    PROVE  /\ Append(h, m) \in Histories /\ Append(h, m) # <<>>
           /\ LastOf(Append(h, m)) = m
           /\ \A i \in 1 .. Len(Append(h, m)) : Append(h, m)[i] = m \/ (i \in 1 .. Len(h) /\ Append(h, m)[i] = h[i])
<1> HIDE DEF Messages
<1> QED
    BY DEF Histories, LastOf

LEMMA TurnsAreNumbers ==
    ASSUME NEW h \in Histories
    PROVE  \A i \in 1 .. Len(h) : h[i] \in Messages /\ h[i].turn \in Nat
<1>1. \A i \in 1 .. Len(h) : h[i] \in Messages
    <2> HIDE DEF Messages
    <2> QED
        BY DEF Histories
<1> QED
    BY <1>1 DEF Messages

LEMMA EmptyHistory == <<>> \in Histories /\ Len(<<>>) = 0
BY DEF Histories

-----------------------------------------------------------------------------
(* The calls that a step leaves as they are                                    *)

Same(x) ==
    /\ place'[x] = place[x] /\ agent'[x] = agent[x] /\ callers'[x] = callers[x]
    /\ index'[x] = index[x] /\ chat_history'[x] = chat_history[x]
    /\ replies'[x] = replies[x] /\ token_accounting'[x] = token_accounting[x]
    /\ x \in open' => x \in open
    /\ x \in late' <=> x \in late
    /\ x > used' <=> x > used

Onward ==
    /\ turn' = turn /\ late \subseteq late'
    /\ \A s \in Calls : place[s] # "free" => 
          place'[s] # "free" /\ agent'[s] = agent[s] /\ callers'[s] = callers[s]
    /\ \A a \in Agents : tool_to_index_map[a] <= tool_to_index_map'[a]
                         /\ tool_to_index_map'[a] \in Nat

LEMMA Untouched ==
    ASSUME IInv, Onward, NEW x \in Calls, Same(x),
           Live(x) => phase' = phase /\ \A s \in callers[x] : place'[s] = "running"
    PROVE  Whole(x)'
<1>0. Whole(x) /\ callers[x] \subseteq Calls /\ index[x] \in Nat
    BY DEF IInv, TypeOK
<1>1. CallInv(x)'
    BY <1>0 DEF Whole, CallInv, Same, Onward
<1>2. OriginInv(x)'
    <2>1. place[x] = "free" => index[x] = 0
        BY <1>0 DEF Whole, OriginInv
    <2>2. ASSUME index[x] # 0 PROVE index[x] < tool_to_index_map'[agent[x]]
        <3>1. agent[x] \in Agents /\ index[x] < tool_to_index_map[agent[x]]
            BY <1>0, <2>1, <2>2 DEF Whole, CallInv, OriginInv
        <3> QED
            BY <1>0, <3>1 DEF Onward, IInv, TypeOK
    <2> QED
        BY <2>1, <2>2 DEF OriginInv, Same
<1>3. MotionInv(x)'
    BY <1>0 DEF Whole, MotionInv, Live, Same
<1>4. SpeechInv(x)'
    BY <1>0 DEF Whole, SpeechInv, Answers, Message, Same, Onward
<1>5. HistoryInv(x)'
    BY <1>0 DEF Whole, HistoryInv, Same, Onward
<1>6. TokenInv(x)'
    BY <1>0 DEF Whole, TokenInv, Same
<1> QED
    BY <1>1, <1>2, <1>3, <1>4, <1>5, <1>6 DEF Whole

(* Nobody in motion waits for a call that thinks, or that does not run.         *)
LEMMA NobodyWaits ==
    ASSUME IInv, NEW c \in Calls, Thinking(c) \/ place[c] # "running" \/ agent[c] \in Code,
           NEW x \in Calls, Live(x)
    PROVE  c \notin callers[x]
BY DEF IInv, Whole, CallInv, MotionInv, Thinking, Waiting, Callees

LEMMA OriginsStay ==
    ASSUME OriginsAreUnique, UNCHANGED index,
           \A c \in Calls : index[c] # 0 => agent'[c] = agent[c],
           \A c, d \in Calls : index[c] # 0 /\ agent'[c] = agent'[d] => agent[c] = agent[d] \/ index[d] = 0
    PROVE  OriginsAreUnique'
BY DEF OriginsAreUnique

LEMMA InitIsFine == Init => IInv
<1> SUFFICES ASSUME Init PROVE IInv
    OBVIOUS
<1>0. /\ turn = 1 /\ phase = "idle" /\ context = <<>> /\ answer = NoMessage /\ used = 0
      /\ late = {} /\ open = {} /\ tool_to_index_map = [a \in Agents |-> 1]
      /\ \A c \in Calls : /\ place[c] = "free" /\ agent[c] = NoAgent /\ callers[c] = {}
                          /\ index[c] = 0 /\ chat_history[c] = <<>>
                          /\ replies[c] = 0 /\ token_accounting[c] = 0
    BY DEF Init, None
<1>1. TypeOK
    <2>1. NoMessage \in Messages
        BY DEF NoMessage, Messages
    <2> QED
        BY <2>1, EmptyHistory, Numbers DEF Init, None, TypeOK, Places
<1>2. TurnInv
    BY <1>0, EmptyHistory DEF TurnInv
<1>3. OriginsAreUnique
    BY <1>0 DEF OriginsAreUnique
<1>4. ASSUME NEW c \in Calls PROVE Whole(c)
    <2>1. c > used
        BY <1>0, Numbers
    <2>2. CallInv(c)
        BY <1>0, <2>1 DEF CallInv
    <2>3. HistoryInv(c)
        BY <1>0, EmptyHistory DEF HistoryInv
    <2> QED
        BY <1>0, <2>2, <2>3 DEF Whole, OriginInv, MotionInv, Live, SpeechInv, TokenInv
<1> QED
    BY <1>1, <1>2, <1>3, <1>4 DEF IInv

-----------------------------------------------------------------------------
(* The start of a turn and of its calls                                        *)

(* The origin that a call takes is one that no other call has.                  *)
LEMMA OriginIsNew ==
    ASSUME IInv, NEW c \in Calls, NEW a \in Agents, AddSpecNameToOrigin(c, a),
           agent' \in [Calls -> Agents \cup {NoAgent}], agent'[c] = a,
           \A x \in Calls \ {c} : agent'[x] = agent[x]
    PROVE  /\ OriginsAreUnique'
           /\ index' \in [Calls -> Nat] /\ tool_to_index_map' \in [Agents -> Nat \ {0}]
           /\ index'[c] # 0 /\ index'[c] < tool_to_index_map'[a]
           /\ \A x \in Calls \ {c} : index'[x] = index[x]
           /\ \A b \in Agents : tool_to_index_map[b] <= tool_to_index_map'[b]
                                /\ tool_to_index_map'[b] \in Nat
<1>1. /\ tool_to_index_map \in [Agents -> Nat \ {0}] /\ index \in [Calls -> Nat]
      /\ tool_to_index_map[a] \in Nat \ {0}
    BY DEF IInv, TypeOK
<1>2. /\ index' = Set(index, c, tool_to_index_map[a])
      /\ tool_to_index_map' = [tool_to_index_map EXCEPT ![a] = tool_to_index_map[a] + 1]
    BY DEF AddSpecNameToOrigin
<1>3. /\ index' \in [Calls -> Nat] /\ index'[c] = tool_to_index_map[a]
      /\ \A x \in Calls \ {c} : index'[x] = index[x]
    BY <1>1, <1>2 DEF Set
<1>4. /\ tool_to_index_map' \in [Agents -> Nat \ {0}]
      /\ tool_to_index_map'[a] = tool_to_index_map[a] + 1
      /\ \A b \in Agents \ {a} : tool_to_index_map'[b] = tool_to_index_map[b]
    BY <1>1, <1>2
<1>5. \A b \in Agents : tool_to_index_map[b] <= tool_to_index_map'[b]
                        /\ tool_to_index_map'[b] \in Nat
    BY <1>1, <1>4
<1>6. \A x \in Calls : index[x] # 0 => index[x] < tool_to_index_map[agent[x]]
    BY DEF IInv, Whole, OriginInv
<1>7. \A x \in Calls \ {c} : agent'[x] = a /\ index'[x] # 0 => index'[x] # index'[c]
    BY <1>1, <1>3, <1>6
<1>8. OriginsAreUnique'
    BY <1>1, <1>3, <1>7 DEF OriginsAreUnique, IInv
<1> QED
    BY <1>1, <1>3, <1>4, <1>5, <1>8

LEMMA StartTurnStep == ASSUME IInv, StartTurn PROVE IInv'
<1> DEFINE question == Message("user", "question")
           h == Append(context, question)
<1>0. /\ used = 0 /\ \A x \in Calls : place[x] = "free" /\ x > 0
      /\ FrontMan \in Agents /\ FrontMan \notin Code /\ turn \in Nat /\ context \in Histories
      /\ Front \in Calls
    BY Numbers, ConstantsAssumption DEF StartTurn, IInv, TurnInv, TypeOK, Whole, CallInv
<1>1. /\ phase = "idle" /\ phase' = "running" /\ used' = Front
      /\ agent' = Set(agent, Front, FrontMan) /\ place' = Set(place, Front, "running")
      /\ open' = open \cup {Front} /\ chat_history' = Set(chat_history, Front, h)
      /\ UNCHANGED <<turn, context, answer, callers, attempts, iterations, replies,
                     token_accounting, late>>
    BY DEF StartTurn, CreateResources, SubmitMessage, HistoryAtFirst, chain, tokens
<1>2. /\ question \in Messages /\ question.by = "user" /\ question.turn = turn
    BY <1>0, MessageIs
<1>3. h \in Histories /\ h # <<>> /\ LastOf(h) = question
      /\ \A i \in 1 .. Len(h) : h[i] = question \/ (i \in 1 .. Len(context) /\ h[i] = context[i])
    BY <1>0, <1>2, AppendIs
<1> HIDE DEF question, h
<1>4. /\ agent' \in [Calls -> Agents \cup {NoAgent}] /\ agent'[Front] = FrontMan
      /\ \A x \in Calls \ {Front} : agent'[x] = agent[x]
    <2>1. agent \in [Calls -> Agents \cup {NoAgent}]
        BY DEF IInv, TypeOK
    <2> QED
        BY <1>0, <1>1, <2>1 DEF Set
<1>5. /\ OriginsAreUnique'
      /\ index' \in [Calls -> Nat] /\ tool_to_index_map' \in [Agents -> Nat \ {0}]
      /\ index'[Front] < tool_to_index_map'[FrontMan]
      /\ \A x \in Calls \ {Front} : index'[x] = index[x]
      /\ \A b \in Agents : tool_to_index_map[b] <= tool_to_index_map'[b]
                           /\ tool_to_index_map'[b] \in Nat
    BY <1>0, <1>4, OriginIsNew DEF StartTurn
<1>6. /\ place' \in [Calls -> Places] /\ place'[Front] = "running"
      /\ \A x \in Calls \ {Front} : place'[x] = place[x]
    <2>1. "running" \in Places
        BY DEF Places
    <2> QED
        BY <1>0, <1>1, <2>1, SetPlace DEF IInv
<1>7. /\ chat_history' \in [Calls -> Histories] /\ chat_history'[Front] = h
      /\ \A x \in Calls \ {Front} : chat_history'[x] = chat_history[x]
    BY <1>0, <1>1, <1>3, SetHistory DEF IInv
<1>8. TypeOK'
    <2>1. used' \in 0 .. MaxCalls /\ open' \subseteq Calls
        BY <1>0, <1>1, Numbers DEF IInv, TypeOK, Front
    <2> QED
        BY <1>1, <1>4, <1>5, <1>6, <1>7, <2>1 DEF IInv, TypeOK
<1>9. TurnInv'
    BY <1>1 DEF IInv, TurnInv
<1>10. Whole(Front)'
    <2>1. CallInv(Front)'
        BY <1>0, <1>1, <1>4, <1>6, Numbers DEF CallInv, IInv, Whole
    <2>2. HistoryInv(Front)'
        <3>1. \A i \in 1 .. Len(context) : context[i].turn < turn
            BY <1>1 DEF IInv, TurnInv
        <3>2. \A i \in 1 .. Len(context) : context[i].turn \in Nat
            BY <1>0, TurnsAreNumbers
        <3>3. \A i \in 1 .. Len(h) : h[i].turn <= turn /\ (h[i].turn = turn => h[i].by = "user")
            BY <1>0, <1>2, <1>3, <3>1, <3>2
        <3> QED
            BY <1>1, <1>7, <3>3 DEF HistoryInv
    <2>3. TokenInv(Front)'
        <3>1. replies[Front] = 0 /\ token_accounting[Front] = 0
            BY <1>0 DEF IInv, Whole, TokenInv
        <3> QED
            BY <1>0, <1>1, <1>6, <3>1 DEF TokenInv
    <2>4. OriginInv(Front)' /\ MotionInv(Front)' /\ SpeechInv(Front)'
        <3>1. callers'[Front] = {}
            BY <1>0, <1>1 DEF IInv, Whole, CallInv
        <3> QED
            BY <1>1, <1>3, <1>4, <1>5, <1>6, <1>7, <3>1 DEF OriginInv, MotionInv, SpeechInv
    <2> QED
        BY <2>1, <2>2, <2>3, <2>4 DEF Whole
<1>11. Onward
    BY <1>0, <1>1, <1>5 DEF Onward
<1>12. ASSUME NEW x \in Calls \ {Front} PROVE Whole(x)'
    <2>1. Same(x)
        BY <1>0, <1>1, <1>4, <1>5, <1>6, <1>7, Numbers DEF Same, Front
    <2> QED
        BY <1>0, <1>11, <2>1, Untouched DEF Live
<1> QED
    BY <1>5, <1>8, <1>9, <1>10, <1>12 DEF IInv

LEMMA SetUpFailsStep == ASSUME IInv, SetUpFails PROVE IInv'
<1>1. /\ phase = "idle" /\ phase' = "over" /\ answer' = Message("framework", "answer")
      /\ UNCHANGED <<turn, context, used, place, agent, callers, index, tool_to_index_map,
                     attempts, iterations, chat_history, replies, token_accounting, late, open>>
    BY DEF SetUpFails, origins, chain, tokens
<1>2. turn \in Nat /\ used = 0 /\ context \in Histories
    BY <1>1 DEF IInv, TypeOK, TurnInv
<1>3. answer' \in Messages /\ answer'.by = "framework" /\ answer'.turn = turn
    BY <1>1, <1>2, MessageIs
<1>4. TypeOK'
    BY <1>1, <1>3 DEF IInv, TypeOK
<1>5. TurnInv'
    <2>1. \A i \in 1 .. Len(context) : context[i].turn < turn /\ context[i].turn \in Nat
        BY <1>1, <1>2, TurnsAreNumbers DEF IInv, TurnInv
    <2>2. place[Front] # "raised"
        BY <1>2, Numbers DEF IInv, Whole, CallInv
    <2> QED
        BY <1>1, <1>2, <1>3, <2>1, <2>2 DEF TurnInv
<1>6. OriginsAreUnique'
    BY <1>1 DEF IInv, OriginsAreUnique
<1>7. ASSUME NEW x \in Calls PROVE Whole(x)'
    <2>1. ~ Live(x)
        BY <1>1 DEF IInv, Whole, MotionInv
    <2>2. Onward /\ Same(x)
        BY <1>1 DEF Onward, Same, IInv, TypeOK
    <2> QED
        BY <2>1, <2>2, Untouched
<1> QED
    BY <1>4, <1>5, <1>6, <1>7 DEF IInv

(* A step of calls that are in motion: those that it touches are as they should *)
(* be, and no other one in motion waits for one that does not run any longer.   *)
LEMMA Together ==
    ASSUME IInv, NEW M \in SUBSET Calls, \E c \in Calls : Live(c), UNCHANGED request, Onward,
           TypeOK', OriginsAreUnique', \A c \in M : Whole(c)',
           \A c \in M : place'[c] = "running" \/ \A x \in Calls \ M : Live(x) => c \notin callers[x],
           \A x \in Calls \ M : Same(x)
    PROVE  IInv'
<1>1. phase = "running" /\ phase' = phase
    BY DEF IInv, Whole, MotionInv, request
<1>2. TurnInv'
    BY <1>1 DEF IInv, TurnInv, request
<1>3. ASSUME NEW x \in Calls \ M PROVE Whole(x)'
    <2>1. ASSUME Live(x), NEW s \in callers[x] PROVE place'[s] = "running"
        <3>1. s \in Calls /\ place[s] = "running"
            BY <2>1 DEF IInv, TypeOK, Whole, MotionInv
        <3> QED
            BY <2>1, <3>1 DEF Same
    <2> QED
        BY <1>1, <2>1, Untouched
<1> QED
    BY <1>2, <1>3 DEF IInv

(* A call that thinks is an agent's, of the front man or below, and is running. *)
LEMMA ThinkingIs ==
    ASSUME IInv, NEW s \in Calls, Thinking(s)
    PROVE  /\ place[s] = "running" /\ Live(s) /\ agent[s] \in Agents \ Code /\ ~ (s > used)
           /\ \A x \in Calls : Live(x) => s \notin callers[x]
<1>1. place[s] = "running" /\ agent[s] \notin Code
    BY DEF Thinking
<1>2. agent[s] \in Agents /\ ~ (s > used)
    BY <1>1 DEF IInv, Whole, CallInv
<1> QED
    BY <1>1, <1>2, NobodyWaits DEF Live

LEMMA AskForToolsStep == ASSUME IInv, NEW s \in Calls, AskForTools(s) PROVE IInv'
<1>1. /\ place[s] = "running" /\ Live(s) /\ agent[s] \in Agents \ Code /\ ~ (s > used)
    BY ThinkingIs DEF AskForTools
<1>2. PICK n \in 1 .. MaxCalls - used : \E f \in [1 .. n -> Tools[agent[s]]] :
          LET Made(c) == c \in used + 1 .. used + n IN
          /\ used' = used + n
          /\ agent' = [c \in Calls |-> IF Made(c) THEN f[c - used] ELSE agent[c]]
          /\ callers' = [c \in Calls |-> IF Made(c) THEN callers[s] \cup {s} ELSE callers[c]]
          /\ place' = [c \in Calls |-> IF Made(c) THEN "asked" ELSE place[c]]
    BY DEF AskForTools
<1>3. PICK f \in [1 .. n -> Tools[agent[s]]] :
          LET Made(c) == c \in used + 1 .. used + n IN
          /\ used' = used + n
          /\ agent' = [c \in Calls |-> IF Made(c) THEN f[c - used] ELSE agent[c]]
          /\ callers' = [c \in Calls |-> IF Made(c) THEN callers[s] \cup {s} ELSE callers[c]]
          /\ place' = [c \in Calls |-> IF Made(c) THEN "asked" ELSE place[c]]
    BY <1>2
<1>4. PICK New \in SUBSET Calls : New = {c \in Calls : c \in used + 1 .. used + n}
    OBVIOUS
<1>5. /\ used \in 0 .. MaxCalls /\ n \in Nat /\ used' = used + n /\ used' \in 0 .. MaxCalls
      /\ n >= 1 /\ used + n <= MaxCalls
    BY <1>2, <1>3, Numbers DEF IInv, TypeOK
<1>6. /\ iterations' = [iterations EXCEPT ![s] = @ + 1]
      /\ replies' = [replies EXCEPT ![s] = @ + 1]
      /\ UNCHANGED <<turn, phase, context, answer, tool_to_index_map, index, attempts,
                     chat_history, token_accounting, late, open>>
    BY DEF AskForTools, CountReply, request, origins
<1>7. \A c \in Calls : /\ c \in New <=> c \in used + 1 .. used + n
                       /\ c \in New <=> c > used /\ ~ (c > used')
                       /\ c \in New => c > used /\ ~ (c > used') /\ place[c] = "free" /\ c # Front
                       /\ c \notin New => (c > used' <=> c > used)
    <2>1. \A c \in Calls : c \in Nat /\ (place[c] = "free" <=> c > used)
        BY Numbers DEF IInv, Whole, CallInv
    <2>2. used >= 1
        BY <1>1, <1>5, Numbers DEF IInv, Whole, CallInv
    <2> QED
        BY <1>4, <1>5, <2>1, <2>2, Numbers DEF Front
<1>8. \A c \in New : f[c - used] \in Agents
    <2>1. Tools[agent[s]] \subseteq Agents
        BY <1>1, ConstantsAssumption
    <2>2. \A c \in New : c - used \in 1 .. n
        BY <1>5, <1>7, Numbers
    <2> QED
        BY <2>1, <2>2
<1>9. /\ \A c \in New : place'[c] = "asked" /\ callers'[c] = callers[s] \cup {s} /\ agent'[c] \in Agents
      /\ \A c \in Calls \ New : place'[c] = place[c] /\ callers'[c] = callers[c] /\ agent'[c] = agent[c]
    BY <1>3, <1>7, <1>8
<1>10. s \notin New /\ \A t \in callers[s] : t \in Calls \ New
    BY <1>1, <1>7 DEF IInv, TypeOK, Whole, CallInv
<1>11. /\ place' \in [Calls -> Places] /\ agent' \in [Calls -> Agents \cup {NoAgent}]
       /\ callers' \in [Calls -> SUBSET Calls]
    <2>1. "asked" \in Places
        BY DEF Places
    <2>2. place' = [c \in Calls |-> place'[c]] /\ agent' = [c \in Calls |-> agent'[c]]
          /\ callers' = [c \in Calls |-> callers'[c]]
        BY <1>3
    <2>3. \A c \in Calls : place[c] \in Places /\ agent[c] \in Agents \cup {NoAgent} /\ callers[c] \in SUBSET Calls
        BY DEF IInv, TypeOK
    <2>4. \A c \in Calls : place'[c] \in Places /\ agent'[c] \in Agents \cup {NoAgent} /\ callers'[c] \in SUBSET Calls
        BY <1>9, <2>1, <2>3
    <2> QED
        BY <2>2, <2>4
<1>12. /\ iterations' \in [Calls -> Nat] /\ replies' \in [Calls -> Nat]
       /\ replies'[s] = replies[s] + 1 /\ \A x \in Calls \ {s} : replies'[x] = replies[x]
    BY <1>6 DEF IInv, TypeOK
<1>13. TypeOK'
    BY <1>5, <1>6, <1>11, <1>12 DEF IInv, TypeOK
<1>14. \A c \in New : index[c] = 0
    BY <1>7 DEF IInv, Whole, OriginInv
<1>15. OriginsAreUnique'
    BY <1>6, <1>9, <1>14 DEF IInv, OriginsAreUnique
<1>16. Onward
    BY <1>6, <1>7, <1>9 DEF Onward, IInv, TypeOK
<1>17. ASSUME NEW c \in New PROVE Whole(c)'
    <2>1. CallInv(c)'
        <3>1. \A t \in callers[s] \cup {s} :
                /\ place'[t] # "free" /\ agent'[t] \notin Code
                /\ callers'[t] \subseteq callers[s] \cup {s}
            BY <1>1, <1>9, <1>10 DEF IInv, Whole, CallInv
        <3>2. Front \in callers[s] \cup {s}
            BY <1>1 DEF IInv, Whole, CallInv
        <3>3. c \notin callers[s] \cup {s}
            BY <1>10
        <3> QED
            BY <1>7, <1>9, <3>1, <3>2, <3>3 DEF CallInv
    <2>2. OriginInv(c)'
        BY <1>6, <1>14 DEF OriginInv
    <2>3. MotionInv(c)'
        BY <1>1, <1>6, <1>9, <1>10 DEF IInv, Whole, MotionInv
    <2>4. SpeechInv(c)'
        BY <1>9 DEF SpeechInv
    <2>5. HistoryInv(c)'
        BY <1>6 DEF IInv, Whole, HistoryInv
    <2>6. TokenInv(c)'
        BY <1>6, <1>7, <1>9, <1>10, <1>12 DEF IInv, Whole, TokenInv
    <2> QED
        BY <2>1, <2>2, <2>3, <2>4, <2>5, <2>6 DEF Whole
<1>18. Whole(s)'
    <2>1. CallInv(s)' /\ MotionInv(s)'
        BY <1>1, <1>6, <1>7, <1>9, <1>10 DEF IInv, Whole, CallInv, MotionInv
    <2>2. OriginInv(s)' /\ SpeechInv(s)'
        BY <1>1, <1>6, <1>9, <1>10 DEF IInv, Whole, OriginInv, SpeechInv, Answers, Message
    <2>3. HistoryInv(s)'
        BY <1>6 DEF IInv, Whole, HistoryInv
    <2>4. TokenInv(s)'
        BY <1>1, <1>6, <1>9, <1>10, <1>12 DEF IInv, Whole, TokenInv
    <2> QED
        BY <2>1, <2>2, <2>3, <2>4 DEF Whole
<1>19. \A x \in Calls \ (New \cup {s}) : Same(x)
    BY <1>6, <1>7, <1>9, <1>12 DEF Same
<1>20. \A c \in New \cup {s} : place'[c] = "running"
                              \/ \A x \in Calls \ (New \cup {s}) : Live(x) => c \notin callers[x]
    BY <1>1, <1>7, <1>9, <1>10 DEF IInv, Whole, CallInv
<1>21. UNCHANGED request
    BY <1>6 DEF request
<1>22. PICK M \in SUBSET Calls : M = New \cup {s}
    OBVIOUS
<1>23. \A c \in M : Whole(c)'
    BY <1>17, <1>18, <1>22
<1>24. /\ \A x \in Calls \ M : Same(x)
       /\ \A c \in M : place'[c] = "running" \/ \A x \in Calls \ M : Live(x) => c \notin callers[x]
    BY <1>19, <1>20, <1>22
<1> QED
    BY <1>1, <1>13, <1>15, <1>16, <1>21, <1>23, <1>24, Together

(* A step of one call, which goes to a place p: what is left to show is that    *)
(* its own parts of the invariant hold.                                         *)
LEMMA OneCall ==
    ASSUME IInv, NEW c \in Calls, Live(c), NEW p \in Places \ {"free", "asked"}, place' = Set(place, c, p),
           p = "running" \/ \A x \in Calls : Live(x) => c \notin callers[x],
           UNCHANGED <<request, used, agent, callers, late>>,
           tool_to_index_map' \in [Agents -> Nat \ {0}],
           \A a \in Agents : tool_to_index_map[a] <= tool_to_index_map'[a],
           index' \in [Calls -> Nat], OriginsAreUnique', OriginInv(c)',
           chat_history' \in [Calls -> Histories],
           attempts' \in [Calls -> Nat], iterations' \in [Calls -> Nat],
           replies' \in [Calls -> Nat], token_accounting' \in [Calls -> Nat],
           open' \subseteq open \cup {c},
           \A x \in Calls \ {c} :
               /\ index'[x] = index[x] /\ chat_history'[x] = chat_history[x]
               /\ replies'[x] = replies[x] /\ token_accounting'[x] = token_accounting[x],
           SpeechInv(c)', HistoryInv(c)', TokenInv(c)'
    PROVE  IInv'
<1>1. /\ place' \in [Calls -> Places] /\ place'[c] = p
      /\ \A x \in Calls \ {c} : place'[x] = place[x]
    BY SetPlace DEF IInv
<1>2. TypeOK'
    <2>1. open' \subseteq Calls
        BY DEF IInv, TypeOK
    <2> QED
        BY <1>1, <2>1 DEF IInv, TypeOK, request
<1>3. place[c] # "free" /\ phase = "running" /\ \A s \in callers[c] : s \in Calls /\ place[s] = "running"
    BY DEF Live, IInv, TypeOK, Whole, MotionInv
<1>4. Onward
    <2>1. \A a \in Agents : tool_to_index_map'[a] \in Nat
        OBVIOUS
    <2> QED
        BY <1>1, <2>1 DEF Onward, request
<1>5. CallInv(c)'
    <2>1. CallInv(c)
        BY DEF IInv, Whole
    <2>2. \A s \in callers[c] : place'[s] # "free"
        BY <1>1, <1>3
    <2> QED
        BY <1>1, <1>3, <2>1, <2>2 DEF CallInv
<1>6. MotionInv(c)'
    <2>1. \A s \in callers[c] : place'[s] = "running"
        BY <1>1, <1>3
    <2> QED
        BY <1>3, <2>1 DEF MotionInv, request
<1>7. Whole(c)'
    BY <1>5, <1>6 DEF Whole
<1>8. \A x \in Calls \ {c} : Same(x)
    BY <1>1 DEF Same
<1>9. \A y \in {c} : place'[y] = "running" \/ \A x \in Calls \ {c} : Live(x) => y \notin callers[x]
    BY <1>1
<1> QED
    BY <1>2, <1>4, <1>7, <1>8, <1>9, Together

LEMMA MapStays ==
    ASSUME IInv, UNCHANGED tool_to_index_map
    PROVE  \A a \in Agents : tool_to_index_map[a] <= tool_to_index_map'[a]
<1>1. tool_to_index_map \in [Agents -> Nat \ {0}]
    BY DEF IInv, TypeOK
<1>2. \A a \in Agents : tool_to_index_map[a] \in Nat
    BY <1>1
<1> QED
    BY <1>2

LEMMA StartCallStep == ASSUME IInv, NEW c \in Calls, StartCall(c) PROVE IInv'
<1> DEFINE question == Message("user", "question")
           h == Append(HistoryAtFirst(c), question)
<1>1. /\ place[c] = "asked" /\ Live(c) /\ AddSpecNameToOrigin(c, agent[c])
      /\ place' = Set(place, c, "running")
      /\ UNCHANGED <<turn, phase, context, answer, used, agent, callers, attempts, iterations,
                     replies, token_accounting, late>>
    BY DEF StartCall, Live, request, chain, tokens
<1>2. /\ phase = "running" /\ turn \in Nat /\ context \in Histories /\ c # Front /\ agent[c] \in Agents
      /\ agent \in [Calls -> Agents \cup {NoAgent}]
    BY <1>1 DEF Live, IInv, TypeOK, Whole, CallInv, MotionInv
<1>3. /\ question \in Messages /\ question.by = "user" /\ question.turn = turn
    BY <1>2, MessageIs
<1>4. /\ h \in Histories /\ h # <<>> /\ \A i \in 1 .. Len(h) : h[i] = question
    <2>1. HistoryAtFirst(c) = <<>>
        BY <1>2 DEF HistoryAtFirst
    <2> QED
        <3>1. h = Append(<<>>, question) /\ <<>> \in Histories /\ Len(<<>>) = 0
            BY <2>1, EmptyHistory
        <3> HIDE DEF question, h
        <3>2. /\ h \in Histories /\ h # <<>>
              /\ \A i \in 1 .. Len(h) : h[i] = question \/ i \in 1 .. Len(<<>>)
            BY <1>3, <3>1, AppendIs
        <3>3. 1 .. Len(<<>>) = {}
            BY <3>1
        <3> QED
            BY <3>2, <3>3
<1>5. IF agent[c] \in Code THEN UNCHANGED <<chat_history, open>>
      ELSE open' = open \cup {c} /\ chat_history' = Set(chat_history, c, h)
    BY DEF StartCall, CreateResources, SubmitMessage
<1> HIDE DEF question, h
<1>6. /\ OriginsAreUnique'
      /\ index' \in [Calls -> Nat] /\ tool_to_index_map' \in [Agents -> Nat \ {0}]
      /\ index'[c] # 0 /\ index'[c] < tool_to_index_map'[agent[c]]
      /\ \A x \in Calls \ {c} : index'[x] = index[x]
      /\ \A b \in Agents : tool_to_index_map[b] <= tool_to_index_map'[b]
                           /\ tool_to_index_map'[b] \in Nat
    BY <1>1, <1>2, OriginIsNew
<1>7. /\ place'[c] = "running" /\ "running" \in Places \ {"free", "asked"}
    BY <1>1, SetPlace DEF IInv, Places
<1>8. /\ chat_history' \in [Calls -> Histories]
      /\ \A x \in Calls \ {c} : chat_history'[x] = chat_history[x]
      /\ agent[c] \in Code => chat_history'[c] = chat_history[c]
      /\ agent[c] \notin Code => chat_history'[c] = h
    <2>1. CASE agent[c] \in Code
        BY <1>5, <2>1 DEF IInv, TypeOK
    <2>2. CASE agent[c] \notin Code
        BY <1>4, <1>5, <2>2, SetHistory DEF IInv
    <2> QED
        BY <2>1, <2>2
<1>9. open' \subseteq open \cup {c}
    BY <1>5
<1>10. OriginInv(c)'
    BY <1>1, <1>6, <1>7 DEF OriginInv
<1>11. SpeechInv(c)'
    BY <1>1, <1>4, <1>7, <1>8 DEF SpeechInv
<1>12. HistoryInv(c)'
    <2>1. CASE agent[c] \in Code
        BY <1>1, <1>8, <2>1 DEF IInv, Whole, HistoryInv
    <2>2. CASE agent[c] \notin Code
        <3>1. turn <= turn
            BY <1>2
        <3> QED
            BY <1>1, <1>3, <1>4, <1>8, <2>2, <3>1 DEF HistoryInv
    <2> QED
        BY <2>1, <2>2
<1>13. TokenInv(c)'
    BY <1>1, <1>7 DEF IInv, Whole, TokenInv
<1>14. /\ attempts' \in [Calls -> Nat] /\ iterations' \in [Calls -> Nat]
       /\ replies' \in [Calls -> Nat] /\ token_accounting' \in [Calls -> Nat]
       /\ UNCHANGED <<request, used, agent, callers, late>>
    BY <1>1 DEF IInv, TypeOK, request
<1> QED
    BY <1>1, <1>6, <1>7, <1>8, <1>9, <1>10, <1>11, <1>12, <1>13, <1>14, OneCall

LEMMA CallRaisesStep == ASSUME IInv, NEW c \in Calls, CallRaises(c) PROVE IInv'
<1>1. /\ place' = Set(place, c, "raised")
      /\ UNCHANGED <<turn, phase, context, answer, used, agent, callers, attempts, iterations,
                     chat_history, replies, token_accounting, late>>
    BY DEF CallRaises, request, chain, tokens
<1>2. \/ place[c] = "asked" /\ AddSpecNameToOrigin(c, agent[c])
      \/ place[c] = "running" /\ agent[c] \in Code /\ UNCHANGED <<tool_to_index_map, index>>
    BY DEF CallRaises, origins
<1>3. /\ Live(c) /\ agent[c] \in Agents
      /\ \A x \in Calls : Live(x) => c \notin callers[x]
    BY <1>2, NobodyWaits DEF Live, IInv, Whole, CallInv
<1>4. open' \subseteq open \cup {c}
    BY DEF CallRaises
<1>5. /\ place'[c] = "raised" /\ "raised" \in Places \ {"free", "asked"}
    BY <1>1, SetPlace DEF IInv, Places
<1>6. /\ OriginsAreUnique' /\ OriginInv(c)'
      /\ index' \in [Calls -> Nat] /\ tool_to_index_map' \in [Agents -> Nat \ {0}]
      /\ \A x \in Calls \ {c} : index'[x] = index[x]
      /\ \A b \in Agents : tool_to_index_map[b] <= tool_to_index_map'[b]
    <2>1. CASE place[c] = "asked" /\ AddSpecNameToOrigin(c, agent[c])
        <3>1. agent \in [Calls -> Agents \cup {NoAgent}]
            BY DEF IInv, TypeOK
        <3>2. /\ OriginsAreUnique'
              /\ index' \in [Calls -> Nat] /\ tool_to_index_map' \in [Agents -> Nat \ {0}]
              /\ index'[c] # 0 /\ index'[c] < tool_to_index_map'[agent[c]]
              /\ \A x \in Calls \ {c} : index'[x] = index[x]
              /\ \A b \in Agents : tool_to_index_map[b] <= tool_to_index_map'[b]
                                   /\ tool_to_index_map'[b] \in Nat
            BY <1>1, <1>3, <2>1, <3>1, OriginIsNew
        <3> QED
            BY <1>1, <1>5, <3>2 DEF OriginInv
    <2>2. CASE place[c] = "running" /\ UNCHANGED <<tool_to_index_map, index>>
        BY <1>1, <1>5, <2>2 DEF IInv, TypeOK, Whole, OriginInv, OriginsAreUnique
    <2> QED
        BY <1>2, <2>1, <2>2
<1>7. SpeechInv(c)'
    BY <1>5 DEF SpeechInv
<1>8. HistoryInv(c)'
    BY <1>1 DEF IInv, Whole, HistoryInv
<1>9. TokenInv(c)'
    BY <1>1, <1>2, <1>5 DEF IInv, Whole, TokenInv
<1>10. /\ attempts' \in [Calls -> Nat] /\ iterations' \in [Calls -> Nat]
       /\ chat_history' \in [Calls -> Histories]
       /\ replies' \in [Calls -> Nat] /\ token_accounting' \in [Calls -> Nat]
       /\ UNCHANGED <<request, used, agent, callers, late>>
    BY <1>1 DEF IInv, TypeOK, request
<1> QED
    BY <1>1, <1>3, <1>4, <1>5, <1>6, <1>7, <1>8, <1>9, <1>10, OneCall

-----------------------------------------------------------------------------
(* The end of a chain                                                          *)

(* What a message of this turn at the end of a history does.                    *)
LEMMA Written ==
    ASSUME IInv, NEW s \in Calls, NEW m \in Messages, WriteMessage(s, m), m.turn = turn,
           UNCHANGED turn
    PROVE  /\ chat_history' \in [Calls -> Histories] /\ chat_history'[s] # <<>>
           /\ LastOf(chat_history'[s]) = m
           /\ \A x \in Calls \ {s} : chat_history'[x] = chat_history[x]
           /\ (late' = {} => late = {} /\ (m.by = "tool" => m.says = "answer")) => HistoryInv(s)'
<1> DEFINE h == Append(chat_history[s], m)
<1>1. turn \in Nat /\ chat_history[s] \in Histories
    BY DEF IInv, TypeOK
<1>2. /\ h \in Histories /\ h # <<>> /\ LastOf(h) = m
      /\ \A i \in 1 .. Len(h) : h[i] = m \/ (i \in 1 .. Len(chat_history[s]) /\ h[i] = chat_history[s][i])
    BY <1>1, AppendIs
<1>3. chat_history' = Set(chat_history, s, h)
    BY DEF WriteMessage
<1> HIDE DEF h
<1>4. /\ chat_history' \in [Calls -> Histories] /\ chat_history'[s] = h
      /\ \A x \in Calls \ {s} : chat_history'[x] = chat_history[x]
    BY <1>2, <1>3, SetHistory DEF IInv
<1>5. ASSUME late' = {} => late = {} /\ (m.by = "tool" => m.says = "answer") PROVE HistoryInv(s)'
    <2>1. HistoryInv(s) /\ turn <= turn
        BY <1>1 DEF IInv, Whole
    <2>2. ASSUME NEW i \in 1 .. Len(h)
          PROVE  /\ h[i].turn <= turn
                 /\ late' = {} /\ h[i].by = "tool" /\ h[i].turn = turn => h[i].says = "answer"
        BY <1>2, <1>5, <2>1 DEF HistoryInv
    <2> QED
        BY <1>4, <2>2 DEF HistoryInv
<1> QED
    BY <1>2, <1>4, <1>5

(* An agent's answer, counted as a reply or not                                 *)
LEMMA AnsweredStep ==
    ASSUME IInv, NEW s \in Calls, Thinking(s), place' = Set(place, s, "answered"),
           WriteMessage(s, Message("agent", "answer")), replies' \in [Calls -> Nat],
           \A x \in Calls \ {s} : replies'[x] = replies[x],
           UNCHANGED <<request, used, agent, callers, origins, chain, token_accounting, late, open>>
    PROVE  IInv'
<1>1. /\ place[s] = "running" /\ Live(s) /\ agent[s] \in Agents \ Code
      /\ \A x \in Calls : Live(x) => s \notin callers[x]
    BY ThinkingIs
<1>2. /\ turn \in Nat
      /\ UNCHANGED <<turn, request, used, agent, callers, tool_to_index_map, index, attempts,
                     iterations, token_accounting, late, open>>
    BY DEF IInv, TypeOK, request, origins, chain
<1>3. /\ Answers \in Messages /\ Answers.by = "agent" /\ Answers.turn = turn
      /\ WriteMessage(s, Answers) /\ Answers' = Answers
    BY <1>2, MessageIs DEF Answers, Message
<1>4. /\ chat_history' \in [Calls -> Histories] /\ chat_history'[s] # <<>>
      /\ LastOf(chat_history'[s]) = Answers
      /\ \A x \in Calls \ {s} : chat_history'[x] = chat_history[x]
      /\ HistoryInv(s)'
    BY <1>2, <1>3, Written
<1>5. place'[s] = "answered" /\ "answered" \in Places \ {"free", "asked"}
    BY SetPlace DEF IInv, Places
<1>6. OriginsAreUnique' /\ OriginInv(s)'
    BY <1>1, <1>2, <1>5 DEF IInv, Whole, OriginInv, OriginsAreUnique
<1>7. SpeechInv(s)'
    BY <1>3, <1>4, <1>5 DEF SpeechInv
<1>8. TokenInv(s)'
    BY <1>1, <1>2, <1>5 DEF IInv, Whole, TokenInv
<1>9. /\ index' \in [Calls -> Nat] /\ tool_to_index_map' \in [Agents -> Nat \ {0}]
      /\ attempts' \in [Calls -> Nat] /\ iterations' \in [Calls -> Nat]
      /\ token_accounting' \in [Calls -> Nat] /\ open' \subseteq open \cup {s}
    BY <1>2 DEF IInv, TypeOK
<1>10. \A b \in Agents : tool_to_index_map[b] <= tool_to_index_map'[b]
    BY <1>2, MapStays
<1> QED
    BY <1>1, <1>2, <1>4, <1>5, <1>6, <1>7, <1>8, <1>9, <1>10, OneCall

LEMMA AnswerStep == ASSUME IInv, NEW s \in Calls, Answer(s) PROVE IInv'
<1>1. replies' = [replies EXCEPT ![s] = @ + 1] /\ replies \in [Calls -> Nat]
    BY DEF Answer, CountReply, IInv, TypeOK
<1>2. replies' \in [Calls -> Nat] /\ \A x \in Calls \ {s} : replies'[x] = replies[x]
    BY <1>1
<1> QED
    BY <1>2, AnsweredStep DEF Answer

LEMMA GiveUpStep == ASSUME IInv, NEW s \in Calls, GiveUp(s) PROVE IInv'
<1>1. replies' \in [Calls -> Nat] /\ \A x \in Calls \ {s} : replies'[x] = replies[x]
    BY DEF GiveUp, tokens, IInv, TypeOK
<1> QED
    BY <1>1, AnsweredStep DEF GiveUp, tokens

LEMMA AnswerRaisesStep == ASSUME IInv, NEW s \in Calls, AnswerRaises(s) PROVE IInv'
<1>1. /\ place' = Set(place, s, "raised") /\ replies' = [replies EXCEPT ![s] = @ + 1]
      /\ UNCHANGED <<turn, answer, used, agent, callers, tool_to_index_map, index, attempts,
                     iterations, chat_history, token_accounting, late, open>>
    BY DEF AnswerRaises, CountReply, request, origins, chain
<1>2. /\ place[s] = "running" /\ Live(s) /\ agent[s] \in Agents \ Code
      /\ \A x \in Calls : Live(x) => s \notin callers[x]
    BY ThinkingIs DEF AnswerRaises
<1>3. /\ place' \in [Calls -> Places] /\ place'[s] = "raised"
      /\ "raised" \in Places \ {"free", "asked"}
      /\ \A x \in Calls \ {s} : place'[x] = place[x]
    BY <1>1, SetPlace DEF IInv, Places
<1>4. replies' \in [Calls -> Nat] /\ \A x \in Calls \ {s} : replies'[x] = replies[x]
    BY <1>1 DEF IInv, TypeOK
<1>5. OriginsAreUnique' /\ OriginInv(s)'
    BY <1>1, <1>3 DEF IInv, Whole, OriginInv, OriginsAreUnique
<1>6. SpeechInv(s)'
    BY <1>3 DEF SpeechInv
<1>7. HistoryInv(s)'
    BY <1>1 DEF IInv, Whole, HistoryInv
<1>8. TokenInv(s)'
    BY <1>1, <1>2, <1>3 DEF IInv, Whole, TokenInv
<1>9. /\ attempts' \in [Calls -> Nat] /\ iterations' \in [Calls -> Nat]
      /\ chat_history' \in [Calls -> Histories] /\ index' \in [Calls -> Nat]
      /\ tool_to_index_map' \in [Agents -> Nat \ {0}] /\ token_accounting' \in [Calls -> Nat]
    BY <1>1 DEF IInv, TypeOK
<1>10. CASE s # Front
    <2>1. UNCHANGED <<request, used, agent, callers, late>>
        BY <1>1, <1>10 DEF AnswerRaises
    <2>2. /\ \A a \in Agents : tool_to_index_map[a] <= tool_to_index_map'[a]
          /\ open' \subseteq open \cup {s}
        BY <1>1, MapStays
    <2> QED
        BY <1>1, <1>2, <1>3, <1>4, <1>5, <1>6, <1>7, <1>8, <1>9, <2>1, <2>2, OneCall
<1>11. CASE s = Front
    <2>1. phase' = "over" /\ context' \in {context, <<>>}
        BY <1>11 DEF AnswerRaises
    <2>2. phase = "running" /\ context \in Histories /\ turn \in Nat
        BY <1>2 DEF IInv, TypeOK, Whole, MotionInv
    <2>3. context' \in Histories
        BY <2>1, <2>2, EmptyHistory
    <2>4. TypeOK'
        BY <1>1, <1>3, <1>4, <1>9, <2>1, <2>3 DEF IInv, TypeOK
    <2>5. TurnInv'
        <3>1. \A i \in 1 .. Len(context) : context[i].turn <= turn
            BY <2>2, TurnsAreNumbers DEF IInv, TurnInv
        <3>2. \A i \in 1 .. Len(context') : context'[i].turn <= turn
            BY <2>1, <3>1, EmptyHistory
        <3>3. answer = NoMessage
            BY <2>2 DEF IInv, TurnInv
        <3> QED
            BY <1>1, <1>3, <1>11, <2>1, <3>2, <3>3 DEF TurnInv, NoMessage
    <2>6. Onward
        <3>1. \A a \in Agents : tool_to_index_map'[a] \in Nat
            BY <1>9
        <3>2. \A a \in Agents : tool_to_index_map[a] <= tool_to_index_map'[a]
            BY <1>1, MapStays
        <3>3. \A x \in Calls : place[x] # "free" => place'[x] # "free"
            BY <1>3
        <3> QED
            BY <1>1, <3>1, <3>2, <3>3 DEF Onward
    <2>7. ASSUME NEW x \in Calls \ {Front} PROVE Whole(x)'
        <3>1. ~ Live(x)
            BY <1>2, <1>11 DEF Live, IInv, Whole, CallInv
        <3>2. Same(x)
            BY <1>1, <1>3, <1>4, <1>11 DEF Same
        <3> QED
            BY <2>6, <3>1, <3>2, Untouched
    <2>8. Whole(Front)'
        <3>1. CallInv(Front)'
            <4>1. CallInv(Front) /\ callers[Front] = {}
                BY <1>2, <1>11 DEF IInv, Whole, CallInv
            <4> QED
                BY <1>1, <1>2, <1>3, <1>11, <4>1 DEF CallInv
        <3>2. MotionInv(Front)'
            BY <1>3, <1>11 DEF MotionInv, Live
        <3> QED
            BY <1>5, <1>6, <1>7, <1>8, <1>11, <3>1, <3>2 DEF Whole
    <2> QED
        BY <1>5, <2>4, <2>5, <2>7, <2>8 DEF IInv
<1> QED
    BY <1>10, <1>11

LEMMA RetryStep == ASSUME IInv, NEW s \in Calls, Retry(s) PROVE IInv'
<1>1. Live(s)
    BY ThinkingIs DEF Retry
<1>2. /\ UNCHANGED <<turn, phase, context, answer, used, place, agent, callers, tool_to_index_map,
                     index, chat_history, replies, token_accounting, late, open>>
      /\ attempts' = [attempts EXCEPT ![s] = @ + 1] /\ iterations' = Set(iterations, s, 0)
    BY DEF Retry, request, origins, tokens
<1>3. attempts' \in [Calls -> Nat] /\ iterations' \in [Calls -> Nat]
    BY <1>2 DEF IInv, TypeOK, Set
<1>4. TypeOK' /\ OriginsAreUnique'
    BY <1>2, <1>3 DEF IInv, TypeOK, OriginsAreUnique
<1>5. Onward /\ UNCHANGED request
    BY <1>2 DEF Onward, IInv, TypeOK, request
<1>6. \A x \in Calls : Same(x)
    BY <1>2 DEF Same
<1>7. PICK M \in SUBSET Calls : M = {}
    OBVIOUS
<1> QED
    BY <1>1, <1>4, <1>5, <1>6, <1>7, Together

LEMMA ReportStep == ASSUME IInv, NEW s \in Calls, Report(s) PROVE IInv'
<1>1. /\ place[s] \in {"answered", "timed out"} /\ place' = Set(place, s, "closing")
      /\ token_accounting' = [token_accounting EXCEPT ![s] = @ + replies[s]]
      /\ UNCHANGED <<turn, request, used, agent, callers, tool_to_index_map, index, attempts,
                     iterations, chat_history, replies, late, open>>
    BY DEF Report, request, origins, chain
<1>2. Live(s) /\ \A x \in Calls : Live(x) => s \notin callers[x]
    BY <1>1, NobodyWaits DEF Live
<1>3. place'[s] = "closing" /\ "closing" \in Places \ {"free", "asked"}
    BY <1>1, SetPlace DEF IInv, Places
<1>4. token_accounting[s] = 0 /\ replies[s] \in Nat /\ token_accounting \in [Calls -> Nat]
    BY <1>1 DEF IInv, TypeOK, Whole, TokenInv
<1>5. /\ token_accounting' \in [Calls -> Nat] /\ token_accounting'[s] = replies[s]
      /\ \A x \in Calls \ {s} : token_accounting'[x] = token_accounting[x]
    <2>1. token_accounting' = [token_accounting EXCEPT ![s] = token_accounting[s] + replies[s]]
        BY <1>1
    <2>2. token_accounting[s] + replies[s] = replies[s]
        BY <1>4
    <2>3. token_accounting' = [token_accounting EXCEPT ![s] = replies[s]]
        BY <2>1, <2>2
    <2> QED
        BY <1>4, <2>3
<1>6. OriginsAreUnique' /\ OriginInv(s)'
    BY <1>1, <1>3 DEF IInv, Whole, OriginInv, OriginsAreUnique
<1>7. SpeechInv(s)'
    BY <1>1, <1>3 DEF IInv, Whole, SpeechInv, Answers, Message
<1>8. HistoryInv(s)'
    BY <1>1 DEF IInv, Whole, HistoryInv
<1>9. TokenInv(s)'
    BY <1>1, <1>3, <1>5 DEF IInv, Whole, TokenInv
<1>10. /\ index' \in [Calls -> Nat] /\ tool_to_index_map' \in [Agents -> Nat \ {0}]
       /\ attempts' \in [Calls -> Nat] /\ iterations' \in [Calls -> Nat]
       /\ replies' \in [Calls -> Nat] /\ open' \subseteq open \cup {s}
       /\ chat_history' \in [Calls -> Histories]
    BY <1>1 DEF IInv, TypeOK
<1>11. \A b \in Agents : tool_to_index_map[b] <= tool_to_index_map'[b]
    BY <1>1, MapStays
<1> QED
    BY <1>1, <1>2, <1>3, <1>5, <1>6, <1>7, <1>8, <1>9, <1>10, <1>11, OneCall

(* A time that is up: what the agent waits for stops where it is, and whoever   *)
(* waits for the agent goes on.                                                 *)
LEMMA TimeUpStep == ASSUME IInv, NEW s \in Calls, TimeUp(s) PROVE IInv'
<1>1. /\ place[s] = "running" /\ agent[s] \in Slow
      /\ place' = [c \in Calls |->
                     IF c = s THEN "timed out"
                     ELSE IF c \in Callees(s) /\ Live(c) THEN "cancelled" ELSE place[c]]
      /\ late' = late \cup {s}
      /\ UNCHANGED <<turn, phase, context, answer, used, agent, callers, tool_to_index_map,
                     index, attempts, iterations, chat_history, replies, token_accounting, open>>
    BY DEF TimeUp, request, origins, chain, tokens
<1>2. Live(s) /\ agent[s] \in Agents \ Code
    BY <1>1, ConstantsAssumption DEF Live
<1>3. PICK Cut \in SUBSET Calls : Cut = {c \in Calls : c # s /\ s \in callers[c] /\ Live(c)}
    OBVIOUS
<1>4. /\ place'[s] = "timed out" /\ \A c \in Cut : place'[c] = "cancelled"
      /\ \A c \in Calls \ (Cut \cup {s}) : place'[c] = place[c]
    BY <1>1, <1>3 DEF Callees
<1>5. place' \in [Calls -> Places]
    <2>1. /\ {"timed out", "cancelled"} \subseteq Places
          /\ \A c \in Calls : place[c] \in Places
        BY DEF IInv, TypeOK, Places
    <2>2. \A c \in Calls : place'[c] \in Places
        BY <1>4, <2>1
    <2>3. place' = [c \in Calls |-> place'[c]]
        BY <1>1
    <2> QED
        BY <2>2, <2>3
<1>6. TypeOK' /\ OriginsAreUnique' /\ Onward /\ UNCHANGED request
    <2>1. late' \subseteq Calls
        BY <1>1 DEF IInv, TypeOK
    <2>2. \A c \in Calls : place[c] # "free" => place'[c] # "free"
        BY <1>4
    <2>3. \A a \in Agents : tool_to_index_map'[a] \in Nat
        BY <1>1 DEF IInv, TypeOK
    <2>4. \A a \in Agents : tool_to_index_map[a] <= tool_to_index_map'[a]
        BY <1>1, MapStays
    <2> QED
        BY <1>1, <1>5, <2>1, <2>2, <2>3, <2>4 DEF IInv, TypeOK, OriginsAreUnique, Onward, request
<1>7. PICK M \in SUBSET Calls : M = Cut \cup {s}
    OBVIOUS
<1>8. ASSUME NEW c \in Calls \ M, Live(c) PROVE s \notin callers[c] /\ \A t \in Cut : t \notin callers[c]
    <2>1. s \notin callers[c]
        BY <1>3, <1>7, <1>8
    <2> QED
        BY <1>3, <2>1 DEF IInv, Whole, CallInv
<1>9. \A c \in callers[s] : c \in Calls \ M /\ place[c] = "running"
    <2>1. \A c \in callers[s] : c \in Calls /\ c # s /\ place[c] = "running" /\ callers[c] \subseteq callers[s]
        BY <1>2 DEF IInv, TypeOK, Whole, CallInv, MotionInv
    <2>2. s \notin callers[s]
        BY DEF IInv, Whole, CallInv
    <2> QED
        BY <1>3, <1>7, <2>1, <2>2
<1>10. \A c \in M : /\ place'[c] # "free" /\ place'[c] # "asked" /\ place[c] # "free"
                    /\ place'[c] \notin {"running", "answered", "closing", "raised", "returned"}
    BY <1>1, <1>3, <1>4, <1>7 DEF Live
<1>11. ASSUME NEW c \in M PROVE CallInv(c)' /\ OriginInv(c)' /\ HistoryInv(c)'
    <2>1. CallInv(c) /\ OriginInv(c) /\ HistoryInv(c) /\ callers[c] \subseteq Calls
        BY DEF IInv, TypeOK, Whole
    <2>2. \A t \in callers[c] : place'[t] # "free"
        BY <2>1, <1>4, <1>7, <1>10 DEF CallInv
    <2>3. CallInv(c)'
        BY <1>1, <1>10, <2>1, <2>2 DEF CallInv
    <2>4. OriginInv(c)'
        BY <1>1, <1>10, <2>1 DEF OriginInv
    <2>5. late' # {}
        BY <1>1
    <2>6. HistoryInv(c)'
        BY <1>1, <2>1, <2>5 DEF HistoryInv
    <2> QED
        BY <2>3, <2>4, <2>6
<1>12. ASSUME NEW c \in M PROVE TokenInv(c)'
    <2>1. TokenInv(c) /\ (c = s => token_accounting[c] = 0)
        BY <1>1 DEF IInv, Whole, TokenInv
    <2>2. place'[c] = "timed out" => c = s
        BY <1>4, <1>7
    <2> QED
        BY <1>1, <1>10, <2>1, <2>2 DEF TokenInv
<1>13. ASSUME NEW c \in M PROVE SpeechInv(c)' /\ MotionInv(c)'
    <2>1. CASE c = s
        <3>1. SpeechInv(s) /\ chat_history[s] # <<>>
            BY <1>1, <1>2 DEF IInv, Whole, SpeechInv
        <3>2. SpeechInv(s)'
            BY <1>1, <1>4, <3>1 DEF SpeechInv
        <3>3. \A t \in callers[s] : place'[t] = "running"
            BY <1>4, <1>7, <1>9
        <3>4. phase = "running"
            BY <1>2 DEF IInv, Whole, MotionInv
        <3> QED
            BY <1>1, <2>1, <3>2, <3>3, <3>4 DEF MotionInv
    <2>2. CASE c \in Cut
        <3>1. place'[c] = "cancelled"
            BY <1>4, <2>2
        <3> QED
            BY <3>1 DEF SpeechInv, MotionInv, Live
    <2> QED
        BY <1>7, <2>1, <2>2
<1>14. \A c \in M : Whole(c)'
    BY <1>11, <1>12, <1>13 DEF Whole
<1>15. \A x \in Calls \ M : Same(x)
    BY <1>1, <1>4, <1>7 DEF Same
<1>16. \A c \in M : place'[c] = "running" \/ \A x \in Calls \ M : Live(x) => c \notin callers[x]
    BY <1>7, <1>8
<1> QED
    BY <1>2, <1>6, <1>14, <1>15, <1>16, Together

-----------------------------------------------------------------------------
(* The end of a call, and of a turn                                            *)

(* A call that returns has an answer to give, its agent's or its code's.        *)
LEMMA ReturnStep == ASSUME IInv, NEW c \in Calls, Return(c) PROVE IInv'
<1>1. /\ c # Front /\ (place[c] = "closing" \/ (place[c] = "running" /\ agent[c] \in Code))
      /\ WriteMessage(Caller(c), ToolResult(c))
      /\ place' = Set(place, c, "returned") /\ open' = open \ {c}
      /\ UNCHANGED <<turn, phase, context, answer, used, agent, callers, tool_to_index_map,
                     index, attempts, iterations, replies, token_accounting, late>>
    BY DEF Return, DeleteResources, request, origins, chain, tokens
<1>2. Live(c) /\ \A x \in Calls : Live(x) => c \notin callers[x]
    BY <1>1, NobodyWaits DEF Live
<1>3. PICK p \in Calls : p = Caller(c) /\ p \in callers[c] /\ p # c
    <2>1. callers[c] \in SUBSET Calls /\ Front \in callers[c] /\ c \notin callers[c]
        BY <1>1 DEF IInv, TypeOK, Whole, CallInv
    <2> QED
        BY <2>1, CallerWaits
<1>4. place[p] = "running" /\ agent[p] \notin Code
    BY <1>2, <1>3 DEF IInv, Whole, CallInv, MotionInv
<1>5. PICK m : m = ToolResult(c)
    OBVIOUS
<1>6. m \in Messages /\ m.turn = turn /\ (late = {} => m.says = "answer")
    <2>1. turn \in Nat /\ chat_history[c] \in Histories
        BY DEF IInv, TypeOK
    <2>2. CASE agent[c] \in Code
        <3>1. m = Message("tool", "answer")
            BY <1>5, <2>2 DEF ToolResult
        <3> QED
            BY <2>1, <3>1, MessageIs
    <2>3. CASE agent[c] \notin Code
        <3>1. place[c] = "closing" /\ chat_history[c] # <<>>
            BY <1>1, <2>3 DEF IInv, Whole, SpeechInv
        <3>2. m = Message("tool", LastOf(chat_history[c]).says)
            BY <1>5, <2>3 DEF ToolResult
        <3>3. LastOf(chat_history[c]) \in Messages
            <4>1. Len(chat_history[c]) \in 1 .. Len(chat_history[c])
                <5> HIDE DEF Messages
                <5> QED
                    BY <2>1, <3>1 DEF Histories
            <4> QED
                BY <2>1, <4>1, TurnsAreNumbers DEF LastOf
        <3>4. LastOf(chat_history[c]).says \in {"question", "answer", "nothing"}
            BY <3>3 DEF Messages
        <3>5. late = {} => LastOf(chat_history[c]) = Answers
            BY <2>3, <3>1 DEF IInv, Whole, SpeechInv
        <3>6. Answers.says = "answer"
            BY <2>1, MessageIs
        <3> QED
            BY <2>1, <3>2, <3>4, <3>5, <3>6, MessageIs
    <2> QED
        BY <2>2, <2>3
<1>7. WriteMessage(p, m)
    BY <1>1, <1>3, <1>5
<1>8. /\ chat_history' \in [Calls -> Histories] /\ chat_history'[p] # <<>>
      /\ \A x \in Calls \ {p} : chat_history'[x] = chat_history[x]
      /\ HistoryInv(p)'
    BY <1>1, <1>6, <1>7, Written
<1>9. /\ place' \in [Calls -> Places] /\ place'[c] = "returned"
      /\ \A x \in Calls \ {c} : place'[x] = place[x]
    BY <1>1, SetPlace DEF IInv, Places
<1>10. TypeOK' /\ OriginsAreUnique' /\ Onward /\ UNCHANGED request
    <2>1. open' \subseteq Calls
        BY <1>1 DEF IInv, TypeOK
    <2>2. \A s \in Calls : place[s] # "free" => place'[s] # "free"
        BY <1>9
    <2>3. \A a \in Agents : tool_to_index_map'[a] \in Nat
        BY <1>1 DEF IInv, TypeOK
    <2>4. \A a \in Agents : tool_to_index_map[a] <= tool_to_index_map'[a]
        BY <1>1, MapStays
    <2> QED
        BY <1>1, <1>8, <1>9, <2>1, <2>2, <2>3, <2>4
        DEF IInv, TypeOK, OriginsAreUnique, Onward, request
<1>11. Whole(c)'
    <2>1. CallInv(c)'
        <3>1. CallInv(c) /\ callers[c] \subseteq Calls
            BY DEF IInv, TypeOK, Whole
        <3>2. place[c] # "free"
            BY <1>1
        <3> QED
            BY <1>1, <1>9, <3>1, <3>2 DEF CallInv
    <2>2. OriginInv(c)' /\ MotionInv(c)'
        BY <1>1, <1>9 DEF IInv, Whole, OriginInv, MotionInv, Live
    <2>3. SpeechInv(c)'
        BY <1>1, <1>3, <1>8, <1>9 DEF IInv, Whole, SpeechInv, Answers, Message
    <2>4. HistoryInv(c)'
        BY <1>1, <1>3, <1>8 DEF IInv, Whole, HistoryInv
    <2>5. TokenInv(c)'
        BY <1>1, <1>9 DEF IInv, Whole, TokenInv
    <2> QED
        BY <2>1, <2>2, <2>3, <2>4, <2>5 DEF Whole
<1>12. Whole(p)'
    <2>1. place'[p] = "running" /\ place[p] = "running"
        BY <1>3, <1>4, <1>9
    <2>2. CallInv(p)'
        <3>1. CallInv(p) /\ callers[p] \subseteq Calls
            BY DEF IInv, TypeOK, Whole
        <3>2. \A t \in callers[p] : place'[t] # "free"
            BY <1>9, <3>1 DEF CallInv
        <3> QED
            BY <1>1, <2>1, <3>1, <3>2 DEF CallInv
    <2>3. OriginInv(p)'
        BY <1>1, <2>1 DEF IInv, Whole, OriginInv
    <2>4. MotionInv(p)'
        <3>1. Live(p) /\ c \notin callers[p]
            BY <1>2, <2>1 DEF Live
        <3>2. phase = "running" /\ \A t \in callers[p] : t \in Calls /\ place[t] = "running"
            BY <3>1 DEF IInv, TypeOK, Whole, MotionInv
        <3>3. \A t \in callers[p] : place'[t] = "running"
            BY <1>9, <3>1, <3>2
        <3> QED
            BY <1>1, <3>2, <3>3 DEF MotionInv
    <2>5. SpeechInv(p)'
        BY <1>8, <2>1 DEF SpeechInv
    <2>6. TokenInv(p)'
        BY <1>1, <1>3, <2>1 DEF IInv, Whole, TokenInv
    <2> QED
        BY <1>8, <2>2, <2>3, <2>4, <2>5, <2>6 DEF Whole
<1>13. PICK M \in SUBSET Calls : M = {c, p}
    OBVIOUS
<1>14. \A x \in M : Whole(x)'
    BY <1>11, <1>12, <1>13
<1>15. \A x \in Calls \ M : Same(x)
    BY <1>1, <1>8, <1>9, <1>13 DEF Same
<1>16. \A y \in M : place'[y] = "running" \/ \A x \in Calls \ M : Live(x) => y \notin callers[x]
    BY <1>2, <1>3, <1>4, <1>9, <1>13
<1> QED
    BY <1>2, <1>10, <1>14, <1>15, <1>16, Together

(* What an agent has said last, if it is not a question of a user, is the answer.*)
LEMMA AnswerMessageIs ==
    ASSUME NEW h \in Histories
    PROVE  /\ AnswerMessage(h) \in Messages
           /\ h # <<>> /\ LastOf(h).by # "user" => AnswerMessage(h) = LastOf(h)
<1> DEFINE said == {i \in 1 .. Len(h) : h[i].by # "user"}
<1>1. Len(h) \in Nat /\ said \in SUBSET (1 .. Len(h))
    BY DEF Histories
<1>2. AnswerMessage(h) = IF said = {} THEN NoMessage ELSE h[CHOOSE i \in said : \A j \in said : j <= i]
    BY DEF AnswerMessage
<1>3. said # {} => \E i \in said : \A j \in said : j <= i
    BY <1>1, Last
<1> HIDE DEF said
<1>4. AnswerMessage(h) \in Messages
    <2>1. NoMessage \in Messages
        BY DEF NoMessage, Messages
    <2>2. CASE said # {}
        <3>1. PICK k \in said : k = CHOOSE i \in said : \A j \in said : j <= i
            BY <1>3, <2>2
        <3> QED
            BY <1>1, <1>2, <2>2, <3>1, TurnsAreNumbers
    <2> QED
        BY <1>2, <2>1, <2>2
<1>5. ASSUME h # <<>>, LastOf(h).by # "user" PROVE AnswerMessage(h) = LastOf(h)
    <2>1. Len(h) \in 1 .. Len(h)
        BY <1>1, <1>5 DEF Histories
    <2>2. Len(h) \in said
        BY <1>5, <2>1 DEF said, LastOf
    <2>3. \A i \in said : (\A j \in said : j <= i) => i = Len(h)
        BY <1>1, <2>2
    <2>4. (CHOOSE i \in said : \A j \in said : j <= i) = Len(h)
        BY <1>3, <2>2, <2>3
    <2> QED
        BY <1>2, <2>2, <2>4 DEF LastOf
<1> QED
    BY <1>4, <1>5

(* The context that goes to the client has messages of the history only, its   *)
(* last one at the end.                                                         *)
LEMMA ContextIs ==
    ASSUME NEW h \in Histories, h # <<>>
    PROVE  /\ PrepareChatContext(h) \in Histories /\ PrepareChatContext(h) # <<>>
           /\ LastOf(PrepareChatContext(h)) = LastOf(h)
           /\ \A i \in 1 .. Len(PrepareChatContext(h)) :
                 \E j \in 1 .. Len(h) : PrepareChatContext(h)[i] = h[j]
<1> HIDE DEF Messages
<1>1. /\ h \in Seq(Messages) /\ Len(h) \in Nat /\ Len(h) >= 1
    BY DEF Histories
<1>2. CASE MaxHistory <= 1 \/ Len(h) <= MaxHistory + 1
    BY <1>1, <1>2 DEF PrepareChatContext
<1>3. CASE ~ (MaxHistory <= 1 \/ Len(h) <= MaxHistory + 1)
    <2> DEFINE rest == SubSeq(h, Len(h) - MaxHistory + 1, Len(h))
               first == <<Head(h)>>
    <2>0. MaxHistory \in Nat
        BY ConstantsAssumption
    <2>1. /\ MaxHistory > 1 /\ Len(h) > MaxHistory + 1
          /\ Len(h) - MaxHistory + 1 \in 1 .. Len(h)
        BY <1>1, <1>3, <2>0
    <2>2. /\ rest \in Seq(Messages) /\ Len(rest) = MaxHistory
          /\ \A i \in 1 .. MaxHistory : rest[i] = h[Len(h) - MaxHistory + i]
        BY <1>1, <2>0, <2>1
    <2>3. first \in Seq(Messages) /\ Len(first) = 1 /\ first[1] = h[1]
        BY <1>1
    <2>4. PrepareChatContext(h) = first \o rest
        BY <1>3 DEF PrepareChatContext
    <2> HIDE DEF first, rest
    <2>5. /\ first \o rest \in Seq(Messages) /\ Len(first \o rest) = MaxHistory + 1
          /\ (first \o rest)[1] = h[1]
          /\ \A i \in 2 .. MaxHistory + 1 : (first \o rest)[i] = h[Len(h) - MaxHistory + i - 1]
        <3>0. /\ first \o rest \in Seq(Messages) /\ Len(first \o rest) = Len(first) + Len(rest)
              /\ \A i \in 1 .. Len(first) + Len(rest) : (first \o rest)[i] =
                    IF i <= Len(first) THEN first[i] ELSE rest[i - Len(first)]
            BY <2>2, <2>3, ConcatProperties
        <3>1. /\ first \o rest \in Seq(Messages) /\ Len(first \o rest) = MaxHistory + 1
              /\ (first \o rest)[1] = first[1]
            BY <2>0, <2>2, <2>3, <3>0
        <3>2. ASSUME NEW i \in 2 .. MaxHistory + 1 PROVE (first \o rest)[i] = h[Len(h) - MaxHistory + i - 1]
            <4>1. i - 1 \in 1 .. MaxHistory /\ (first \o rest)[i] = rest[i - 1]
                BY <2>0, <2>2, <2>3, <3>0
            <4>2. rest[i - 1] = h[Len(h) - MaxHistory + (i - 1)]
                BY <2>2, <4>1
            <4>3. Len(h) - MaxHistory + (i - 1) = Len(h) - MaxHistory + i - 1
                BY <1>1, <2>0
            <4> QED
                BY <4>1, <4>2, <4>3
        <3> QED
            BY <2>3, <3>1, <3>2
    <2>6. \A i \in 1 .. MaxHistory + 1 : \E j \in 1 .. Len(h) : (first \o rest)[i] = h[j]
        <3>1. ASSUME NEW i \in 2 .. MaxHistory + 1
              PROVE  Len(h) - MaxHistory + i - 1 \in 1 .. Len(h)
            BY <1>1, <2>0, <2>1
        <3>2. \A i \in 1 .. MaxHistory + 1 : i = 1 \/ i \in 2 .. MaxHistory + 1
            BY <2>0
        <3>3. 1 \in 1 .. Len(h)
            BY <1>1
        <3> QED
            BY <2>5, <3>1, <3>2, <3>3
    <2>7. LastOf(first \o rest) = LastOf(h) /\ first \o rest # <<>>
        <3>1. MaxHistory + 1 \in 2 .. MaxHistory + 1
            BY <2>0, <2>1
        <3>2. Len(h) - MaxHistory + (MaxHistory + 1) - 1 = Len(h)
            BY <1>1, <2>0
        <3>3. (first \o rest)[MaxHistory + 1] = h[Len(h)]
            BY <2>5, <3>1, <3>2
        <3>4. first \o rest # <<>>
            BY <2>0, <2>5
        <3> QED
            BY <2>5, <3>3, <3>4 DEF LastOf
    <2> QED
        BY <2>4, <2>5, <2>6, <2>7 DEF Histories
<1> QED
    BY <1>2, <1>3

LEMMA EndTurnStep == ASSUME IInv, EndTurn PROVE IInv'
<1> DEFINE h == chat_history[Front]
<1>0. Front \in Calls
    BY Numbers
<1>1. /\ place[Front] = "closing" /\ place' = Set(place, Front, "returned")
      /\ phase' = "over" /\ answer' = AnswerMessage(h) /\ context' = PrepareChatContext(h)
      /\ open' = open \ {Front}
      /\ UNCHANGED <<turn, used, agent, callers, tool_to_index_map, index, attempts, iterations,
                     chat_history, replies, token_accounting, late>>
    BY DEF EndTurn, DeleteResources, origins, chain, tokens
<1>2. /\ turn \in Nat /\ h \in Histories /\ agent[Front] = FrontMan /\ FrontMan \notin Code
      /\ callers[Front] = {}
    <2>1. FrontMan \notin Code
        BY ConstantsAssumption
    <2> QED
        BY <1>0, <1>1, <2>1 DEF IInv, TypeOK, Whole, CallInv
<1>3. /\ h # <<>> /\ Front \notin late => LastOf(h) = Answers
    BY <1>0, <1>1, <1>2 DEF IInv, Whole, SpeechInv
<1>4. h # <<>>
    BY <1>0, <1>1, <1>2 DEF IInv, Whole, SpeechInv
<1>5. /\ Answers.by = "agent" /\ Answers.turn = turn /\ Answers' = Answers
    BY <1>1, <1>2, MessageIs DEF Answers, Message
<1>6. \A i \in 1 .. Len(h) : h[i].turn <= turn
    BY <1>0 DEF IInv, Whole, HistoryInv
<1> HIDE DEF h
<1>7. /\ context' \in Histories /\ context' # <<>> /\ LastOf(context') = LastOf(h)
      /\ \A i \in 1 .. Len(context') : \E j \in 1 .. Len(h) : context'[i] = h[j]
    BY <1>1, <1>2, <1>4, ContextIs
<1>8. /\ answer' \in Messages
      /\ Front \notin late => answer' = Answers /\ LastOf(context') = Answers
    BY <1>1, <1>2, <1>3, <1>4, <1>5, <1>7, AnswerMessageIs
<1>9. /\ place' \in [Calls -> Places] /\ place'[Front] = "returned"
      /\ \A x \in Calls \ {Front} : place'[x] = place[x]
    BY <1>0, <1>1, SetPlace DEF IInv, Places
<1>10. TypeOK' /\ OriginsAreUnique'
    <2>1. open' \subseteq Calls
        BY <1>1 DEF IInv, TypeOK
    <2> QED
        BY <1>1, <1>7, <1>8, <1>9, <2>1 DEF IInv, TypeOK, OriginsAreUnique
<1>11. TurnInv'
    <2>1. \A i \in 1 .. Len(context') : context'[i].turn <= turn
        BY <1>6, <1>7
    <2>2. late' = {} => answer'.turn = turn' /\ answer'.by # "tool"
        BY <1>1, <1>5, <1>8
    <2>3. used' > 0 /\ Front \notin late' => context' # <<>> /\ LastOf(context') = Answers'
        BY <1>1, <1>5, <1>7, <1>8
    <2>4. phase' = "over"
        BY <1>1
    <2> QED
        BY <1>1, <1>9, <2>1, <2>2, <2>3, <2>4 DEF TurnInv
<1>12. Onward
    <2>1. \A a \in Agents : tool_to_index_map'[a] \in Nat
        BY <1>1 DEF IInv, TypeOK
    <2>2. \A a \in Agents : tool_to_index_map[a] <= tool_to_index_map'[a]
        BY <1>1, MapStays
    <2>3. \A s \in Calls : place[s] # "free" => place'[s] # "free"
        BY <1>9
    <2> QED
        BY <1>1, <2>1, <2>2, <2>3 DEF Onward
<1>13. ASSUME NEW x \in Calls \ {Front} PROVE Whole(x)'
    <2>1. ~ Live(x)
        <3>1. SUFFICES ASSUME Live(x) PROVE FALSE
            OBVIOUS
        <3>2. Front \in callers[x] /\ place[Front] = "running"
            BY <3>1 DEF Live, IInv, Whole, CallInv, MotionInv
        <3> QED
            BY <1>1, <3>2
    <2>2. Same(x)
        BY <1>1, <1>9 DEF Same
    <2> QED
        BY <1>12, <2>1, <2>2, Untouched
<1>14. Whole(Front)'
    <2>1. CallInv(Front)'
        <3>1. CallInv(Front) /\ place[Front] # "free"
            BY <1>0, <1>1 DEF IInv, Whole
        <3> QED
            BY <1>1, <1>2, <1>9, <3>1 DEF CallInv
    <2>2. OriginInv(Front)' /\ MotionInv(Front)'
        BY <1>0, <1>1, <1>9 DEF IInv, Whole, OriginInv, MotionInv, Live
    <2>3. SpeechInv(Front)'
        <3>1. chat_history'[Front] = h
            BY <1>1 DEF h
        <3> QED
            BY <1>1, <1>3, <1>4, <1>5, <1>9, <3>1 DEF SpeechInv
    <2>4. HistoryInv(Front)'
        BY <1>0, <1>1 DEF IInv, Whole, HistoryInv
    <2>5. TokenInv(Front)'
        BY <1>0, <1>1, <1>9 DEF IInv, Whole, TokenInv
    <2> QED
        BY <2>1, <2>2, <2>3, <2>4, <2>5 DEF Whole
<1> QED
    BY <1>10, <1>11, <1>13, <1>14 DEF IInv

LEMMA NextTurnStep == ASSUME IInv, NextTurn PROVE IInv'
<1>0. /\ phase = "over" /\ turn' = turn + 1 /\ phase' = "idle" /\ context' = context
      /\ answer' = NoMessage /\ used' = 0
      /\ late' = {} /\ open' = {} /\ tool_to_index_map' = [a \in Agents |-> 1]
      /\ place' = [c \in Calls |-> "free"] /\ agent' = [c \in Calls |-> NoAgent]
      /\ callers' = [c \in Calls |-> {}] /\ index' = [c \in Calls |-> 0]
      /\ attempts' = [c \in Calls |-> 0] /\ iterations' = [c \in Calls |-> 0]
      /\ chat_history' = [c \in Calls |-> <<>>] /\ replies' = [c \in Calls |-> 0]
      /\ token_accounting' = [c \in Calls |-> 0]
    BY DEF NextTurn, None
<1>1. /\ \A c \in Calls : /\ place'[c] = "free" /\ agent'[c] = NoAgent /\ callers'[c] = {}
                          /\ index'[c] = 0 /\ chat_history'[c] = <<>>
                          /\ replies'[c] = 0 /\ token_accounting'[c] = 0
    BY <1>0
<1>2. turn \in Nat /\ context \in Histories
    BY DEF IInv, TypeOK
<1>3. TypeOK'
    <2>1. NoMessage \in Messages
        BY DEF NoMessage, Messages
    <2>2. "free" \in Places /\ turn + 1 \in Nat /\ 0 \in 0 .. MaxCalls
        BY <1>2, Numbers DEF Places
    <2>3. /\ place' \in [Calls -> Places] /\ agent' \in [Calls -> Agents \cup {NoAgent}]
          /\ callers' \in [Calls -> SUBSET Calls] /\ chat_history' \in [Calls -> Histories]
        BY <1>0, <2>2, EmptyHistory
    <2>4. /\ index' \in [Calls -> Nat] /\ attempts' \in [Calls -> Nat]
          /\ iterations' \in [Calls -> Nat] /\ replies' \in [Calls -> Nat]
          /\ token_accounting' \in [Calls -> Nat] /\ tool_to_index_map' \in [Agents -> Nat \ {0}]
        BY <1>0
    <2> QED
        BY <1>0, <1>2, <2>1, <2>2, <2>3, <2>4 DEF TypeOK
<1>4. TurnInv'
    <2>1. \A i \in 1 .. Len(context) : context[i].turn <= turn /\ context[i].turn \in Nat
        BY <1>0, <1>2, TurnsAreNumbers DEF IInv, TurnInv
    <2>2. \A i \in 1 .. Len(context) : context[i].turn < turn + 1
        BY <1>2, <2>1
    <2> QED
        BY <1>0, <2>2 DEF TurnInv
<1>5. OriginsAreUnique'
    BY <1>1 DEF OriginsAreUnique
<1>6. ASSUME NEW c \in Calls PROVE Whole(c)'
    <2>1. c > used'
        BY <1>0, Numbers
    <2>2. CallInv(c)'
        BY <1>1, <2>1 DEF CallInv
    <2>3. HistoryInv(c)'
        BY <1>1, EmptyHistory DEF HistoryInv
    <2>4. OriginInv(c)' /\ MotionInv(c)' /\ SpeechInv(c)'
        BY <1>1 DEF OriginInv, MotionInv, Live, SpeechInv
    <2>5. TokenInv(c)'
        BY <1>0, <1>1 DEF TokenInv
    <2> QED
        BY <2>2, <2>3, <2>4, <2>5 DEF Whole
<1> QED
    BY <1>3, <1>4, <1>5, <1>6 DEF IInv

-----------------------------------------------------------------------------
(* The invariant, and what it is for                                           *)

LEMMA StutteringStep == ASSUME IInv, UNCHANGED vars PROVE IInv'
<1>1. UNCHANGED <<turn, phase, context, answer, used, place, agent, callers, tool_to_index_map,
                  index, attempts, iterations, chat_history, replies, token_accounting, late, open>>
    BY DEF vars, request, origins, chain, tokens
<1>2. TypeOK' /\ TurnInv' /\ OriginsAreUnique'
    BY <1>1 DEF IInv, TypeOK, TurnInv, OriginsAreUnique, Answers, Message
<1>3. ASSUME NEW c \in Calls PROVE Whole(c)'
    <2>1. Whole(c)
        BY DEF IInv
    <2>2. CallInv(c)' /\ OriginInv(c)' /\ MotionInv(c)' /\ TokenInv(c)'
        BY <1>1, <2>1 DEF Whole, CallInv, OriginInv, MotionInv, Live, TokenInv
    <2>3. SpeechInv(c)' /\ HistoryInv(c)'
        BY <1>1, <2>1 DEF Whole, SpeechInv, HistoryInv, Answers, Message
    <2> QED
        BY <2>2, <2>3 DEF Whole
<1> QED
    BY <1>2, <1>3 DEF IInv

LEMMA NextKeeps == IInv /\ [Next]_vars => IInv'
<1> SUFFICES ASSUME IInv, [Next]_vars PROVE IInv'
    OBVIOUS
<1>1. CASE StartTurn
    BY <1>1, StartTurnStep
<1>2. CASE SetUpFails
    BY <1>2, SetUpFailsStep
<1>3. CASE EndTurn
    BY <1>3, EndTurnStep
<1>4. CASE NextTurn
    BY <1>4, NextTurnStep
<1>5. ASSUME NEW c \in Calls, CallStep(c) PROVE IInv'
    <2>1. CASE AskForTools(c)
        BY <2>1, AskForToolsStep
    <2>2. CASE StartCall(c)
        BY <2>2, StartCallStep
    <2>3. CASE CallRaises(c)
        BY <2>3, CallRaisesStep
    <2>4. CASE Answer(c)
        BY <2>4, AnswerStep
    <2>10. CASE AnswerRaises(c)
        BY <2>10, AnswerRaisesStep
    <2>5. CASE Retry(c)
        BY <2>5, RetryStep
    <2>6. CASE GiveUp(c)
        BY <2>6, GiveUpStep
    <2>7. CASE TimeUp(c)
        BY <2>7, TimeUpStep
    <2>8. CASE Report(c)
        BY <2>8, ReportStep
    <2>9. CASE Return(c)
        BY <2>9, ReturnStep
    <2> QED
        BY <1>5, <2>1, <2>2, <2>3, <2>4, <2>5, <2>6, <2>7, <2>8, <2>9, <2>10 DEF CallStep
<1>6. CASE UNCHANGED vars
    BY <1>6, StutteringStep
<1> QED
    BY <1>1, <1>2, <1>3, <1>4, <1>5, <1>6 DEF Next

LEMMA Invariance == Spec => []IInv
<1>1. IInv /\ [Next]_vars => IInv'
    BY NextKeeps
<1> QED
    BY <1>1, InitIsFine, PTL DEF Spec

(* The variables of a conversation have the types that the code gives them,     *)
(* whatever the LLMs reply and however the tasks of a turn are interleaved.      *)
THEOREM TypeCorrect == Spec => []TypeOK
<1>1. IInv => TypeOK
    BY DEF IInv
<1> QED
    BY <1>1, Invariance, PTL

(* No two activations of a turn have the same origin, in whatever order         *)
(* add_spec_name_to_origin() is called for them.                                *)
THEOREM OriginsIdentifySenders == Spec => []OriginsAreUnique
<1>1. IInv => OriginsAreUnique
    BY DEF IInv
<1> QED
    BY <1>1, Invariance, PTL

(* What is in motion belongs to calls that still wait for it, at any depth of   *)
(* the call tree: wait_for() leaves nothing behind when a time is up.           *)
THEOREM NothingRunsOn == Spec => []NoOrphans
<1>1. IInv => NoOrphans
    BY DEF IInv, Whole, MotionInv, NoOrphans
<1> QED
    BY <1>1, Invariance, PTL

(* An agent in time has the last word in its own history, and the turn's answer *)
(* is the front man's of this turn, however often a chain is retried.           *)
THEOREM AnswersInTimeCount == Spec => []InTimeAnswersCount
<1>1. IInv => InTimeAnswersCount
    <2> SUFFICES ASSUME IInv PROVE InTimeAnswersCount
        OBVIOUS
    <2>1. ASSUME NEW s \in Calls \ late, place[s] \in {"answered", "closing", "returned"}, agent[s] \notin Code
          PROVE  LastOf(chat_history[s]) = Message("agent", "answer")
        BY <2>1 DEF IInv, Whole, SpeechInv, Answers
    <2>2. ASSUME late = {}, NEW s \in Calls, NEW i \in 1 .. Len(chat_history[s])
          PROVE  LET m == chat_history[s][i]
                 IN  m.by = "tool" /\ m.turn = turn => m.says = "answer"
        BY <2>2 DEF IInv, Whole, HistoryInv
    <2>3. phase = "over" /\ late = {} => IF place[Front] = "raised" THEN answer = NoMessage
                                        ELSE answer.turn = turn /\ answer.by # "tool"
        BY DEF IInv, TurnInv
    <2> QED
        BY <2>1, <2>2, <2>3 DEF InTimeAnswersCount
<1> QED
    BY <1>1, Invariance, PTL

(* When the last message of a turn is there, every LLM reply has been counted   *)
(* in the report once, and what was not cut off has let go of its resources.    *)
THEOREM TurnsCleanUp == Spec => []TurnCleansUp
<1>1. IInv => TurnCleansUp
    <2> SUFFICES ASSUME IInv, phase = "over" PROVE TurnCleansUp
        BY DEF TurnCleansUp
    <2>1. ASSUME NEW c \in Calls
          PROVE  /\ place[c] \in {"free", "cancelled", "raised", "returned"}
                 /\ TokenInv(c) /\ replies[c] \in Nat
        <3>1. ~ Live(c) /\ place[c] \in Places
            BY DEF IInv, TypeOK, Whole, MotionInv
        <3> QED
            BY <3>1 DEF Live, Places, IInv, TypeOK, Whole
    <2>2. ASSUME NEW c \in Calls, place[c] \notin {"cancelled", "raised"}
          PROVE  token_accounting[c] = replies[c]
        BY <2>1, <2>2 DEF TokenInv
    <2>3. ASSUME NEW c \in open PROVE place[c] \in {"cancelled", "raised"}
        <3>1. c \in Calls
            BY DEF IInv, TypeOK
        <3> QED
            BY <2>1, <3>1 DEF TokenInv
    <2>4. used > 0 /\ Front \notin late /\ place[Front] # "raised" =>
              LastOf(context) = Message("agent", "answer")
        BY DEF IInv, TurnInv, Answers
    <2> QED
        BY <2>2, <2>3, <2>4 DEF TurnCleansUp
<1> QED
    BY <1>1, Invariance, PTL
===============================================================================
