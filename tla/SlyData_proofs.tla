---------------------------- MODULE SlyData_proofs ----------------------------
(***************************************************************************)
(* No private value gets anywhere that the agents on its way do not allow, *)
(* and no answer overwrites a key that no answer may fill: for any         *)
(* networks that call each other, any "allow" blocks, any number of calls  *)
(* in motion and any order in which they return or fail.                   *)
(***************************************************************************)
EXTENDS SlyData, TLAPS, WellFoundedInduction

Dict == UNION {[D -> Values] : D \in SUBSET Keys}

TypeOK ==
    /\ allow \in AllowChoices /\ ways = Ways(allow)
    /\ place \in [Sessions -> {"free", "made", "running", "over", "returned", "raised"}]
    /\ network \in [Sessions -> Parties]
    /\ caller \in [Sessions -> Sessions]
    /\ agent \in [Sessions -> {Client} \cup UNION {Agents[p] : p \in Parties}]
    /\ merges \in [Sessions -> BOOLEAN]
    /\ sent \in [Sessions -> [shared : BOOLEAN, data : Dict]]
    /\ sly_data \in [Sessions -> Dict]
    /\ returned \in [Sessions -> Dict]

(* Each value of a dictionary may be in party n under its key.                  *)
MayHave(n, data) == \A k \in DOMAIN data : <<data[k], <<n, k>>>> \in ways

(* A call is one that its caller's network declares, and its caller has begun.  *)
CallInv(c) == place[c] # "free" =>
    /\ network[c] \in Networks /\ place[caller[c]] \notin {"free", "made"}
    /\ agent[c] \in Agents[network[caller[c]]]
    /\ network[c] \in External[network[caller[c]]][agent[c]]

(* What goes along may be in the network it goes to; the caller's dictionary    *)
(* itself only goes where everything may.                                       *)
SentInv(c) == place[c] = "made" =>
    IF sent[c].shared THEN Downstream(allow[agent[c]]).form = "true"
    ELSE MayHave(network[c], sent[c].data)

(* What comes back was in the network it comes from, whose front man allows it. *)
Upward(n, data) == \A k \in DOMAIN data : \E from \in Keys :
    /\ Lets(allow[FrontMan[n]].to_upstream, from, k)
    /\ <<data[k], <<n, from>>>> \in ways
BackInv(c) == place[c] = "over" => Upward(network[c], returned[c])

DataInv(s) == /\ MayHave(network[s], sly_data[s])
              /\ place[s] \in {"free", "made"} => sly_data[s] = Empty

SessionInv(s) == DataInv(s) /\ (s # 0 => CallInv(s) /\ SentInv(s) /\ BackInv(s))

IInv == /\ TypeOK
        /\ place[0] = "running" /\ network[0] = Client
        /\ \A s \in Sessions : SessionInv(s)

-----------------------------------------------------------------------------
(* What the operators do                                                       *)

LEMMA LeastNumber ==
    ASSUME NEW T \in SUBSET Nat, T # {}
    PROVE  \E x \in T : \A y \in T : x <= y
<1>1. PICK x \in T : \A y \in T : ~ (<<y, x>> \in OpToRel(<, Nat))
    BY WFMin, NatLessThanWellFounded
<1>2. \A y \in T : ~ (y < x)
    BY <1>1 DEF OpToRel
<1>3. \A y \in T : x <= y
    BY <1>2
<1> QED
    BY <1>3

LEMMA Last ==
    ASSUME NEW n \in Nat, NEW T \in SUBSET (1 .. n), T # {}
    PROVE  \E i \in T : \A j \in T : j <= i
<1> DEFINE Rest == {n - i : i \in T}
<1>0. \A i \in T : i \in Nat /\ n - i \in Nat
    OBVIOUS
<1>1. Rest \in SUBSET Nat /\ Rest # {}
    BY <1>0
<1>2. PICK x \in Rest : \A y \in Rest : x <= y
    BY <1>1, LeastNumber
<1>3. PICK i \in T : x = n - i
    OBVIOUS
<1>4. \A j \in T : n - i <= n - j
    BY <1>2, <1>3
<1>5. \A j \in T : j <= i
    BY <1>0, <1>4
<1> QED
    BY <1>5

LEMMA SaysIsRecord ==
    ASSUME NEW e \in [from : Keys, to : Keys \cup {No}]
    PROVE  e.from \in Keys /\ e.to \in Keys \cup {No} /\ e = [from |-> e.from, to |-> e.to]
OBVIOUS

LEMMA EmptyIsDict == Empty \in Dict /\ DOMAIN Empty = {}
<1>1. Empty \in [{} -> Values] /\ DOMAIN Empty = {}
    BY DEF Empty
<1> QED
    BY <1>1 DEF Dict

(* filter_config() lets through what its rule says, as what it says.            *)
LEMMA FilterLets ==
    ASSUME NEW rule \in Rule, NEW data \in Dict, No \notin Keys
    PROVE  /\ FilterConfig(rule, data) \in Dict
           /\ \A k \in DOMAIN FilterConfig(rule, data) : \E from \in DOMAIN data :
                 Lets(rule, from, k) /\ FilterConfig(rule, data)[k] = data[from]
<1>0. rule.says \in Seq([from : Keys, to : Keys \cup {No}])
    BY DEF Rule
<1>1. CASE rule.form = "true"
    BY <1>1 DEF FilterConfig, Lets
<1>2. CASE rule.form = "dict"
    <2> DEFINE To == {rule.says[i].to : i \in Through(rule, data)}
               from(k) == rule.says[LastTo(rule, data, k)].from
    <2>1. FilterConfig(rule, data) = [k \in To |-> data[from(k)]]
        BY <1>2 DEF FilterConfig
    <2>2. ASSUME NEW k \in To
          PROVE  /\ LastTo(rule, data, k) \in Through(rule, data)
                 /\ rule.says[LastTo(rule, data, k)].to = k
        <3> DEFINE T == {i \in Through(rule, data) : rule.says[i].to = k}
        <3>1. T \in SUBSET (1 .. Len(rule.says)) /\ T # {} /\ Len(rule.says) \in Nat
            BY <1>0 DEF Through
        <3>2. \E i \in T : \A j \in T : j <= i
            BY <3>1, Last
        <3> QED
            BY <3>2 DEF LastTo
    <2>3. \A i \in Through(rule, data) :
              /\ rule.says[i].from \in DOMAIN data /\ rule.says[i].to \in Keys
              /\ rule.says[i] = [from |-> rule.says[i].from, to |-> rule.says[i].to]
        <3> TAKE i \in Through(rule, data)
        <3> DEFINE Line == [from : Keys, to : Keys \cup {No}]
        <3>0. rule.says \in Seq(Line)
            BY <1>0
        <3> HIDE DEF Line
        <3>1. rule.says[i] \in Line
            BY <3>0 DEF Through
        <3> QED
            BY <3>1, SaysIsRecord DEF Line, Through
    <2>4. To \in SUBSET Keys
        BY <2>3
    <2>5. \A k \in To : from(k) \in DOMAIN data /\ Lets(rule, from(k), k)
        <3> TAKE k \in To
        <3>1. /\ LastTo(rule, data, k) \in DOMAIN rule.says
              /\ from(k) \in DOMAIN data /\ rule.says[LastTo(rule, data, k)] = [from |-> from(k), to |-> k]
            BY <2>2, <2>3 DEF Through
        <3> HIDE DEF from
        <3> QED
            BY <1>2, <3>1 DEF Lets
    <2> HIDE DEF from, To
    <2>6. [k \in To |-> data[from(k)]] \in [To -> Values]
        BY <2>5 DEF Dict
    <2>7. FilterConfig(rule, data) \in Dict
        BY <2>1, <2>4, <2>6 DEF Dict
    <2> QED
        BY <2>1, <2>5, <2>7
<1>3. CASE ~ (rule.form = "true") /\ ~ (rule.form = "dict")
    <2>1. FilterConfig(rule, data) = Empty
        BY <1>3 DEF FilterConfig
    <2> QED
        BY <2>1, EmptyIsDict
<1> QED
    BY <1>1, <1>2, <1>3

LEMMA SingleIsDict ==
    ASSUME NEW k \in Keys, NEW v \in Values
    PROVE  LET d == [key \in {k} |-> v]
           IN  d \in Dict /\ DOMAIN d = {k} /\ d[k] = v
<1>1. [key \in {k} |-> v] \in [{k} -> Values] /\ {k} \in SUBSET Keys
    OBVIOUS
<1> QED
    BY <1>1 DEF Dict

LEMMA UpdateMerges ==
    ASSUME NEW d \in Dict, NEW e \in Dict
    PROVE  /\ Update(d, e) \in Dict
           /\ DOMAIN Update(d, e) = DOMAIN d \cup DOMAIN e
           /\ \A k \in DOMAIN d \cup DOMAIN e :
                 Update(d, e)[k] = IF k \in DOMAIN e THEN e[k] ELSE d[k]
BY DEF Update, Dict

(* The ways have where each value is at first, and are closed under the steps.  *)
LEMMA WaysAreClosed ==
    ASSUME NEW choice
    PROVE  /\ \A v \in Values : \A p \in Start(v) \cap Places : <<v, p>> \in Ways(choice)
           /\ \A v \in Values, p \in Places, q \in Places :
                 <<v, p>> \in Ways(choice) /\ Step(choice, p[1], p[2], q[1], q[2])
                     => <<v, q>> \in Ways(choice)
<1> DEFINE C == Closed(Steps(choice))
<1>0. \A S : Once(S) = S
    BY DEF Once
<1>1. Ways(choice) = Least(C)
    BY <1>0 DEF Ways
<1>2. \A v \in Values : \A p \in Start(v) \cap Places : <<v, p>> \in Least(C)
    BY DEF Least
<1>3. ASSUME NEW v \in Values, NEW p \in Places, NEW q \in Places, <<v, p>> \in Least(C),
             Step(choice, p[1], p[2], q[1], q[2])
      PROVE  <<v, q>> \in Least(C)
    <2>1. <<p, q>> \in Steps(choice)
        BY <1>3 DEF Steps
    <2>2. \A S \in C : p \in S => q \in S
        BY <2>1 DEF Closed
    <2> QED
        BY <1>3, <2>2 DEF Least
<1> QED
    BY <1>1, <1>2, <1>3

-----------------------------------------------------------------------------
(* What the steps have in common                                               *)

LEMMA SetIs ==
    ASSUME NEW R, NEW f \in [Sessions -> R], NEW s \in Sessions, NEW v \in R
    PROVE  /\ Set(f, s, v) \in [Sessions -> R]
           /\ Set(f, s, v)[s] = v
           /\ \A x \in Sessions \ {s} : Set(f, s, v)[x] = f[x]
BY DEF Set

LEMMA MergedMayBe ==
    ASSUME NEW n, NEW d \in Dict, NEW e \in Dict, MayHave(n, d), MayHave(n, e)
    PROVE  MayHave(n, Update(d, e)) /\ MayHave(n, ParseToolOutput(d, e))
<1>0. /\ DOMAIN Update(d, e) = DOMAIN d \cup DOMAIN e
      /\ \A k \in DOMAIN d \cup DOMAIN e :
             Update(d, e)[k] = IF k \in DOMAIN e THEN e[k] ELSE d[k]
    BY UpdateMerges
<1>1. ASSUME NEW k \in DOMAIN Update(d, e)
      PROVE  <<Update(d, e)[k], <<n, k>>>> \in ways
    <2>1. /\ k \in DOMAIN d \cup DOMAIN e
          /\ Update(d, e)[k] = IF k \in DOMAIN e THEN e[k] ELSE d[k]
        BY <1>0
    <2> QED
        BY <2>1 DEF MayHave
<1> QED
    BY <1>1 DEF ParseToolOutput, MayHave

(* What the rule that counts downstream lets through, Downstream does.          *)
LEMMA RuleThatCounts ==
    ASSUME NEW block \in Block
    PROVE  LET rule == LastOf(block.sly_data, block.to_downstream)
           IN  /\ rule \in Rule
               /\ rule.form = "true" => Downstream(block).form = "true"
               /\ \A k, to : Lets(rule, k, to) => Lets(Downstream(block), k, to)
BY DEF Block, LastOf, Downstream, Unset, Lets

LEMMA Blocks ==
    ASSUME TypeOK
    PROVE  /\ \A p \in Parties : \A a \in Agents[p] :
                /\ allow[a] \in Block /\ External[p][a] \subseteq Networks
           /\ \A n \in Networks : FrontMan[n] \in Agents[n] /\ n \in Parties
           /\ Sessions \subseteq Nat /\ 0 \in Sessions
BY ConstantsAssumption DEF TypeOK, Sessions, Parties

LEMMA DictIs ==
    ASSUME NEW d \in Dict
    PROVE  DOMAIN d \subseteq Keys /\ \A k \in DOMAIN d : d[k] \in Values
BY DEF Dict

(* A value goes on from where it is.                                            *)
LEMMA GoesOn ==
    ASSUME TypeOK, NEW v \in Values, NEW n \in Parties, NEW k \in Keys,
           NEW m \in Parties, NEW to \in Keys,
           <<v, <<n, k>>>> \in ways, Step(allow, n, k, m, to)
    PROVE  <<v, <<m, to>>>> \in ways
<1>1. <<n, k>> \in Places /\ <<m, to>> \in Places
    BY DEF Places
<1> QED
    BY <1>1, WaysAreClosed DEF TypeOK

(* The calls that a step leaves as they are.                                    *)
Kept(x) == /\ place'[x] = place[x] /\ network'[x] = network[x] /\ caller'[x] = caller[x]
           /\ agent'[x] = agent[x] /\ sent'[x] = sent[x] /\ returned'[x] = returned[x]
GoOn == \A s \in Sessions : place[s] \notin {"free", "made"} =>
            place'[s] \notin {"free", "made"} /\ network'[s] = network[s]

LEMMA CallsStay ==
    ASSUME IInv, UNCHANGED blocks, GoOn, NEW x \in Sessions, Kept(x)
    PROVE  x # 0 => CallInv(x)' /\ SentInv(x)' /\ BackInv(x)'
<1> SUFFICES ASSUME x # 0 PROVE CallInv(x)' /\ SentInv(x)' /\ BackInv(x)'
    OBVIOUS
<1>0. CallInv(x) /\ SentInv(x) /\ BackInv(x) /\ caller[x] \in Sessions
    BY DEF IInv, SessionInv, TypeOK
<1>1. CallInv(x)'
    BY <1>0 DEF CallInv, Kept, GoOn
<1>2. SentInv(x)'
    BY <1>0 DEF SentInv, Kept, MayHave, blocks
<1>3. BackInv(x)'
    BY <1>0 DEF BackInv, Kept, Upward, blocks
<1> QED
    BY <1>1, <1>2, <1>3

LEMMA InitIsFine == Init => IInv
<1> SUFFICES ASSUME Init PROVE IInv
    OBVIOUS
<1>0. 0 \in Sessions /\ Client \in Parties /\ Client # Metadata /\ Client \notin Networks
    BY ConstantsAssumption DEF Sessions, Parties
<1>1. \A k \in Given : Value(Client, k) \in Values /\ k \in Keys
    BY ConstantsAssumption DEF Values
<1> DEFINE given == [k \in Given |-> Value(Client, k)]
<1>2. given \in Dict
    BY <1>1 DEF Dict
<1>3. MayHave(Client, given)
    <2>1. \A k \in Given : Start(Value(Client, k)) = {<<Client, k>>} /\ <<Client, k>> \in Places
        BY <1>0, <1>1 DEF Start, Value, Places
    <2> QED
        BY <1>1, <2>1, WaysAreClosed DEF Init, MayHave
<1>4. TypeOK
    <2>1. agent \in [Sessions -> {Client} \cup UNION {Agents[p] : p \in Parties}]
        BY <1>0 DEF Init
    <2> QED
        BY <1>0, <1>2, <2>1, EmptyIsDict DEF Init, TypeOK
<1>5. \A s \in Sessions : SessionInv(s)
    BY <1>0, <1>3, EmptyIsDict DEF Init, SessionInv, DataInv, CallInv, SentInv, BackInv, MayHave
<1> QED
    BY <1>0, <1>4, <1>5 DEF Init, IInv

-----------------------------------------------------------------------------
(* The steps                                                                   *)

(* What an action does besides, when it is right.                               *)
DataStays ==
    \A s \in Sessions : \A k \in DOMAIN sly_data[s] :
        /\ k \in DOMAIN sly_data'[s]
        /\ \/ sly_data'[s][k] = sly_data[s][k]
           \/ s # 0 /\ sly_data'[s][k] = Value(network[s], k)
           \/ \E a \in Agents[network[s]], from \in Keys : Lets(allow[a].from_downstream, from, k)

LEMMA CreateStep ==
    ASSUME IInv, NEW s \in Sessions, NEW a, NEW m, NEW merge \in BOOLEAN, Create(s, a, m, merge)
    PROVE  IInv' /\ DataStays
<1> DEFINE rule == LastOf(allow[a].sly_data, allow[a].to_downstream)
           goes == FilterConfig(rule, sly_data[s])
           with == [shared |-> rule.form = "true", data |-> goes]
<1>1. PICK c \in Sessions :
          /\ place[c] = "free"
          /\ c = CHOOSE i \in Sessions : place[i] = "free" /\ \A j \in Sessions : place[j] = "free" => i <= j
    <2> DEFINE T == {i \in Sessions : place[i] = "free"}
    <2>1. T # {} /\ T \in SUBSET Nat
        BY Blocks DEF Create, IInv
    <2>2. \E i \in T : \A j \in T : i <= j
        BY <2>1, LeastNumber
    <2> QED
        BY <2>2
<1>2. /\ place[s] = "running" /\ a \in Agents[network[s]] /\ m \in External[network[s]][a]
      /\ network[s] \in Parties /\ m \in Networks /\ m \in Parties
      /\ allow[a] \in Block /\ sly_data[s] \in Dict
    BY Blocks DEF Create, IInv, TypeOK
<1>3. /\ place' = Set(place, c, "made") /\ network' = Set(network, c, m)
      /\ caller' = Set(caller, c, s) /\ agent' = Set(agent, c, a)
      /\ merges' = Set(merges, c, merge) /\ sent' = Set(sent, c, with)
      /\ UNCHANGED <<allow, ways, sly_data, returned>>
    BY <1>1 DEF Create, blocks
<1>4. /\ rule \in Rule
      /\ rule.form = "true" => Downstream(allow[a]).form = "true"
      /\ \A k, to : Lets(rule, k, to) => Lets(Downstream(allow[a]), k, to)
    BY <1>2, RuleThatCounts
<1> HIDE DEF rule
<1>5. /\ goes \in Dict
      /\ \A k \in DOMAIN goes : \E from \in DOMAIN sly_data[s] :
            Lets(rule, from, k) /\ goes[k] = sly_data[s][from]
    <2>1. No \notin Keys
        BY ConstantsAssumption
    <2>2. rule \in Rule /\ sly_data[s] \in Dict
        BY <1>2, <1>4
    <2> QED
        BY <2>1, <2>2, FilterLets
<1> HIDE DEF goes
<1>6. with \in [shared : BOOLEAN, data : Dict]
    <2>1. (rule.form = "true") \in BOOLEAN
        OBVIOUS
    <2> QED
        BY <1>5, <2>1
<1>7. with.shared = (rule.form = "true") /\ with.data = goes
    OBVIOUS
<1> HIDE DEF with
<1>8. /\ place'[c] = "made" /\ network'[c] = m /\ caller'[c] = s /\ agent'[c] = a
      /\ sent'[c] = with
      /\ \A x \in Sessions \ {c} : /\ place'[x] = place[x] /\ network'[x] = network[x]
                                   /\ caller'[x] = caller[x] /\ agent'[x] = agent[x]
                                   /\ sent'[x] = sent[x]
    BY <1>1, <1>3, <1>6 DEF IInv, TypeOK, Set
<1>9. TypeOK'
    <2>1. place' \in [Sessions -> {"free", "made", "running", "over", "returned", "raised"}]
        BY <1>1, <1>3, SetIs DEF IInv, TypeOK
    <2>2. network' \in [Sessions -> Parties] /\ caller' \in [Sessions -> Sessions]
        BY <1>1, <1>2, <1>3, SetIs DEF IInv, TypeOK
    <2>3. agent' \in [Sessions -> {Client} \cup UNION {Agents[p] : p \in Parties}]
        <3>1. a \in UNION {Agents[p] : p \in Parties}
            BY <1>2
        <3> QED
            BY <1>1, <1>3, <3>1, SetIs DEF IInv, TypeOK
    <2>4. merges' \in [Sessions -> BOOLEAN] /\ sent' \in [Sessions -> [shared : BOOLEAN, data : Dict]]
        BY <1>1, <1>3, <1>6, SetIs DEF IInv, TypeOK
    <2> QED
        BY <1>3, <2>1, <2>2, <2>3, <2>4 DEF IInv, TypeOK
<1>10. c # 0 /\ c # s
    BY <1>1, <1>2 DEF IInv
<1>11. ASSUME NEW x \in Sessions PROVE DataInv(x)'
    <2>1. DataInv(x) /\ sly_data'[x] = sly_data[x] /\ ways' = ways
        BY <1>3 DEF IInv, SessionInv
    <2>2. CASE x = c
        BY <1>1, <1>3, <2>1, <2>2, EmptyIsDict DEF DataInv, MayHave
    <2>3. CASE x # c
        BY <1>8, <2>1, <2>3 DEF DataInv, MayHave
    <2> QED
        BY <2>2, <2>3
<1>12. GoOn
    BY <1>1, <1>8 DEF GoOn
<1>13. CallInv(c)' /\ SentInv(c)' /\ BackInv(c)'
    <2>1. CallInv(c)'
        BY <1>2, <1>8, <1>10 DEF CallInv
    <2>2. BackInv(c)'
        BY <1>8 DEF BackInv
    <2>3. ASSUME NEW k \in DOMAIN goes PROVE <<goes[k], <<m, k>>>> \in ways
        <3>1. PICK from \in DOMAIN sly_data[s] : Lets(rule, from, k) /\ goes[k] = sly_data[s][from]
            BY <1>5
        <3>2. <<sly_data[s][from], <<network[s], from>>>> \in ways
            BY DEF IInv, SessionInv, DataInv, MayHave
        <3>3. from \in Keys /\ k \in Keys /\ goes[k] \in Values
            BY <1>2, <1>5, DictIs
        <3>4. Step(allow, network[s], from, m, k)
            BY <1>2, <1>4, <3>1 DEF Step
        <3> QED
            BY <1>2, <3>1, <3>2, <3>3, <3>4, GoesOn DEF IInv
    <2>4. SentInv(c)'
        <3>1. CASE rule.form = "true"
            <4>1. sent'[c].shared /\ Downstream(allow'[agent'[c]]).form = "true"
                BY <1>3, <1>4, <1>7, <1>8, <3>1
            <4> QED
                BY <4>1 DEF SentInv
        <3>2. CASE ~ (rule.form = "true")
            <4>1. ~ sent'[c].shared /\ sent'[c].data = goes
                BY <1>7, <1>8, <3>2
            <4>2. \A k \in DOMAIN goes : <<goes[k], <<network'[c], k>>>> \in ways'
                BY <1>3, <1>8, <2>3
            <4> QED
                BY <4>1, <4>2 DEF SentInv, MayHave
        <3> QED
            BY <3>1, <3>2
    <2> QED
        BY <2>1, <2>2, <2>4
<1>14. ASSUME NEW x \in Sessions \ {c}
       PROVE  x # 0 => CallInv(x)' /\ SentInv(x)' /\ BackInv(x)'
    BY <1>3, <1>8, <1>12, CallsStay DEF Kept, blocks
<1>15. \A x \in Sessions : SessionInv(x)'
    BY <1>11, <1>13, <1>14 DEF SessionInv
<1>16. place'[0] = "running" /\ network'[0] = Client
    BY <1>8, <1>10, Blocks DEF IInv
<1>17. DataStays
    BY <1>3 DEF DataStays
<1> QED
    BY <1>9, <1>15, <1>16, <1>17 DEF IInv

(* A step that changes the dictionary of one session, and the place of one call. *)
LEMMA DataStep ==
    ASSUME IInv, UNCHANGED <<blocks, calls, sent, returned>>,
           NEW s \in Sessions, NEW data \in Dict, sly_data' = Set(sly_data, s, data),
           MayHave(network[s], data),
           NEW c \in Sessions, NEW p \in {"running", "returned"}, place' = Set(place, c, p),
           c = 0 => p = "running",
           place[c] \notin {"free"},
           place[s] \in {"free", "made"} => p = "running" /\ c = s
    PROVE  IInv'
<1>1. /\ sly_data'[s] = data /\ \A x \in Sessions \ {s} : sly_data'[x] = sly_data[x]
      /\ place'[c] = p /\ \A x \in Sessions \ {c} : place'[x] = place[x]
    BY DEF IInv, TypeOK, Set
<1>2. UNCHANGED <<allow, ways, network, caller, agent, merges, sent, returned>>
    BY DEF blocks, calls
<1>3. TypeOK'
    <2>1. place' \in [Sessions -> {"free", "made", "running", "over", "returned", "raised"}]
        BY SetIs DEF IInv, TypeOK
    <2>2. sly_data' \in [Sessions -> Dict]
        BY SetIs DEF IInv, TypeOK
    <2> QED
        BY <1>2, <2>1, <2>2 DEF IInv, TypeOK
<1>4. GoOn
    BY <1>1, <1>2 DEF GoOn
<1>5. ASSUME NEW x \in Sessions PROVE DataInv(x)'
    <2>1. DataInv(x)
        BY DEF IInv, SessionInv
    <2>2. CASE x = s
        BY <1>1, <1>2, <2>2 DEF DataInv, MayHave
    <2>3. CASE x # s
        BY <1>1, <1>2, <2>1, <2>3 DEF DataInv, MayHave
    <2> QED
        BY <2>2, <2>3
<1>6. ASSUME NEW x \in Sessions PROVE x # 0 => CallInv(x)' /\ SentInv(x)' /\ BackInv(x)'
    <2>1. CASE x = c
        <3>1. x # 0 => CallInv(x) /\ caller[x] \in Sessions
            BY DEF IInv, SessionInv, TypeOK
        <3> QED
            BY <1>1, <1>2, <1>4, <2>1, <3>1 DEF CallInv, SentInv, BackInv, GoOn
    <2>2. CASE x # c
        BY <1>1, <1>2, <1>4, <2>2, CallsStay DEF Kept
    <2> QED
        BY <2>1, <2>2
<1>7. place'[0] = "running" /\ network'[0] = Client
    BY <1>1, <1>2, Blocks DEF IInv
<1> QED
    BY <1>3, <1>5, <1>6, <1>7 DEF IInv, SessionInv

LEMMA MetadataMayBe ==
    ASSUME TypeOK, NEW n \in Networks, NEW data \in Dict, MayHave(n, data)
    PROVE  SetUp(data) \in Dict /\ MayHave(n, SetUp(data))
<1> DEFINE v == Value(Metadata, Metadata)
           metadata == [k \in {Metadata} |-> v]
<1>1. Metadata \in Keys /\ n \in Parties
    BY ConstantsAssumption DEF Parties
<1>2. v \in Values /\ <<n, Metadata>> \in Start(v) \cap Places
    BY <1>1 DEF Values, Start, Value, Places
<1>3. metadata \in Dict
    BY <1>1, <1>2, SingleIsDict
<1>4. <<v, <<n, Metadata>>>> \in ways
    BY <1>2, WaysAreClosed DEF TypeOK
<1>5. MayHave(n, metadata)
    BY <1>4 DEF MayHave
<1> QED
    BY <1>3, <1>5, MergedMayBe, UpdateMerges DEF SetUp

LEMMA StreamingChatStep ==
    ASSUME IInv, NEW c \in Sessions, StreamingChat(c)
    PROVE  IInv' /\ DataStays
<1> DEFINE base == IF sent[c].shared THEN sly_data[caller[c]] ELSE sent[c].data
<1>1. /\ c # 0 /\ CallInv(c) /\ SentInv(c) /\ DataInv(c) /\ place[c] = "made"
      /\ caller[c] \in Sessions /\ network[c] \in Parties /\ network[caller[c]] \in Parties
    BY DEF StreamingChat, IInv, SessionInv, TypeOK
<1>2. base \in Dict
    BY <1>1 DEF IInv, TypeOK
<1>3. MayHave(network[c], base)
    <2>1. CASE ~ sent[c].shared
        BY <1>1, <2>1 DEF SentInv
    <2>2. CASE sent[c].shared
        <3>1. /\ Downstream(allow[agent[c]]).form = "true" /\ network[c] \in Networks
              /\ agent[c] \in Agents[network[caller[c]]]
              /\ network[c] \in External[network[caller[c]]][agent[c]]
            BY <1>1, <2>2 DEF SentInv, CallInv
        <3>2. ASSUME NEW k \in DOMAIN base PROVE <<base[k], <<network[c], k>>>> \in ways
            <4>1. <<base[k], <<network[caller[c]], k>>>> \in ways
                BY <1>1, <2>2, <3>2 DEF IInv, SessionInv, DataInv, MayHave
            <4>2. k \in Keys /\ base[k] \in Values
                BY <1>2, DictIs
            <4>3. Step(allow, network[caller[c]], k, network[c], k)
                BY <3>1 DEF Step, Lets
            <4> QED
                BY <1>1, <4>1, <4>2, <4>3, GoesOn DEF IInv
        <3> QED
            BY <3>2 DEF MayHave
    <2> QED
        BY <2>1, <2>2
<1> HIDE DEF base
<1>4. SetUp(base) \in Dict /\ MayHave(network[c], SetUp(base))
    BY <1>1, <1>2, <1>3, MetadataMayBe DEF CallInv, IInv
<1>5. place' = Set(place, c, "running") /\ sly_data' = Set(sly_data, c, SetUp(base))
    BY DEF StreamingChat, base
<1>6. IInv'
    BY <1>1, <1>4, <1>5, DataStep DEF StreamingChat
<1>7. DataStays
    <2>1. \A x \in Sessions \ {c} : sly_data'[x] = sly_data[x]
        BY <1>5 DEF IInv, TypeOK, Set
    <2>2. DOMAIN sly_data[c] = {}
        BY <1>1, EmptyIsDict DEF DataInv
    <2> QED
        BY <2>1, <2>2 DEF DataStays
<1> QED
    BY <1>6, <1>7

LEMMA InvokeStep ==
    ASSUME IInv, NEW s \in Sessions, NEW k \in Keys, Invoke(s, k)
    PROVE  IInv' /\ DataStays
<1> DEFINE v == Value(network[s], k)
           written == [key \in {k} |-> v]
           data == Update(sly_data[s], written)
<1>1. /\ s # 0 /\ place[s] = "running" /\ k \in Writes[network[s]] /\ network[s] \in Networks
      /\ network[s] \in Parties /\ sly_data[s] \in Dict /\ MayHave(network[s], sly_data[s])
    BY DEF Invoke, IInv, SessionInv, CallInv, DataInv, TypeOK
<1>2. v \in Values /\ <<network[s], k>> \in Start(v) \cap Places
    BY <1>1, ConstantsAssumption DEF Values, Start, Value, Places
<1>3. written \in Dict /\ DOMAIN written = {k} /\ written[k] = v
    BY <1>2, SingleIsDict
<1>4. MayHave(network[s], written)
    BY <1>2, WaysAreClosed DEF IInv, TypeOK, MayHave
<1>5. data \in Dict /\ MayHave(network[s], data)
    BY <1>1, <1>3, <1>4, MergedMayBe, UpdateMerges
<1>6. sly_data' = Set(sly_data, s, data) /\ UNCHANGED <<blocks, place, calls, sent, returned>>
    BY DEF Invoke
<1>7. \A x \in DOMAIN sly_data[s] : x \in DOMAIN data /\ (data[x] = sly_data[s][x] \/ data[x] = Value(network[s], x))
    <2> HIDE DEF written, v
    <2>1. /\ DOMAIN data = DOMAIN sly_data[s] \cup {k}
          /\ \A x \in DOMAIN sly_data[s] \cup {k} :
                data[x] = IF x \in {k} THEN written[x] ELSE sly_data[s][x]
        BY <1>1, <1>3, UpdateMerges
    <2> HIDE DEF data
    <2> QED
        BY <1>3, <2>1 DEF v
<1> HIDE DEF data
<1>8. IInv'
    <2>1. place' = Set(place, s, "running")
        BY <1>1, <1>6 DEF IInv, TypeOK, Set
    <2> QED
        BY <1>1, <1>5, <1>6, <2>1, DataStep
<1>9. DataStays
    <2>1. sly_data'[s] = data /\ \A x \in Sessions \ {s} : sly_data'[x] = sly_data[x]
        BY <1>6 DEF IInv, TypeOK, Set
    <2> QED
        BY <1>1, <1>7, <2>1 DEF DataStays
<1> QED
    BY <1>8, <1>9

LEMMA RunItStep ==
    ASSUME IInv, NEW c \in Sessions, RunIt(c)
    PROVE  IInv' /\ DataStays
<1> DEFINE rule == allow[FrontMan[network[c]]].to_upstream
           answer == FilterConfig(rule, sly_data[c])
<1>1. /\ c # 0 /\ place[c] = "running" /\ CallInv(c) /\ network[c] \in Networks
      /\ sly_data[c] \in Dict /\ MayHave(network[c], sly_data[c])
    BY DEF RunIt, IInv, SessionInv, CallInv, DataInv, TypeOK
<1>2. rule \in Rule /\ No \notin Keys
    <2>1. allow[FrontMan[network[c]]] \in Block
        BY <1>1, Blocks DEF IInv
    <2> QED
        BY <2>1, ConstantsAssumption DEF Block
<1>3. /\ place' = Set(place, c, "over") /\ returned' = Set(returned, c, answer)
      /\ UNCHANGED <<blocks, calls, sent, sly_data>>
      /\ UNCHANGED <<allow, ways, network, caller, agent, merges>>
    BY DEF RunIt, blocks, calls
<1>4. /\ answer \in Dict
      /\ \A k \in DOMAIN answer : \E from \in DOMAIN sly_data[c] :
            Lets(rule, from, k) /\ answer[k] = sly_data[c][from]
    BY <1>1, <1>2, FilterLets
<1> HIDE DEF answer
<1>5. Upward(network[c], answer)
    <2> SUFFICES ASSUME NEW k \in DOMAIN answer
                 PROVE  \E from \in Keys : Lets(rule, from, k) /\ <<answer[k], <<network[c], from>>>> \in ways
        BY DEF Upward
    <2>1. PICK from \in DOMAIN sly_data[c] : Lets(rule, from, k) /\ answer[k] = sly_data[c][from]
        BY <1>4
    <2>2. from \in Keys /\ <<sly_data[c][from], <<network[c], from>>>> \in ways
        BY <1>1, DictIs DEF MayHave
    <2> QED
        BY <2>1, <2>2
<1>6. /\ place'[c] = "over" /\ returned'[c] = answer
      /\ \A x \in Sessions \ {c} : place'[x] = place[x] /\ returned'[x] = returned[x]
    BY <1>3, <1>4 DEF IInv, TypeOK, Set
<1>7. TypeOK'
    <2>1. place' \in [Sessions -> {"free", "made", "running", "over", "returned", "raised"}]
        BY <1>3, SetIs DEF IInv, TypeOK
    <2>2. returned' \in [Sessions -> Dict]
        BY <1>3, <1>4, SetIs DEF IInv, TypeOK
    <2> QED
        BY <1>3, <2>1, <2>2 DEF IInv, TypeOK
<1>8. GoOn
    BY <1>3, <1>6 DEF GoOn
<1>9. \A x \in Sessions : DataInv(x)'
    BY <1>1, <1>3, <1>6 DEF IInv, SessionInv, DataInv, MayHave
<1>10. CallInv(c)' /\ SentInv(c)' /\ BackInv(c)'
    <2>1. CallInv(c)'
        BY <1>1, <1>3, <1>8 DEF CallInv, GoOn, IInv, TypeOK
    <2>2. BackInv(c)'
        BY <1>3, <1>5, <1>6 DEF BackInv, Upward
    <2> QED
        BY <1>6, <2>1, <2>2 DEF SentInv
<1>11. \A x \in Sessions \ {c} : x # 0 => CallInv(x)' /\ SentInv(x)' /\ BackInv(x)'
    BY <1>3, <1>6, <1>8, CallsStay DEF Kept
<1>12. place'[0] = "running" /\ network'[0] = Client
    BY <1>1, <1>3, <1>6, Blocks DEF IInv
<1>13. IInv'
    BY <1>7, <1>9, <1>10, <1>11, <1>12 DEF IInv, SessionInv
<1>14. DataStays
    BY <1>3 DEF DataStays
<1> QED
    BY <1>13, <1>14

(* Where what has come back goes, what is allowed and accepted.                 *)
LEMMA AcceptedMayBe ==
    ASSUME IInv, NEW c \in Sessions, c # 0, place[c] = "over"
    PROVE  LET rule == allow[agent[c]].from_downstream
               accepted == FilterConfig(rule, returned[c])
           IN  /\ accepted \in Dict /\ MayHave(network[caller[c]], accepted)
               /\ \A k \in DOMAIN accepted : \E over \in Keys : Lets(rule, over, k)
<1> DEFINE rule == allow[agent[c]].from_downstream
           accepted == FilterConfig(rule, returned[c])
           m == network[caller[c]]
<1>1. /\ network[c] \in Networks /\ network[c] \in Parties /\ m \in Parties
      /\ agent[c] \in Agents[m] /\ network[c] \in External[m][agent[c]]
      /\ returned[c] \in Dict /\ Upward(network[c], returned[c])
    BY DEF IInv, SessionInv, CallInv, BackInv, TypeOK, Parties
<1>2. rule \in Rule /\ No \notin Keys
    <2>1. allow[agent[c]] \in Block
        BY <1>1, Blocks DEF IInv
    <2> QED
        BY <2>1, ConstantsAssumption DEF Block
<1>3. /\ accepted \in Dict
      /\ \A k \in DOMAIN accepted : \E over \in DOMAIN returned[c] :
            Lets(rule, over, k) /\ accepted[k] = returned[c][over]
    BY <1>1, <1>2, FilterLets
<1> HIDE DEF accepted
<1>4. ASSUME NEW k \in DOMAIN accepted
      PROVE  <<accepted[k], <<m, k>>>> \in ways /\ \E over \in Keys : Lets(rule, over, k)
    <2>1. PICK over \in DOMAIN returned[c] : Lets(rule, over, k) /\ accepted[k] = returned[c][over]
        BY <1>3
    <2>2. PICK from \in Keys : /\ Lets(allow[FrontMan[network[c]]].to_upstream, from, over)
                               /\ <<returned[c][over], <<network[c], from>>>> \in ways
        BY <1>1 DEF Upward
    <2>3. over \in Keys /\ k \in Keys /\ accepted[k] \in Values
        BY <1>1, <1>3, DictIs
    <2>4. Step(allow, network[c], from, m, k)
        BY <1>1, <2>1, <2>2, <2>3 DEF Step
    <2> QED
        BY <1>1, <2>1, <2>2, <2>3, <2>4, GoesOn DEF IInv
<1> QED
    BY <1>3, <1>4 DEF MayHave, accepted

LEMMA ReturnStep ==
    ASSUME IInv, NEW c \in Sessions, Return(c)
    PROVE  IInv' /\ DataStays
<1> DEFINE accepted == FilterConfig(allow[agent[c]].from_downstream, returned[c])
           s == caller[c]
           data == IF merges[c] THEN ParseToolOutput(sly_data[s], accepted) ELSE sly_data[s]
<1>1. /\ c # 0 /\ place[c] = "over" /\ s \in Sessions /\ place[s] \notin {"free", "made"}
      /\ agent[c] \in Agents[network[s]]
      /\ sly_data[s] \in Dict /\ MayHave(network[s], sly_data[s])
    BY DEF Return, IInv, SessionInv, CallInv, DataInv, TypeOK
<1>2. /\ accepted \in Dict /\ MayHave(network[s], accepted)
      /\ \A k \in DOMAIN accepted : \E over \in Keys : Lets(allow[agent[c]].from_downstream, over, k)
    BY <1>1, AcceptedMayBe
<1> HIDE DEF accepted
<1>3. /\ data \in Dict /\ MayHave(network[s], data)
      /\ \A k \in DOMAIN sly_data[s] :
            k \in DOMAIN data /\ (data[k] = sly_data[s][k] \/ k \in DOMAIN accepted)
    <2>1. /\ Update(sly_data[s], accepted) \in Dict
          /\ DOMAIN Update(sly_data[s], accepted) = DOMAIN sly_data[s] \cup DOMAIN accepted
          /\ \A k \in DOMAIN sly_data[s] \cup DOMAIN accepted :
                Update(sly_data[s], accepted)[k] = IF k \in DOMAIN accepted THEN accepted[k] ELSE sly_data[s][k]
        BY <1>1, <1>2, UpdateMerges
    <2>2. MayHave(network[s], ParseToolOutput(sly_data[s], accepted))
        BY <1>1, <1>2, MergedMayBe
    <2>3. data \in Dict
        BY <1>1, <2>1 DEF ParseToolOutput
    <2>4. MayHave(network[s], data)
        BY <1>1, <2>2
    <2>5. data = sly_data[s] \/ data = Update(sly_data[s], accepted)
        BY DEF ParseToolOutput
    <2> QED
        BY <2>1, <2>3, <2>4, <2>5
<1>4. /\ place' = Set(place, c, "returned") /\ sly_data' = Set(sly_data, s, data)
      /\ UNCHANGED <<blocks, calls, sent, returned>>
    BY <1>1 DEF Return, accepted, Set, IInv, TypeOK
<1> HIDE DEF data
<1>5. IInv'
    BY <1>1, <1>3, <1>4, DataStep
<1>6. DataStays
    <2>1. sly_data'[s] = data /\ \A x \in Sessions \ {s} : sly_data'[x] = sly_data[x]
        BY <1>1, <1>4 DEF IInv, TypeOK, Set
    <2>2. \A k \in DOMAIN sly_data[s] :
              /\ k \in DOMAIN sly_data'[s]
              /\ \/ sly_data'[s][k] = sly_data[s][k]
                 \/ \E a \in Agents[network[s]], from \in Keys : Lets(allow[a].from_downstream, from, k)
        BY <1>1, <1>2, <1>3, <2>1
    <2> QED
        BY <2>1, <2>2 DEF DataStays
<1> QED
    BY <1>5, <1>6

LEMMA RaiseStep ==
    ASSUME IInv, NEW c \in Sessions, Raise(c)
    PROVE  IInv' /\ DataStays
<1>1. 0 \notin Gone(c)
    <2> DEFINE S == Sessions \ {0}
    <2>1. S \in SUBSET Sessions /\ c \in S /\ 0 \notin S
        BY DEF Raise
    <2>2. \A d \in Sessions \ {0} : caller[d] \in S => d \in S
        OBVIOUS
    <2> HIDE DEF S
    <2> QED
        BY <2>1, <2>2 DEF Gone
<1>2. /\ place' \in [Sessions -> {"free", "made", "running", "over", "returned", "raised"}]
      /\ place'[0] = "running"
      /\ \A x \in Sessions : \/ place'[x] = place[x]
                             \/ place[x] # "free" /\ place'[x] = "raised"
    BY <1>1, Blocks DEF Raise, IInv, TypeOK
<1>3. /\ UNCHANGED <<blocks, calls, sent, sly_data, returned>>
      /\ UNCHANGED <<allow, ways, network, caller, agent, merges>>
    BY DEF Raise, blocks, calls
<1>4. TypeOK'
    BY <1>2, <1>3 DEF IInv, TypeOK
<1>5. GoOn
    BY <1>2, <1>3 DEF GoOn
<1>6. ASSUME NEW x \in Sessions PROVE SessionInv(x)'
    <2>1. SessionInv(x) /\ caller[x] \in Sessions
        BY DEF IInv, TypeOK
    <2>2. DataInv(x)'
        BY <1>2, <1>3, <2>1 DEF SessionInv, DataInv, MayHave
    <2>3. CASE place'[x] = place[x]
        BY <1>3, <1>5, <2>2, <2>3, CallsStay DEF Kept, SessionInv
    <2>4. CASE place[x] # "free" /\ place'[x] = "raised"
        BY <1>3, <1>5, <2>1, <2>2, <2>4 DEF SessionInv, CallInv, SentInv, BackInv, GoOn
    <2> QED
        BY <1>2, <2>3, <2>4
<1>7. DataStays
    BY <1>3 DEF DataStays
<1> QED
    BY <1>2, <1>3, <1>4, <1>6, <1>7 DEF IInv

-----------------------------------------------------------------------------
(* All steps                                                                   *)

LEMMA NextKeeps == ASSUME IInv, [Next]_vars PROVE IInv' /\ [DataStays]_vars
<1>1. ASSUME NEW s \in Sessions, NEW a \in Agents[network[s]], NEW m \in External[network[s]][a],
             CallNetwork(s, a, m) \/ UseTool(s, a, m)
      PROVE  IInv' /\ DataStays
    BY <1>1, CreateStep DEF CallNetwork, UseTool
<1>2. ASSUME NEW s \in Sessions, NEW k \in Keys, Invoke(s, k) PROVE IInv' /\ DataStays
    BY <1>2, InvokeStep
<1>3. ASSUME NEW c \in Sessions, StreamingChat(c) \/ RunIt(c) \/ Return(c) \/ Raise(c)
      PROVE  IInv' /\ DataStays
    BY <1>3, StreamingChatStep, RunItStep, ReturnStep, RaiseStep
<1>4. CASE UNCHANGED vars
    <2>1. UNCHANGED <<allow, ways, place, network, caller, agent, merges, sent, sly_data, returned>>
        BY <1>4 DEF vars, blocks, calls
    <2>2. TypeOK'
        BY <2>1 DEF IInv, TypeOK
    <2>3. \A x \in Sessions : SessionInv(x)'
        BY <2>1 DEF IInv, SessionInv, DataInv, CallInv, SentInv, BackInv, MayHave, Upward
    <2> QED
        BY <1>4, <2>1, <2>2, <2>3 DEF IInv
<1> QED
    BY <1>1, <1>2, <1>3, <1>4 DEF Next

LEMMA Invariance == Spec => []IInv
BY InitIsFine, NextKeeps, PTL DEF Spec

(* Whatever sessions are in motion, what each variable holds is of its type: a  *)
(* dictionary has known keys and values that somebody gave or wrote.            *)
THEOREM TypeCorrect == Spec => []TypeOK
BY Invariance, PTL DEF IInv

(* The redactors of all agents, with what parse_tool_output() merges at any     *)
(* time, let a private value get only where the "allow" blocks on its way say.  *)
THEOREM ValuesGoWhereAllowed == Spec => []SlyDataIsAllowed
<1>1. IInv => SlyDataIsAllowed
    BY DEF IInv, SessionInv, DataInv, MayHave, SlyDataIsAllowed
<1> QED
    BY <1>1, Invariance, PTL

(* No merge loses a key or overwrites one that no answer may fill.              *)
THEOREM OwnKeysAreKept == Spec => OwnDataStays
<1>1. IInv /\ [Next]_vars => [DataStays]_vars
    BY NextKeeps
<1> QED
    BY <1>1, Invariance, PTL DEF Spec, OwnDataStays, DataStays
===============================================================================
