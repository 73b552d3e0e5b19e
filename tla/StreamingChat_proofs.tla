------------------------ MODULE StreamingChat_proofs ------------------------
(***************************************************************************)
(* Proofs about StreamingChat, for any requests, threads and bounds: what  *)
(* follows the final item of a queue, and what a client gets.              *)
(***************************************************************************)
EXTENDS StreamingChat, SequenceTheorems, FiniteSetTheorems, TLAPS

\* The requests that AsyncAgentService has counted and not counted out: also those
\* whose streams were cut off.
Counted ==
    {r \in Requests : \/ consumer[r] \in {"waiting", "release", "close"}
                      \/ consumer[r] = "closed" /\ stream[r] = "cut"}

\* request_counter never goes below 0, since who is counted out was counted.
Counting == TypeOK /\ active = Cardinality(Counted)

\* The final item is the last one of a queue that knows it was put.
Closes(q, last) == \A i \in 1 .. Len(q) : q[i] = "end" => i = Len(q) /\ last

\* What was written for a client who got some of it.
Said(g, q) == g \o Messages(q)

\* A run that has not begun has written nothing.
Unbegun(r) ==
    /\ consumer[r] = "new" => run[r] = "none"
    /\ run[r] = "none" => ~last_message_sent[r]

\* The answer goes ahead of the final item, and nothing is written after it:
\* the run is over, or its queue takes nothing more.
AnswerIsLast(r) ==
    /\ run[r] = "put_final" => Client!Answered(r)
    /\ Client!Answered(r) => last_message_sent[r]
    /\ last_message_sent[r] => responses_last[r] \/ run[r] \in Over \cup {"put_final"}
    /\ responses_last[r] => last_message_sent[r]
    /\ \A i \in 1 .. Len(responses[r]) : responses[r][i] = "end" => Client!Answered(r)

\* What a request's queues hold, and how far its run and its stream have come.
RequestInv(r) ==
    /\ Closes(responses[r], responses_last[r])
    /\ Closes(queue[r], queue_last[r])
    /\ consumer[r] \in {"new", "waiting"} => stream[r] = "open"
    /\ Unbegun(r)
    /\ AnswerIsLast(r)

\* The inductive invariant.
IInv == Counting /\ \A r \in Requests : RequestInv(r)

-----------------------------------------------------------------------------
(* Types, and request_counter                                              *)

LEMMA SetTyped ==
    ASSUME NEW S, NEW f \in [Requests -> S], NEW r \in Requests, NEW v \in S
    PROVE  Set(f, r, v) \in [Requests -> S]
BY DEF Set

LEMMA LastAppended ==
    ASSUME NEW s \in Seq(Items), NEW item \in Items
    PROVE  /\ Append(s, item) # <<>>
           /\ Len(Append(s, item)) = Len(s) + 1
           /\ Append(s, item)[Len(s) + 1] = item
BY AppendProperties

LEMMA PutTyped ==
    ASSUME NEW q \in [Requests -> Seq(Items)], NEW r \in Requests, NEW item \in Items
    PROVE  Set(q, r, Append(q[r], item)) \in [Requests -> Seq(Items)]
<1>1. Append(q[r], item) \in Seq(Items)
  BY AppendProperties
<1> QED
  BY <1>1, SetTyped

LEMMA TakeTyped ==
    ASSUME NEW q \in [Requests -> Seq(Items)], NEW r \in Requests, q[r] # <<>>
    PROVE  /\ Head(q[r]) \in Items
           /\ Set(q, r, Tail(q[r])) \in [Requests -> Seq(Items)]
<1>1. Head(q[r]) \in Items /\ Tail(q[r]) \in Seq(Items)
  BY HeadTailProperties
<1> QED
  BY <1>1, SetTyped

LEMMA CountedIsFinite ==
    IsFiniteSet(Counted) /\ Cardinality(Counted) \in Nat
<1>1. Counted \subseteq Requests
  BY DEF Counted
<1> QED
  BY <1>1, ConstantsAssumption, FS_Subset, FS_CardinalityType

LEMMA InitCounting == Init => Counting
<1>1. SUFFICES ASSUME Init PROVE Counting
  OBVIOUS
<1>2. TypeOK
  BY <1>1 DEF Init, TypeOK, All, Over, Items
<1>3. Counted = {}
  BY <1>1 DEF Init, All, Counted
<1> QED
  BY <1>1, <1>2, <1>3, FS_EmptySet DEF Init, Counting

LEMMA StepCounting == Counting /\ [Next]_vars => Counting'
<1>1. SUFFICES ASSUME Counting, [Next]_vars PROVE Counting'
  OBVIOUS
<1> USE <1>1 DEF Counting, Over, session, response, reservation, handler, updater
<1>2. /\ responses \in [Requests -> Seq(Items)] /\ queue \in [Requests -> Seq(Items)]
      /\ got \in [Requests -> Seq(Items)]
      /\ "message" \in Items /\ "answer" \in Items /\ "item" \in Items /\ "end" \in Items
  BY DEF TypeOK, Items
<1>3. ASSUME NEW r \in Requests, Start(r) \/ StartWithoutText(r)
      PROVE  Counting'
  <2>1. /\ consumer[r] = "new"
        /\ active' = active + 1
        /\ \E where \in {"waiting", "close"} : consumer' = [consumer EXCEPT ![r] = where]
        /\ stream' = stream \/ stream' = [stream EXCEPT ![r] = "refused"]
    BY <1>3 DEF Start, StartWithoutText, Set
  <2>2. Counted' = Counted \cup {r} /\ r \notin Counted
    BY <2>1 DEF Counted, TypeOK
  <2>3. active' = Cardinality(Counted') /\ active' \in Nat
    BY <2>1, <2>2, CountedIsFinite, FS_AddElement
  <2>4. incoming' \in Seq(Requests)
    <3>1. incoming \in Seq(Requests) /\ Append(incoming, r) \in Seq(Requests)
      BY AppendProperties DEF TypeOK
    <3> QED
      BY <1>3, <3>1 DEF Start, StartWithoutText, AnnounceQueue
  <2>5. CASE Start(r)
    BY <2>3, <2>4, <2>5 DEF TypeOK, Start, Set, Goto
  <2>6. CASE StartWithoutText(r)
    BY <2>3, <2>4, <2>6 DEF TypeOK, StartWithoutText, Set, Goto
  <2> QED
    BY <1>3, <2>5, <2>6
<1>4. ASSUME NEW r \in Requests, CloseContext(r)
      PROVE  Counting'
  <2>1. r \in Counted
    BY <1>4 DEF CloseContext, Counted
  <2>2. Counted' = IF stream[r] = "cut" THEN Counted ELSE Counted \ {r}
    BY <1>4 DEF CloseContext, Counted, TypeOK, Set
  <2>3. active' = Cardinality(Counted')
    BY <1>4, <2>1, <2>2, CountedIsFinite, FS_RemoveElement DEF CloseContext
  <2>4. active' \in Nat
    BY <2>1, <2>2, <2>3, CountedIsFinite, FS_RemoveElement, FS_CardinalityType
  <2> QED
    BY <1>4, <2>3, <2>4 DEF CloseContext, TypeOK, Set, Goto
<1>5. ASSUME NEW r \in Requests, Receive(r)
      PROVE  Counting'
  <2>1. Counted' = Counted
    BY <1>5 DEF Receive, Counted, TypeOK, Set
  <2>2. /\ responses' \in [Requests -> Seq(Items)]
        /\ Head(responses[r]) \in Items
    BY <1>2, <1>5, TakeTyped DEF Receive
  <2>3. got' \in [Requests -> Seq(Items)]
    <3>1. Set(got, r, Append(got[r], Head(responses[r]))) \in [Requests -> Seq(Items)]
      BY <1>2, <2>2, PutTyped
    <3> QED
      BY <1>2, <1>5, <3>1 DEF Receive
  <2> QED
    BY <1>5, <2>1, <2>2, <2>3 DEF Receive, TypeOK, Set
<1>6. ASSUME NEW r \in Requests, CutOff(r) \/ DeleteResources(r)
      PROVE  Counting'
  <2>1. Counted' = Counted
    BY <1>6 DEF CutOff, DeleteResources, Counted, TypeOK, Set
  <2> QED
    BY <1>6, <2>1 DEF CutOff, DeleteResources, TypeOK, Set
<1>7. ASSUME NEW r \in Requests, Run(r) \/ SetUpFails(r) \/ ChatFails(r)
      PROVE  Counting'
  <2>0. ASSUME UNCHANGED handler, TypeOK'
        PROVE  Counting'
    BY <2>0 DEF Counted
  <2>12. /\ Set(responses, r, Append(responses[r], "message")) \in [Requests -> Seq(Items)]
        /\ Set(responses, r, Append(responses[r], "answer")) \in [Requests -> Seq(Items)]
        /\ Set(responses, r, Append(responses[r], "end")) \in [Requests -> Seq(Items)]
        /\ Set(queue, r, Append(queue[r], "item")) \in [Requests -> Seq(Items)]
        /\ Set(queue, r, Append(queue[r], "end")) \in [Requests -> Seq(Items)]
    BY <1>2, PutTyped
  <2>1. CASE SetUp(r)
    BY <2>0, <2>1 DEF SetUp, Finalize, TypeOK, Set, Goto
  <2>2. CASE ChatStart(r)
    BY <2>0, <2>2 DEF ChatStart, TypeOK, Set, Goto
  <2>3. CASE WriteMessage(r)
    <3>1. responses' \in [Requests -> Seq(Items)]
      BY <1>2, <2>3, <2>12 DEF WriteMessage, Put
    <3> QED
      BY <2>0, <2>3, <3>1 DEF WriteMessage, Put, TypeOK, Set, Goto
  <2>4. CASE Deploy(r)
    <3>1. queue' \in [Requests -> Seq(Items)]
      BY <1>2, <2>4, <2>12 DEF Deploy, Put
    <3>2. deploys' \in [Requests -> Nat] /\ event' \in [Requests -> BOOLEAN]
      BY <2>4 DEF Deploy, TypeOK, Set
    <3>3. run' \in [Requests -> Over \cup {"set_up", "chat_start", "chat", "wait", "write_last",
                                          "put_final", "close_reservationist"}]
      BY <2>4 DEF Deploy, TypeOK, Set, Goto
    <3> QED
      BY <2>0, <2>4, <3>1, <3>2, <3>3 DEF Deploy, TypeOK
  <2>5. CASE Confirmed(r)
    BY <2>0, <2>5 DEF Confirmed, TypeOK, Set, Goto
  <2>6. CASE EndChat(r)
    BY <2>0, <2>6 DEF EndChat, Finalize, TypeOK, Set, Goto
  <2>7. CASE WriteLastMessage(r)
    <3>1. responses' \in [Requests -> Seq(Items)]
      BY <1>2, <2>7, <2>12 DEF WriteLastMessage, Put
    <3> QED
      BY ZenonT(60), <2>0, <2>7, <3>1 DEF WriteLastMessage, Put, TypeOK, Set, Goto
  <2>8. CASE PutFinal(r)
    <3>1. responses' \in [Requests -> Seq(Items)]
      BY <1>2, <2>8, <2>12 DEF PutFinal, PutFinalItem
    <3> QED
      BY ZenonT(60), <2>0, <2>8, <3>1 DEF PutFinal, PutFinalItem, TypeOK, Set, Goto
  <2>9. CASE CloseReservationist(r)
    <3>1. queue' \in [Requests -> Seq(Items)]
      BY <1>2, <2>9, <2>12 DEF CloseReservationist, PutFinalItem
    <3> QED
      BY <2>0, <2>9, <3>1 DEF CloseReservationist, PutFinalItem, TypeOK, Set, Goto
  <2>10. CASE SetUpFails(r)
    BY <2>0, <2>10 DEF SetUpFails, Finalize, TypeOK, Set, Goto
  <2>11. CASE ChatFails(r)
    BY <2>0, <2>11 DEF ChatFails, TypeOK, Set, Goto
  <2> QED
    BY <1>7, <2>1, <2>2, <2>3, <2>4, <2>5, <2>6, <2>7, <2>8, <2>9, <2>10, <2>11 DEF Run
<1>8. ASSUME NEW r \in Requests, Work(r) \/ ProcessItemFails(r)
      PROVE  Counting'
  <2>1. queue' \in [Requests -> Seq(Items)]
    BY <1>2, <1>8, TakeTyped DEF Work, ProcessItem, FinishQueue, ProcessItemFails
  <2>2. TypeOK'
    BY <1>8, <2>1 DEF TypeOK, Set, Work, ProcessItem, FinishQueue, ProcessItemFails
  <2>3. Counted' = Counted /\ active' = active
    BY <1>8 DEF Counted, Work, ProcessItem, FinishQueue, ProcessItemFails
  <2> QED
    BY <2>2, <2>3
<1>9. CASE ProcessQueue
  <2>1. incoming' \in Seq(Requests) /\ Head(incoming) \in Requests
    BY <1>9, HeadTailProperties DEF ProcessQueue, TypeOK
  <2> QED
    BY <1>9, <2>1 DEF ProcessQueue, Counted, TypeOK
<1>10. CASE UNCHANGED vars
  BY <1>10 DEF vars, Counted, TypeOK
<1> QED
  BY <1>1, <1>3, <1>4, <1>5, <1>6, <1>7, <1>8, <1>9, <1>10 DEF Next, Consume

\* Every variable keeps to values of its kind; among them request_counter, which
\* is decremented only by requests that incremented it.
THEOREM TypeCorrect == Spec => []TypeOK
<1>1. Counting => TypeOK
  BY DEF Counting
<1> QED
  BY InitCounting, StepCounting, <1>1, PTL DEF Spec

-----------------------------------------------------------------------------
(* Queues that close                                                       *)

LEMMA PutCloses ==
    ASSUME NEW q \in Seq(Items), NEW item \in Items, item # "end", Closes(q, FALSE)
    PROVE  Closes(Append(q, item), FALSE)
BY AppendProperties DEF Closes

LEMMA EndCloses ==
    ASSUME NEW q \in Seq(Items), Closes(q, FALSE)
    PROVE  Closes(Append(q, "end"), TRUE)
<1>1. "end" \in Items
  BY DEF Items
<1> QED
  BY <1>1, AppendProperties DEF Closes

LEMMA TailEmpty ==
    ASSUME NEW q \in Seq(Items), Len(q) = 1
    PROVE  Tail(q) = <<>>
<1>1. q # <<>>
  BY EmptySeq
<1>2. Tail(q) \in Seq(Items) /\ Len(Tail(q)) = 0
  BY <1>1, HeadTailProperties
<1> QED
  BY <1>2, EmptySeq

LEMMA TakeCloses ==
    ASSUME NEW q \in Seq(Items), NEW last \in BOOLEAN, q # <<>>, Closes(q, last)
    PROVE  /\ Closes(Tail(q), last)
           /\ Head(q) = "end" => Tail(q) = <<>> /\ last
<1>1. /\ Len(q) \in Nat \ {0} /\ Head(q) = q[1]
      /\ Tail(q) \in Seq(Items) /\ Len(Tail(q)) = Len(q) - 1
      /\ \A i \in 1 .. Len(Tail(q)) : Tail(q)[i] = q[i + 1]
  BY HeadTailProperties, EmptySeq
<1>2. Closes(Tail(q), last)
  <2>1. SUFFICES ASSUME NEW i \in 1 .. Len(Tail(q)), Tail(q)[i] = "end"
                 PROVE  i = Len(Tail(q)) /\ last
    BY DEF Closes
  <2>2. i + 1 \in 1 .. Len(q) /\ q[i + 1] = "end"
    BY <1>1, <2>1
  <2>3. i + 1 = Len(q)
    BY <2>2 DEF Closes
  <2>4. last
    BY <2>2 DEF Closes
  <2>5. i = Len(Tail(q))
    <3>1. /\ i \in Nat /\ Len(q) \in Nat
          /\ Len(Tail(q)) = Len(q) - 1
      BY <1>1, <2>1
    <3>2. ASSUME NEW n \in Nat, NEW m, m = n - 1, i + 1 = n PROVE i = m
      BY <3>1, <3>2
    <3> QED
      BY <2>3, <3>1, <3>2
  <2> QED
    BY <2>4, <2>5
<1>3. ASSUME Head(q) = "end" PROVE Tail(q) = <<>> /\ last
  <2>1. 1 \in 1 .. Len(q) /\ q[1] = "end"
    BY <1>1, <1>3
  <2>2. 1 = Len(q)
    BY <2>1 DEF Closes
  <2>3. last
    BY <2>1 DEF Closes
  <2>4. Tail(q) = <<>>
    BY <1>1, <2>2, TailEmpty
  <2> QED
    BY <2>3, <2>4
<1> QED
  BY <1>2, <1>3

LEMMA SaidPut ==
    ASSUME NEW g \in Seq(Items), NEW q \in Seq(Items), Closes(q, FALSE)
    PROVE  /\ Said(g, q) \in Seq(Items)
           /\ \A item \in Items \ {"end"} :
                Said(g, Append(q, item)) = Append(Said(g, q), item)
           /\ Said(g, Append(q, "end")) = Said(g, q)
<1>1. Len(q) \in Nat /\ (q # <<>> => Len(q) \in 1 .. Len(q))
  BY LenProperties, EmptySeq
<1>2. Messages(q) = q
  BY <1>1 DEF Messages, Closes
<1>3. ASSUME NEW item \in Items \ {"end"}
      PROVE  Messages(Append(q, item)) = Append(q, item)
  BY <1>1, <1>3, AppendProperties DEF Messages
<1>4. Messages(Append(q, "end")) = q
  <2>1. "end" \in Items
    BY DEF Items
  <2>2. Messages(Append(q, "end")) = SubSeq(Append(q, "end"), 1, Len(q))
    BY <1>1, <2>1, AppendProperties DEF Messages
  <2> QED
    BY <1>1, <2>1, <2>2, AppendProperties
<1>5. ASSUME NEW item \in Items \ {"end"}
      PROVE  g \o Append(q, item) = Append(g \o q, item)
  OBVIOUS
<1> QED
  BY <1>2, <1>3, <1>4, <1>5, ConcatProperties DEF Said

LEMMA SaidTake ==
    ASSUME NEW g \in Seq(Items), NEW q \in Seq(Items), NEW last \in BOOLEAN, q # <<>>,
           Closes(q, last)
    PROVE  /\ Said(g, q) \in Seq(Items)
           /\ Head(q) = "end" => Said(g, q) = g /\ Said(g, Tail(q)) = g
           /\ Head(q) # "end" => /\ Said(Append(g, Head(q)), Tail(q)) = Said(g, q)
                                 /\ Len(g) < Len(Said(g, q))
                                 /\ Said(g, q)[Len(g) + 1] = Head(q)
<1>1. /\ Len(q) \in Nat \ {0} /\ Head(q) = q[1] /\ Head(q) \in Items
      /\ Tail(q) \in Seq(Items) /\ Len(Tail(q)) = Len(q) - 1
      /\ \A i \in 1 .. Len(Tail(q)) : Tail(q)[i] = q[i + 1]
  BY HeadTailProperties, EmptySeq
<1>2. Messages(q) \in Seq(Items)
  BY <1>1 DEF Messages
<1>3. Said(g, q) \in Seq(Items)
  BY <1>2, ConcatProperties DEF Said
<1>4. ASSUME Head(q) = "end"
      PROVE  Said(g, q) = g /\ Said(g, Tail(q)) = g
  <2>1. Tail(q) = <<>> /\ Len(q) = 1
    BY SMTT(30), <1>1, <1>4, TakeCloses, EmptySeq
  <2>2. Messages(q) = <<>> /\ Messages(<<>>) = <<>>
    BY <1>1, <1>4, <2>1 DEF Messages
  <2> QED
    BY <2>1, <2>2, ConcatEmptySeq DEF Said
<1>5. ASSUME Head(q) # "end"
      PROVE  /\ Said(Append(g, Head(q)), Tail(q)) = Said(g, q)
             /\ Len(g) < Len(Said(g, q))
             /\ Said(g, q)[Len(g) + 1] = Head(q)
  <2>1. Messages(q) = <<Head(q)>> \o Messages(Tail(q))
    <3>1. CASE Len(q) = 1
      <4>0. Tail(q) = <<>>
        BY <1>1, <3>1, TailEmpty
      <4>1. Messages(q) = q /\ Messages(<<>>) = <<>>
        BY <1>1, <1>5, <3>1 DEF Messages
      <4>2. <<Head(q)>> \in Seq(Items) /\ <<Head(q)>> = q
        BY <1>1, <3>1
      <4> QED
        BY <4>0, <4>1, <4>2, ConcatEmptySeq
    <3>2. CASE Len(q) # 1
      <4>1. /\ Tail(q) # <<>> /\ Len(q) - 1 \in 1 .. Len(Tail(q))
            /\ Tail(q)[Len(Tail(q))] = q[Len(q)]
        BY <1>1, <3>2, EmptySeq
      <4>2. q = <<Head(q)>> \o Tail(q)
        BY <1>1
      <4>3. CASE q[Len(q)] # "end"
        BY <4>1, <4>2, <4>3 DEF Messages
      <4>4. CASE q[Len(q)] = "end"
        <5>1. /\ Messages(q) = SubSeq(q, 1, Len(q) - 1)
              /\ Messages(Tail(q)) = SubSeq(Tail(q), 1, Len(q) - 2)
          BY <1>1, <4>1, <4>4 DEF Messages
        <5> DEFINE a == SubSeq(q, 1, Len(q) - 1)
                   b == SubSeq(Tail(q), 1, Len(q) - 2)
                   c == <<Head(q)>>
        <5>2. a \in Seq(Items) /\ b \in Seq(Items) /\ c \in Seq(Items)
          BY <1>1
        <5>3. Len(a) = Len(q) - 1 /\ Len(b) = Len(q) - 2 /\ Len(c) = 1
          BY <1>1, <3>2
        <5>4. /\ \A i \in 1 .. Len(q) - 1 : a[i] = q[i]
              /\ \A i \in 1 .. Len(q) - 2 : b[i] = q[i + 1]
              /\ c[1] = q[1]
          BY <1>1, <3>2
        <5>5. c \o b \in Seq(Items) /\ Len(c \o b) = Len(a)
          BY <1>1, <3>2, <5>2, <5>3, ConcatProperties
        <5>6. \A i \in 1 .. Len(a) : (c \o b)[i] = a[i]
          BY <1>1, <3>2, <5>2, <5>3, <5>4, ConcatProperties
        <5>7. c \o b = a
          BY ZenonT(60), <5>2, <5>5, <5>6, SeqEqual
        <5> QED
          BY <5>1, <5>7
      <4> QED
        BY <4>3, <4>4
    <3> QED
      BY <3>1, <3>2
  <2>2. Messages(Tail(q)) \in Seq(Items)
    BY <1>1 DEF Messages
  <2>3. Append(g, Head(q)) = g \o <<Head(q)>>
    BY <1>1, AppendIsConcat
  <2>4. Said(Append(g, Head(q)), Tail(q)) = Said(g, q)
    <3>1. <<Head(q)>> \in Seq(Items)
      BY <1>1
    <3>2. (g \o <<Head(q)>>) \o Messages(Tail(q)) = g \o (<<Head(q)>> \o Messages(Tail(q)))
      BY <3>1, <2>2, ConcatAssociative
    <3> QED
      BY <2>1, <2>3, <3>2 DEF Said
  <2>6. /\ <<Head(q)>> \in Seq(Items) /\ Len(<<Head(q)>>) = 1 /\ <<Head(q)>>[1] = Head(q)
        /\ Len(Messages(Tail(q))) \in Nat
    BY <1>1, <2>2
  <2>7. Len(Messages(q)) \in Nat \ {0} /\ Messages(q)[1] = Head(q)
    BY <1>1, <1>2, <2>1, <2>2, <2>6, ConcatProperties
  <2> QED
    BY <1>2, <2>4, <2>7, ConcatProperties DEF Said
<1> QED
  BY <1>3, <1>4, <1>5

-----------------------------------------------------------------------------
(* The invariant, and the steps of AnswerStream                            *)

\* A step of one request leaves the others as they are.
LEMMA Elsewhere ==
    ASSUME IInv, Counting', NEW r \in Requests, RequestInv(r)',
           \A x \in Requests \ {r} :
                UNCHANGED <<consumer[x], stream[x], got[x], run[x], last_message_sent[x],
                            responses[x], responses_last[x], queue[x], queue_last[x]>>
    PROVE  IInv'
<1>1. ASSUME NEW x \in Requests \ {r}
      PROVE  RequestInv(x)'
  <2>1. Client!Answered(x)' = Client!Answered(x)
    BY DEF Client!Answered, Written
  <2> QED
    BY <2>1 DEF IInv, RequestInv, Unbegun, AnswerIsLast, Closes
<1> QED
  BY <1>1 DEF IInv

\* A step that writes and receives nothing.
LEMMA Quiet ==
    ASSUME IInv, NEW r \in Requests, UNCHANGED <<got, responses>>
    PROVE  /\ Written' = Written
           /\ Client!Answered(r)' = Client!Answered(r)
BY DEF Client!Answered, Written

\* A step that ends a stream.
LEMMA StreamEnds ==
    ASSUME NEW r \in Requests, NEW how \in {"ended", "refused", "cut"},
           stream[r] = "open", stream'[r] = how,
           \A x \in Requests \ {r} : stream'[x] = stream[x]
    PROVE  /\ StreamState[r] = "open"
           /\ StreamState' = [StreamState EXCEPT ![r] = IF how = "ended" THEN "ended" ELSE "cut"]
<1>1. \A x \in Requests : StreamState'[x] = IF x = r THEN IF how = "ended" THEN "ended" ELSE "cut"
                                             ELSE StreamState[x]
  BY DEF StreamState
<1>2. StreamState' = [x \in Requests |-> StreamState'[x]]
  BY DEF StreamState
<1>3. StreamState = [x \in Requests |-> StreamState[x]]
  BY DEF StreamState
<1>4. StreamState[r] = "open"
  BY DEF StreamState
<1> QED
  BY <1>1, <1>2, <1>3, <1>4

\* A step of the consumer that receives nothing.
LEMMA ConsumerSteps ==
    ASSUME IInv, Counting', NEW r \in Requests,
           Start(r) \/ StartWithoutText(r) \/ CutOff(r) \/ DeleteResources(r) \/ CloseContext(r)
    PROVE  IInv' /\ [Client!Next]_(Client!vars)
<1> USE DEF IInv, Counting, TypeOK, Set, Goto, Over, session, response, reservation, updater
<1>1. UNCHANGED <<got, responses, responses_last, queue, queue_last, last_message_sent>>
  BY DEF Start, StartWithoutText, CutOff, DeleteResources, CloseContext
<1>2. Written' = Written /\ Client!Answered(r)' = Client!Answered(r)
  BY <1>1, Quiet
<1>3. RequestInv(r)'
  <2>1. consumer'[r] \in {"new", "waiting"} => stream'[r] = "open"
    BY DEF RequestInv, Start, StartWithoutText, CutOff, DeleteResources, CloseContext
  <2>2. Unbegun(r)'
    BY SMTT(30), <1>1 DEF RequestInv, Unbegun, Start, StartWithoutText, CutOff, DeleteResources, CloseContext
  <2>3. AnswerIsLast(r)'
    BY <1>1, <1>2 DEF RequestInv, Unbegun, AnswerIsLast, Start, StartWithoutText, CutOff,
                      DeleteResources, CloseContext
  <2> QED
    BY <1>1, <2>1, <2>2, <2>3 DEF RequestInv, Closes
<1>4. IInv'
  <2>1. \A x \in Requests \ {r} : UNCHANGED <<consumer[x], stream[x], run[x]>>
    <3>1. CASE Start(r)
      BY <3>1 DEF Start
    <3>2. CASE StartWithoutText(r)
      BY <3>2 DEF StartWithoutText
    <3>3. CASE CutOff(r)
      BY <3>3 DEF CutOff
    <3>4. CASE DeleteResources(r)
      BY <3>4 DEF DeleteResources
    <3>5. CASE CloseContext(r)
      BY <3>5 DEF CloseContext
    <3> QED
      BY <3>1, <3>2, <3>3, <3>4, <3>5
  <2> QED
    BY <1>1, <1>3, <2>1, Elsewhere
<1>5. CASE StartWithoutText(r) \/ CutOff(r)
  <2>1. /\ stream[r] = "open" /\ stream'[r] \in {"refused", "cut"}
        /\ \A x \in Requests \ {r} : stream'[x] = stream[x]
    BY <1>5 DEF RequestInv, StartWithoutText, CutOff
  <2>2. StreamState[r] = "open" /\ StreamState' = [StreamState EXCEPT ![r] = "cut"]
    BY <2>1, StreamEnds
  <2> QED
    BY <1>1, <1>2, <1>4, <2>2 DEF Client!Next, Client!Cut
<1>6. CASE Start(r) \/ DeleteResources(r) \/ CloseContext(r)
  <2>1. UNCHANGED stream
    BY <1>6 DEF Start, DeleteResources, CloseContext
  <2> QED
    BY <1>1, <1>2, <1>4, <2>1 DEF StreamState, Client!vars
<1> QED
  BY <1>5, <1>6

\* What the run's steps that write nothing for the client, and the updater's,
\* leave alone.
LEMMA SilentMoves ==
    ASSUME TypeOK, NEW r \in Requests,
           \/ SetUp(r) \/ ChatStart(r) \/ Deploy(r) \/ Confirmed(r) \/ EndChat(r)
           \/ CloseReservationist(r) \/ SetUpFails(r) \/ ChatFails(r)
           \/ Work(r) \/ ProcessItemFails(r)
    PROVE  /\ UNCHANGED <<got, responses, responses_last, last_message_sent, consumer, stream>>
           /\ \A x \in Requests \ {r} : UNCHANGED <<run[x], queue[x], queue_last[x]>>
           /\ \/ run'[r] = run[r]
              \/ /\ run[r] \notin Over \cup {"put_final"}
                 /\ run'[r] \notin {"none", "put_final"}
<1> USE DEF TypeOK, Set, Goto, Over, session, response, reservation, handler, updater
<1>1. CASE SetUp(r)
  BY <1>1 DEF SetUp, Finalize
<1>2. CASE ChatStart(r)
  BY <1>2 DEF ChatStart
<1>3. CASE Deploy(r)
  BY <1>3 DEF Deploy, Put
<1>4. CASE Confirmed(r)
  BY <1>4 DEF Confirmed
<1>5. CASE EndChat(r)
  BY <1>5 DEF EndChat, Finalize
<1>6. CASE CloseReservationist(r)
  BY <1>6 DEF CloseReservationist, PutFinalItem
<1>7. CASE SetUpFails(r)
  BY <1>7 DEF SetUpFails, Finalize
<1>8. CASE ChatFails(r)
  BY <1>8 DEF ChatFails
<1>9. CASE Work(r)
  BY <1>9 DEF Work, ProcessItem, FinishQueue
<1>10. CASE ProcessItemFails(r)
  BY <1>10 DEF ProcessItemFails
<1> QED
  BY <1>1, <1>2, <1>3, <1>4, <1>5, <1>6, <1>7, <1>8, <1>9, <1>10

LEMMA QueueCloses ==
    ASSUME IInv, NEW r \in Requests,
           \/ SetUp(r) \/ ChatStart(r) \/ Deploy(r) \/ Confirmed(r) \/ EndChat(r)
           \/ CloseReservationist(r) \/ SetUpFails(r) \/ ChatFails(r)
           \/ Work(r) \/ ProcessItemFails(r)
    PROVE  Closes(queue[r], queue_last[r])'
<1>1. /\ queue \in [Requests -> Seq(Items)] /\ queue_last \in [Requests -> BOOLEAN]
      /\ queue[r] \in Seq(Items) /\ Closes(queue[r], queue_last[r])
  BY DEF IInv, Counting, TypeOK, RequestInv
<1>2. CASE Deploy(r)
  <2>1. CASE queue_last[r]
    BY <1>1, <1>2, <2>1 DEF Deploy, Put, Closes
  <2>2. CASE ~queue_last[r]
    <3>1. Closes(queue[r], FALSE)
      BY <1>1, <2>2 DEF Closes
    <3>2. Closes(Append(queue[r], "item"), FALSE)
      BY <1>1, <3>1, PutCloses DEF Items
    <3>3. queue'[r] = Append(queue[r], "item")
      BY <1>1, <1>2, <2>2 DEF Deploy, Put, Set
    <3> QED
      BY <3>2, <3>3 DEF Closes
  <2> QED
    BY <2>1, <2>2
<1>3. CASE CloseReservationist(r)
  <2>1. CASE queue_last[r] \/ r \notin Reserving
    <3>1. queue' = queue /\ (queue_last[r] => queue_last'[r])
      BY <1>1, <1>3, <2>1 DEF CloseReservationist, PutFinalItem, Set
    <3> QED
      BY <1>1, <3>1 DEF Closes
  <2>2. CASE ~queue_last[r] /\ r \in Reserving
    <3>1. Closes(queue[r], FALSE)
      BY <1>1, <2>2 DEF Closes
    <3>2. Closes(Append(queue[r], "end"), TRUE)
      BY <1>1, <3>1, EndCloses
    <3>3. queue'[r] = Append(queue[r], "end")
      BY <1>1, <1>3, <2>2 DEF CloseReservationist, PutFinalItem, Set
    <3>4. queue_last'[r] = TRUE
      BY <1>1, <1>3, <2>2 DEF CloseReservationist, PutFinalItem, Set
    <3> QED
      BY <3>2, <3>3, <3>4 DEF Closes
  <2> QED
    BY <2>1, <2>2
<1>4. CASE Work(r) \/ ProcessItemFails(r)
  <2>1. queue[r] # <<>> /\ queue'[r] = Tail(queue[r])
    BY <1>1, <1>4 DEF Work, ProcessItem, FinishQueue, ProcessItemFails, Set
  <2>2. queue_last' = queue_last
    BY <1>4 DEF Work, ProcessItem, FinishQueue, ProcessItemFails
  <2>3. Closes(Tail(queue[r]), queue_last[r])
    BY <1>1, <2>1, TakeCloses
  <2> QED
    BY <2>1, <2>2, <2>3 DEF Closes
<1>5. CASE \/ SetUp(r) \/ ChatStart(r) \/ Confirmed(r) \/ EndChat(r)
           \/ SetUpFails(r) \/ ChatFails(r)
  <2>1. UNCHANGED <<queue, queue_last>>
    BY <1>5 DEF SetUp, ChatStart, Confirmed, EndChat, SetUpFails, ChatFails, reservation
  <2> QED
    BY <1>1, <2>1 DEF Closes
<1> QED
  BY <1>2, <1>3, <1>4, <1>5

LEMMA SilentSteps ==
    ASSUME IInv, Counting', NEW r \in Requests,
           \/ SetUp(r) \/ ChatStart(r) \/ Deploy(r) \/ Confirmed(r) \/ EndChat(r)
           \/ CloseReservationist(r) \/ SetUpFails(r) \/ ChatFails(r)
           \/ Work(r) \/ ProcessItemFails(r)
    PROVE  IInv' /\ [Client!Next]_(Client!vars)
<1>1. /\ UNCHANGED <<got, responses, responses_last, last_message_sent, consumer, stream>>
      /\ \A x \in Requests \ {r} : UNCHANGED <<run[x], queue[x], queue_last[x]>>
      /\ \/ run'[r] = run[r]
         \/ /\ run[r] \notin Over \cup {"put_final"}
            /\ run'[r] \notin {"none", "put_final"}
  BY SilentMoves DEF IInv, Counting
<1>2. Written' = Written /\ Client!Answered(r)' = Client!Answered(r)
  BY <1>1, Quiet
<1>3. Unbegun(r)' /\ AnswerIsLast(r)'
  BY <1>1, <1>2 DEF IInv, RequestInv, Unbegun, AnswerIsLast, Over
<1>4. Closes(queue[r], queue_last[r])'
  BY QueueCloses
<1>5. RequestInv(r)'
  BY <1>1, <1>3, <1>4 DEF IInv, RequestInv, Closes
<1>6. IInv'
  BY <1>1, <1>5, Elsewhere
<1> QED
  BY <1>1, <1>2, <1>6 DEF StreamState, Client!vars

\* A message that the consumer takes was the next one to come, and the final
\* item comes when it has them all.
LEMMA ReceiveSteps ==
    ASSUME IInv, Counting', NEW r \in Requests, Receive(r)
    PROVE  IInv' /\ [Client!Next]_(Client!vars)
<1> DEFINE q == responses[r]
           g == got[r]
<1>1. /\ responses \in [Requests -> Seq(Items)] /\ got \in [Requests -> Seq(Items)]
      /\ responses_last[r] \in BOOLEAN
      /\ stream \in [Requests -> {"open", "ended", "cut", "refused"}]
      /\ consumer \in [Requests -> {"new", "waiting", "release", "close", "closed"}]
      /\ q \in Seq(Items) /\ g \in Seq(Items)
  BY DEF IInv, Counting, TypeOK
<1>2. /\ q # <<>> /\ Closes(q, responses_last[r])
      /\ stream[r] = "open" /\ consumer[r] = "waiting"
  BY DEF IInv, RequestInv, Receive
<1>3. /\ responses' = [responses EXCEPT ![r] = Tail(q)]
      /\ UNCHANGED <<run, last_message_sent, responses_last, queue, queue_last>>
      /\ \A x \in Requests \ {r} : UNCHANGED <<consumer[x], stream[x], got[x], responses[x]>>
  BY <1>1 DEF Receive, Set, session, reservation
<1>4. /\ Closes(Tail(q), responses_last[r])
      /\ Len(q) \in Nat \ {0} /\ Head(q) = q[1] /\ Len(Tail(q)) = Len(q) - 1
      /\ \A i \in 1 .. Len(Tail(q)) : Tail(q)[i] = q[i + 1]
  BY <1>1, <1>2, TakeCloses, HeadTailProperties, EmptySeq
<1>5. Written'[r] = Written[r]
  <2>1. CASE Head(q) = "end"
    <3>1. got' = got
      BY <2>1 DEF Receive
    <3>2. Said(g, Tail(q)) = Said(g, q)
      BY <1>1, <1>2, <2>1, SaidTake
    <3> QED
      BY <1>1, <1>3, <3>1, <3>2 DEF Written, Said
  <2>2. CASE Head(q) # "end"
    <3>1. got' = [got EXCEPT ![r] = Append(g, Head(q))]
      BY <2>2 DEF Receive, Set
    <3>2. Said(Append(g, Head(q)), Tail(q)) = Said(g, q)
      BY <1>1, <1>2, <2>2, SaidTake
    <3> QED
      BY <1>1, <1>3, <3>1, <3>2 DEF Written, Said
  <2> QED
    BY <2>1, <2>2
<1>6. Written' = Written
  <2>1. \A x \in Requests \ {r} : Written'[x] = Written[x]
    <3>1. ASSUME NEW x \in Requests \ {r} PROVE Written'[x] = Written[x]
      <4>1. got'[x] = got[x] /\ responses'[x] = responses[x]
        BY <1>3
      <4> QED
        BY <4>1 DEF Written
    <3> QED
      BY <3>1
  <2>2. Written' = [x \in Requests |-> Written'[x]] /\ Written = [x \in Requests |-> Written[x]]
    BY DEF Written
  <2> QED
    BY <1>5, <2>1, <2>2
<1>7. Client!Answered(r)' = Client!Answered(r)
  BY <1>6 DEF Client!Answered
<1>8. RequestInv(r)'
  <2>1. Closes(responses[r], responses_last[r])' /\ Closes(queue[r], queue_last[r])'
    BY ZenonT(60), <1>1, <1>3, <1>4 DEF IInv, RequestInv, Closes
  <2>2. consumer'[r] # "new" /\ (consumer'[r] = "waiting" => stream'[r] = "open")
    BY <1>1, <1>2 DEF Receive, Set
  <2>3. Unbegun(r)'
    BY <1>3, <2>2 DEF IInv, RequestInv, Unbegun
  <2>4. \A i \in 1 .. Len(Tail(q)) : Tail(q)[i] = "end" => Client!Answered(r)
    <3>1. ASSUME NEW i \in 1 .. Len(Tail(q)), Tail(q)[i] = "end" PROVE Client!Answered(r)
      <4>1. i + 1 \in 1 .. Len(q) /\ q[i + 1] = "end"
        BY <1>4, <3>1
      <4> QED
        BY <4>1 DEF IInv, RequestInv, AnswerIsLast
    <3> QED
      BY <3>1
  <2>5. AnswerIsLast(r)'
    BY <1>1, <1>3, <1>7, <2>4 DEF IInv, RequestInv, AnswerIsLast, Over
  <2> QED
    BY <2>1, <2>2, <2>3, <2>5 DEF RequestInv
<1>9. IInv'
  BY <1>3, <1>8, Elsewhere
<1>10. CASE Head(q) = "end"
  <2>1. Written[r] = g /\ got' = got
    BY <1>1, <1>2, <1>10, SaidTake DEF Written, Said, Receive
  <2>2. Client!Answered(r)
    <3>1. 1 \in 1 .. Len(q) /\ q[1] = "end"
      BY <1>4, <1>10
    <3> QED
      BY <3>1 DEF IInv, RequestInv, AnswerIsLast
  <2>3. stream'[r] = "ended"
    BY <1>1, <1>10 DEF Receive, Set
  <2>4. StreamState[r] = "open" /\ StreamState' = [StreamState EXCEPT ![r] = "ended"]
    BY <1>2, <1>3, <2>3, StreamEnds
  <2>5. Client!End(r)
    BY <1>6, <2>1, <2>2, <2>4 DEF Client!End
  <2> QED
    BY <1>9, <2>5 DEF Client!Next
<1>11. CASE Head(q) # "end"
  <2>1. got' = [got EXCEPT ![r] = Append(g, Head(q))] /\ stream' = stream
    BY <1>11 DEF Receive, Set
  <2>2. /\ Len(g) < Len(Written[r])
        /\ Written[r][Len(g) + 1] = Head(q)
    BY <1>1, <1>2, <1>11, SaidTake DEF Written, Said
  <2>3. StreamState' = StreamState /\ StreamState[r] = "open"
    BY <1>2, <2>1 DEF StreamState
  <2>4. Client!Receive(r)
    BY <1>6, <2>1, <2>2, <2>3 DEF Client!Receive
  <2> QED
    BY <1>9, <2>4 DEF Client!Next
<1> QED
  BY <1>10, <1>11

\* A message is written before the answer, on a queue that has no final item.
LEMMA Writing ==
    ASSUME IInv, Counting', NEW r \in Requests, NEW message \in {"message", "answer"},
           ~Client!Answered(r), ~responses_last[r],
           Put(responses, responses_last, r, message), UNCHANGED <<got, stream>>
    PROVE  /\ Client!Write(r, message)
           /\ Client!Answered(r)' <=> message = "answer"
           /\ Closes(responses'[r], FALSE)
           /\ \A x \in Requests \ {r} : responses'[x] = responses[x]
<1>1. /\ responses \in [Requests -> Seq(Items)] /\ got[r] \in Seq(Items)
      /\ responses[r] \in Seq(Items) /\ message \in Items \ {"end"}
  BY DEF IInv, Counting, TypeOK, Items
<1>2. Closes(responses[r], FALSE)
  BY DEF IInv, RequestInv, Closes
<1>3. responses' = [responses EXCEPT ![r] = Append(responses[r], message)]
  BY DEF Put, Set
<1>4. Written[r] \in Seq(Items) /\ Written'[r] = Append(Written[r], message)
  <2>1. Written[r] = Said(got[r], responses[r])
        /\ Written'[r] = Said(got[r], Append(responses[r], message))
    BY <1>1, <1>3 DEF Written, Said
  <2>2. /\ Said(got[r], responses[r]) \in Seq(Items)
        /\ \A item \in Items \ {"end"} :
             Said(got[r], Append(responses[r], item)) = Append(Said(got[r], responses[r]), item)
    BY <1>1, <1>2, SaidPut
  <2> QED
    BY <1>1, <2>1, <2>2
<1>5. \A x \in Requests \ {r} : Written'[x] = Written[x] /\ responses'[x] = responses[x]
  BY <1>1, <1>3 DEF Written
<1>6. Written' = [Written EXCEPT ![r] = Append(Written[r], message)]
  <2>1. Written' = [x \in Requests |-> Written'[x]] /\ Written = [x \in Requests |-> Written[x]]
    BY DEF Written
  <2> QED
    BY <1>4, <1>5, <2>1
<1>7. StreamState' = StreamState
  BY DEF StreamState
<1>8. Client!Write(r, message)
  BY <1>6, <1>7 DEF Client!Write
<1>9. Client!Answered(r)' <=> message = "answer"
  <2>1. /\ Written'[r] # <<>> /\ Len(Written'[r]) = Len(Written[r]) + 1
        /\ Written'[r][Len(Written[r]) + 1] = message
    <3>1. Written[r] \in Seq(Items) /\ message \in Items /\ Written'[r] = Append(Written[r], message)
      BY <1>1, <1>4
    <3>2. /\ Append(Written[r], message) # <<>>
          /\ Len(Append(Written[r], message)) = Len(Written[r]) + 1
          /\ Append(Written[r], message)[Len(Written[r]) + 1] = message
      BY <3>1, LastAppended
    <3> QED
      BY <3>1, <3>2
  <2>2. Client!Answered(r)' <=> Written'[r] # <<>> /\ Written'[r][Len(Written'[r])] = "answer"
    BY DEF Client!Answered
  <2> QED
    BY <2>1, <2>2
<1>10. Closes(responses'[r], FALSE)
  BY <1>1, <1>2, <1>3, PutCloses
<1> QED
  BY <1>5, <1>8, <1>9, <1>10

\* What the steps of the run that may write leave alone.
LEMMA RunMoves ==
    ASSUME TypeOK, NEW r \in Requests, WriteMessage(r) \/ WriteLastMessage(r) \/ PutFinal(r)
    PROVE  /\ UNCHANGED <<consumer, stream, got, queue, queue_last>>
           /\ \A x \in Requests \ {r} :
                UNCHANGED <<run[x], last_message_sent[x], responses_last[x], responses[x]>>
           /\ run[r] \in {"chat", "write_last", "put_final"} /\ run'[r] # "none"
<1> USE DEF TypeOK, Set, Goto, Over, response, reservation, handler, updater
<1>1. CASE WriteMessage(r)
  BY <1>1 DEF WriteMessage, Put
<1>2. CASE WriteLastMessage(r)
  BY <1>2 DEF WriteLastMessage, Put
<1>3. CASE PutFinal(r)
  BY <1>3 DEF PutFinal, PutFinalItem
<1> QED
  BY <1>1, <1>2, <1>3

LEMMA WriteMessageStep ==
    ASSUME IInv, Counting', NEW r \in Requests, WriteMessage(r)
    PROVE  IInv' /\ [Client!Next]_(Client!vars)
<1>1. /\ UNCHANGED <<consumer, stream, got, queue, queue_last, last_message_sent, responses_last>>
      /\ \A x \in Requests \ {r} : UNCHANGED <<run[x], responses[x]>>
      /\ run[r] = "chat" /\ run'[r] \in {"chat", "failed"}
  <2>1. TypeOK
    BY DEF IInv, Counting
  <2>2. UNCHANGED <<last_message_sent, responses_last>>
    BY DEF WriteMessage
  <2>3. run[r] = "chat" /\ run'[r] \in {"chat", "failed"}
    BY DEF WriteMessage, Goto, Set, IInv, Counting, TypeOK
  <2> QED
    BY <2>1, <2>2, <2>3, RunMoves
<1>2. CASE PutRaises(r) \/ responses_last[r]
  <2>1. UNCHANGED responses
    BY <1>2 DEF WriteMessage, Put
  <2>2. Written' = Written /\ Client!Answered(r)' = Client!Answered(r)
    BY <1>1, <2>1, Quiet
  <2>3. RequestInv(r)'
    BY <1>1, <2>1, <2>2 DEF IInv, RequestInv, Closes, Unbegun, AnswerIsLast, Over
  <2>4. IInv'
    BY <1>1, <2>1, <2>3, Elsewhere
  <2> QED
    BY <1>1, <2>1, <2>2, <2>4 DEF StreamState, Client!vars
<1>3. CASE ~PutRaises(r) /\ ~responses_last[r]
  <2>1. Put(responses, responses_last, r, "message") /\ UNCHANGED run
    BY <1>3 DEF WriteMessage
  <2>2. ~last_message_sent[r] /\ ~Client!Answered(r)
    BY <1>1, <1>3 DEF IInv, RequestInv, AnswerIsLast, Over
  <2>3. /\ Client!Write(r, "message") /\ ~Client!Answered(r)'
        /\ Closes(responses'[r], FALSE)
    BY <1>1, <1>3, <2>1, <2>2, Writing
  <2>4. RequestInv(r)'
    BY <1>1, <1>3, <2>1, <2>2, <2>3 DEF IInv, RequestInv, Closes, Unbegun, AnswerIsLast, Over
  <2>5. IInv'
    BY <1>1, <2>4, Elsewhere
  <2> QED
    BY <2>3, <2>5 DEF Client!Next
<1> QED
  BY <1>2, <1>3

LEMMA WriteLastMessageStep ==
    ASSUME IInv, Counting', NEW r \in Requests, WriteLastMessage(r)
    PROVE  IInv' /\ [Client!Next]_(Client!vars)
<1>1. /\ UNCHANGED <<consumer, stream, got, queue, queue_last, responses_last>>
      /\ \A x \in Requests \ {r} : UNCHANGED <<run[x], last_message_sent[x], responses[x]>>
      /\ run[r] = "write_last" /\ last_message_sent'[r]
  <2>1. TypeOK
    BY DEF IInv, Counting
  <2>2. /\ UNCHANGED <<consumer, stream, got, queue, queue_last>>
        /\ \A x \in Requests \ {r} : UNCHANGED <<run[x], last_message_sent[x], responses[x]>>
    BY <2>1, RunMoves
  <2>3. UNCHANGED responses_last /\ run[r] = "write_last"
    BY DEF WriteLastMessage
  <2>4. last_message_sent'[r]
    BY <2>1 DEF TypeOK, WriteLastMessage, Set
  <2> QED
    BY <2>2, <2>3, <2>4
<1>2. CASE last_message_sent[r] \/ PutRaises(r)
  <2>1. /\ UNCHANGED responses
        /\ \/ last_message_sent[r] /\ run'[r] \in {"chat_start", "done"}
           \/ run'[r] = "failed"
    BY <1>2 DEF WriteLastMessage, Goto, Set, IInv, Counting, TypeOK
  <2>2. Written' = Written /\ Client!Answered(r)' = Client!Answered(r)
    BY <1>1, <2>1, Quiet
  <2>3. RequestInv(r)'
    BY <1>1, <2>1, <2>2 DEF IInv, RequestInv, Closes, Unbegun, AnswerIsLast, Over
  <2>4. IInv'
    BY <1>1, <2>1, <2>3, Elsewhere
  <2> QED
    BY <1>1, <2>1, <2>2, <2>4 DEF StreamState, Client!vars
<1>3. CASE ~last_message_sent[r] /\ ~PutRaises(r)
  <2>1. Put(responses, responses_last, r, "answer") /\ run'[r] = "put_final"
    BY <1>3 DEF WriteLastMessage, Goto, Set, IInv, Counting, TypeOK
  <2>2. ~responses_last[r] /\ ~Client!Answered(r)
    BY <1>3 DEF IInv, RequestInv, AnswerIsLast
  <2>3. /\ Client!Write(r, "answer") /\ Client!Answered(r)'
        /\ Closes(responses'[r], FALSE)
    BY <1>1, <2>1, <2>2, Writing
  <2>4. RequestInv(r)'
    BY <1>1, <2>1, <2>2, <2>3 DEF IInv, RequestInv, Closes, Unbegun, AnswerIsLast, Over
  <2>5. IInv'
    BY <1>1, <2>4, Elsewhere
  <2> QED
    BY <2>3, <2>5 DEF Client!Next
<1> QED
  BY <1>2, <1>3

LEMMA PutFinalStep ==
    ASSUME IInv, Counting', NEW r \in Requests, PutFinal(r)
    PROVE  IInv' /\ [Client!Next]_(Client!vars)
<1>1. /\ UNCHANGED <<consumer, stream, got, queue, queue_last, last_message_sent>>
      /\ \A x \in Requests \ {r} : UNCHANGED <<run[x], responses_last[x], responses[x]>>
      /\ run[r] = "put_final" /\ responses_last'[r]
      /\ run'[r] \in {"failed", "close_reservationist"}
  <2>1. TypeOK
    BY DEF IInv, Counting
  <2>2. UNCHANGED last_message_sent
    BY DEF PutFinal
  <2>3. run[r] = "put_final" /\ run'[r] \in {"failed", "close_reservationist"}
    BY <2>1 DEF PutFinal, Goto, Set, TypeOK
  <2>4. responses_last'[r]
    BY <2>1 DEF PutFinal, PutFinalItem, Set, TypeOK
  <2> QED
    BY <2>1, <2>2, <2>3, <2>4, RunMoves
<1>2. Client!Answered(r) /\ last_message_sent[r]
  BY <1>1 DEF IInv, RequestInv, AnswerIsLast
<1>3. /\ Written'[r] = Written[r] /\ Closes(responses'[r], TRUE)
  <2>1. CASE UNCHANGED responses
    BY <1>1, <2>1 DEF IInv, RequestInv, Closes, Written
  <2>2. CASE responses' # responses
    <3>1. /\ responses' = [responses EXCEPT ![r] = Append(responses[r], "end")]
          /\ ~responses_last[r]
      BY <2>2 DEF PutFinal, PutFinalItem, Set
    <3>2. /\ responses \in [Requests -> Seq(Items)] /\ responses[r] \in Seq(Items)
          /\ got[r] \in Seq(Items)
      BY DEF IInv, Counting, TypeOK
    <3>3. Closes(responses[r], FALSE)
      BY <3>1 DEF IInv, RequestInv, Closes
    <3>4. Said(got[r], Append(responses[r], "end")) = Said(got[r], responses[r])
      BY <3>2, <3>3, SaidPut
    <3>5. Closes(Append(responses[r], "end"), TRUE)
      BY <3>2, <3>3, EndCloses
    <3> QED
      BY <1>1, <3>1, <3>2, <3>4, <3>5 DEF Written, Said
  <2> QED
    BY <2>1, <2>2
<1>4. Written' = Written
  <2>1. \A x \in Requests \ {r} : Written'[x] = Written[x]
    BY <1>1 DEF Written
  <2>2. Written' = [x \in Requests |-> Written'[x]] /\ Written = [x \in Requests |-> Written[x]]
    BY DEF Written
  <2> QED
    BY <1>3, <2>1, <2>2
<1>5. Client!Answered(r)'
  BY <1>2, <1>4 DEF Client!Answered
<1>6. RequestInv(r)'
  BY <1>1, <1>2, <1>3, <1>5 DEF IInv, RequestInv, Closes, Unbegun, AnswerIsLast, Over
<1>7. IInv'
  BY <1>1, <1>6, Elsewhere
<1> QED
  BY <1>1, <1>4, <1>7 DEF StreamState, Client!vars

-----------------------------------------------------------------------------
(* The theorems                                                            *)

LEMMA InitInv == Init => IInv /\ Client!Init
<1>1. SUFFICES ASSUME Init PROVE IInv /\ Client!Init
  OBVIOUS
<1>2. Counting
  BY <1>1, InitCounting
<1>3. ASSUME NEW r \in Requests
      PROVE  /\ responses[r] = <<>> /\ queue[r] = <<>> /\ got[r] = <<>>
             /\ consumer[r] = "new" /\ stream[r] = "open" /\ run[r] = "none"
             /\ last_message_sent[r] = FALSE /\ responses_last[r] = FALSE
  BY <1>1 DEF Init, All
<1>4. ASSUME NEW r \in Requests
      PROVE  Written[r] = <<>> /\ StreamState[r] = "open"
  <2>1. Messages(<<>>) = <<>>
    BY DEF Messages
  <2>2. <<>> \in Seq(Items) /\ <<>> \o <<>> = <<>>
    BY EmptySeq, ConcatEmptySeq
  <2>3. Written[r] = <<>> \o Messages(<<>>)
    BY <1>3 DEF Written
  <2>4. StreamState[r] = "open"
    BY <1>3 DEF StreamState
  <2> QED
    BY <2>1, <2>2, <2>3, <2>4
<1>5. ASSUME NEW r \in Requests
      PROVE  RequestInv(r)
  <2>1. ~Client!Answered(r)
    BY <1>4 DEF Client!Answered
  <2>2. \A i : i \notin 1 .. Len(<<>>)
    OBVIOUS
  <2>3. Closes(responses[r], responses_last[r]) /\ Closes(queue[r], queue_last[r])
    BY <1>3, <2>2 DEF Closes
  <2>4. Unbegun(r) /\ AnswerIsLast(r)
    BY <1>3, <2>1, <2>2 DEF Unbegun, AnswerIsLast
  <2> QED
    BY <1>3, <2>3, <2>4 DEF RequestInv
<1>6. Client!Init
  <2>1. Written = [r \in Requests |-> <<>>]
    BY <1>4 DEF Written
  <2>2. got = [r \in Requests |-> <<>>]
    BY <1>1 DEF Init, All
  <2>3. StreamState = [r \in Requests |-> "open"]
    BY <1>4 DEF StreamState
  <2> QED
    BY <2>1, <2>2, <2>3 DEF Client!Init
<1> QED
  BY <1>2, <1>5, <1>6 DEF IInv

LEMMA StepInv == IInv /\ [Next]_vars => IInv' /\ [Client!Next]_(Client!vars)
<1>1. SUFFICES ASSUME IInv, [Next]_vars PROVE IInv' /\ [Client!Next]_(Client!vars)
  OBVIOUS
<1>2. Counting'
  BY <1>1, StepCounting DEF IInv
<1>3. CASE \E r \in Requests : Start(r) \/ StartWithoutText(r) \/ CutOff(r) \/ Consume(r)
  BY <1>1, <1>2, <1>3, ConsumerSteps, ReceiveSteps DEF Consume
<1>4. CASE \E r \in Requests :
            SetUpFails(r) \/ ChatFails(r) \/ ProcessItemFails(r) \/ Run(r) \/ Work(r)
  BY <1>1, <1>2, <1>4, SilentSteps, WriteMessageStep, WriteLastMessageStep, PutFinalStep DEF Run
<1>5. CASE ProcessQueue \/ UNCHANGED vars
  <2>1. UNCHANGED <<handler, session, response, reservation>>
    BY <1>5 DEF ProcessQueue, vars
  <2>2. Written' = Written /\ StreamState' = StreamState
    BY <2>1 DEF Written, StreamState, handler, response
  <2>3. ASSUME NEW r \in Requests PROVE RequestInv(r)'
    BY <1>1, <2>1, <2>2 DEF IInv, RequestInv, Closes, Unbegun, AnswerIsLast, Client!Answered,
                            handler, session, response, reservation
  <2> QED
    BY <1>2, <2>1, <2>2, <2>3 DEF IInv, Client!vars, handler
<1> QED
  BY <1>1, <1>3, <1>4, <1>5 DEF Next

\* Nothing follows the final item of a queue, neither what put() is asked for
\* after put_final_item() nor a second final item of a run that is finalized twice.
THEOREM NothingFollowsTheEnd == Spec => []NothingAfterTheEnd
<1>1. IInv => NothingAfterTheEnd
  BY DEF IInv, RequestInv, Closes, NothingAfterTheEnd
<1> QED
  BY InitInv, StepInv, <1>1, PTL DEF Spec

\* A client's stream is an AnswerStream: it gets what was written in the order in
\* which it was, and its stream ends by itself only when it has the answer, which
\* is the last message, whatever fails, is cut off or is finalized twice.
THEOREM ChatImplementsStream == Spec => StreamIsAnswered
BY InitInv, StepInv, PTL DEF Spec, StreamIsAnswered, Client!Spec
=============================================================================
