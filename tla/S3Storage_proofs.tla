---------------------------- MODULE S3Storage_proofs ----------------------------
(***************************************************************************)
(* The bucket is a base storage, for any number of servers, reservations   *)
(* and objects that are none, and any batches, pages, retries and errors:  *)
(* each step of a server is one of BaseStorage, or none.                   *)
(***************************************************************************)
EXTENDS S3Storage, TLAPS, WellFoundedInduction

Expirations == 0 .. MaxTime + Lifetime
Objects == {NoObject, ForeignObject} \cup {Object(e) : e \in Expirations}

TypeOK ==
    /\ now \in 0 .. MaxTime /\ errors \in Nat /\ alive \subseteq Servers
    /\ bucket \in [Keys -> Objects]
    /\ pass \in [Servers -> {"idle", "list", "get", "delete"}]
    /\ current_time \in [Servers -> Nat] /\ page \in [Servers -> SUBSET Keys]
    /\ cursor \in [Servers -> Nat] /\ attempt \in [Servers -> Nat]
    /\ to_put \in [Servers -> Seq(Keys \ Foreign)] /\ expiration \in [Servers -> Expirations]
    /\ deploys \in [Servers -> Nat] /\ promised \in [Keys -> Expirations \cup {Never}]

(* A reservation that is there was promised, for no longer than it stays; those *)
(* that a server will deploy again get more than was promised.                  *)
KeyInv(k) ==
    /\ bucket[k].kind = "reservation" => promised[k] <= bucket[k].expiration
    /\ k \notin Foreign => bucket[k].kind # "foreign"
    /\ \A s \in Servers : k \in Ids(s) => promised[k] = Never \/ promised[k] <= expiration[s]

(* A server that is about to delete an object has seen that it is expired, and  *)
(* the time of its pass is not ahead.                                           *)
ServerInv(s) ==
    /\ current_time[s] <= now /\ expiration[s] <= now + Lifetime
    /\ \A i \in 1 .. Len(to_put[s]) : to_put[s][i] \in Ids(s)
    /\ pass[s] \in {"get", "delete"} => page[s] # {}
    /\ pass[s] = "delete" => promised[Key(s)] < current_time[s]

IInv == TypeOK /\ (\A k \in Keys : KeyInv(k)) /\ \A s \in Servers : ServerInv(s)

-----------------------------------------------------------------------------
(* What the operators do                                                       *)

LEMMA Numbers ==
    /\ MaxKey \in Nat /\ MaxTime \in Nat /\ Lifetime \in Nat /\ Keys = 1 .. MaxKey
    /\ Keys \in SUBSET Nat /\ Foreign \subseteq Keys
    /\ Never \in Nat /\ \A e \in Expirations : e \in Nat /\ e < Never
BY ConstantsAssumption DEF Keys, Never, Expirations

LEMMA LeastNumber ==
    ASSUME NEW T \in SUBSET Nat, T # {}
    PROVE  \E x \in T : \A y \in T : x <= y
<1>1. PICK x \in T : \A y \in T : ~ (<<y, x>> \in OpToRel(<, Nat))
    BY WFMin, NatLessThanWellFounded
<1>2. \A y \in T : ~ (y < x)
    BY <1>1 DEF OpToRel
<1>3. \A y \in T : x <= y
    BY <1>2
<1> QED
    BY <1>3

LEMMA FirstIs ==
    ASSUME NEW T \in SUBSET Keys, T # {}
    PROVE  FirstOf(T) \in T
<1>1. \E k \in T : \A j \in T : k <= j
    BY LeastNumber, Numbers
<1> QED
    BY <1>1 DEF FirstOf

LEMMA LastIs ==
    ASSUME NEW T \in SUBSET Keys, T # {}
    PROVE  LastOf(T) \in T
<1> DEFINE Rest == {MaxKey - k : k \in T}
<1>1. \A k \in T : k \in Nat /\ MaxKey - k \in Nat
    BY Numbers
<1>2. Rest \in SUBSET Nat /\ Rest # {}
    BY <1>1
<1>3. PICK x \in Rest : \A y \in Rest : x <= y
    BY <1>2, LeastNumber
<1>4. PICK k \in T : x = MaxKey - k
    OBVIOUS
<1>5. \A j \in T : MaxKey - k <= MaxKey - j
    BY <1>3, <1>4
<1>6. \A j \in T : j <= k
    BY <1>1, <1>5, Numbers
<1> QED
    BY <1>6 DEF LastOf

LEMMA ObjectsAre ==
    /\ \A e \in Expirations : /\ Object(e) \in Objects /\ Object(e).kind = "reservation"
                              /\ Object(e).expiration = e /\ Object(e) # NoObject
    /\ NoObject \in Objects /\ NoObject.kind = "none"
    /\ ForeignObject \in Objects /\ ForeignObject.kind = "foreign"
    /\ \A o \in Objects : /\ o.expiration \in Expirations
                          /\ o.kind = "none" <=> o = NoObject
                          /\ o.kind \in {"none", "foreign", "reservation"}
<1>1. 0 \in Expirations
    BY Numbers DEF Expirations
<1>2. /\ NoObject.kind = "none" /\ NoObject.expiration = 0
      /\ ForeignObject.kind = "foreign" /\ ForeignObject.expiration = 0
    BY DEF NoObject, ForeignObject
<1>3. \A e \in Expirations : Object(e).kind = "reservation" /\ Object(e).expiration = e
    BY DEF Object
<1>4. NoObject \in Objects /\ ForeignObject \in Objects /\ \A e \in Expirations : Object(e) \in Objects
    BY DEF Objects
<1>5. \A o \in Objects : o = NoObject \/ o = ForeignObject \/ \E e \in Expirations : o = Object(e)
    BY DEF Objects
<1>6. \A o \in Objects : /\ o.expiration \in Expirations
                         /\ o.kind = "none" <=> o = NoObject
                         /\ o.kind \in {"none", "foreign", "reservation"}
    BY <1>1, <1>2, <1>3, <1>5
<1> QED
    BY <1>2, <1>3, <1>4, <1>6

LEMMA InitIsFine == Init => IInv
<1> SUFFICES ASSUME Init PROVE IInv
    OBVIOUS
<1>1. 0 \in 0 .. MaxTime /\ 0 \in Expirations
    BY Numbers DEF Expirations
<1>2. <<>> \in Seq(Keys \ Foreign)
    OBVIOUS
<1>3. TypeOK
    <2>1. bucket \in [Keys -> Objects]
        BY ObjectsAre DEF Init
    <2> QED
        BY <1>1, <1>2, <2>1 DEF Init, TypeOK
<1>4. ASSUME NEW k \in Keys PROVE KeyInv(k)
    BY ObjectsAre DEF Init, KeyInv
<1>5. ASSUME NEW s \in Servers PROVE ServerInv(s)
    <2>1. /\ current_time[s] = 0 /\ expiration[s] = 0 /\ now = 0 /\ to_put[s] = <<>> /\ pass[s] = "idle"
        BY DEF Init
    <2> QED
        BY <2>1, Numbers DEF ServerInv
<1> QED
    BY <1>3, <1>4, <1>5 DEF IInv

-----------------------------------------------------------------------------
(* Time, servers and deployments                                               *)

LEMMA TickStep == ASSUME IInv, Tick PROVE IInv'
<1>1. /\ now < MaxTime /\ now' = now + 1
      /\ UNCHANGED <<bucket, errors, alive, pass, current_time, page, cursor, attempt,
                     to_put, expiration, deploys, promised>>
    BY DEF Tick, passes, deployments
<1>2. now \in Nat /\ now' \in 0 .. MaxTime
    BY <1>1, Numbers DEF IInv, TypeOK
<1>3. TypeOK'
    BY <1>1, <1>2 DEF IInv, TypeOK
<1>4. ASSUME NEW k \in Keys PROVE KeyInv(k)'
    BY <1>1 DEF IInv, KeyInv
<1>5. ASSUME NEW s \in Servers PROVE ServerInv(s)'
    <2>1. /\ ServerInv(s) /\ current_time[s] \in Nat /\ expiration[s] \in Nat /\ Lifetime \in Nat
        BY Numbers DEF IInv, TypeOK
    <2>2. /\ current_time[s] <= now + 1 /\ expiration[s] <= now + 1 + Lifetime
        BY <1>2, <2>1 DEF ServerInv
    <2>3. pass[s] = "delete" => promised[Key(s)] < current_time[s]
        BY <2>1 DEF ServerInv
    <2> QED
        BY <1>1, <2>1, <2>2, <2>3 DEF ServerInv, Key
<1> QED
    BY <1>3, <1>4, <1>5 DEF IInv

LEMMA StopStep == ASSUME IInv, NEW s \in Servers, Stop(s) PROVE IInv'
<1>1. /\ alive' \subseteq alive
      /\ UNCHANGED <<now, bucket, errors, pass, current_time, page, cursor, attempt,
                     to_put, expiration, deploys, promised>>
    BY DEF Stop, passes, deployments
<1>2. TypeOK'
    BY <1>1 DEF IInv, TypeOK
<1> QED
    BY <1>1, <1>2 DEF IInv, KeyInv, ServerInv, Key

(* A batch that is deployed again gets a later expiration than before.          *)
LEMMA DeployTogetherStep == ASSUME IInv, NEW s \in Servers, DeployTogether(s) PROVE IInv'
<1>1. /\ to_put' = Set(to_put, s, Batches[s]) /\ expiration' = Set(expiration, s, now + Lifetime)
      /\ deploys' = Set(deploys, s, deploys[s] + 1)
      /\ UNCHANGED <<now, bucket, errors, alive, pass, current_time, page, cursor, attempt, promised>>
    BY DEF DeployTogether, passes
<1>2. now \in Nat /\ now <= MaxTime /\ Batches[s] \in Seq(Keys \ Foreign)
    BY Numbers, ConstantsAssumption DEF IInv, TypeOK
<1>3. now + Lifetime \in Expirations
    BY <1>2, Numbers DEF Expirations
<1>4. /\ to_put' \in [Servers -> Seq(Keys \ Foreign)] /\ to_put'[s] = Batches[s]
      /\ \A t \in Servers \ {s} : to_put'[t] = to_put[t]
    BY <1>1, <1>2 DEF Set, IInv, TypeOK
<1>5. /\ expiration' \in [Servers -> Expirations] /\ expiration'[s] = now + Lifetime
      /\ \A t \in Servers \ {s} : expiration'[t] = expiration[t]
    BY <1>1, <1>3 DEF Set, IInv, TypeOK
<1>6. deploys' \in [Servers -> Nat]
    BY <1>1 DEF Set, IInv, TypeOK
<1>7. TypeOK'
    BY <1>1, <1>4, <1>5, <1>6 DEF IInv, TypeOK
<1>8. expiration[s] <= now + Lifetime /\ expiration[s] \in Nat
    BY Numbers DEF IInv, TypeOK, ServerInv
<1>9. ASSUME NEW k \in Keys PROVE KeyInv(k)'
    <2>1. KeyInv(k) /\ (promised[k] \in Nat)
        BY Numbers DEF IInv, TypeOK
    <2>2. ASSUME NEW t \in Servers, k \in Ids(t), promised[k] # Never PROVE promised[k] <= expiration'[t]
        <3>1. promised[k] <= expiration[t]
            BY <2>1, <2>2 DEF KeyInv
        <3>2. now + Lifetime \in Nat
            BY <1>3, Numbers
        <3> QED
            BY <1>5, <1>8, <2>1, <3>1, <3>2
    <2> QED
        BY <1>1, <2>1, <2>2 DEF KeyInv
<1>10. ASSUME NEW t \in Servers PROVE ServerInv(t)'
    <2>1. ServerInv(t)
        BY DEF IInv
    <2>2. \A i \in 1 .. Len(to_put'[t]) : to_put'[t][i] \in Ids(t)
        BY <1>4, <2>1 DEF ServerInv, Ids
    <2>3. expiration'[t] <= now + Lifetime
        <3>1. now + Lifetime <= now + Lifetime
            BY <1>3, Numbers
        <3> QED
            BY <1>5, <2>1, <3>1 DEF ServerInv
    <2> QED
        BY <1>1, <2>1, <2>2, <2>3 DEF ServerInv, Key
<1> QED
    BY <1>7, <1>9, <1>10 DEF IInv

(* An object of a batch, put: what was promised stays, or is what it has now.   *)
LEMMA PutIs ==
    ASSUME IInv, NEW s \in Servers, to_put[s] # <<>>, Put(s)
    PROVE  \E key \in Keys \ Foreign :
               /\ key = Head(to_put[s]) /\ key \in Ids(s)
               /\ bucket' = Set(bucket, key, Object(expiration[s])) /\ bucket' \in [Keys -> Objects]
               /\ promised' = IF promised[key] = Never THEN Set(promised, key, expiration[s]) ELSE promised
               /\ promised' \in [Keys -> Expirations \cup {Never}]
<1>1. to_put[s] \in Seq(Keys \ Foreign) /\ expiration[s] \in Expirations
    BY DEF IInv, TypeOK
<1>2. PICK key \in Keys \ Foreign : key = Head(to_put[s])
    BY <1>1
<1>3. key = to_put[s][1] /\ 1 \in 1 .. Len(to_put[s])
    BY <1>1, <1>2
<1>4. key \in Ids(s)
    BY <1>3 DEF IInv, ServerInv
<1>5. /\ bucket' = Set(bucket, key, Object(expiration[s]))
      /\ promised' = IF promised[key] = Never THEN Set(promised, key, expiration[s]) ELSE promised
    BY <1>2 DEF Put
<1>6. bucket' \in [Keys -> Objects]
    BY <1>1, <1>5, ObjectsAre DEF Set, IInv, TypeOK
<1>7. promised' \in [Keys -> Expirations \cup {Never}]
    BY <1>1, <1>5 DEF Set, IInv, TypeOK
<1> QED
    BY <1>2, <1>4, <1>5, <1>6, <1>7

(* A put keeps the keys: the object has an expiration that is not before the    *)
(* promised one, as only the server that made the key deploys it.               *)
LEMMA PutKeepsKeys ==
    ASSUME IInv, NEW s \in Servers, to_put[s] # <<>>, Put(s), UNCHANGED expiration
    PROVE  /\ bucket' \in [Keys -> Objects] /\ promised' \in [Keys -> Expirations \cup {Never}]
           /\ \A k \in Keys : KeyInv(k)'
           /\ \A k \in Keys : promised[k] # Never => promised'[k] = promised[k]
<1>1. PICK key \in Keys \ Foreign :
               /\ key = Head(to_put[s]) /\ key \in Ids(s)
               /\ bucket' = Set(bucket, key, Object(expiration[s])) /\ bucket' \in [Keys -> Objects]
               /\ promised' = IF promised[key] = Never THEN Set(promised, key, expiration[s]) ELSE promised
               /\ promised' \in [Keys -> Expirations \cup {Never}]
    BY PutIs
<1>2. /\ bucket \in [Keys -> Objects] /\ promised \in [Keys -> Expirations \cup {Never}]
      /\ expiration[s] \in Expirations /\ expiration[s] \in Nat
    BY Numbers DEF IInv, TypeOK
<1>3. bucket'[key] = Object(expiration[s]) /\ \A k \in Keys \ {key} : bucket'[k] = bucket[k]
    BY <1>1, <1>2 DEF Set
<1>4. /\ promised'[key] = IF promised[key] = Never THEN expiration[s] ELSE promised[key]
      /\ \A k \in Keys \ {key} : promised'[k] = promised[k]
    BY <1>1, <1>2 DEF Set
<1>5. ASSUME NEW k \in Keys \ {key} PROVE KeyInv(k)'
    BY <1>3, <1>4 DEF IInv, KeyInv
<1>6. KeyInv(key)'
    <2>1. promised'[key] <= expiration[s]
        <3>1. promised[key] = Never \/ promised[key] <= expiration[s]
            BY <1>1 DEF IInv, KeyInv
        <3>2. expiration[s] <= expiration[s]
            BY <1>2
        <3> QED
            BY <1>4, <3>1, <3>2
    <2>2. bucket'[key].kind = "reservation" /\ bucket'[key].expiration = expiration[s]
        BY <1>2, <1>3, ObjectsAre
    <2>3. \A t \in Servers : key \in Ids(t) => t = s
        BY <1>1, ConstantsAssumption
    <2> QED
        BY <2>1, <2>2, <2>3 DEF KeyInv
<1> QED
    BY <1>1, <1>4, <1>5, <1>6

(* What a server is about to delete was promised to somebody.                   *)
LEMMA WasPromised ==
    ASSUME IInv, NEW s \in Servers, pass[s] = "delete"
    PROVE  Key(s) \in Keys /\ promised[Key(s)] # Never /\ promised[Key(s)] < now
<1>1. /\ page[s] \in SUBSET Keys /\ page[s] # {} /\ promised[Key(s)] < current_time[s]
      /\ current_time[s] <= now /\ current_time[s] \in Nat /\ now \in Nat /\ now <= MaxTime
    BY Numbers DEF IInv, TypeOK, ServerInv
<1>2. Key(s) \in Keys
    BY <1>1, FirstIs DEF Key
<1>3. promised[Key(s)] \in Nat
    BY <1>2, Numbers DEF IInv, TypeOK
<1>4. now < Never
    BY <1>1, Numbers DEF Never
<1> QED
    BY <1>1, <1>2, <1>3, <1>4, Numbers

LEMMA PutStep ==
    ASSUME IInv, NEW s \in Servers, NEW rest \in Seq(Keys \ Foreign),
           to_put' = Set(to_put, s, rest), \A i \in 1 .. Len(rest) : rest[i] \in Ids(s),
           bucket' \in [Keys -> Objects], promised' \in [Keys -> Expirations \cup {Never}],
           \A k \in Keys : KeyInv(k)',
           \A k \in Keys : promised[k] # Never => promised'[k] = promised[k],
           errors' \in Nat, UNCHANGED <<now, alive, passes, expiration, deploys>>
    PROVE  IInv'
<1>1. UNCHANGED <<pass, current_time, page, cursor, attempt>>
    BY DEF passes
<1>2. /\ to_put' \in [Servers -> Seq(Keys \ Foreign)] /\ to_put'[s] = rest
      /\ \A t \in Servers \ {s} : to_put'[t] = to_put[t]
    BY DEF Set, IInv, TypeOK
<1>3. TypeOK'
    BY <1>1, <1>2 DEF IInv, TypeOK
<1>4. ASSUME NEW t \in Servers PROVE ServerInv(t)'
    <2>1. ServerInv(t)
        BY DEF IInv
    <2>2. \A i \in 1 .. Len(to_put'[t]) : to_put'[t][i] \in Ids(t)
        BY <1>2, <2>1 DEF ServerInv
    <2>3. pass[t] = "delete" => promised'[Key(t)] = promised[Key(t)]
        BY WasPromised
    <2> QED
        BY <1>1, <2>1, <2>2, <2>3 DEF ServerInv, Key
<1> QED
    BY <1>3, <1>4 DEF IInv

LEMMA PutObjectStep == ASSUME IInv, NEW s \in Servers, PutObject(s) PROVE IInv'
<1>1. /\ to_put[s] # <<>> /\ Put(s) /\ to_put' = Set(to_put, s, Tail(to_put[s]))
      /\ UNCHANGED <<now, errors, alive, passes, expiration, deploys>>
    BY DEF PutObject
<1>2. to_put[s] \in Seq(Keys \ Foreign) /\ \A i \in 1 .. Len(to_put[s]) : to_put[s][i] \in Ids(s)
    BY DEF IInv, TypeOK, ServerInv
<1>3. PICK rest : /\ rest = Tail(to_put[s]) /\ rest \in Seq(Keys \ Foreign)
                  /\ \A i \in 1 .. Len(rest) : rest[i] = to_put[s][i + 1]
    <2>1. /\ Tail(to_put[s]) \in Seq(Keys \ Foreign)
          /\ \A i \in 1 .. Len(Tail(to_put[s])) : Tail(to_put[s])[i] = to_put[s][i + 1]
        BY <1>1, <1>2
    <2> QED
        BY <2>1
<1>4. \A i \in 1 .. Len(rest) : rest[i] \in Ids(s)
    <2>1. Len(rest) = Len(to_put[s]) - 1 /\ Len(to_put[s]) \in Nat
        BY <1>1, <1>2, <1>3
    <2>2. \A i \in 1 .. Len(rest) : i + 1 \in 1 .. Len(to_put[s])
        BY <2>1
    <2> QED
        BY <1>2, <1>3, <2>2
<1>5. errors' \in Nat
    BY <1>1 DEF IInv, TypeOK
<1>6. /\ bucket' \in [Keys -> Objects] /\ promised' \in [Keys -> Expirations \cup {Never}]
      /\ \A k \in Keys : KeyInv(k)'
      /\ \A k \in Keys : promised[k] # Never => promised'[k] = promised[k]
    BY <1>1, PutKeepsKeys
<1> QED
    BY <1>1, <1>3, <1>4, <1>5, <1>6, PutStep

LEMMA PutObjectFailsStep == ASSUME IInv, NEW s \in Servers, PutObjectFails(s) PROVE IInv'
<1>1. /\ to_put[s] # <<>> /\ to_put' = Set(to_put, s, <<>>) /\ errors' = errors + 1
      /\ UNCHANGED <<now, alive, passes, expiration, deploys>>
      /\ Put(s) \/ UNCHANGED <<bucket, promised>>
    BY DEF PutObjectFails
<1>2. /\ bucket' \in [Keys -> Objects] /\ promised' \in [Keys -> Expirations \cup {Never}]
      /\ \A k \in Keys : KeyInv(k)'
      /\ \A k \in Keys : promised[k] # Never => promised'[k] = promised[k]
    <2>1. CASE Put(s)
        BY <1>1, <2>1, PutKeepsKeys
    <2>2. CASE UNCHANGED <<bucket, promised>>
        BY <1>1, <2>2 DEF IInv, TypeOK, KeyInv
    <2> QED
        BY <1>1, <2>1, <2>2
<1>3. PICK rest : rest = <<>> /\ rest \in Seq(Keys \ Foreign)
    <2>1. <<>> \in Seq(Keys \ Foreign)
        OBVIOUS
    <2> QED
        BY <2>1
<1>4. \A i \in 1 .. Len(rest) : rest[i] \in Ids(s)
    BY <1>3
<1>5. errors' \in Nat
    BY <1>1 DEF IInv, TypeOK
<1> QED
    BY <1>1, <1>2, <1>3, <1>4, <1>5, PutStep

-----------------------------------------------------------------------------
(* The pass of a server over the bucket                                        *)

(* Deleting an object, whichever, breaks nothing that is promised in IInv.      *)
LEMMA PassStep ==
    ASSUME IInv, NEW s \in Servers, NEW p \in {"idle", "list", "get", "delete"}, NEW g \in SUBSET Keys,
           pass' = Set(pass, s, p), page' = Set(page, s, g),
           current_time' \in [Servers -> Nat], cursor' \in [Servers -> Nat],
           attempt' \in [Servers -> Nat], errors' \in Nat,
           \A t \in Servers \ {s} : current_time'[t] = current_time[t],
           current_time'[s] <= now, UNCHANGED <<now, alive, deployments, promised>>,
           UNCHANGED bucket \/ \E k \in Keys : bucket' = Set(bucket, k, NoObject),
           p \in {"get", "delete"} => g # {},
           p = "delete" => promised[FirstOf(g)] < current_time'[s]
    PROVE  IInv'
<1>1. UNCHANGED <<to_put, expiration, deploys>>
    BY DEF deployments
<1>2. /\ pass' \in [Servers -> {"idle", "list", "get", "delete"}] /\ pass'[s] = p
      /\ \A t \in Servers \ {s} : pass'[t] = pass[t]
    BY DEF Set, IInv, TypeOK
<1>3. /\ page' \in [Servers -> SUBSET Keys] /\ page'[s] = g
      /\ \A t \in Servers \ {s} : page'[t] = page[t]
    BY DEF Set, IInv, TypeOK
<1>4. bucket' \in [Keys -> Objects] /\ \A k \in Keys : bucket'[k] = bucket[k] \/ bucket'[k] = NoObject
    BY ObjectsAre DEF Set, IInv, TypeOK
<1>5. TypeOK'
    BY <1>1, <1>2, <1>3, <1>4 DEF IInv, TypeOK
<1>6. ASSUME NEW k \in Keys PROVE KeyInv(k)'
    BY <1>1, <1>4, ObjectsAre DEF IInv, KeyInv
<1>7. ServerInv(s)'
    BY <1>1, <1>2, <1>3 DEF IInv, ServerInv, Key
<1>8. ASSUME NEW t \in Servers \ {s} PROVE ServerInv(t)'
    BY <1>1, <1>2, <1>3 DEF IInv, ServerInv, Key
<1> QED
    BY <1>5, <1>6, <1>7, <1>8 DEF IInv

(* The parts of a pass, of which several steps are made                         *)
LEMMA NextKeyIs ==
    ASSUME IInv, NEW s \in Servers, page[s] # {}, NextKey(s)
    PROVE  \E p \in {"list", "get"} : \E g \in SUBSET Keys :
               /\ pass' = Set(pass, s, p) /\ page' = Set(page, s, g) /\ (p = "get" => g # {})
               /\ attempt' \in [Servers -> Nat] /\ UNCHANGED <<current_time, cursor>>
<1>1. page[s] \in SUBSET Keys /\ attempt' \in [Servers -> Nat]
    BY DEF NextKey, Set, IInv, TypeOK
<1>2. /\ page' = Set(page, s, page[s] \ {Key(s)})
      /\ pass' = Set(pass, s, IF page[s] = {Key(s)} THEN "list" ELSE "get")
      /\ UNCHANGED <<current_time, cursor>>
    BY DEF NextKey
<1>3. CASE page[s] = {Key(s)}
    BY <1>1, <1>2, <1>3
<1>4. CASE page[s] # {Key(s)}
    BY <1>1, <1>2, <1>4
<1> QED
    BY <1>3, <1>4

LEMMA EndPassIs ==
    ASSUME IInv, NEW s \in Servers, EndPass(s)
    PROVE  /\ pass' = Set(pass, s, "idle") /\ page' = Set(page, s, {})
           /\ attempt' \in [Servers -> Nat] /\ cursor' \in [Servers -> Nat]
           /\ current_time' \in [Servers -> Nat] /\ current_time'[s] = 0
           /\ \A t \in Servers \ {s} : current_time'[t] = current_time[t]
BY DEF EndPass, Set, IInv, TypeOK

LEMMA TimeOfPass ==
    ASSUME IInv, NEW s \in Servers, UNCHANGED current_time
    PROVE  /\ current_time' \in [Servers -> Nat] /\ current_time'[s] <= now
           /\ \A t \in Servers \ {s} : current_time'[t] = current_time[t]
BY DEF IInv, TypeOK, ServerInv

LEMMA NextKeyStep ==
    ASSUME IInv, NEW s \in Servers, page[s] # {}, NextKey(s), errors' \in Nat,
           UNCHANGED <<now, alive, deployments, promised>>,
           UNCHANGED bucket \/ \E k \in Keys : bucket' = Set(bucket, k, NoObject)
    PROVE  IInv'
<1>1. PICK p \in {"list", "get"}, g \in SUBSET Keys :
               /\ pass' = Set(pass, s, p) /\ page' = Set(page, s, g) /\ (p = "get" => g # {})
               /\ attempt' \in [Servers -> Nat] /\ UNCHANGED <<current_time, cursor>>
    BY NextKeyIs
<1>2. cursor' \in [Servers -> Nat]
    BY <1>1 DEF IInv, TypeOK
<1>3. /\ current_time' \in [Servers -> Nat] /\ current_time'[s] <= now
      /\ \A t \in Servers \ {s} : current_time'[t] = current_time[t]
    BY <1>1, TimeOfPass
<1>4. /\ p \in {"idle", "list", "get", "delete"} /\ (p \in {"get", "delete"} => g # {})
      /\ p = "delete" => promised[FirstOf(g)] < current_time'[s]
    BY <1>1
<1> QED
    BY <1>1, <1>2, <1>3, <1>4, PassStep

LEMMA EndPassStep ==
    ASSUME IInv, NEW s \in Servers, EndPass(s), errors' \in Nat,
           UNCHANGED <<now, alive, deployments, promised>>,
           UNCHANGED bucket \/ \E k \in Keys : bucket' = Set(bucket, k, NoObject)
    PROVE  IInv'
<1>1. /\ pass' = Set(pass, s, "idle") /\ page' = Set(page, s, {})
      /\ attempt' \in [Servers -> Nat] /\ cursor' \in [Servers -> Nat]
      /\ current_time' \in [Servers -> Nat] /\ current_time'[s] = 0
      /\ \A t \in Servers \ {s} : current_time'[t] = current_time[t]
    BY EndPassIs
<1>2. PICK p \in {"idle", "list", "get", "delete"}, g \in SUBSET Keys : p = "idle" /\ g = {}
    OBVIOUS
<1>3. /\ pass' = Set(pass, s, p) /\ page' = Set(page, s, g) /\ current_time'[s] <= now
      /\ (p \in {"get", "delete"} => g # {})
      /\ p = "delete" => promised[FirstOf(g)] < current_time'[s]
    <2>1. 0 <= now
        BY DEF IInv, TypeOK
    <2> QED
        BY <1>1, <1>2, <2>1
<1> QED
    BY <1>1, <1>3, PassStep

LEMMA StartPassStep == ASSUME IInv, NEW s \in Servers, StartPass(s) PROVE IInv'
<1>1. /\ pass' = Set(pass, s, "list") /\ current_time' = Set(current_time, s, now)
      /\ cursor' = Set(cursor, s, 0)
      /\ UNCHANGED <<now, bucket, errors, alive, page, attempt, deployments, promised>>
    BY DEF StartPass
<1>2. /\ now \in Nat /\ now <= now /\ page \in [Servers -> SUBSET Keys]
      /\ errors' \in Nat /\ attempt' \in [Servers -> Nat]
    BY <1>1, Numbers DEF IInv, TypeOK
<1>3. /\ current_time' \in [Servers -> Nat] /\ current_time'[s] = now
      /\ \A t \in Servers \ {s} : current_time'[t] = current_time[t]
    BY <1>1, <1>2 DEF Set, IInv, TypeOK
<1>4. cursor' \in [Servers -> Nat]
    BY <1>1 DEF Set, IInv, TypeOK
<1>5. PICK p \in {"idle", "list", "get", "delete"}, g \in SUBSET Keys : p = "list" /\ g = page[s]
    BY <1>2
<1>6. page' = Set(page, s, g)
    BY <1>1, <1>2, <1>5 DEF Set
<1>7. /\ pass' = Set(pass, s, p) /\ current_time'[s] <= now
      /\ (p \in {"get", "delete"} => g # {})
      /\ p = "delete" => promised[FirstOf(g)] < current_time'[s]
    BY <1>1, <1>2, <1>3, <1>5
<1> QED
    BY <1>1, <1>2, <1>3, <1>4, <1>6, <1>7, PassStep

LEMMA ListPageStep == ASSUME IInv, NEW s \in Servers, ListPage(s) PROVE IInv'
<1> DEFINE keys == PageAfter(s)
<1>1. keys \in SUBSET Keys
    BY DEF PageAfter
<1>2. /\ page' = Set(page, s, keys)
      /\ IF keys = {}
         THEN /\ pass' = Set(pass, s, "idle")
              /\ cursor' = Set(cursor, s, 0) /\ current_time' = Set(current_time, s, 0)
         ELSE /\ pass' = Set(pass, s, "get")
              /\ cursor' = Set(cursor, s, LastOf(keys)) /\ UNCHANGED current_time
      /\ UNCHANGED <<now, bucket, errors, alive, attempt, deployments, promised>>
    BY DEF ListPage
<1>3. errors' \in Nat /\ attempt' \in [Servers -> Nat] /\ 0 <= now
    BY <1>2 DEF IInv, TypeOK
<1> HIDE DEF keys
<1>4. PICK g \in SUBSET Keys : g = keys
    BY <1>1
<1>5. CASE g = {}
    <2>0. /\ cursor' = Set(cursor, s, 0) /\ current_time' = Set(current_time, s, 0)
          /\ cursor \in [Servers -> Nat] /\ current_time \in [Servers -> Nat]
        BY <1>2, <1>4, <1>5 DEF IInv, TypeOK
    <2>1. /\ current_time' \in [Servers -> Nat] /\ current_time'[s] = 0
          /\ \A t \in Servers \ {s} : current_time'[t] = current_time[t]
        BY <2>0 DEF Set
    <2>2. cursor' \in [Servers -> Nat]
        BY <2>0 DEF Set
    <2>3. PICK p \in {"idle", "list", "get", "delete"} : p = "idle"
        OBVIOUS
    <2>4. /\ pass' = Set(pass, s, p) /\ page' = Set(page, s, g) /\ current_time'[s] <= now
          /\ (p \in {"get", "delete"} => g # {})
          /\ p = "delete" => promised[FirstOf(g)] < current_time'[s]
        BY <1>2, <1>3, <1>4, <1>5, <2>1, <2>3
    <2> QED
        BY <1>2, <1>3, <2>1, <2>2, <2>4, PassStep
<1>6. CASE g # {}
    <2>1. /\ current_time' \in [Servers -> Nat] /\ current_time'[s] <= now
          /\ \A t \in Servers \ {s} : current_time'[t] = current_time[t]
        BY <1>2, <1>4, <1>6, TimeOfPass
    <2>2. cursor' \in [Servers -> Nat]
        <3>1. LastOf(g) \in Nat
            BY <1>6, LastIs, Numbers
        <3> QED
            BY <1>2, <1>4, <1>6, <3>1 DEF Set, IInv, TypeOK
    <2>3. PICK p \in {"idle", "list", "get", "delete"} : p = "get"
        OBVIOUS
    <2>4. /\ pass' = Set(pass, s, p) /\ page' = Set(page, s, g)
          /\ (p \in {"get", "delete"} => g # {})
          /\ p = "delete" => promised[FirstOf(g)] < current_time'[s]
        BY <1>2, <1>4, <1>6, <2>3
    <2> QED
        BY <1>2, <1>3, <2>1, <2>2, <2>4, PassStep
<1> QED
    BY <1>5, <1>6

(* A server goes on to delete what it has found expired, and only that.         *)
LEMMA GetObjectStep == ASSUME IInv, NEW s \in Servers, GetObject(s) PROVE IInv'
<1> DEFINE object == bucket[Key(s)]
<1>1. /\ pass[s] = "get" /\ UNCHANGED <<now, bucket, errors, alive, deployments, promised>>
      /\ \/ object.kind = "none" \/ (object.kind = "reservation" /\ ~IsExpired(s, object))
         \/ object.kind = "reservation" /\ IsExpired(s, object)
         \/ object.kind = "foreign"
    BY DEF GetObject, At
<1>2. page[s] # {} /\ page[s] \in SUBSET Keys /\ errors' \in Nat
    BY <1>1 DEF IInv, TypeOK, ServerInv
<1>3. CASE NextKey(s)
    BY <1>1, <1>2, <1>3, NextKeyStep
<1>4. CASE EndPass(s)
    BY <1>1, <1>2, <1>4, EndPassStep
<1>5. CASE /\ object.kind = "reservation" /\ IsExpired(s, object)
           /\ pass' = Set(pass, s, "delete") /\ attempt' = Set(attempt, s, 1)
           /\ UNCHANGED <<page, current_time, cursor>>
    <2>1. /\ attempt' \in [Servers -> Nat] /\ cursor' \in [Servers -> Nat]
        BY <1>5 DEF Set, IInv, TypeOK
    <2>2. /\ current_time' \in [Servers -> Nat] /\ current_time'[s] <= now
          /\ \A t \in Servers \ {s} : current_time'[t] = current_time[t]
        BY <1>5, TimeOfPass
    <2>3. Key(s) \in Keys
        BY <1>2, FirstIs DEF Key
    <2>4. promised[Key(s)] < current_time[s]
        <3>1. promised[Key(s)] <= object.expiration
            BY <1>5, <2>3 DEF IInv, KeyInv
        <3>2. object.expiration < current_time[s]
            BY <1>5 DEF IsExpired
        <3>3. object.expiration \in Nat /\ promised[Key(s)] \in Nat /\ current_time[s] \in Nat
            BY <2>3, ObjectsAre, Numbers DEF IInv, TypeOK
        <3> QED
            BY <3>1, <3>2, <3>3
    <2>5. PICK p \in {"idle", "list", "get", "delete"}, g \in SUBSET Keys : p = "delete" /\ g = page[s]
        BY <1>2
    <2>6. page' = Set(page, s, g)
        BY <1>5, <2>5 DEF Set, IInv, TypeOK
    <2>7. /\ pass' = Set(pass, s, p) /\ (p \in {"get", "delete"} => g # {})
          /\ p = "delete" => promised[FirstOf(g)] < current_time'[s]
        BY <1>2, <1>5, <2>4, <2>5 DEF Key
    <2> QED
        BY <1>1, <1>2, <2>1, <2>2, <2>6, <2>7, PassStep
<1> QED
    BY <1>3, <1>4, <1>5 DEF GetObject

LEMMA DeleteObjectStep == ASSUME IInv, NEW s \in Servers, DeleteObject(s) PROVE IInv'
<1>1. /\ pass[s] = "delete" /\ NextKey(s) /\ bucket' = Set(bucket, Key(s), NoObject)
      /\ UNCHANGED <<now, errors, alive, deployments, promised>>
    BY DEF DeleteObject, Delete, At
<1>2. page[s] # {} /\ errors' \in Nat /\ Key(s) \in Keys
    BY <1>1, WasPromised DEF IInv, TypeOK, ServerInv
<1> QED
    BY <1>1, <1>2, NextKeyStep

(* A call that fails may have had its effect, and is one that was to be made.   *)
LEMMA FailsIs ==
    ASSUME IInv, NEW s \in Servers, NEW places, Fails(s, places)
    PROVE  /\ pass[s] \in places /\ errors' \in Nat /\ UNCHANGED <<now, alive, deployments, promised>>
           /\ UNCHANGED bucket \/ (pass[s] = "delete" /\ bucket' = Set(bucket, Key(s), NoObject))
           /\ UNCHANGED bucket \/ \E k \in Keys : bucket' = Set(bucket, k, NoObject)
<1>1. /\ pass[s] \in places /\ errors' = errors + 1 /\ UNCHANGED <<now, alive, deployments, promised>>
      /\ UNCHANGED bucket \/ (pass[s] = "delete" /\ bucket' = Set(bucket, Key(s), NoObject))
    BY DEF Fails, Delete, At
<1>2. errors' \in Nat
    BY <1>1 DEF IInv, TypeOK
<1>3. pass[s] = "delete" => Key(s) \in Keys
    BY WasPromised
<1> QED
    BY <1>1, <1>2, <1>3

LEMMA FailureStep ==
    ASSUME IInv, NEW s \in Servers, ListFails(s) \/ Retry(s) \/ SkipObject(s) \/ GiveUp(s)
    PROVE  IInv'
<1>1. CASE ListFails(s)
    <2>1. EndPass(s) /\ Fails(s, {"list"})
        BY <1>1 DEF ListFails
    <2>2. /\ errors' \in Nat /\ UNCHANGED <<now, alive, deployments, promised>>
          /\ UNCHANGED bucket \/ \E k \in Keys : bucket' = Set(bucket, k, NoObject)
        BY <2>1, FailsIs
    <2> QED
        BY <2>1, <2>2, EndPassStep
<1>2. ASSUME Fails(s, {"get", "delete"})
      PROVE  /\ errors' \in Nat /\ UNCHANGED <<now, alive, deployments, promised>> /\ page[s] # {}
             /\ pass[s] \in {"get", "delete"}
             /\ UNCHANGED bucket \/ \E k \in Keys : bucket' = Set(bucket, k, NoObject)
    <2>1. /\ errors' \in Nat /\ UNCHANGED <<now, alive, deployments, promised>>
          /\ pass[s] \in {"get", "delete"}
          /\ UNCHANGED bucket \/ \E k \in Keys : bucket' = Set(bucket, k, NoObject)
        BY <1>2, FailsIs
    <2>2. page[s] # {}
        BY <2>1 DEF IInv, ServerInv
    <2> QED
        BY <2>1, <2>2
<1>3. CASE Retry(s)
    <2>1. /\ Fails(s, {"get", "delete"}) /\ attempt' = Set(attempt, s, attempt[s] + 1)
          /\ UNCHANGED <<pass, page, current_time, cursor>>
        BY <1>3 DEF Retry
    <2>2. /\ errors' \in Nat /\ UNCHANGED <<now, alive, deployments, promised>> /\ page[s] # {}
          /\ UNCHANGED bucket \/ \E k \in Keys : bucket' = Set(bucket, k, NoObject)
        BY <1>2, <2>1
    <2>3. attempt' \in [Servers -> Nat] /\ cursor' \in [Servers -> Nat]
        BY <2>1 DEF Set, IInv, TypeOK
    <2>4. /\ current_time' \in [Servers -> Nat] /\ current_time'[s] <= now
          /\ \A t \in Servers \ {s} : current_time'[t] = current_time[t]
        BY <2>1, TimeOfPass
    <2>5. /\ pass[s] \in {"idle", "list", "get", "delete"} /\ page[s] \in SUBSET Keys
          /\ pass \in [Servers -> {"idle", "list", "get", "delete"}]
          /\ page \in [Servers -> SUBSET Keys]
        BY DEF IInv, TypeOK
    <2>6. PICK p \in {"idle", "list", "get", "delete"}, g \in SUBSET Keys : p = pass[s] /\ g = page[s]
        BY <2>5
    <2>7. pass' = Set(pass, s, p) /\ page' = Set(page, s, g)
        BY <2>1, <2>5, <2>6 DEF Set
    <2>8. /\ p \in {"get", "delete"} => g # {}
          /\ p = "delete" => promised[FirstOf(g)] < current_time'[s]
        BY <2>1, <2>2, <2>6 DEF IInv, ServerInv, Key
    <2> QED
        BY <2>2, <2>3, <2>4, <2>7, <2>8, PassStep
<1>4. CASE SkipObject(s)
    <2>1. NextKey(s) /\ Fails(s, {"get", "delete"})
        BY <1>4 DEF SkipObject
    <2> QED
        BY <1>2, <2>1, NextKeyStep
<1>5. CASE GiveUp(s)
    <2>1. EndPass(s) /\ Fails(s, {"get", "delete"})
        BY <1>5 DEF GiveUp
    <2> QED
        BY <1>2, <2>1, EndPassStep
<1> QED
    BY <1>1, <1>3, <1>4, <1>5

-----------------------------------------------------------------------------
(* Each step is a step of a base storage, or none                              *)

LEMMA InitMaps == Init => Base!Init
<1> SUFFICES ASSUME Init PROVE Base!Init
    OBVIOUS
<1>1. \A k \in Reached : k \in Keys /\ k \notin Foreign
    <2>1. \A k \in Keys : ~ (k < k)
        BY Numbers
    <2> QED
        BY <2>1 DEF Reached
<1>2. now = 0 /\ Stored = [k \in Reached |-> Never] /\ Promised = [k \in Reached |-> Never]
    BY <1>1 DEF Init, Stored, Promised
<1> QED
    BY <1>2 DEF Base!Init

LEMMA NothingMaps ==
    ASSUME UNCHANGED <<now, bucket, promised>>
    PROVE  UNCHANGED Base!vars
BY DEF Base!vars, Stored, Promised

LEMMA TickMaps == ASSUME Tick PROVE Base!Next
<1>1. now' = now + 1 /\ UNCHANGED <<bucket, promised>>
    BY DEF Tick
<1>2. Stored' = Stored /\ Promised' = Promised
    BY <1>1 DEF Stored, Promised
<1> QED
    BY <1>1, <1>2 DEF Base!Next, Base!Tick

(* A deletion expires a reservation, if there is one left.                      *)
LEMMA DeletionMaps ==
    ASSUME IInv, NEW s \in Servers, pass[s] = "delete", bucket' = Set(bucket, Key(s), NoObject),
           UNCHANGED <<now, promised>>
    PROVE  [Base!Next]_Base!vars
<1>1. PICK key \in Keys : key = Key(s) /\ promised[key] < now /\ promised[key] \in Nat /\ now \in Nat
    <2>1. Key(s) \in Keys /\ promised[Key(s)] < now
        BY WasPromised
    <2>2. now \in Nat /\ promised[Key(s)] \in Expirations \cup {Never}
        BY <2>1 DEF IInv, TypeOK
    <2>3. promised[Key(s)] \in Nat
        BY <2>2, Numbers
    <2> QED
        BY <2>1, <2>2, <2>3
<1>2. /\ bucket'[key] = NoObject /\ \A k \in Keys \ {key} : bucket'[k] = bucket[k]
      /\ Promised' = Promised
    BY <1>1 DEF Set, IInv, TypeOK, Promised
<1>3. Reached \subseteq Keys
    BY DEF Reached
<1>4. CASE key \notin Reached \/ bucket[key] = NoObject
    <2>1. \A k \in Reached : bucket'[k] = bucket[k]
        BY <1>2, <1>3, <1>4
    <2>2. Stored' = Stored
        BY <2>1 DEF Stored
    <2> QED
        BY <1>2, <2>2 DEF Base!vars
<1>5. CASE key \in Reached /\ bucket[key] # NoObject
    <2>1. Stored' = [Stored EXCEPT ![key] = Never]
        BY <1>2, <1>3, <1>5 DEF Stored
    <2>2. Stored[key] # Never
        <3>1. bucket[key].expiration < Never /\ bucket[key].expiration \in Nat
            BY ObjectsAre, Numbers DEF IInv, TypeOK
        <3>2. Stored[key] = bucket[key].expiration
            BY <1>5 DEF Stored
        <3> QED
            BY <3>1, <3>2, Numbers
    <2>3. Promised[key] = promised[key] /\ now > Promised[key]
        BY <1>1, <1>5 DEF Promised
    <2>4. Base!Expire(key)
        BY <1>2, <2>1, <2>2, <2>3 DEF Base!Expire
    <2> QED
        BY <1>5, <2>4 DEF Base!Next
<1> QED
    BY <1>4, <1>5

LEMMA PutMaps ==
    ASSUME IInv, NEW s \in Servers, to_put[s] # <<>>, Put(s), UNCHANGED now
    PROVE  [Base!Next]_Base!vars
<1>1. PICK key \in Keys \ Foreign :
               /\ key = Head(to_put[s]) /\ key \in Ids(s)
               /\ bucket' = Set(bucket, key, Object(expiration[s])) /\ bucket' \in [Keys -> Objects]
               /\ promised' = IF promised[key] = Never THEN Set(promised, key, expiration[s]) ELSE promised
               /\ promised' \in [Keys -> Expirations \cup {Never}]
    BY PutIs
<1>2. /\ bucket \in [Keys -> Objects] /\ promised \in [Keys -> Expirations \cup {Never}]
      /\ expiration[s] \in Expirations
    BY DEF IInv, TypeOK
<1>3. PICK o : o = Object(expiration[s]) /\ o # NoObject /\ o.expiration = expiration[s]
    BY <1>2, ObjectsAre
<1>4. bucket'[key] = o /\ \A k \in Keys \ {key} : bucket'[k] = bucket[k]
    BY <1>1, <1>2, <1>3 DEF Set
<1>5. /\ promised'[key] = IF promised[key] = Never THEN expiration[s] ELSE promised[key]
      /\ \A k \in Keys \ {key} : promised'[k] = promised[k]
    BY <1>1, <1>2 DEF Set
<1>6. Reached \subseteq Keys
    BY DEF Reached
<1>7. CASE key \notin Reached
    <2>1. \A k \in Reached : bucket'[k] = bucket[k] /\ promised'[k] = promised[k]
        BY <1>4, <1>5, <1>6, <1>7
    <2>2. Stored' = Stored /\ Promised' = Promised
        BY <2>1 DEF Stored, Promised
    <2> QED
        BY <2>2 DEF Base!vars
<1>8. CASE key \in Reached
    <2>1. Stored' = [Stored EXCEPT ![key] = expiration[s]]
        BY <1>3, <1>4, <1>6, <1>8 DEF Stored
    <2>2. Promised' = [Promised EXCEPT ![key] = IF @ = Never THEN expiration[s] ELSE @]
        <3>1. Promised[key] = promised[key]
            BY <1>8 DEF Promised
        <3>2. Promised' = [Promised EXCEPT ![key] = promised'[key]]
            BY <1>5, <1>6, <1>8 DEF Promised
        <3> QED
            BY <1>5, <3>1, <3>2
    <2>3. Base!Put(key, expiration[s])
        BY <2>1, <2>2 DEF Base!Put
    <2> QED
        BY <1>2, <1>8, <2>3 DEF Base!Next, Expirations
<1> QED
    BY <1>7, <1>8

-----------------------------------------------------------------------------
(* The invariant, and the refinement                                           *)

LEMMA NextKeeps == IInv /\ [Next]_vars => IInv' /\ [Base!Next]_Base!vars
<1> SUFFICES ASSUME IInv, [Next]_vars PROVE IInv' /\ [Base!Next]_Base!vars
    OBVIOUS
<1>1. CASE Tick
    BY <1>1, TickStep, TickMaps
<1>2. CASE UNCHANGED vars
    <2>1. UNCHANGED <<now, bucket, errors, alive, pass, current_time, page, cursor, attempt,
                      to_put, expiration, deploys, promised>>
        BY <1>2 DEF vars, passes, deployments
    <2>2. TypeOK'
        BY <2>1 DEF IInv, TypeOK
    <2>3. IInv'
        BY <2>1, <2>2 DEF IInv, KeyInv, ServerInv, Key
    <2> QED
        BY <2>1, <2>3, NothingMaps
<1>3. ASSUME NEW s \in Servers PROVE Stop(s) => IInv' /\ [Base!Next]_Base!vars
    BY StopStep, NothingMaps DEF Stop
<1>4. ASSUME NEW s \in Servers PROVE DeployTogether(s) => IInv' /\ [Base!Next]_Base!vars
    BY DeployTogetherStep, NothingMaps DEF DeployTogether
<1>5. ASSUME NEW s \in Servers PROVE PutObject(s) => IInv' /\ [Base!Next]_Base!vars
    BY PutObjectStep, PutMaps DEF PutObject
<1>6. ASSUME NEW s \in Servers PROVE PutObjectFails(s) => IInv' /\ [Base!Next]_Base!vars
    BY PutObjectFailsStep, PutMaps, NothingMaps DEF PutObjectFails
<1>7. ASSUME NEW s \in Servers PROVE Expire(s) => IInv' /\ [Base!Next]_Base!vars
    <2>1. StartPass(s) => IInv' /\ [Base!Next]_Base!vars
        BY StartPassStep, NothingMaps DEF StartPass, deployments
    <2>2. ListPage(s) => IInv' /\ [Base!Next]_Base!vars
        BY ListPageStep, NothingMaps DEF ListPage, deployments
    <2>3. GetObject(s) => IInv' /\ [Base!Next]_Base!vars
        BY GetObjectStep, NothingMaps DEF GetObject, deployments
    <2>4. DeleteObject(s) => IInv' /\ [Base!Next]_Base!vars
        BY DeleteObjectStep, DeletionMaps DEF DeleteObject, Delete, At
    <2> QED
        BY <2>1, <2>2, <2>3, <2>4 DEF Expire
<1>8. ASSUME NEW s \in Servers
      PROVE  ListFails(s) \/ Retry(s) \/ SkipObject(s) \/ GiveUp(s) => IInv' /\ [Base!Next]_Base!vars
    <2> SUFFICES ASSUME ListFails(s) \/ Retry(s) \/ SkipObject(s) \/ GiveUp(s)
                 PROVE  IInv' /\ [Base!Next]_Base!vars
        OBVIOUS
    <2>1. PICK places : Fails(s, places)
        BY DEF ListFails, Retry, SkipObject, GiveUp
    <2>2. /\ UNCHANGED <<now, promised>>
          /\ UNCHANGED bucket \/ (pass[s] = "delete" /\ bucket' = Set(bucket, Key(s), NoObject))
        BY <2>1, FailsIs
    <2>3. [Base!Next]_Base!vars
        BY <2>2, DeletionMaps, NothingMaps
    <2> QED
        BY <2>3, FailureStep
<1> QED
    BY <1>1, <1>2, <1>3, <1>4, <1>5, <1>6, <1>7, <1>8 DEF Next

LEMMA Invariance == Spec => []IInv
<1>1. IInv /\ [Next]_vars => IInv'
    BY NextKeeps
<1> QED
    BY <1>1, InitIsFine, PTL DEF Spec

(* The variables have the types that the code gives them, whichever calls of S3 *)
(* fail and however the servers' passes come between each other.                *)
THEOREM TypeCorrect == Spec => []TypeOK
<1>1. IInv => TypeOK
    BY DEF IInv
<1> QED
    BY <1>1, Invariance, PTL

(* The bucket keeps what it promises: no server's pass removes a reservation    *)
(* before its first expiration is over, and what is put is there.  That what    *)
(* has expired goes in the end is liveness, and left to the run.                 *)
THEOREM BucketIsBaseStorage == Spec => Base!Safety
<1>1. IInv /\ [Next]_vars => [Base!Next]_Base!vars
    BY NextKeeps
<1> QED
    BY <1>1, InitMaps, Invariance, PTL DEF Spec, Base!Safety
===============================================================================
