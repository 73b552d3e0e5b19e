----------------------------- MODULE S3Storage -----------------------------
(***************************************************************************)
(* S3ReservationsStorage: servers that put reservations into one bucket,   *)
(* read them, and each go through all of it again and again to remove what *)
(* has expired.  Every call of S3 is a step, and may fail; getting an      *)
(* object and deleting it are two calls, and the bucket is listed page by  *)
(* page while others change it.                                            *)
(***************************************************************************)
EXTENDS Naturals, Sequences, FiniteSets

CONSTANTS
    Servers,
    Survivors,      \* servers that are never stopped
    MaxKey,         \* objects are 1 .. MaxKey, in the order in which S3 lists them
    Foreign,        \* JSON objects below the prefix that are not reservations
    Batches,        \* for each server the keys it deploys together, in order
    Lifetime,       \* of every reservation
    PageSize,       \* max_keys_per_page
    MaxAttempts,    \* of a call
    MaxErrors,      \* bound: calls that fail, over all
    MaxDeploys,     \* bound: deployments of a server
    MaxTime         \* bound: time

Keys == 1 .. MaxKey

\* The reservations of a server: an id is made with uuid4(), so that no other has it.
Ids(s) == {Batches[s][i] : i \in 1 .. Len(Batches[s])}

ASSUME ConstantsAssumption ==
    /\ Survivors \subseteq Servers
    /\ MaxKey \in Nat /\ Foreign \subseteq Keys
    /\ Batches \in [Servers -> Seq(Keys \ Foreign)]
    /\ \A s, t \in Servers : s # t => Ids(s) \cap Ids(t) = {}
    /\ Lifetime \in Nat /\ MaxTime \in Nat /\ MaxErrors \in Nat /\ MaxDeploys \in Nat
    /\ PageSize \in Nat \ {0}
    /\ MaxAttempts \in Nat \ {0}

NoObject == [kind |-> "none", expiration |-> 0]
Never == MaxTime + Lifetime + 1
ForeignObject == [kind |-> "foreign", expiration |-> 0]
Object(expiration) == [kind |-> "reservation", expiration |-> expiration]

VARIABLES
    now,
    bucket,         \* what is under each key
    errors,         \* calls that have failed
    alive,          \* servers that run
    pass,           \* where a server's pass over the bucket is
    current_time,   \* when the pass began
    page,           \* keys of the page that are still to be looked at
    cursor,         \* the last key listed
    attempt,        \* of the call that the pass is at
    to_put,         \* what a deployment has still to put
    expiration,     \* the expiration of its reservations
    deploys,        \* deployments so far
    promised        \* history: the first expiration that a key had

passes == <<pass, current_time, page, cursor, attempt>>
deployments == <<to_put, expiration, deploys>>
vars == <<now, bucket, errors, alive, passes, deployments, promised>>

Set(f, s, v) == [f EXCEPT ![s] = v]

Init ==
    /\ now = 0 /\ errors = 0 /\ alive = Servers
    /\ bucket = [k \in Keys |-> IF k \in Foreign THEN ForeignObject ELSE NoObject]
    /\ pass = [s \in Servers |-> "idle"] /\ current_time = [s \in Servers |-> 0]
    /\ page = [s \in Servers |-> {}] /\ cursor = [s \in Servers |-> 0]
    /\ attempt = [s \in Servers |-> 1]
    /\ to_put = [s \in Servers |-> <<>>] /\ expiration = [s \in Servers |-> 0]
    /\ deploys = [s \in Servers |-> 0]
    /\ promised = [k \in Keys |-> Never]

Tick ==
    /\ now < MaxTime
    /\ now' = now + 1
    /\ UNCHANGED <<bucket, errors, alive, passes, deployments, promised>>

\* A server is stopped between any two calls.
Stop(s) ==
    /\ s \in alive \ Survivors
    /\ alive' = alive \ {s}
    /\ UNCHANGED <<now, bucket, errors, passes, deployments, promised>>

-----------------------------------------------------------------------------
(* add_reservations()                                                      *)

\* deploy_together() gives all of a batch the same expiration.
DeployTogether(s) ==
    /\ s \in alive /\ to_put[s] = <<>> /\ Batches[s] # <<>> /\ deploys[s] < MaxDeploys
    /\ to_put' = Set(to_put, s, Batches[s])
    /\ expiration' = Set(expiration, s, now + Lifetime)
    /\ deploys' = Set(deploys, s, deploys[s] + 1)
    /\ UNCHANGED <<now, bucket, errors, alive, passes, promised>>

Put(s) ==
    LET key == Head(to_put[s]) IN
    /\ bucket' = Set(bucket, key, Object(expiration[s]))
    /\ promised' = IF promised[key] = Never THEN Set(promised, key, expiration[s]) ELSE promised

\* One object after the other.
PutObject(s) ==
    /\ s \in alive /\ to_put[s] # <<>>
    /\ Put(s)
    /\ to_put' = Set(to_put, s, Tail(to_put[s]))
    /\ UNCHANGED <<now, errors, alive, passes, expiration, deploys>>

\* These calls are not tried again: the exception leaves the rest of the batch out.
PutObjectFails(s) ==
    /\ s \in alive /\ to_put[s] # <<>>
    /\ errors < MaxErrors
    /\ errors' = errors + 1
    /\ Put(s) \/ UNCHANGED <<bucket, promised>>
    /\ to_put' = Set(to_put, s, <<>>)
    /\ UNCHANGED <<now, alive, passes, expiration, deploys>>

-----------------------------------------------------------------------------
(* expire_reservations()                                                   *)

At(s, place) == s \in alive /\ pass[s] = place
FirstOf(keys) == CHOOSE k \in keys : \A j \in keys : k <= j
LastOf(keys) == CHOOSE k \in keys : \A j \in keys : j <= k
Key(s) == FirstOf(page[s])

StartPass(s) ==
    /\ At(s, "idle")
    /\ pass' = Set(pass, s, "list")
    /\ current_time' = Set(current_time, s, now)
    /\ cursor' = Set(cursor, s, 0)
    /\ UNCHANGED <<now, bucket, errors, alive, page, attempt, deployments, promised>>

\* The first keys after the last one listed, as they are now.
PageAfter(s) ==
    LET Present == {k \in Keys : bucket[k] # NoObject /\ k > cursor[s]}
    IN  {k \in Present : Cardinality({j \in Present : j <= k}) <= PageSize}

\* iter_reservation_keys(): the next page, or the end of the pass.
ListPage(s) ==
    /\ At(s, "list")
    /\ page' = Set(page, s, PageAfter(s))
    /\ IF PageAfter(s) = {}
       THEN /\ pass' = Set(pass, s, "idle")
            /\ cursor' = Set(cursor, s, 0) /\ current_time' = Set(current_time, s, 0)
       ELSE /\ pass' = Set(pass, s, "get")
            /\ cursor' = Set(cursor, s, LastOf(PageAfter(s))) /\ UNCHANGED current_time
    /\ UNCHANGED <<now, bucket, errors, alive, attempt, deployments, promised>>

EndPass(s) ==
    /\ pass' = Set(pass, s, "idle")
    /\ page' = Set(page, s, {})
    /\ attempt' = Set(attempt, s, 1)
    /\ cursor' = Set(cursor, s, 0) /\ current_time' = Set(current_time, s, 0)

NextKey(s) ==
    /\ page' = Set(page, s, page[s] \ {Key(s)})
    /\ pass' = Set(pass, s, IF page[s] = {Key(s)} THEN "list" ELSE "get")
    /\ attempt' = Set(attempt, s, 1)
    /\ UNCHANGED <<current_time, cursor>>

\* Mutant: the clock is compared the other way round.
IsExpiredBackwards(s, object) == current_time[s] < object.expiration

IsExpired(s, object) == current_time[s] > object.expiration

\* expire_one_reservation() gets the object.  A key that is gone counts as expired;
\* an object that is no reservation raises, and the pass is over.
GetObject(s) ==
    /\ At(s, "get")
    /\ LET object == bucket[Key(s)] IN
       \/ /\ object.kind = "none" \/ (object.kind = "reservation" /\ ~IsExpired(s, object))
          /\ NextKey(s)
       \/ /\ object.kind = "reservation" /\ IsExpired(s, object)
          /\ pass' = Set(pass, s, "delete")
          /\ attempt' = Set(attempt, s, 1)
          /\ UNCHANGED <<page, current_time, cursor>>
       \/ /\ object.kind = "foreign"
          /\ EndPass(s)
    /\ UNCHANGED <<now, bucket, errors, alive, deployments, promised>>

Delete(s) == At(s, "delete") /\ bucket' = Set(bucket, Key(s), NoObject)

\* It deletes the key, whatever is under it by now.
DeleteObject(s) ==
    /\ Delete(s)
    /\ NextKey(s)
    /\ UNCHANGED <<now, errors, alive, deployments, promised>>

Fails(s, places) ==
    /\ s \in alive /\ pass[s] \in places
    /\ errors < MaxErrors
    /\ errors' = errors + 1
    /\ Delete(s) \/ UNCHANGED bucket
    /\ UNCHANGED <<now, alive, deployments, promised>>

\* A page that cannot be listed ends the pass: only making the iterator is tried again.
ListFails(s) == Fails(s, {"list"}) /\ EndPass(s)

\* _do_with_retries(): another attempt.
Retry(s) ==
    /\ Fails(s, {"get", "delete"})
    /\ attempt[s] < MaxAttempts
    /\ attempt' = Set(attempt, s, attempt[s] + 1)
    /\ UNCHANGED <<pass, page, current_time, cursor>>

\* A ClientError that is not worth another attempt, or the last one, is logged and
\* the object left to the next pass.
SkipObject(s) == Fails(s, {"get", "delete"}) /\ NextKey(s)

\* A BotoCoreError is tried again whatever it is, and ends the pass at last.
GiveUp(s) ==
    /\ Fails(s, {"get", "delete"})
    /\ attempt[s] = MaxAttempts
    /\ EndPass(s)

-----------------------------------------------------------------------------

Expire(s) == StartPass(s) \/ ListPage(s) \/ GetObject(s) \/ DeleteObject(s)

Next ==
    \/ Tick
    \/ \E s \in Servers :
        \/ Stop(s)
        \/ DeployTogether(s) \/ PutObject(s) \/ PutObjectFails(s)
        \/ Expire(s) \/ ListFails(s) \/ Retry(s) \/ SkipObject(s) \/ GiveUp(s)

Spec == Init /\ [][Next]_vars

\* _run_loop() of a server that lives goes on, whatever a pass raises.  Errors come
\* to an end, and nothing else is assumed.
FairSpec == Spec /\ \A s \in Survivors : WF_vars(Expire(s))

-----------------------------------------------------------------------------

\* The bucket is the storage that servers take it for, although they come between
\* each other's calls, are stopped in the middle of a batch and meet errors: no
\* reservation goes before it expires, and each that has expired is removed as long
\* as one server lives.  What is listed after an object that is none of theirs is
\* never reached, and left out.
Reached == {k \in Keys : \A f \in Foreign : k < f}
Stored == [k \in Reached |-> IF bucket[k] = NoObject THEN Never ELSE bucket[k].expiration]
Promised == [k \in Reached |-> promised[k]]
Base == INSTANCE BaseStorage WITH
            Reservations <- Reached, Times <- 0 .. MaxTime + Lifetime, Gone <- Never,
            stored <- Stored, promised <- Promised
ImplementsBaseStorage == Base!Spec
=============================================================================
