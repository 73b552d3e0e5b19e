-------------------------- MODULE OpenFgaAuthorizer ---------------------------
(* The authorizer that the handlers of one server share, and the sessions they *)
(* open on it with "async with". All requests run in one event loop: a request *)
(* runs until it awaits something, and a lock that it waits for while it runs  *)
(* stops them all. AlwaysYesAuthorizer, the default, never awaits.             *)
EXTENDS FiniteSets

CONSTANTS Requests, Agents,
          Everything,   \* what list() asks about
          None

VARIABLES authorizer, \* AGENT_AUTHORIZER: "yes" or "openfga"
          grants,     \* at the OpenFGA server: the agents the actor may read
          store,      \* at the OpenFGA server: there is one of our name
          cached,     \* OpenFgaStoreCache.store_name_to_id knows it
          lock,       \* OpenFgaStoreCache.lock: the request that holds it
          client,     \* OpenFgaAuthorizer.fga_client: the request that opened it
          session,    \* request -> where its "async with" is, and its answer
          blocked     \* the event loop waits for the lock

authVars == <<authorizer, grants, store, cached, lock, client, session, blocked>>

NoSession == [pc |-> "none", about |-> None, reply |-> {}, failed |-> FALSE]

AuthInit == /\ authorizer \in {"yes", "openfga"}
            /\ grants \in SUBSET Agents
            /\ store \in BOOLEAN /\ cached = FALSE
            /\ lock = None /\ client = None /\ blocked = FALSE
            /\ session = [r \in Requests |-> NoSession]

(* The request that runs goes on until it awaits. *)
Running == {r \in Requests : session[r].pc \in {"enter", "over"}}
MayRun(r) == ~blocked /\ Running \subseteq {r}

Goto(r, pc) == session' = [session EXCEPT ![r].pc = pc]
Over(r, failed) == session' = [session EXCEPT ![r].pc = "over", ![r].failed = failed]

(* "async with self.authorizer": the default answers at once. *)
Began(about) ==
  IF authorizer = "yes"
    THEN [NoSession EXCEPT !.pc = "over", !.about = about, !.reply = Agents]
    ELSE [NoSession EXCEPT !.pc = "enter", !.about = about]

-------------------------------------------------------------------------------
(* __aenter__() *)

(* A client that is there, of another session that is open, is closed first.   *)
CloseOld(r) == /\ MayRun(r) /\ session[r].pc = "enter" /\ client # None
               /\ Goto(r, "close_old")
               /\ UNCHANGED <<authorizer, grants, store, cached, lock, client, blocked>>

(* The new client, and with no await in between the question is on its way.    *)
OpenClient(r) == client' = r /\ Goto(r, "asking")

AtGetClient(r) == /\ MayRun(r)
                  /\ \/ session[r].pc = "enter" /\ client = None
                     \/ session[r].pc = "close_old"

GetCachedClient(r) == /\ AtGetClient(r) /\ cached
                      /\ OpenClient(r)
                      /\ UNCHANGED <<authorizer, grants, store, cached, lock, blocked>>

(* A threading.Lock, which is held across the awaits of initialize_store().    *)
AcquireLock(r) ==
  /\ AtGetClient(r) /\ ~cached
  /\ IF lock = None THEN lock' = r /\ Goto(r, "list_stores") /\ UNCHANGED blocked
     ELSE blocked' = TRUE /\ UNCHANGED <<lock, session>>
  /\ UNCHANGED <<authorizer, grants, store, cached, client>>

Initializing(r) == session[r].pc \in {"list_stores", "create_store", "find_model", "write_model"}

(* maybe_initialize_store() and prepare_policy(): one call after the other.    *)
MaybeInitializeStore(r) ==
  /\ MayRun(r)
  /\ \/ /\ session[r].pc = "list_stores"
        /\ Goto(r, IF store THEN "find_model" ELSE "create_store") /\ UNCHANGED store
     \/ /\ session[r].pc = "create_store"
        /\ store' = TRUE /\ Goto(r, "find_model")
  /\ UNCHANGED <<authorizer, grants, cached, lock, client, blocked>>

(* The model that FGA_MODEL_ID names is there, or the policy is written again. *)
UpdateAuthModel(r) == /\ MayRun(r) /\ session[r].pc = "find_model"
                      /\ Goto(r, "write_model")
                      /\ UNCHANGED <<authorizer, grants, store, cached, lock, client, blocked>>

(* Mutant: nothing releases the lock when a call has raised.                   *)
KeepLock == lock

(* What the end of "with lock" leaves of it when a call has raised.            *)
ReleaseLock == None

StoreInitialized(r) == /\ MayRun(r) /\ session[r].pc \in {"find_model", "write_model"}
                       /\ cached' = TRUE /\ lock' = None
                       /\ OpenClient(r)
                       /\ UNCHANGED <<authorizer, grants, store, blocked>>

InitializeFails(r) ==
  /\ MayRun(r) /\ Initializing(r)
  /\ lock' = ReleaseLock /\ Over(r, TRUE)
  /\ store' \in (IF session[r].pc = "create_store" THEN BOOLEAN ELSE {store})
  /\ UNCHANGED <<authorizer, grants, cached, client, blocked>>

-------------------------------------------------------------------------------
(* authorize(), list() and __aexit__() *)

(* The answer comes, or none: the server is away, or another session of the    *)
(* authorizer has closed the client. __aexit__() closes the client that is     *)
(* there now, whose ever it is, and raises when there is none.                 *)
Exit(r, failed) ==
  /\ MayRun(r) /\ session[r].pc = "asking"
  /\ session' =
       [session EXCEPT ![r].pc = IF client = None THEN "over" ELSE "close",
                       ![r].failed = failed \/ client = None,
                       ![r].reply = IF session[r].about = Everything THEN grants
                                    ELSE grants \cap {session[r].about}]
  /\ UNCHANGED <<authorizer, grants, store, cached, lock, client, blocked>>

Answered(r) == Exit(r, FALSE)
AskFails(r) == Exit(r, TRUE)

Closed(r) == /\ MayRun(r) /\ session[r].pc = "close"
             /\ client' = None
             /\ Over(r, session[r].failed)
             /\ UNCHANGED <<authorizer, grants, store, cached, lock, blocked>>

SessionStep(r) == \/ CloseOld(r) \/ GetCachedClient(r) \/ AcquireLock(r)
                  \/ MaybeInitializeStore(r) \/ UpdateAuthModel(r)
                  \/ StoreInitialized(r) \/ InitializeFails(r)
                  \/ Answered(r) \/ AskFails(r) \/ Closed(r)

(* grant() and revoke(), by whoever administers the server.                    *)
Grant(a) == a \notin grants /\ grants' = grants \cup {a}
Revoke(a) == a \in grants /\ grants' = grants \ {a}
===============================================================================
