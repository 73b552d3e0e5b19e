--------------------------- MODULE HttpServerApp ---------------------------
(***************************************************************************)
(* The life of the HTTP server: it counts the requests it has served, and  *)
(* when they are more than a limit it takes no new ones, waits for those   *)
(* that are executed and stops.                                            *)
(*                                                                         *)
(*   request  a request handler on the server's event loop                 *)
(*   thread   do_shutdown(), on a thread of its own: it polls              *)
(*            num_processing and asks the loop to stop                     *)
(***************************************************************************)
EXTENDS Integers, FiniteSets

CONSTANTS
    Requests,
    Uncounted,      \* those whose handler does not count them: MCP's
    MayFail,        \* those that may raise where nobody counts them out
    RequestsLimit,  \* requests_limit; negative for no limit
    MaxPolls        \* SHUTDOWN_TIMEOUT_SECONDS / wait_period_seconds

ASSUME ConstantsAssumption ==
    /\ Uncounted \subseteq Requests
    /\ MayFail \subseteq Requests
    /\ IsFiniteSet(Requests)
    /\ RequestsLimit \in Int
    /\ MaxPolls \in Nat \ {0}

VARIABLES
    request,             \* where each request's handler is
    num_processing,
    total,
    serving,
    shutdown_initiated,
    thread,              \* where do_shutdown() is
    polls,               \* how often it has found requests in execution
    loop                 \* does the event loop run?

counters == <<num_processing, total>>
shutdown == <<shutdown_initiated, thread, polls, loop>>
vars == <<request, counters, serving, shutdown>>

Init ==
    /\ request = [r \in Requests |-> "new"]
    /\ num_processing = 0
    /\ total = 0
    /\ serving = TRUE
    /\ shutdown_initiated = FALSE
    /\ thread = "none"
    /\ polls = 0
    /\ loop = "running"

Move(r, from, to) ==
    /\ loop = "running"
    /\ request[r] = from
    /\ request' = [request EXCEPT ![r] = to]

-----------------------------------------------------------------------------
(* A request                                                               *)

\* Mutant: prepare() does not ask whether the server is serving.
PrepareAnyway(r) ==
    /\ Move(r, "new", "prepared")
    /\ UNCHANGED <<counters, serving, shutdown>>

\* prepare(), up to where it waits for the request's number.
Prepare(r) ==
    /\ Move(r, "new", IF serving THEN "prepared" ELSE "refused")
    /\ UNCHANGED <<counters, serving, shutdown>>

\* get_service() finds no service for the caller and answers itself.
Reject(r) ==
    /\ r \notin Uncounted
    /\ Move(r, "prepared", "refused")
    /\ UNCHANGED <<counters, serving, shutdown>>

\* Mutant: a request is counted only while there is no other.
StartWithoutCount(r) ==
    /\ Move(r, "prepared", "processing")
    /\ num_processing' = IF r \in Uncounted \/ num_processing > 0 THEN num_processing ELSE 1
    /\ UNCHANGED <<total, serving, shutdown>>

\* start_client_request()
StartClientRequest(r) ==
    /\ Move(r, "prepared", "processing")
    /\ num_processing' = IF r \in Uncounted THEN num_processing ELSE num_processing + 1
    /\ UNCHANGED <<total, serving, shutdown>>

\* initiate_shutdown(): only the first call starts the thread.
InitiateShutdown ==
    /\ shutdown_initiated' = TRUE
    /\ IF shutdown_initiated THEN UNCHANGED <<thread, polls>>
                             ELSE thread' = "poll" /\ polls' = 0
    /\ UNCHANGED loop

\* The handler answers, then finish_client_request().
FinishClientRequest(r) ==
    /\ r \notin Uncounted
    /\ Move(r, "processing", "answered")
    /\ num_processing' = num_processing - 1
    /\ total' = total + 1
    /\ IF 0 <= RequestsLimit /\ RequestsLimit < total + 1
       THEN serving' = FALSE /\ InitiateShutdown
       ELSE UNCHANGED <<serving, shutdown>>

\* The answer of a handler that does not count.
FinishUncounted(r) ==
    /\ r \in Uncounted
    /\ Move(r, "processing", "answered")
    /\ UNCHANGED <<counters, serving, shutdown>>

\* An exception after start_client_request() but outside the try-block whose
\* finally calls finish_client_request(): the request stays counted.
FailUncaught(r) ==
    /\ r \in MayFail \ Uncounted
    /\ Move(r, "processing", "answered")
    /\ UNCHANGED <<counters, serving, shutdown>>

-----------------------------------------------------------------------------
(* do_shutdown()                                                           *)

\* Mutant: it does not look at num_processing.
PollBlindly ==
    /\ thread = "poll"
    /\ thread' = "stopping"
    /\ UNCHANGED <<request, counters, serving, shutdown_initiated, polls, loop>>

\* Mutant: it waits for as long as there are requests.
PollForever ==
    /\ thread = "poll"
    /\ num_processing <= 0
    /\ thread' = "stopping"
    /\ UNCHANGED <<request, counters, serving, shutdown_initiated, polls, loop>>

\* A round of do_shutdown(): it stops when nothing is in execution, or when its
\* time is over.
Poll ==
    /\ thread = "poll"
    /\ IF polls < MaxPolls /\ num_processing > 0
       THEN polls' = polls + 1 /\ UNCHANGED thread
       ELSE thread' = "stopping" /\ UNCHANGED polls
    /\ UNCHANGED <<request, counters, serving, shutdown_initiated, loop>>

\* stop_server(): loop.stop is a callback of the loop.
StopLoop ==
    /\ thread = "stopping"
    /\ loop' = "stopped"
    /\ thread' = "done"
    /\ UNCHANGED <<request, counters, serving, shutdown_initiated, polls>>

-----------------------------------------------------------------------------

Handle(r) ==
    \/ StartClientRequest(r)
    \/ FinishClientRequest(r)
    \/ FinishUncounted(r)

Next ==
    \/ \E r \in Requests : Prepare(r) \/ Reject(r) \/ FailUncaught(r) \/ Handle(r)
    \/ Poll
    \/ StopLoop

Spec == Init /\ [][Next]_vars

\* A handler comes to its end (its time-out sees to that), and so do the thread
\* and the callback it leaves.
FairSpec ==
    Spec /\ WF_vars(Poll) /\ WF_vars(StopLoop) /\ \A r \in Requests : WF_vars(Handle(r))

-----------------------------------------------------------------------------

In(place) == {r \in Requests : request[r] = place}
Executing == In("processing") \ Uncounted
LimitReached == 0 <= RequestsLimit /\ RequestsLimit < total

\* Every variable holds a value of its kind.
TypeOK ==
    /\ request \in [Requests -> {"new", "prepared", "processing", "answered", "refused"}]
    /\ num_processing \in Nat
    /\ total \in Nat
    /\ serving \in BOOLEAN
    /\ shutdown_initiated \in BOOLEAN
    /\ thread \in {"none", "poll", "stopping", "done"}
    /\ polls \in 0 .. MaxPolls
    /\ loop \in {"running", "stopped"}

\* finish_client_request() is called once for each request started, at most:
\* num_processing is never below the number of counted requests in execution,
\* whatever fails on the way.
NoneUncounted == Cardinality(Executing) <= num_processing

\* do_shutdown() asks the loop to stop only when it finds no counted request in
\* execution, or when its time is over.
StopsWhenIdle ==
    [][thread = "poll" /\ thread' = "stopping" => Executing = {} \/ polls = MaxPolls]_vars

\* Once the limit is reached prepare() lets no request in.
NoRequestAfterTheLimit == [][LimitReached => In("prepared")' \subseteq In("prepared")]_vars

\* A server stops only because it has served more requests than its limit.
StopsAtTheLimit == shutdown_initiated => LimitReached

\* When the limit is reached the server does stop, whatever becomes of the
\* requests it still executes.
LimitStopsTheServer == LimitReached ~> loop = "stopped"
=============================================================================
