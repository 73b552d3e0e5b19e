---------------------------- MODULE BaseStorage ----------------------------
(***************************************************************************)
(* What a base storage shared by servers promises: a reservation that was  *)
(* put stays at least until it expires, and then goes.  One that is put    *)
(* again is promised no more than the first time.                          *)
(***************************************************************************)
EXTENDS Naturals

CONSTANTS
    Reservations,
    Times,          \* expiration times
    Gone            \* no reservation; not one of Times

VARIABLES
    now,
    stored,         \* the expiration time of each reservation, or Gone
    promised        \* the first one that it had, or Gone

vars == <<now, stored, promised>>

Init ==
    /\ now = 0
    /\ stored = [r \in Reservations |-> Gone]
    /\ promised = [r \in Reservations |-> Gone]

Tick == now' = now + 1 /\ UNCHANGED <<stored, promised>>

Put(r, expiration) ==
    /\ stored' = [stored EXCEPT ![r] = expiration]
    /\ promised' = [promised EXCEPT ![r] = IF @ = Gone THEN expiration ELSE @]
    /\ UNCHANGED now

Expire(r) ==
    /\ stored[r] # Gone
    /\ now > promised[r]
    /\ stored' = [stored EXCEPT ![r] = Gone]
    /\ UNCHANGED <<now, promised>>

Next ==
    \/ Tick
    \/ \E r \in Reservations : Expire(r) \/ \E expiration \in Times : Put(r, expiration)

\* Time goes on as it likes; what has expired is removed.
Expired(r) == stored[r] # Gone /\ now > stored[r]
Removed == \A r \in Reservations : Expired(r) ~> ~Expired(r)

Safety == Init /\ [][Next]_vars
Spec == Safety /\ Removed
=============================================================================
