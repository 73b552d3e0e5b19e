---------------------------- MODULE AnswerStream ----------------------------
(***************************************************************************)
(* What a streaming_chat() request promises to its client: the messages    *)
(* come as they were written, an answer is the last of them, and the       *)
(* stream ends by itself only after the answer.  A stream can be cut off,  *)
(* and then nothing more comes.                                            *)
(***************************************************************************)
EXTENDS Naturals, Sequences

CONSTANT Requests

VARIABLES
    written,   \* the messages written for the client, "answer" among them
    received,  \* those the client has got
    stream     \* "open", "ended" or "cut"

vars == <<written, received, stream>>

Answered(r) == written[r] # <<>> /\ written[r][Len(written[r])] = "answer"

Init ==
    /\ written = [r \in Requests |-> <<>>]
    /\ received = [r \in Requests |-> <<>>]
    /\ stream = [r \in Requests |-> "open"]

Write(r, message) ==
    /\ ~Answered(r)
    /\ written' = [written EXCEPT ![r] = Append(@, message)]
    /\ UNCHANGED <<received, stream>>

Receive(r) ==
    /\ stream[r] = "open"
    /\ Len(received[r]) < Len(written[r])
    /\ received' = [received EXCEPT ![r] = Append(@, written[r][Len(@) + 1])]
    /\ UNCHANGED <<written, stream>>

End(r) ==
    /\ stream[r] = "open"
    /\ Answered(r)
    /\ received[r] = written[r]
    /\ stream' = [stream EXCEPT ![r] = "ended"]
    /\ UNCHANGED <<written, received>>

Cut(r) ==
    /\ stream[r] = "open"
    /\ stream' = [stream EXCEPT ![r] = "cut"]
    /\ UNCHANGED <<written, received>>

Next ==
    \E r \in Requests :
        \/ \E message \in {"message", "answer"} : Write(r, message)
        \/ Receive(r) \/ End(r) \/ Cut(r)

Spec == Init /\ [][Next]_vars
=============================================================================
