------------------------------- MODULE Exchange -------------------------------
(***************************************************************************)
(* What the handlers of the event loop rely on when they send a request    *)
(* over libp2p request-response: each direction carries one message, which *)
(* arrives as it was sent or not at all; a response follows the request it *)
(* answers; what is too large for either end is never delivered.  Module   *)
(* Mesh treats its messages like this; module Framing implements it.       *)
(***************************************************************************)
EXTENDS Naturals

CONSTANTS
    Message,    \* requests and responses
    Fits,       \* Fits[d]: the messages both ends of direction d accept
    NONE,       \* no message
    FAILED      \* an error in place of a message

VARIABLES
    sent,       \* sent[d]: the message the writer put on the stream
    got         \* got[d]: what the reader returned

Direction == {"request", "response"}

Init ==
    /\ sent = [d \in Direction |-> NONE]
    /\ got = [d \in Direction |-> NONE]

Send(d, m) ==
    /\ sent[d] = NONE
    /\ d = "response" => got["request"] \in Message
    /\ sent' = [sent EXCEPT ![d] = m]
    /\ UNCHANGED got

Deliver(d) ==
    /\ got[d] = NONE
    /\ sent[d] \in Fits[d]
    /\ got' = [got EXCEPT ![d] = sent[d]]
    /\ UNCHANGED sent

\* The request is not served, or the response not received.
Fail(d) ==
    /\ got[d] = NONE
    /\ got' = [got EXCEPT ![d] = FAILED]
    /\ UNCHANGED sent

Next == \E d \in Direction :
            (\E m \in Message : Send(d, m)) \/ Deliver(d) \/ Fail(d)

Spec == Init /\ [][Next]_<<sent, got>>
=============================================================================
