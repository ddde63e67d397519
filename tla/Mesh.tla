-------------------------------- MODULE Mesh --------------------------------
(***************************************************************************)
(* The event loops of a mesh of kited daemons (crates/kited/src/            *)
(* event_loop.rs): intent submission, directory lookup, card fetch, the    *)
(* two ACL round trips and the receipts both sides persist, over a libp2p  *)
(* network that may lose requests and responses, with daemons that stop    *)
(* and restart.                                                            *)
(*                                                                         *)
(* A daemon is one tokio task.  A handler runs to its end before the next  *)
(* event is polled, so one action models one handler.  The exception is    *)
(* ReceiptStore::insert(..).await: it is entered after the INFORM left     *)
(* through the connection task, so other daemons run, and this one may     *)
(* die, while the row is being written.  `writing' holds that row.         *)
(*                                                                         *)
(* Ids that the code draws from counters or from uuid v4 are named by what *)
(* they stand for: a lookup by its conversation and table, a card fetch by *)
(* conversation, capability and peer, an ACL round by its conversation.    *)
(* Every conversation id belongs to the daemon that draws it.              *)
(***************************************************************************)
EXTENDS Naturals, FiniteSets

CONSTANTS
    Node,          \* peers (identities)
    Conv,          \* conversation ids
    Table,         \* LSH tables, 0 .. L-1
    Card,          \* signed capability cards
    CapId,         \* capability ids
    NONE,          \* an absent card
    OwnerOf,       \* [Conv -> Node]: the daemon that submits the intent
    CapOf,         \* [Card -> CapId]: card.capability_id
    AgentOf,       \* [Card -> Node]: card.agent_id
    Publications,  \* <<n, k>>: card k may be published at daemon n
    Hits,          \* [Conv -> [Table -> SUBSET Card]]: equal DHT keys
    Passing,       \* [Conv -> SUBSET Card]: cards that pass facet_filter
    Score,         \* [Conv -> [Card -> Nat]]: cosine score, as a rank
    Lossy,         \* whether requests and responses may be lost
    MaxStops       \* bound: how often a daemon stops

ASSUME NoneAssumption == NONE \notin Card
ASSUME TableAssumption == Table # {}
ASSUME MapAssumption ==
    /\ OwnerOf \in [Conv -> Node]
    /\ CapOf \in [Card -> CapId]
    /\ AgentOf \in [Card -> Node]
    /\ Publications \subseteq Node \X Card
ASSUME MatchAssumption ==
    /\ Hits \in [Conv -> [Table -> SUBSET Card]]
    /\ Passing \in [Conv -> SUBSET Card]
    /\ Score \in [Conv -> [Card -> Nat]]
ASSUME BoundAssumption == Lossy \in BOOLEAN /\ MaxStops \in Nat

VARIABLES
    alive,                \* alive[n]: the event loop of n is running
    stops,                \* daemons stopped so far (bounds the model)
    dht,                  \* directory records <<peer, card>> put so far
    local_cards,          \* State::local_cards, at most one card per id
    requesters,           \* keys of State::requesters, of every daemon
    req,                  \* req[c]: the RequesterState of c
    pending_lookups,      \* <<conv, table>>
    pending_card_fetches, \* <<conv, <<cap, peer>>>>
    pending_acl_round1,   \* conversations awaiting a PROPOSE
    pending_acl_round2,   \* conversations awaiting an INFORM
    providers,            \* providers[n]: ProviderStates, one per conv
    writing,              \* writing[n]: row whose insert is awaited
    receipts,             \* receipts[n]: rows of the SQLite table
    reply,                \* reply[c]: what the caller of submit_intent sees
    card_net,             \* card requests and responses in flight
    acl_net,              \* ACL requests and responses in flight
    cut,                  \* history: <<n, c>>: a stop of n left the caller of c,
                          \* or the insert of its row, without an answer
    delivered,            \* history: cards received for c
    executions            \* history: how often c's task was executed

\* The state that a handler of the requester side works on.
requesterVars == <<requesters, req, reply>>
pendingVars == <<pending_lookups, pending_card_fetches,
                 pending_acl_round1, pending_acl_round2>>
\* The state of the daemon as a whole, and of the directory.
daemonVars == <<alive, stops, cut>>
directoryVars == <<dht, local_cards>>
vars == <<alive, stops, cut, dht, local_cards, requesters, req, pending_lookups,
          pending_card_fetches, pending_acl_round1, pending_acl_round2,
          providers, writing, receipts, reply, card_net, acl_net,
          delivered, executions>>
-----------------------------------------------------------------------------
FetchId == CapId \X Node

\* RequesterState; provider_peer and chosen_capability_id are set together,
\* from the card that was picked.
RequesterState ==
    [outstanding_dht_queries : SUBSET Table,
     seen_capability_ids     : SUBSET CapId,
     in_flight_card_fetches  : SUBSET FetchId,
     fetched_cards           : SUBSET Card,
     request_sent            : BOOLEAN,
     chosen                  : Card \cup {NONE}]

\* The state submit_intent creates, for a set of lookups.
NewRequester(lookups) ==
    [outstanding_dht_queries |-> lookups,
     seen_capability_ids     |-> {},
     in_flight_card_fetches  |-> {},
     fetched_cards           |-> {},
     request_sent            |-> FALSE,
     chosen                  |-> NONE]

\* What req[c] holds while c is not a key of State::requesters.
NoRequester == NewRequester({})

ProviderState == [conv : Conv, requester_peer : Node, cap : CapId]

Receipt == [conv : Conv, cap : CapId, requester : Node, provider : Node]

CardMessage == [kind : {"Get", "Found", "NotFound"}, conv : Conv,
                cap : CapId, peer : Node, card : Card \cup {NONE}]

AclMessage == [perf : {"REQUEST", "PROPOSE", "AGREE", "INFORM"},
               conv : Conv, peer : Node, cap : CapId \cup {NONE}]

Replies == {"unsent", "waiting", "ok", "no_match", "dropped"}

TypeOK ==
    /\ alive \in [Node -> BOOLEAN]
    /\ stops \in Nat
    /\ cut \subseteq Node \X Conv
    /\ dht \subseteq Node \X Card
    /\ local_cards \in [Node -> SUBSET Card]
    /\ \A n \in Node : \A j, k \in local_cards[n] :
           CapOf[j] = CapOf[k] => j = k
    /\ requesters \subseteq Conv
    /\ req \in [Conv -> RequesterState]
    /\ pending_lookups \subseteq Conv \X Table
    /\ pending_card_fetches \subseteq Conv \X FetchId
    /\ pending_acl_round1 \subseteq Conv
    /\ pending_acl_round2 \subseteq Conv
    /\ providers \in [Node -> SUBSET ProviderState]
    /\ writing \in [Node -> SUBSET Receipt]
    /\ receipts \in [Node -> SUBSET Receipt]
    /\ reply \in [Conv -> Replies]
    /\ card_net \subseteq CardMessage
    /\ acl_net \subseteq AclMessage
    /\ delivered \in [Conv -> SUBSET Card]
    /\ executions \in [Conv -> Nat]
-----------------------------------------------------------------------------
\* A variant of Polling: the handler does not await the insert.
PollingWhileWriting(n) == alive[n]

\* The daemon polls its next event: it is not awaiting a receipt insert.
Polling(n) == alive[n] /\ writing[n] = {}

\* send_request: libp2p refuses to dial the local peer, and the resulting
\* OutboundFailure is an event the handlers ignore.
Sent(from, m) == IF m.peer = from THEN {} ELSE {m}

CardGet(c, f) == [kind |-> "Get", conv |-> c, cap |-> f[1],
                  peer |-> f[2], card |-> NONE]

Acl(perf, c, p, cap) == [perf |-> perf, conv |-> c, peer |-> p, cap |-> cap]

\* A variant of InsertCard: cards are pushed on a list.
PushCard(S, k) == S \cup {k}

\* HashMap::insert and INSERT OR REPLACE keep one entry per key.
InsertCard(S, k) == {j \in S : CapOf[j] # CapOf[k]} \cup {k}
InsertRow(S, r) == {x \in S : x.conv # r.conv} \cup {r}

\* rerank sorts the passing cards by score; a tie goes to the card fetched
\* first, and cards may arrive in any order.
Best(c, S) == {k \in S : \A j \in S : Score[c][k] >= Score[c][j]}

\* A variant of Settled: fetches in flight are not waited for.
LookupsSettled(r) == r.outstanding_dht_queries = {}

\* The test that guards maybe_send_request.
Settled(r) == r.outstanding_dht_queries = {} /\ r.in_flight_card_fetches = {}
-----------------------------------------------------------------------------
Init ==
    /\ alive = [n \in Node |-> TRUE]
    /\ stops = 0
    /\ cut = {}
    /\ dht = {}
    /\ local_cards = [n \in Node |-> {}]
    /\ requesters = {}
    /\ req = [c \in Conv |-> NoRequester]
    /\ pending_lookups = {}
    /\ pending_card_fetches = {}
    /\ pending_acl_round1 = {}
    /\ pending_acl_round2 = {}
    /\ providers = [n \in Node |-> {}]
    /\ writing = [n \in Node |-> {}]
    /\ receipts = [n \in Node |-> {}]
    /\ reply = [c \in Conv |-> "unsent"]
    /\ card_net = {}
    /\ acl_net = {}
    /\ delivered = [c \in Conv |-> {}]
    /\ executions = [c \in Conv |-> 0]

\* publish: the card is served from now on, and its directory records are in
\* the DHT (put_record stores them locally before it replicates them).  The
\* acknowledgement of the puts is the subject of module Publication.
Publish(n, k) ==
    /\ Polling(n)
    /\ <<n, k>> \in Publications
    /\ local_cards' = [local_cards EXCEPT ![n] = InsertCard(@, k)]
    /\ dht' = dht \cup {<<n, k>>}
    /\ UNCHANGED <<daemonVars, requesterVars, pendingVars, providers, writing,
                   receipts, card_net, acl_net, delivered, executions>>

\* submit_intent: one get_record per LSH table.
SubmitIntent(c) ==
    /\ Polling(OwnerOf[c])
    /\ reply[c] = "unsent"
    /\ reply' = [reply EXCEPT ![c] = "waiting"]
    /\ requesters' = requesters \cup {c}
    /\ req' = [req EXCEPT ![c] = NewRequester(Table)]
    /\ pending_lookups' = pending_lookups \cup ({c} \X Table)
    /\ UNCHANGED <<daemonVars, directoryVars, pending_card_fetches,
                   pending_acl_round1, pending_acl_round2, providers, writing,
                   receipts, card_net, acl_net, delivered, executions>>

\* The requester state r once the fetch f was started, and once it was
\* answered with cards.
WithFetch(r, f) ==
    [r EXCEPT !.seen_capability_ids = @ \cup {f[1]},
              !.in_flight_card_fetches = @ \cup {f}]
WithCards(r, f, cards) ==
    [r EXCEPT !.in_flight_card_fetches = @ \ {f},
              !.fetched_cards = @ \cup cards]

\* on_directory_hit, for a record <<p, k>> found under the key of table t.
\* A record whose capability id was already seen changes nothing.
FoundRecord(c, t, p, k) ==
    LET f == <<CapOf[k], p>> IN
    /\ Polling(OwnerOf[c])
    /\ <<c, t>> \in pending_lookups
    /\ <<p, k>> \in dht
    /\ k \in Hits[c][t]
    /\ c \in requesters
    /\ CapOf[k] \notin req[c].seen_capability_ids
    /\ req' = [req EXCEPT ![c] = WithFetch(@, f)]
    /\ pending_card_fetches' = pending_card_fetches \cup {<<c, f>>}
    /\ card_net' = card_net \cup Sent(OwnerOf[c], CardGet(c, f))
    /\ UNCHANGED <<daemonVars, directoryVars, requesters, reply,
                   pending_lookups, pending_acl_round1, pending_acl_round2,
                   providers, writing, receipts, acl_net, delivered,
                   executions>>

\* A variant of Candidates: facet_filter is not applied.
Unfiltered(c, r) == r.fetched_cards

\* The fetched cards that rerank marks passed_filter.
Candidates(c, r) == r.fetched_cards \cap Passing[c]

\* A variant of KeepWaiting: the event is booked on a copy of the state.
BookedOnCopy(c, r) ==
    /\ r.request_sent \/ ~Settled(r)
    /\ UNCHANGED <<req, requesters, reply, pending_acl_round1, acl_net>>

\* A variant of NoMatchingCapability: the conversation is removed and nothing is
\* sent, so the caller sees its sender dropped.
CallerForgotten(c, r) ==
    /\ ~r.request_sent /\ Settled(r)
    /\ r.fetched_cards \cap Passing[c] = {}
    /\ requesters' = requesters \ {c}
    /\ req' = [req EXCEPT ![c] = NoRequester]
    /\ reply' = [reply EXCEPT ![c] = "dropped"]
    /\ UNCHANGED <<pending_acl_round1, acl_net>>

\* maybe_send_request, called with the requester state r of c after the
\* event was booked: wait for more, give up, or send the REQUEST to the best
\* card's agent.
KeepWaiting(c, r) ==
    /\ r.request_sent \/ ~Settled(r)
    /\ req' = [req EXCEPT ![c] = r]
    /\ UNCHANGED <<requesters, reply, pending_acl_round1, acl_net>>

NoMatchingCapability(c, r) ==
    /\ ~r.request_sent /\ Settled(r)
    /\ Candidates(c, r) = {}
    /\ requesters' = requesters \ {c}
    /\ req' = [req EXCEPT ![c] = NoRequester]
    /\ reply' = [reply EXCEPT ![c] = "no_match"]
    /\ UNCHANGED <<pending_acl_round1, acl_net>>

SendRequest(c, r) ==
    /\ ~r.request_sent /\ Settled(r)
    /\ \E top \in Best(c, Candidates(c, r)) :
         /\ req' = [req EXCEPT ![c] = [r EXCEPT !.fetched_cards = {},
                                                !.request_sent = TRUE,
                                                !.chosen = top]]
         /\ acl_net' = acl_net \cup
                Sent(OwnerOf[c], Acl("REQUEST", c, AgentOf[top], NONE))
    /\ pending_acl_round1' = pending_acl_round1 \cup {c}
    /\ UNCHANGED <<requesters, reply>>

MaybeSendRequest(c, r) ==
    KeepWaiting(c, r) \/ NoMatchingCapability(c, r) \/ SendRequest(c, r)

\* handle_kad, GetRecord finished or failed: both arms do the same.  A query
\* ends at the latest by its timeout.
LookupDone(c, t) ==
    /\ Polling(OwnerOf[c])
    /\ <<c, t>> \in pending_lookups
    /\ c \in requesters
    /\ pending_lookups' = pending_lookups \ {<<c, t>>}
    /\ MaybeSendRequest(c, [req[c] EXCEPT !.outstanding_dht_queries = @ \ {t}])
    /\ UNCHANGED <<daemonVars, directoryVars, pending_card_fetches,
                   pending_acl_round2, providers, writing, receipts, card_net,
                   delivered, executions>>

\* handle_card, inbound request: answer from local_cards.
ServeCard(m) ==
    LET found == {k \in local_cards[m.peer] : CapOf[k] = m.cap}
        Answer(kind, k) ==
            card_net' = (card_net \ {m})
                          \cup {[m EXCEPT !.kind = kind, !.card = k]}
    IN
    /\ m.kind = "Get"
    /\ Polling(m.peer)
    /\ \/ \E k \in found : Answer("Found", k)
       \/ found = {} /\ Answer("NotFound", NONE)
    /\ UNCHANGED <<daemonVars, directoryVars, requesterVars, pendingVars,
                   providers, writing, receipts, acl_net, delivered,
                   executions>>

\* handle_card, response.  Published cards verify, so a found card is kept.
ReceiveCard(m) ==
    LET c == m.conv
        f == <<m.cap, m.peer>>
        cards == {m.card} \ {NONE}
    IN
    /\ m.kind # "Get"
    /\ Polling(OwnerOf[c])
    /\ <<c, f>> \in pending_card_fetches
    /\ c \in requesters
    /\ card_net' = card_net \ {m}
    /\ pending_card_fetches' = pending_card_fetches \ {<<c, f>>}
    /\ delivered' = [delivered EXCEPT ![c] = @ \cup cards]
    /\ MaybeSendRequest(c, WithCards(req[c], f, cards))
    /\ UNCHANGED <<daemonVars, directoryVars, pending_lookups,
                   pending_acl_round2, providers, writing, receipts,
                   executions>>

\* handle_request_round1: propose whichever local card the HashMap iterates
\* first; with no local card the request is dropped unanswered.
HandleRequestRound1(m) ==
    LET p == m.peer
        Propose(k) ==
            /\ acl_net' = (acl_net \ {m})
                            \cup {Acl("PROPOSE", m.conv, p, CapOf[k])}
            /\ providers' = [providers EXCEPT ![p] = InsertRow(@,
                   [conv |-> m.conv, requester_peer |-> OwnerOf[m.conv],
                    cap |-> CapOf[k]])]
        Ignore ==
            /\ local_cards[p] = {}
            /\ acl_net' = acl_net \ {m}
            /\ UNCHANGED providers
    IN
    /\ m.perf = "REQUEST"
    /\ Polling(p)
    /\ Ignore \/ \E k \in local_cards[p] : Propose(k)
    /\ UNCHANGED <<daemonVars, directoryVars, requesterVars, pendingVars,
                   writing, receipts, card_net, delivered, executions>>

\* on_acl_response in round 1: agree with the provider, whatever capability
\* the PROPOSE names.  The arm for another performative is out of reach: the one
\* answer handle_request_round1 gives to a REQUEST is a PROPOSE.
ReceivePropose(m) ==
    LET c == m.conv
        k == req[c].chosen
    IN
    /\ m.perf = "PROPOSE"
    /\ Polling(OwnerOf[c])
    /\ c \in pending_acl_round1
    /\ c \in requesters
    /\ pending_acl_round1' = pending_acl_round1 \ {c}
    /\ pending_acl_round2' = pending_acl_round2 \cup {c}
    /\ acl_net' = (acl_net \ {m})
                    \cup Sent(OwnerOf[c], Acl("AGREE", c, AgentOf[k], CapOf[k]))
    /\ UNCHANGED <<daemonVars, directoryVars, requesterVars, pending_lookups,
                   pending_card_fetches, providers, writing, receipts,
                   card_net, delivered, executions>>

\* A variant of Execute: the conversation is looked up and stays in the map.
ExecuteAndKeep(m, s) ==
    /\ s.conv = m.conv
    /\ acl_net' = (acl_net \ {m}) \cup {Acl("INFORM", m.conv, m.peer, NONE)}
    /\ writing' = [writing EXCEPT ![m.peer] =
           {[conv |-> m.conv, cap |-> s.cap,
             requester |-> s.requester_peer, provider |-> m.peer]}]
    /\ executions' = [executions EXCEPT ![m.conv] = @ + 1]
    /\ UNCHANGED providers

\* handle_agree_round2: execute, send the INFORM, start writing the receipt.
Execute(m, s) ==
    /\ s.conv = m.conv
    /\ providers' = [providers EXCEPT ![m.peer] = @ \ {s}]
    /\ acl_net' = (acl_net \ {m}) \cup {Acl("INFORM", m.conv, m.peer, NONE)}
    /\ writing' = [writing EXCEPT ![m.peer] =
           {[conv |-> m.conv, cap |-> s.cap,
             requester |-> s.requester_peer, provider |-> m.peer]}]
    /\ executions' = [executions EXCEPT ![m.conv] = @ + 1]

\* A variant of UnknownConversation: the AGREE is answered all the same.
InformUnknown(m) ==
    /\ \A s \in providers[m.peer] : s.conv # m.conv
    /\ acl_net' = (acl_net \ {m}) \cup {Acl("INFORM", m.conv, m.peer, NONE)}
    /\ UNCHANGED <<providers, writing, executions>>

\* handle_agree_round2: the AGREE of a conversation that is not in the map is
\* dropped unanswered.
UnknownConversation(m) ==
    /\ \A s \in providers[m.peer] : s.conv # m.conv
    /\ acl_net' = acl_net \ {m}
    /\ UNCHANGED <<providers, writing, executions>>

HandleAgreeRound2(m) ==
    /\ m.perf = "AGREE"
    /\ Polling(m.peer)
    /\ UnknownConversation(m) \/ \E s \in providers[m.peer] : Execute(m, s)
    /\ UNCHANGED <<daemonVars, directoryVars, requesterVars, pendingVars,
                   receipts, card_net, delivered>>

\* on_acl_response in round 2 and complete_intent up to the insert.  An AGREE has
\* no other answer than an INFORM, so the arm for one is out of reach.
ReceiveInform(m) ==
    LET c == m.conv
        n == OwnerOf[c]
    IN
    /\ m.perf = "INFORM"
    /\ Polling(n)
    /\ c \in pending_acl_round2
    /\ c \in requesters
    /\ pending_acl_round2' = pending_acl_round2 \ {c}
    /\ requesters' = requesters \ {c}
    /\ req' = [req EXCEPT ![c] = NoRequester]
    /\ writing' = [writing EXCEPT ![n] =
           {[conv |-> c, cap |-> CapOf[req[c].chosen],
             requester |-> n, provider |-> m.peer]}]
    /\ acl_net' = acl_net \ {m}
    /\ UNCHANGED <<daemonVars, directoryVars, reply, pending_lookups,
                   pending_card_fetches, pending_acl_round1, providers,
                   receipts, card_net, delivered, executions>>

\* A variant of ReceiptStored: a failed insert is ignored.
InsertIgnored(n, r) ==
    /\ alive[n]
    /\ r \in writing[n]
    /\ writing' = [writing EXCEPT ![n] = {}]
    /\ reply' = IF r.requester = n THEN [reply EXCEPT ![r.conv] = "ok"]
                                   ELSE reply
    /\ UNCHANGED <<daemonVars, directoryVars, requesters, req, pendingVars,
                   providers, receipts, card_net, acl_net, delivered,
                   executions>>

\* The insert returned: the handler of handle_agree_round2 ends, the one of
\* complete_intent answers its caller.
ReceiptStored(n, r) ==
    /\ alive[n]
    /\ r \in writing[n]
    /\ writing' = [writing EXCEPT ![n] = {}]
    /\ receipts' = [receipts EXCEPT ![n] = InsertRow(@, r)]
    /\ reply' = IF r.requester = n THEN [reply EXCEPT ![r.conv] = "ok"]
                                   ELSE reply
    /\ UNCHANGED <<daemonVars, directoryVars, requesters, req, pendingVars,
                   providers, card_net, acl_net, delivered, executions>>

\* The event loop ends: Shutdown, an error a handler returned with `?', or
\* the process died.  Every reply sender is dropped with the state.  An
\* insert that was awaited has or has not reached the disk.
Stop(n) ==
    LET mine == {c \in Conv : OwnerOf[c] = n}
        waiting == {c \in mine : reply[c] = "waiting"}
        unwritten == {r.conv : r \in writing[n]}
    IN
    /\ alive[n]
    /\ stops < MaxStops
    /\ stops' = stops + 1
    /\ cut' = cut \cup ({n} \X (waiting \cup unwritten))
    /\ alive' = [alive EXCEPT ![n] = FALSE]
    /\ local_cards' = [local_cards EXCEPT ![n] = {}]
    /\ requesters' = requesters \ mine
    /\ req' = [c \in Conv |-> IF c \in mine THEN NoRequester ELSE req[c]]
    /\ pending_lookups' = {x \in pending_lookups : x[1] \notin mine}
    /\ pending_card_fetches' = {x \in pending_card_fetches : x[1] \notin mine}
    /\ pending_acl_round1' = pending_acl_round1 \ mine
    /\ pending_acl_round2' = pending_acl_round2 \ mine
    /\ providers' = [providers EXCEPT ![n] = {}]
    /\ writing' = [writing EXCEPT ![n] = {}]
    /\ \/ UNCHANGED receipts
       \/ \E r \in writing[n] :
             receipts' = [receipts EXCEPT ![n] = InsertRow(@, r)]
    /\ reply' = [c \in Conv |->
                   IF c \in waiting THEN "dropped" ELSE reply[c]]
    /\ UNCHANGED <<dht, card_net, acl_net, delivered, executions>>

\* Kited::start with the identity of n and its receipts file.
Restart(n) ==
    /\ ~alive[n]
    /\ alive' = [alive EXCEPT ![n] = TRUE]
    /\ UNCHANGED <<stops, cut, directoryVars, requesterVars, pendingVars,
                   providers, writing, receipts, card_net, acl_net,
                   delivered, executions>>

\* A request or response is lost, or its connection closes or times out.  The
\* OutboundFailure or InboundFailure event falls in the `_ => {}' arms.
LoseCard(m) ==
    /\ Lossy
    /\ card_net' = card_net \ {m}
    /\ UNCHANGED <<daemonVars, directoryVars, requesterVars, pendingVars,
                   providers, writing, receipts, acl_net, delivered,
                   executions>>

LoseAcl(m) ==
    /\ Lossy
    /\ acl_net' = acl_net \ {m}
    /\ UNCHANGED <<daemonVars, directoryVars, requesterVars, pendingVars,
                   providers, writing, receipts, card_net, delivered,
                   executions>>
-----------------------------------------------------------------------------
\* The steps an event loop takes on an event that is there for it.
Handle ==
    \/ \E c \in Conv, t \in Table : LookupDone(c, t)
    \/ \E m \in card_net : ServeCard(m) \/ ReceiveCard(m)
    \/ \E m \in acl_net : \/ HandleRequestRound1(m) \/ ReceivePropose(m)
                          \/ HandleAgreeRound2(m) \/ ReceiveInform(m)
    \/ \E n \in Node : \E r \in writing[n] : ReceiptStored(n, r)

Next ==
    \/ Handle
    \/ \E x \in Publications : Publish(x[1], x[2])
    \/ \E c \in Conv : SubmitIntent(c)
    \/ \E c \in Conv, t \in Table : \E x \in dht : FoundRecord(c, t, x[1], x[2])
    \/ \E n \in Node : Stop(n) \/ Restart(n)
    \/ \E m \in card_net : LoseCard(m)
    \/ \E m \in acl_net : LoseAcl(m)

Spec == Init /\ [][Next]_vars

\* The run loop polls for ever and every handler ends; libp2p delivers a
\* request or response that is not lost; queries end by their timeout.
\* Callers, directory hits, losses and stops are not promised to happen.
FairSpec == Spec /\ WF_vars(Handle)
-----------------------------------------------------------------------------
(***************************************************************************)
(* Safety.                                                                 *)
(***************************************************************************)

\* The paths on which a conversation leaves the map all answer its caller: one
\* whose oneshot sender was dropped unanswered had a daemon that stopped while
\* it waited, and no other conversation's.  And none is answered and kept: the
\* callers that wait are those whose RequesterState, which owns the sender, is in
\* the map, or was taken out by complete_intent, which awaits the insert.
NoForgottenCaller ==
    \A c \in Conv :
        /\ reply[c] = "dropped" => <<OwnerOf[c], c>> \in cut
        /\ reply[c] = "waiting" <=>
              \/ c \in requesters
              \/ \E r \in writing[OwnerOf[c]] :
                    r.conv = c /\ r.requester = OwnerOf[c]

\* The daemon keeps each outstanding operation twice, in a map from its id to
\* the conversation and in the conversation's own set.  The two agree, so no
\* response finds its conversation gone and no conversation waits for an id
\* that was already taken out of the map.
Bookkeeping ==
    \A c \in Conv :
        /\ c \notin requesters => req[c] = NoRequester
        /\ \A t \in Table : <<c, t>> \in pending_lookups <=>
                               t \in req[c].outstanding_dht_queries
        /\ \A f \in FetchId : <<c, f>> \in pending_card_fetches <=>
                                 f \in req[c].in_flight_card_fetches

\* A live conversation is gathering candidates, with something outstanding, or
\* it has settled on a passing card and waits in exactly one ACL round: there
\* is no third kind, which no event would ever move.
OnePhase ==
    /\ pending_acl_round1 \cup pending_acl_round2 \subseteq requesters
    /\ \A c \in requesters :
          \/ /\ ~req[c].request_sent
             /\ ~Settled(req[c])
             /\ c \notin pending_acl_round1 \cup pending_acl_round2
          \/ /\ req[c].request_sent
             /\ Settled(req[c])
             /\ req[c].chosen \in Passing[c]
             /\ (c \in pending_acl_round1) # (c \in pending_acl_round2)

\* maybe_send_request decides on all the evidence: no card that reaches the
\* requester, early or late, outranks the one the REQUEST went out for, and
\* "no matching capability" is answered only when none of them passes.
BestOfAll ==
    \A c \in Conv : \A k \in delivered[c] \cap Passing[c] :
        /\ reply[c] # "no_match"
        /\ req[c].request_sent => Score[c][req[c].chosen] >= Score[c][k]

\* A row, stored or being written, stands for exactly one execution of its
\* conversation, is held by one of the two peers it names, names the daemon
\* that submitted the intent as its requester, and agrees on the provider
\* with the row of the other side.
ReceiptsBacked ==
    \A n \in Node : \A r \in receipts[n] \cup writing[n] :
        /\ executions[r.conv] = 1
        /\ n \in {r.requester, r.provider}
        /\ r.requester = OwnerOf[r.conv]
        /\ \A o \in Node : \A s \in receipts[o] \cup writing[o] :
              s.conv = r.conv => s.provider = r.provider

\* An execution leaves a trace: the provider's row of an executed conversation is
\* stored or being written, whatever is lost and whoever stops, with the one
\* exception of the provider that stops between the INFORM and the end of that
\* very insert.
ExecutionRecorded ==
    \A c \in Conv :
        executions[c] > 0 =>
            \E n \in Node \ {OwnerOf[c]} :
                \/ \E r \in receipts[n] \cup writing[n] : r.conv = c
                \/ <<n, c>> \in cut

-----------------------------------------------------------------------------
(***************************************************************************)
(* Refinement.  To its callers and its ledgers the mesh is a ReceiptLedger. *)
(***************************************************************************)
RequesterRows ==
    {c \in Conv : \E r \in receipts[OwnerOf[c]] : r.conv = c}
ProviderRows ==
    {c \in Conv : \E n \in Node \ {OwnerOf[c]} :
                     \E r \in receipts[n] : r.conv = c}

Ledger == INSTANCE ReceiptLedger WITH
    ask <- reply, runs <- executions,
    requester_rows <- RequesterRows, provider_rows <- ProviderRows

\* Whatever the network loses and whichever daemons stop, every step of the
\* event loops is a step of the ledger or leaves it as it is: a caller told
\* "ok" has its row on disk, "no matching capability" is never said of a task
\* that ran, nothing runs twice, no row is ever lost.
ImplementsLedger == Ledger!Spec

-----------------------------------------------------------------------------
(***************************************************************************)
(* Liveness.                                                               *)
(***************************************************************************)

\* With a network that loses nothing, daemons that keep running and agents
\* that serve their own cards and not the requester's, every submitted intent
\* is answered, with an outcome or with "no matching capability".
EveryIntentAnswered ==
    \A c \in Conv : reply[c] = "waiting" ~> reply[c] \in {"ok", "no_match"}

\* A provider does not keep the state of a conversation: what it puts in the
\* map for a PROPOSE is taken out for the AGREE.  This too takes a network that
\* loses nothing: the code has no timeout for a PROPOSE nobody agrees to.
ProviderStateReleased ==
    \A n \in Node, c \in Conv :
        (\E s \in providers[n] : s.conv = c)
            ~> ~(\E s \in providers[n] : s.conv = c)

-----------------------------------------------------------------------------
(***************************************************************************)
(* Claims of the repository that the code does not keep.                   *)
(***************************************************************************)

\* event_loop.rs, submit_intent: "We emit the ACL request once dht queries
\* settle."
RequestFollowsLookups ==
    \A c \in Conv :
        (c \in requesters /\ req[c].outstanding_dht_queries = {})
            ~> (c \notin requesters \/ req[c].request_sent)

\* tests/walking_skeleton.rs: the receipts of both sides carry the capability
\* id of the card that was matched.
ReceiptsAgreeOnCapability ==
    \A n, o \in Node : \A r \in receipts[n], s \in receipts[o] :
        r.conv = s.conv => r.cap = s.cap
=============================================================================
