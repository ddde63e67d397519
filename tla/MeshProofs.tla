----------------------------- MODULE MeshProofs -----------------------------
(***************************************************************************)
(* Proofs about Mesh, for every set of daemons, conversations, tables and   *)
(* cards, every network and any number of stops.                           *)
(***************************************************************************)
EXTENDS Mesh, TLAPS

-----------------------------------------------------------------------------
(* What the helpers return.                                                *)

\* send_request adds at most the message it was given.
LEMMA SentIsSubset ==
    ASSUME NEW from, NEW m
    PROVE  Sent(from, m) \subseteq {m}
BY DEF Sent

\* A fresh RequesterState is one.
LEMMA NewRequesterType ==
    ASSUME NEW S \in SUBSET Table
    PROVE  NewRequester(S) \in RequesterState
BY DEF NewRequester, RequesterState

LEMMA NoRequesterType == NoRequester \in RequesterState
BY NewRequesterType DEF NoRequester

\* Starting and answering a fetch keep the type of a RequesterState.
LEMMA FetchType ==
    ASSUME NEW r \in RequesterState, NEW f \in FetchId, NEW S \in SUBSET Card
    PROVE  /\ WithFetch(r, f) \in RequesterState
           /\ WithCards(r, f, S) \in RequesterState
<1>1. f[1] \in CapId
  BY DEF FetchId
<1>2. WithFetch(r, f) \in RequesterState
  BY <1>1 DEF WithFetch, RequesterState
<1>3. WithCards(r, f, S) \in RequesterState
  BY DEF WithCards, RequesterState
<1>. QED
  BY <1>2, <1>3

\* What they change of it, and what not.
LEMMA WithFetchFields ==
    ASSUME NEW r \in RequesterState, NEW f
    PROVE  /\ WithFetch(r, f).outstanding_dht_queries
                = r.outstanding_dht_queries
           /\ WithFetch(r, f).in_flight_card_fetches
                = r.in_flight_card_fetches \cup {f}
           /\ WithFetch(r, f).request_sent = r.request_sent
           /\ WithFetch(r, f).chosen = r.chosen
BY DEF WithFetch, RequesterState

LEMMA WithCardsFields ==
    ASSUME NEW r \in RequesterState, NEW f, NEW S
    PROVE  /\ WithCards(r, f, S).outstanding_dht_queries
                = r.outstanding_dht_queries
           /\ WithCards(r, f, S).in_flight_card_fetches
                = r.in_flight_card_fetches \ {f}
           /\ WithCards(r, f, S).fetched_cards = r.fetched_cards \cup S
           /\ WithCards(r, f, S).request_sent = r.request_sent
BY DEF WithCards, RequesterState

\* maybe_send_request keeps the types of all it touches.
LEMMA MaybeSendRequestType ==
    ASSUME TypeOK, NEW c \in Conv, NEW r \in RequesterState,
           MaybeSendRequest(c, r)
    PROVE  /\ requesters' \subseteq Conv
           /\ req' \in [Conv -> RequesterState]
           /\ reply' \in [Conv -> Replies]
           /\ pending_acl_round1' \subseteq Conv
           /\ acl_net' \subseteq AclMessage
<1>1. CASE KeepWaiting(c, r)
  BY <1>1 DEF TypeOK, KeepWaiting
<1>2. CASE NoMatchingCapability(c, r)
  BY <1>2, NoRequesterType DEF TypeOK, NoMatchingCapability, Replies
<1>3. CASE SendRequest(c, r)
  <2>1. PICK top \in Best(c, Candidates(c, r)) :
          /\ req' = [req EXCEPT ![c] = [r EXCEPT !.fetched_cards = {},
                                                 !.request_sent = TRUE,
                                                 !.chosen = top]]
          /\ acl_net' = acl_net \cup
                 Sent(OwnerOf[c], Acl("REQUEST", c, AgentOf[top], NONE))
    BY <1>3 DEF SendRequest
  <2>2. top \in Card
    BY <2>1 DEF Best, Candidates, RequesterState
  <2>3. [r EXCEPT !.fetched_cards = {}, !.request_sent = TRUE, !.chosen = top]
          \in RequesterState
    BY <2>2 DEF RequesterState
  <2>4. Acl("REQUEST", c, AgentOf[top], NONE) \in AclMessage
    BY <2>2, MapAssumption DEF Acl, AclMessage
  <2>5. acl_net' \subseteq AclMessage
    BY <2>1, <2>4, SentIsSubset DEF TypeOK
  <2>. QED
    BY <1>3, <2>1, <2>3, <2>5 DEF TypeOK, SendRequest
<1>. QED
  BY <1>1, <1>2, <1>3 DEF MaybeSendRequest

-----------------------------------------------------------------------------
(* Type correctness.                                                       *)

LEMMA TypeInit == Init => TypeOK
BY NoRequesterType DEF Init, TypeOK, Replies

LEMMA TypeNext == TypeOK /\ OnePhase /\ [Next]_vars => TypeOK'
<1>. SUFFICES ASSUME TypeOK, OnePhase, [Next]_vars PROVE TypeOK'
  OBVIOUS
<1>. USE DEF requesterVars, pendingVars, daemonVars, directoryVars
<1>1. CASE UNCHANGED vars
  BY <1>1 DEF vars, TypeOK
<1>2. ASSUME NEW c \in Conv, NEW t \in Table, LookupDone(c, t)
      PROVE  TypeOK'
  <2>. DEFINE r == [req[c] EXCEPT !.outstanding_dht_queries = @ \ {t}]
  <2>1. r \in RequesterState
    BY DEF TypeOK, RequesterState
  <2>2. MaybeSendRequest(c, r)
    BY <1>2 DEF LookupDone
  <2>. HIDE DEF r
  <2>. QED
    BY <1>2, <2>1, <2>2, MaybeSendRequestType DEF LookupDone, TypeOK
<1>3. ASSUME NEW m \in card_net, ServeCard(m)
      PROVE  TypeOK'
  <2>1. PICK kind \in {"Found", "NotFound"}, k \in Card \cup {NONE} :
          card_net' = (card_net \ {m})
                        \cup {[m EXCEPT !.kind = kind, !.card = k]}
    BY <1>3 DEF TypeOK, ServeCard, CardMessage
  <2>2. [m EXCEPT !.kind = kind, !.card = k] \in CardMessage
    BY <2>1 DEF TypeOK, CardMessage
  <2>. QED
    BY <1>3, <2>1, <2>2 DEF TypeOK, ServeCard
<1>4. ASSUME NEW m \in card_net, ReceiveCard(m)
      PROVE  TypeOK'
  <2>. DEFINE cards == {m.card} \ {NONE}
              r == WithCards(req[m.conv], <<m.cap, m.peer>>, cards)
  <2>1. m \in CardMessage /\ m.conv \in Conv /\ cards \subseteq Card
    BY DEF TypeOK, CardMessage
  <2>2. r \in RequesterState
    BY <2>1, FetchType DEF TypeOK, CardMessage, FetchId
  <2>3. MaybeSendRequest(m.conv, r)
    BY <1>4 DEF ReceiveCard
  <2>. HIDE DEF r
  <2>4. delivered' \in [Conv -> SUBSET Card]
    BY <1>4, <2>1 DEF ReceiveCard, TypeOK
  <2>. QED
    BY <1>4, <2>1, <2>2, <2>3, <2>4, MaybeSendRequestType
       DEF ReceiveCard, TypeOK
<1>5. ASSUME NEW m \in acl_net, HandleRequestRound1(m)
      PROVE  TypeOK'
  <2>1. m \in AclMessage /\ m.conv \in Conv /\ m.peer \in Node
    BY DEF TypeOK, AclMessage
  <2>2. CASE local_cards[m.peer] = {} /\ acl_net' = acl_net \ {m}
             /\ UNCHANGED providers
    BY <1>5, <2>2 DEF HandleRequestRound1, TypeOK
  <2>3. ASSUME NEW k \in local_cards[m.peer],
               acl_net' = (acl_net \ {m})
                    \cup {Acl("PROPOSE", m.conv, m.peer, CapOf[k])},
               providers' = [providers EXCEPT ![m.peer] = InsertRow(@,
                   [conv |-> m.conv, requester_peer |-> OwnerOf[m.conv],
                    cap |-> CapOf[k]])]
        PROVE  TypeOK'
    <3>1. k \in Card /\ CapOf[k] \in CapId
      BY <2>1, MapAssumption DEF TypeOK
    <3>2. acl_net' \subseteq AclMessage
      BY <2>1, <2>3, <3>1 DEF TypeOK, Acl, AclMessage
    <3>3. [conv |-> m.conv, requester_peer |-> OwnerOf[m.conv],
           cap |-> CapOf[k]] \in ProviderState
      BY <2>1, <3>1, MapAssumption DEF ProviderState
    <3>4. providers' \in [Node -> SUBSET ProviderState]
      BY <2>1, <2>3, <3>3 DEF TypeOK, InsertRow
    <3>. QED
      BY <1>5, <3>2, <3>4 DEF HandleRequestRound1, TypeOK
  <2>. QED
    BY <1>5, <2>2, <2>3 DEF HandleRequestRound1
<1>6. ASSUME NEW m \in acl_net, ReceivePropose(m)
      PROVE  TypeOK'
  <2>. DEFINE k == req[m.conv].chosen
  <2>1. m.conv \in Conv /\ req[m.conv].chosen \in Card
    BY <1>6, MatchAssumption DEF ReceivePropose, OnePhase, TypeOK, AclMessage
  <2>2. Acl("AGREE", m.conv, AgentOf[k], CapOf[k]) \in AclMessage
    BY <2>1, MapAssumption DEF Acl, AclMessage
  <2>3. acl_net' \subseteq AclMessage
    BY <1>6, <2>2, SentIsSubset DEF ReceivePropose, TypeOK
  <2>. QED
    BY <1>6, <2>1, <2>3 DEF ReceivePropose, TypeOK
<1>7. ASSUME NEW m \in acl_net, HandleAgreeRound2(m)
      PROVE  TypeOK'
  <2>1. m.conv \in Conv /\ m.peer \in Node
    BY DEF TypeOK, AclMessage
  <2>2. CASE UnknownConversation(m)
    BY <1>7, <2>2 DEF HandleAgreeRound2, UnknownConversation, TypeOK
  <2>3. ASSUME NEW s \in providers[m.peer], Execute(m, s)
        PROVE  TypeOK'
    <3>1. s \in ProviderState
      BY <2>1 DEF TypeOK
    <3>2. Acl("INFORM", m.conv, m.peer, NONE) \in AclMessage
      BY <2>1 DEF Acl, AclMessage
    <3>3. [conv |-> m.conv, cap |-> s.cap, requester |-> s.requester_peer,
           provider |-> m.peer] \in Receipt
      BY <2>1, <3>1 DEF ProviderState, Receipt
    <3>4. executions' \in [Conv -> Nat]
      BY <2>1, <2>3 DEF Execute, TypeOK
    <3>. QED
      BY <1>7, <2>1, <2>3, <3>2, <3>3, <3>4
         DEF HandleAgreeRound2, Execute, TypeOK
  <2>. QED
    BY <1>7, <2>2, <2>3 DEF HandleAgreeRound2
<1>8. ASSUME NEW m \in acl_net, ReceiveInform(m)
      PROVE  TypeOK'
  <2>. DEFINE c == m.conv
  <2>1. c \in Conv /\ OwnerOf[c] \in Node /\ m.peer \in Node
    BY MapAssumption DEF TypeOK, AclMessage
  <2>2. req[c].chosen \in Card
    BY <1>8, <2>1, MatchAssumption DEF ReceiveInform, OnePhase
  <2>3. [conv |-> c, cap |-> CapOf[req[c].chosen], requester |-> OwnerOf[c],
         provider |-> m.peer] \in Receipt
    BY <2>1, <2>2, MapAssumption DEF Receipt
  <2>. QED
    BY <1>8, <2>1, <2>3, NoRequesterType DEF ReceiveInform, TypeOK
<1>9. ASSUME NEW n \in Node, NEW r \in writing[n], ReceiptStored(n, r)
      PROVE  TypeOK'
  <2>1. r \in Receipt /\ r.conv \in Conv
    BY DEF TypeOK, Receipt
  <2>2. receipts' \in [Node -> SUBSET Receipt]
    BY <1>9, <2>1 DEF ReceiptStored, InsertRow, TypeOK
  <2>3. reply' \in [Conv -> Replies]
    BY <1>9, <2>1 DEF ReceiptStored, TypeOK, Replies
  <2>. QED
    BY <1>9, <2>2, <2>3 DEF ReceiptStored, TypeOK
<1>10. ASSUME NEW z \in Publications, Publish(z[1], z[2])
       PROVE  TypeOK'
  <2>1. z[1] \in Node /\ z[2] \in Card
    BY MapAssumption
  <2>. QED
    BY <1>10, <2>1 DEF Publish, InsertCard, TypeOK
<1>11. ASSUME NEW c \in Conv, SubmitIntent(c)
       PROVE  TypeOK'
  BY <1>11, NewRequesterType DEF SubmitIntent, TypeOK, Replies
<1>12. ASSUME NEW c \in Conv, NEW t \in Table, NEW z \in dht,
              FoundRecord(c, t, z[1], z[2])
       PROVE  TypeOK'
  <2>. DEFINE f == <<CapOf[z[2]], z[1]>>
  <2>1. CapOf[z[2]] \in CapId /\ z[1] \in Node /\ f \in FetchId
    BY MapAssumption DEF TypeOK, FetchId
  <2>2. req' \in [Conv -> RequesterState]
    BY <1>12, <2>1, FetchType DEF FoundRecord, TypeOK
  <2>3. CardGet(c, f) \in CardMessage
    BY <2>1 DEF CardGet, CardMessage
  <2>4. card_net' \subseteq CardMessage
    BY <1>12, <2>3, SentIsSubset DEF FoundRecord, TypeOK
  <2>. QED
    BY <1>12, <2>1, <2>2, <2>4 DEF FoundRecord, TypeOK
<1>13. ASSUME NEW n \in Node, Stop(n)
       PROVE  TypeOK'
  <2>1. receipts' \in [Node -> SUBSET Receipt]
    BY <1>13 DEF Stop, InsertRow, TypeOK
  <2>2. req' \in [Conv -> RequesterState] /\ reply' \in [Conv -> Replies]
    BY <1>13, NoRequesterType DEF Stop, TypeOK, Replies
  <2>3. local_cards' \in [Node -> SUBSET Card]
    BY <1>13 DEF Stop, TypeOK
  <2>4. cut' \subseteq Node \X Conv
    <3>1. \A r \in writing[n] : r.conv \in Conv
      BY DEF TypeOK, Receipt
    <3>. QED
      BY <1>13, <3>1 DEF Stop, TypeOK
  <2>5. /\ alive' \in [Node -> BOOLEAN] /\ stops' \in Nat
        /\ requesters' \subseteq Conv
        /\ pending_lookups' \subseteq Conv \X Table
        /\ pending_card_fetches' \subseteq Conv \X FetchId
        /\ pending_acl_round1' \subseteq Conv
        /\ pending_acl_round2' \subseteq Conv
    BY <1>13 DEF Stop, TypeOK
  <2>6. /\ providers' \in [Node -> SUBSET ProviderState]
        /\ writing' \in [Node -> SUBSET Receipt]
    BY <1>13 DEF Stop, TypeOK
  <2>7. \A o \in Node : local_cards'[o] \subseteq local_cards[o]
    BY <1>13 DEF Stop, TypeOK
  <2>8. UNCHANGED <<dht, card_net, acl_net, delivered, executions>>
    BY <1>13 DEF Stop
  <2>. QED
    BY <2>1, <2>2, <2>3, <2>4, <2>5, <2>6, <2>7, <2>8 DEF TypeOK
<1>14. ASSUME NEW n \in Node, Restart(n)
       PROVE  TypeOK'
  BY <1>14 DEF Restart, TypeOK
<1>15. ASSUME NEW m, LoseCard(m) \/ LoseAcl(m)
       PROVE  TypeOK'
  BY <1>15 DEF LoseCard, LoseAcl, TypeOK
<1>. QED
  BY <1>1, <1>2, <1>3, <1>4, <1>5, <1>6, <1>7, <1>8, <1>9, <1>10, <1>11,
     <1>12, <1>13, <1>14, <1>15 DEF Next, Handle

-----------------------------------------------------------------------------
(* The conversations of a daemon.                                          *)

\* At most one insert is awaited per daemon, for a row that names the
\* daemon of its conversation as the requester; the requester's own row is
\* written after complete_intent removed the conversation.
Writers ==
    \A n \in Node : \A r \in writing[n] :
        /\ \A s \in writing[n] : s = r
        /\ r.requester = OwnerOf[r.conv]
        /\ r.requester = n => r.conv \notin requesters

\* No daemon negotiates with itself: libp2p does not dial the local peer.
OtherPeer ==
    /\ \A m \in acl_net : m.peer # OwnerOf[m.conv]
    /\ \A n \in Node : \A s \in providers[n] :
          s.requester_peer = OwnerOf[s.conv] /\ OwnerOf[s.conv] # n

\* The inductive invariant.
IInv == /\ TypeOK
        /\ Bookkeeping
        /\ OnePhase
        /\ NoForgottenCaller
        /\ Writers
        /\ OtherPeer

LEMMA IInvInit == Init => IInv
<1>. SUFFICES ASSUME Init PROVE IInv
  OBVIOUS
<1>1. TypeOK
  BY TypeInit
<1>2. Bookkeeping
  BY DEF Init, Bookkeeping, NoRequester, NewRequester
<1>3. OnePhase /\ Writers /\ OtherPeer
  BY DEF Init, OnePhase, Writers, OtherPeer
<1>4. NoForgottenCaller
  BY MapAssumption DEF Init, NoForgottenCaller
<1>. QED
  BY <1>1, <1>2, <1>3, <1>4 DEF IInv

\* What is left of c after maybe_send_request: it waits on with the state r,
\* it is gone, or its REQUEST is out and r has settled.
LEMMA MaybeSendRequestCases ==
    ASSUME TypeOK, NEW c \in Conv, NEW r \in RequesterState,
           MaybeSendRequest(c, r)
    PROVE  \/ /\ r.request_sent \/ ~Settled(r)
              /\ req' = [req EXCEPT ![c] = r]
              /\ UNCHANGED <<requesters, reply, pending_acl_round1, acl_net>>
           \/ /\ Settled(r)
              /\ req' = [req EXCEPT ![c] = NoRequester]
              /\ requesters' = requesters \ {c}
              /\ reply' = [reply EXCEPT ![c] = "no_match"]
              /\ UNCHANGED <<pending_acl_round1, acl_net>>
           \/ /\ Settled(r)
              /\ \E s \in RequesterState :
                    /\ req' = [req EXCEPT ![c] = s]
                    /\ s.outstanding_dht_queries = r.outstanding_dht_queries
                    /\ s.in_flight_card_fetches = r.in_flight_card_fetches
                    /\ s.request_sent
                    /\ s.chosen \in Passing[c]
                    /\ acl_net' = acl_net \cup
                         Sent(OwnerOf[c],
                              Acl("REQUEST", c, AgentOf[s.chosen], NONE))
              /\ pending_acl_round1' = pending_acl_round1 \cup {c}
              /\ UNCHANGED <<requesters, reply>>
<1>1. CASE KeepWaiting(c, r)
  BY <1>1 DEF KeepWaiting
<1>2. CASE NoMatchingCapability(c, r)
  BY <1>2 DEF NoMatchingCapability
<1>3. CASE SendRequest(c, r)
  <2>1. PICK top \in Best(c, Candidates(c, r)) :
          /\ req' = [req EXCEPT ![c] = [r EXCEPT !.fetched_cards = {},
                                                 !.request_sent = TRUE,
                                                 !.chosen = top]]
          /\ acl_net' = acl_net \cup
                 Sent(OwnerOf[c], Acl("REQUEST", c, AgentOf[top], NONE))
    BY <1>3 DEF SendRequest
  <2>. DEFINE s == [r EXCEPT !.fetched_cards = {}, !.request_sent = TRUE,
                             !.chosen = top]
  <2>2. top \in Card /\ top \in Passing[c]
    BY <2>1 DEF Best, Candidates, RequesterState
  <2>3. /\ s \in RequesterState
        /\ s.outstanding_dht_queries = r.outstanding_dht_queries
        /\ s.in_flight_card_fetches = r.in_flight_card_fetches
        /\ s.request_sent
        /\ s.chosen = top
    BY <2>2 DEF RequesterState
  <2>. HIDE DEF s
  <2>4. Settled(r) /\ pending_acl_round1' = pending_acl_round1 \cup {c}
        /\ UNCHANGED <<requesters, reply>>
    BY <1>3 DEF SendRequest
  <2>5. req' = [req EXCEPT ![c] = s]
    BY <2>1 DEF s
  <2>. QED
    BY <2>1, <2>2, <2>3, <2>4, <2>5
<1>. QED
  BY <1>1, <1>2, <1>3 DEF MaybeSendRequest

\* An event of c that is booked in the daemon's maps and in the state r alike
\* keeps them in step, whatever maybe_send_request makes of it.
LEMMA BookedAlike ==
    ASSUME TypeOK, Bookkeeping, NEW c \in requesters, NEW r \in RequesterState,
           MaybeSendRequest(c, r),
           \A t \in Table : <<c, t>> \in pending_lookups' <=>
                               t \in r.outstanding_dht_queries,
           \A f \in FetchId : <<c, f>> \in pending_card_fetches' <=>
                                 f \in r.in_flight_card_fetches,
           \A e \in Conv \ {c} :
              /\ \A t \in Table : <<e, t>> \in pending_lookups' <=>
                                     <<e, t>> \in pending_lookups
              /\ \A f \in FetchId : <<e, f>> \in pending_card_fetches' <=>
                                       <<e, f>> \in pending_card_fetches
    PROVE  Bookkeeping'
<1>1. c \in Conv
  BY DEF TypeOK
<1>2. PICK s \in RequesterState :
         /\ req' = [req EXCEPT ![c] = s]
         /\ s.outstanding_dht_queries = r.outstanding_dht_queries
         /\ s.in_flight_card_fetches = r.in_flight_card_fetches
         /\ \/ requesters' = requesters
            \/ requesters' = requesters \ {c} /\ s = NoRequester
  BY <1>1, MaybeSendRequestCases, NoRequesterType
     DEF Settled, NoRequester, NewRequester
<1>. SUFFICES ASSUME NEW e \in Conv
              PROVE  /\ e \notin requesters' => req'[e] = NoRequester
                     /\ \A t \in Table : <<e, t>> \in pending_lookups' <=>
                           t \in req'[e].outstanding_dht_queries
                     /\ \A f \in FetchId : <<e, f>> \in pending_card_fetches'
                           <=> f \in req'[e].in_flight_card_fetches
  BY DEF Bookkeeping
<1>3. CASE e = c
  BY <1>1, <1>2, <1>3 DEF TypeOK
<1>4. CASE e # c
  BY <1>1, <1>2, <1>4 DEF TypeOK, Bookkeeping
<1>. QED
  BY <1>3, <1>4

LEMMA BookkeepingNext == IInv /\ [Next]_vars => Bookkeeping'
<1>. SUFFICES ASSUME IInv, [Next]_vars PROVE Bookkeeping'
  OBVIOUS
<1>. USE DEF requesterVars, pendingVars, daemonVars, directoryVars
<1>1. CASE UNCHANGED <<requesters, req, pending_lookups, pending_card_fetches>>
  BY <1>1 DEF IInv, Bookkeeping
<1>2. ASSUME NEW c \in Conv, NEW t \in Table, LookupDone(c, t)
      PROVE  Bookkeeping'
  <2>. DEFINE r == [req[c] EXCEPT !.outstanding_dht_queries = @ \ {t}]
  <2>1. /\ r \in RequesterState
        /\ r.outstanding_dht_queries = req[c].outstanding_dht_queries \ {t}
        /\ r.in_flight_card_fetches = req[c].in_flight_card_fetches
    BY DEF IInv, TypeOK, RequesterState
  <2>2. MaybeSendRequest(c, r)
    BY <1>2 DEF LookupDone
  <2>. HIDE DEF r
  <2>3. /\ c \in requesters
        /\ pending_lookups' = pending_lookups \ {<<c, t>>}
        /\ pending_card_fetches' = pending_card_fetches
    BY <1>2 DEF LookupDone
  <2>4. \A u \in Table : <<c, u>> \in pending_lookups' <=>
                           u \in r.outstanding_dht_queries
    BY <2>1, <2>3 DEF IInv, Bookkeeping
  <2>. QED
    BY <2>1, <2>2, <2>3, <2>4, BookedAlike DEF IInv, Bookkeeping
<1>3. ASSUME NEW m \in card_net, ReceiveCard(m)
      PROVE  Bookkeeping'
  <2>. DEFINE c == m.conv
              f == <<m.cap, m.peer>>
              cards == {m.card} \ {NONE}
              r == WithCards(req[c], f, cards)
  <2>1. m \in CardMessage /\ c \in Conv /\ f \in FetchId
        /\ cards \subseteq Card
    BY DEF IInv, TypeOK, CardMessage, FetchId
  <2>2. r \in RequesterState
    BY <2>1, FetchType DEF IInv, TypeOK
  <2>3. /\ r.outstanding_dht_queries = req[c].outstanding_dht_queries
        /\ r.in_flight_card_fetches = req[c].in_flight_card_fetches \ {f}
    BY <2>1, WithCardsFields DEF IInv, TypeOK
  <2>4. /\ c \in requesters
        /\ pending_lookups' = pending_lookups
        /\ pending_card_fetches' = pending_card_fetches \ {<<c, f>>}
        /\ MaybeSendRequest(c, r)
    BY <1>3 DEF ReceiveCard
  <2>. HIDE DEF r, cards, f
  <2>5. \A g \in FetchId : <<c, g>> \in pending_card_fetches' <=>
                              g \in r.in_flight_card_fetches
    BY <2>1, <2>3, <2>4 DEF IInv, Bookkeeping
  <2>. QED
    BY <2>1, <2>2, <2>3, <2>4, <2>5, BookedAlike DEF IInv, Bookkeeping
<1>4. ASSUME NEW m \in acl_net, ReceiveInform(m)
      PROVE  Bookkeeping'
  <2>1. m.conv \in Conv /\ Settled(req[m.conv])
    BY <1>4 DEF ReceiveInform, IInv, TypeOK, AclMessage, OnePhase
  <2>. QED
    BY <1>4, <2>1 DEF ReceiveInform, IInv, TypeOK, Bookkeeping, Settled,
                      NoRequester, NewRequester
<1>5. ASSUME NEW c \in Conv, SubmitIntent(c)
      PROVE  Bookkeeping'
  <2>1. c \notin requesters
    BY <1>5 DEF SubmitIntent, IInv, NoForgottenCaller
  <2>2. \A f \in FetchId : <<c, f>> \notin pending_card_fetches
    BY <2>1 DEF IInv, Bookkeeping, NoRequester, NewRequester
  <2>. QED
    BY <1>5, <2>1, <2>2 DEF SubmitIntent, IInv, TypeOK, Bookkeeping,
                            NewRequester
<1>6. ASSUME NEW c \in Conv, NEW t \in Table, NEW z \in dht,
             FoundRecord(c, t, z[1], z[2])
      PROVE  Bookkeeping'
  <2>0. req[c] \in RequesterState
    BY DEF IInv, TypeOK
  <2>. DEFINE f == <<CapOf[z[2]], z[1]>>
              s == WithFetch(req[c], f)
  <2>1. /\ req' = [req EXCEPT ![c] = s]
        /\ c \in requesters
        /\ requesters' = requesters
        /\ pending_lookups' = pending_lookups
        /\ pending_card_fetches' = pending_card_fetches \cup {<<c, f>>}
    BY <1>6 DEF FoundRecord
  <2>2. /\ s.outstanding_dht_queries = req[c].outstanding_dht_queries
        /\ s.in_flight_card_fetches = req[c].in_flight_card_fetches \cup {f}
    BY <2>0, WithFetchFields
  <2>. HIDE DEF s, f
  <2>. QED
    BY <2>1, <2>2 DEF IInv, TypeOK, Bookkeeping
<1>7. ASSUME NEW n \in Node, Stop(n)
      PROVE  Bookkeeping'
  BY <1>7 DEF Stop, IInv, TypeOK, Bookkeeping, NoRequester, NewRequester
<1>. QED
  BY <1>1, <1>2, <1>3, <1>4, <1>5, <1>6, <1>7
     DEF Next, Handle, vars, ServeCard, HandleRequestRound1, ReceivePropose,
         HandleAgreeRound2, ReceiptStored, Publish, Restart, LoseCard, LoseAcl

\* An event of c, gathering before it, leaves every conversation in a phase.
LEMMA PhaseAfterEvent ==
    ASSUME TypeOK, OnePhase, NEW c \in requesters, NEW r \in RequesterState,
           MaybeSendRequest(c, r),
           ~req[c].request_sent, ~r.request_sent, UNCHANGED pending_acl_round2
    PROVE  OnePhase'
<1>1. c \in Conv /\ c \notin pending_acl_round1 \cup pending_acl_round2
  BY DEF TypeOK, OnePhase
<1>2. CASE /\ ~Settled(r)
           /\ req' = [req EXCEPT ![c] = r]
           /\ UNCHANGED <<requesters, reply, pending_acl_round1, acl_net>>
  BY <1>1, <1>2 DEF TypeOK, OnePhase
<1>3. CASE /\ req' = [req EXCEPT ![c] = NoRequester]
           /\ requesters' = requesters \ {c}
           /\ UNCHANGED pending_acl_round1
  BY <1>1, <1>3 DEF TypeOK, OnePhase
<1>4. ASSUME NEW s \in RequesterState,
             req' = [req EXCEPT ![c] = s], Settled(s), s.request_sent,
             s.chosen \in Passing[c],
             pending_acl_round1' = pending_acl_round1 \cup {c},
             UNCHANGED requesters
      PROVE  OnePhase'
  BY <1>1, <1>4 DEF TypeOK, OnePhase
<1>. QED
  BY <1>1, <1>2, <1>3, <1>4, MaybeSendRequestCases DEF Settled

LEMMA OnePhaseNext == IInv /\ [Next]_vars => OnePhase'
<1>. SUFFICES ASSUME IInv, [Next]_vars PROVE OnePhase'
  OBVIOUS
<1>. USE DEF requesterVars, pendingVars, daemonVars, directoryVars
<1>1. CASE UNCHANGED <<requesters, req, pending_acl_round1, pending_acl_round2>>
  BY <1>1 DEF IInv, OnePhase
<1>2. ASSUME NEW c \in Conv, NEW t \in Table, LookupDone(c, t)
      PROVE  OnePhase'
  <2>. DEFINE r == [req[c] EXCEPT !.outstanding_dht_queries = @ \ {t}]
  <2>1. r \in RequesterState /\ r.request_sent = req[c].request_sent
    BY DEF IInv, TypeOK, RequesterState
  <2>2. c \in requesters /\ MaybeSendRequest(c, r)
        /\ UNCHANGED pending_acl_round2
    BY <1>2 DEF LookupDone
  <2>3. ~Settled(req[c])
    BY <1>2 DEF LookupDone, IInv, Bookkeeping, Settled
  <2>4. ~req[c].request_sent
    BY <2>2, <2>3 DEF IInv, OnePhase
  <2>. HIDE DEF r
  <2>. QED
    BY <2>1, <2>2, <2>4, PhaseAfterEvent DEF IInv
<1>3. ASSUME NEW m \in card_net, ReceiveCard(m)
      PROVE  OnePhase'
  <2>. DEFINE c == m.conv
              f == <<m.cap, m.peer>>
              cards == {m.card} \ {NONE}
              r == WithCards(req[c], f, cards)
  <2>1. m \in CardMessage /\ c \in Conv /\ f \in FetchId
        /\ cards \subseteq Card
    BY DEF IInv, TypeOK, CardMessage, FetchId
  <2>2. r \in RequesterState
    BY <2>1, FetchType DEF IInv, TypeOK
  <2>3. r.request_sent = req[c].request_sent
    BY <2>1, WithCardsFields DEF IInv, TypeOK
  <2>4. c \in requesters /\ MaybeSendRequest(c, r)
        /\ UNCHANGED pending_acl_round2
    BY <1>3 DEF ReceiveCard
  <2>5. ~Settled(req[c])
    BY <1>3, <2>1 DEF ReceiveCard, IInv, Bookkeeping, Settled
  <2>6. ~req[c].request_sent
    BY <2>4, <2>5 DEF IInv, OnePhase
  <2>. HIDE DEF r
  <2>. QED
    BY <2>2, <2>3, <2>4, <2>6, PhaseAfterEvent DEF IInv
<1>4. ASSUME NEW m \in acl_net, ReceivePropose(m)
      PROVE  OnePhase'
  BY <1>4 DEF ReceivePropose, IInv, OnePhase
<1>5. ASSUME NEW m \in acl_net, ReceiveInform(m)
      PROVE  OnePhase'
  BY <1>5 DEF ReceiveInform, IInv, TypeOK, OnePhase
<1>6. ASSUME NEW c \in Conv, SubmitIntent(c)
      PROVE  OnePhase'
  <2>1. c \notin requesters
    BY <1>6 DEF SubmitIntent, IInv, NoForgottenCaller
  <2>2. ~NewRequester(Table).request_sent /\ ~Settled(NewRequester(Table))
    BY TableAssumption DEF NewRequester, Settled
  <2>. QED
    BY <1>6, <2>1, <2>2 DEF SubmitIntent, IInv, TypeOK, OnePhase
<1>7. ASSUME NEW c \in Conv, NEW t \in Table, NEW z \in dht,
             FoundRecord(c, t, z[1], z[2])
      PROVE  OnePhase'
  <2>0. req[c] \in RequesterState
    BY DEF IInv, TypeOK
  <2>. DEFINE f == <<CapOf[z[2]], z[1]>>
              s == WithFetch(req[c], f)
  <2>1. /\ req' = [req EXCEPT ![c] = s]
        /\ c \in requesters
        /\ UNCHANGED <<requesters, pending_acl_round1, pending_acl_round2>>
    BY <1>7 DEF FoundRecord
  <2>2. ~Settled(req[c])
    BY <1>7 DEF FoundRecord, IInv, Bookkeeping, Settled
  <2>3. s.request_sent = req[c].request_sent /\ ~Settled(s)
    BY <2>0, WithFetchFields DEF Settled
  <2>. HIDE DEF s
  <2>. QED
    BY <2>1, <2>2, <2>3 DEF IInv, TypeOK, OnePhase
<1>8. ASSUME NEW n \in Node, Stop(n)
      PROVE  OnePhase'
  BY <1>8 DEF Stop, IInv, TypeOK, OnePhase
<1>. QED
  BY <1>1, <1>2, <1>3, <1>4, <1>5, <1>6, <1>7, <1>8
     DEF Next, Handle, vars, ServeCard, HandleRequestRound1,
         HandleAgreeRound2, ReceiptStored, Publish, Restart, LoseCard, LoseAcl

\* No handler addresses the daemon it runs on, and a ProviderState remembers
\* the daemon that asked.
LEMMA OtherPeerNext == IInv /\ [Next]_vars => OtherPeer'
<1>. SUFFICES ASSUME IInv, [Next]_vars PROVE OtherPeer'
  OBVIOUS
<1>. USE DEF requesterVars, pendingVars, daemonVars, directoryVars
<1>1. CASE acl_net' \subseteq acl_net /\ UNCHANGED providers
  BY <1>1 DEF IInv, OtherPeer
<1>2. ASSUME NEW c \in Conv, NEW r \in RequesterState, MaybeSendRequest(c, r),
             UNCHANGED providers
      PROVE  OtherPeer'
  <2>1. \/ acl_net' = acl_net
        \/ \E p \in Node : acl_net' = acl_net \cup
                             Sent(OwnerOf[c], Acl("REQUEST", c, p, NONE))
    BY <1>2, MaybeSendRequestCases, MapAssumption, MatchAssumption DEF IInv
  <2>. QED
    BY <1>2, <2>1 DEF IInv, OtherPeer, Sent, Acl
<1>3. ASSUME NEW c \in Conv, NEW t \in Table, LookupDone(c, t)
      PROVE  OtherPeer'
  <2>1. [req[c] EXCEPT !.outstanding_dht_queries = @ \ {t}] \in RequesterState
    BY DEF IInv, TypeOK, RequesterState
  <2>. QED
    BY <1>2, <1>3, <2>1 DEF LookupDone
<1>4. ASSUME NEW m \in card_net, ReceiveCard(m)
      PROVE  OtherPeer'
  <2>1. m.conv \in Conv /\ <<m.cap, m.peer>> \in FetchId
        /\ {m.card} \ {NONE} \subseteq Card
    BY DEF IInv, TypeOK, CardMessage, FetchId
  <2>2. WithCards(req[m.conv], <<m.cap, m.peer>>, {m.card} \ {NONE})
          \in RequesterState
    BY <2>1, FetchType DEF IInv, TypeOK
  <2>. QED
    BY <1>2, <1>4, <2>1, <2>2 DEF ReceiveCard
<1>5. ASSUME NEW m \in acl_net, HandleRequestRound1(m)
      PROVE  OtherPeer'
  <2>1. m.peer \in Node /\ m.peer # OwnerOf[m.conv]
    BY DEF IInv, TypeOK, AclMessage, OtherPeer
  <2>2. ASSUME NEW k \in local_cards[m.peer],
               acl_net' = (acl_net \ {m})
                    \cup {Acl("PROPOSE", m.conv, m.peer, CapOf[k])},
               providers' = [providers EXCEPT ![m.peer] = InsertRow(@,
                   [conv |-> m.conv, requester_peer |-> OwnerOf[m.conv],
                    cap |-> CapOf[k]])]
        PROVE  OtherPeer'
    BY <2>1, <2>2 DEF IInv, TypeOK, OtherPeer, Acl, InsertRow
  <2>. QED
    BY <1>1, <1>5, <2>2 DEF HandleRequestRound1
<1>6. ASSUME NEW m \in acl_net, ReceivePropose(m)
      PROVE  OtherPeer'
  BY <1>6 DEF ReceivePropose, IInv, OtherPeer, Sent, Acl
<1>7. ASSUME NEW m \in acl_net, HandleAgreeRound2(m)
      PROVE  OtherPeer'
  <2>1. ASSUME NEW s \in providers[m.peer], Execute(m, s)
        PROVE  OtherPeer'
    BY <2>1 DEF Execute, IInv, TypeOK, AclMessage, OtherPeer, Acl
  <2>. QED
    BY <1>1, <1>7, <2>1 DEF HandleAgreeRound2, UnknownConversation
<1>8. ASSUME NEW n \in Node, Stop(n)
      PROVE  OtherPeer'
  BY <1>8 DEF Stop, IInv, TypeOK, OtherPeer
<1>. QED
  BY <1>1, <1>3, <1>4, <1>5, <1>6, <1>7, <1>8
     DEF Next, Handle, vars, ServeCard, ReceiveInform, ReceiptStored, Publish,
         SubmitIntent, FoundRecord, Restart, LoseCard, LoseAcl

\* One insert at a time, and the requester's row after its conversation.
LEMMA WritersNext == IInv /\ [Next]_vars => Writers'
<1>. SUFFICES ASSUME IInv, [Next]_vars PROVE Writers'
  OBVIOUS
<1>. USE DEF requesterVars, pendingVars, daemonVars, directoryVars
<1>1. CASE requesters' \subseteq requesters /\ UNCHANGED writing
  BY <1>1 DEF IInv, Writers
<1>2. ASSUME NEW c, NEW r, MaybeSendRequest(c, r)
      PROVE  requesters' \subseteq requesters
  BY <1>2 DEF MaybeSendRequest, KeepWaiting, NoMatchingCapability, SendRequest
<1>3. ASSUME NEW m \in acl_net, HandleAgreeRound2(m)
      PROVE  Writers'
  <2>1. m.peer \in Node /\ m.conv \in Conv
    BY DEF IInv, TypeOK, AclMessage
  <2>2. ASSUME NEW s \in providers[m.peer], Execute(m, s)
        PROVE  Writers'
    BY <1>3, <2>1, <2>2
       DEF HandleAgreeRound2, Execute, IInv, TypeOK, OtherPeer, Writers
  <2>. QED
    BY <1>1, <1>3, <2>2 DEF HandleAgreeRound2, UnknownConversation
<1>4. ASSUME NEW m \in acl_net, ReceiveInform(m)
      PROVE  Writers'
  <2>1. m.conv \in Conv /\ OwnerOf[m.conv] \in Node
    BY MapAssumption DEF IInv, TypeOK, AclMessage
  <2>. QED
    BY <1>4, <2>1 DEF ReceiveInform, IInv, TypeOK, Writers
<1>5. ASSUME NEW n \in Node, NEW r \in writing[n], ReceiptStored(n, r)
      PROVE  Writers'
  BY <1>5 DEF ReceiptStored, IInv, TypeOK, Writers
<1>6. ASSUME NEW c \in Conv, SubmitIntent(c)
      PROVE  Writers'
  BY <1>6, MapAssumption DEF SubmitIntent, Polling, IInv, Writers
<1>7. ASSUME NEW n \in Node, Stop(n)
      PROVE  Writers'
  BY <1>7 DEF Stop, IInv, TypeOK, Writers
<1>. QED
  BY <1>1, <1>2, <1>3, <1>4, <1>5, <1>6, <1>7
     DEF Next, Handle, vars, LookupDone, ServeCard, ReceiveCard,
         HandleRequestRound1, ReceivePropose, Publish, FoundRecord, Restart,
         LoseCard, LoseAcl

LEMMA NoForgottenCallerNext == IInv /\ [Next]_vars => NoForgottenCaller'
<1>. SUFFICES ASSUME IInv, [Next]_vars PROVE NoForgottenCaller'
  OBVIOUS
<1>. USE DEF requesterVars, pendingVars, daemonVars, directoryVars
<1>1. CASE UNCHANGED <<requesters, reply, writing, cut>>
  BY <1>1 DEF IInv, NoForgottenCaller
\* The conversation of an event is not the one whose row is being written.
<1>2. ASSUME NEW c \in requesters, NEW r, MaybeSendRequest(c, r),
             Polling(OwnerOf[c]), UNCHANGED <<writing, cut>>
      PROVE  NoForgottenCaller'
  <2>1. CASE UNCHANGED <<requesters, reply>>
    BY <1>1, <1>2, <2>1
  <2>2. CASE NoMatchingCapability(c, r)
    BY <1>2, <2>2
       DEF NoMatchingCapability, Polling, IInv, TypeOK, NoForgottenCaller
  <2>. QED
    BY <1>2, <2>1, <2>2 DEF MaybeSendRequest, KeepWaiting, SendRequest
<1>3. ASSUME NEW m \in acl_net, HandleAgreeRound2(m)
      PROVE  NoForgottenCaller'
  <2>1. m.peer \in Node /\ m.conv \in Conv
    BY DEF IInv, TypeOK, AclMessage
  <2>2. ASSUME NEW s \in providers[m.peer], Execute(m, s)
        PROVE  NoForgottenCaller'
    BY <1>3, <2>1, <2>2, MapAssumption
       DEF HandleAgreeRound2, Polling, Execute, IInv, TypeOK, OtherPeer,
           NoForgottenCaller
  <2>. QED
    BY <1>1, <1>3, <2>2 DEF HandleAgreeRound2, UnknownConversation
<1>4. ASSUME NEW m \in acl_net, ReceiveInform(m)
      PROVE  NoForgottenCaller'
  <2>1. m.conv \in Conv /\ OwnerOf[m.conv] \in Node
    BY MapAssumption DEF IInv, TypeOK, AclMessage
  <2>. DEFINE row == [conv |-> m.conv, cap |-> CapOf[req[m.conv].chosen],
                      requester |-> OwnerOf[m.conv], provider |-> m.peer]
  <2>2. /\ writing' = [writing EXCEPT ![OwnerOf[m.conv]] = {row}]
        /\ row.conv = m.conv
        /\ row.requester = OwnerOf[m.conv]
    BY <1>4 DEF ReceiveInform
  <2>. HIDE DEF row
  <2>3. /\ m.conv \in requesters
        /\ requesters' = requesters \ {m.conv}
        /\ UNCHANGED <<reply, cut>>
        /\ writing[OwnerOf[m.conv]] = {}
    BY <1>4 DEF ReceiveInform, Polling
  <2>. QED
    BY <2>1, <2>2, <2>3, MapAssumption DEF IInv, TypeOK, NoForgottenCaller
<1>5. ASSUME NEW n \in Node, NEW r \in writing[n], ReceiptStored(n, r)
      PROVE  NoForgottenCaller'
  <2>1. r.conv \in Conv /\ r.requester = OwnerOf[r.conv]
        /\ \A s \in writing[n] : s = r
    BY DEF IInv, TypeOK, Receipt, Writers
  <2>2. r.requester = n => r.conv \notin requesters
    BY DEF IInv, Writers
  <2>3. writing'[n] = {} /\ \A o \in Node \ {n} : writing'[o] = writing[o]
    BY <1>5 DEF ReceiptStored, IInv, TypeOK
  <2>. SUFFICES ASSUME NEW c \in Conv
                PROVE  /\ reply'[c] = "dropped" => <<OwnerOf[c], c>> \in cut'
                       /\ reply'[c] = "waiting" <=>
                            \/ c \in requesters'
                            \/ \E s \in writing'[OwnerOf[c]] :
                                  s.conv = c /\ s.requester = OwnerOf[c]
    BY DEF NoForgottenCaller
  <2>4. OwnerOf[c] \in Node
    BY MapAssumption
  <2>5. CASE c = r.conv /\ r.requester = n
    BY <1>5, <2>1, <2>2, <2>3, <2>5 DEF ReceiptStored, IInv, TypeOK
  <2>6. CASE ~(c = r.conv /\ r.requester = n)
    <3>1. reply'[c] = reply[c] /\ UNCHANGED <<requesters, cut>>
      BY <1>5, <2>1, <2>6 DEF ReceiptStored, IInv, TypeOK
    <3>. QED
      BY <2>1, <2>3, <2>4, <2>6, <3>1 DEF IInv, NoForgottenCaller
  <2>. QED
    BY <2>5, <2>6
<1>6. ASSUME NEW c \in Conv, SubmitIntent(c)
      PROVE  NoForgottenCaller'
  BY <1>6 DEF SubmitIntent, IInv, TypeOK, NoForgottenCaller
<1>7. ASSUME NEW n \in Node, Stop(n)
      PROVE  NoForgottenCaller'
  BY <1>7, MapAssumption DEF Stop, IInv, TypeOK, NoForgottenCaller
<1>. QED
  BY <1>1, <1>2, <1>3, <1>4, <1>5, <1>6, <1>7
     DEF Next, Handle, vars, LookupDone, ServeCard, ReceiveCard,
         HandleRequestRound1, ReceivePropose, Publish, FoundRecord, Restart,
         LoseCard, LoseAcl

LEMMA IInvNext == IInv /\ [Next]_vars => IInv'
BY TypeNext, BookkeepingNext, OnePhaseNext, NoForgottenCallerNext,
   WritersNext, OtherPeerNext DEF IInv

LEMMA Invariance == Spec => []IInv
BY IInvInit, IInvNext, PTL DEF Spec

-----------------------------------------------------------------------------
(* The theorems.                                                           *)

\* Every variable of the event loops keeps its type, State::local_cards holds
\* one card per capability id, and the card an AGREE or a receipt names is a
\* card that was fetched, never an absent one.
THEOREM TypeCorrect == Spec => []TypeOK
BY Invariance, PTL DEF IInv

\* The maps of the daemon and the sets of its conversations never disagree.
THEOREM BookkeepingCorrect == Spec => []Bookkeeping
BY Invariance, PTL DEF IInv

\* A live conversation that has not decided has a lookup or fetch to wait for,
\* and one that has decided is in exactly one ACL round.
THEOREM OnePhaseCorrect == Spec => []OnePhase
BY Invariance, PTL DEF IInv

\* A caller without an answer is one the daemon still knows, and the daemon
\* knows no other: no reply sender leaks and none is used twice.
THEOREM NoForgottenCallerCorrect == Spec => []NoForgottenCaller
BY Invariance, PTL DEF IInv
-----------------------------------------------------------------------------
(* Selection: maybe_send_request decides on every card that ever reaches   *)
(* the requester, whatever the order of lookups and responses.             *)

\* While a conversation gathers, fetched_cards holds all that was delivered
\* for it; before it is submitted, nothing was.
Gathered ==
    \A c \in Conv :
        /\ reply[c] = "unsent" => delivered[c] = {}
        /\ c \in requesters /\ ~req[c].request_sent
               => req[c].fetched_cards = delivered[c]

\* The inductive invariant.
SInv == IInv /\ Gathered /\ BestOfAll

LEMMA SInvInit == Init => SInv
BY IInvInit DEF Init, SInv, Gathered, BestOfAll

\* The decision for c, taken on a state r that holds all the cards of c.
LEMMA Decision ==
    ASSUME SInv, NEW c \in requesters, NEW r \in RequesterState,
           MaybeSendRequest(c, r), ~r.request_sent,
           delivered' = [delivered EXCEPT ![c] = r.fetched_cards]
    PROVE  Gathered' /\ BestOfAll'
<1>1. c \in Conv /\ reply[c] = "waiting"
  BY DEF SInv, IInv, TypeOK, NoForgottenCaller
<1>2. /\ delivered'[c] = r.fetched_cards
      /\ \A d \in Conv \ {c} : delivered'[d] = delivered[d]
  BY <1>1 DEF SInv, IInv, TypeOK
<1>3. CASE KeepWaiting(c, r)
  BY <1>1, <1>2, <1>3
     DEF KeepWaiting, SInv, IInv, TypeOK, Gathered, BestOfAll
<1>4. CASE NoMatchingCapability(c, r)
  <2>1. ~req'[c].request_sent /\ delivered'[c] \cap Passing[c] = {}
    BY <1>1, <1>2, <1>4
       DEF NoMatchingCapability, Candidates, NoRequester, NewRequester, SInv,
           IInv, TypeOK
  <2>. QED
    BY <1>1, <1>2, <1>4, <2>1
       DEF NoMatchingCapability, SInv, IInv, TypeOK, Gathered, BestOfAll
<1>5. CASE SendRequest(c, r)
  <2>1. PICK top \in Best(c, Candidates(c, r)) :
          req' = [req EXCEPT ![c] = [r EXCEPT !.fetched_cards = {},
                                              !.request_sent = TRUE,
                                              !.chosen = top]]
    BY <1>5 DEF SendRequest
  <2>2. /\ req'[c].request_sent /\ req'[c].chosen = top
        /\ \A d \in Conv \ {c} : req'[d] = req[d]
    BY <1>1, <2>1 DEF SInv, IInv, TypeOK, RequesterState
  <2>3. \A k \in delivered'[c] \cap Passing[c] : Score[c][top] >= Score[c][k]
    BY <1>2, <2>1 DEF Best, Candidates
  <2>4. UNCHANGED <<requesters, reply>>
    BY <1>5 DEF SendRequest
  <2>. QED
    BY <1>1, <1>2, <2>2, <2>3, <2>4 DEF SInv, Gathered, BestOfAll
<1>. QED
  BY <1>3, <1>4, <1>5 DEF MaybeSendRequest

LEMMA SInvNext == SInv /\ [Next]_vars => SInv'
<1>. SUFFICES ASSUME SInv, [Next]_vars PROVE Gathered' /\ BestOfAll'
  BY IInvNext DEF SInv
<1>. USE DEF requesterVars, pendingVars, daemonVars, directoryVars
<1>1. CASE UNCHANGED <<requesters, req, reply, delivered>>
  BY <1>1 DEF SInv, Gathered, BestOfAll
<1>2. ASSUME NEW c \in Conv, NEW t \in Table, LookupDone(c, t)
      PROVE  Gathered' /\ BestOfAll'
  <2>. DEFINE r == [req[c] EXCEPT !.outstanding_dht_queries = @ \ {t}]
  <2>1. /\ r \in RequesterState /\ r.request_sent = req[c].request_sent
        /\ r.fetched_cards = req[c].fetched_cards
    BY DEF SInv, IInv, TypeOK, RequesterState
  <2>2. c \in requesters /\ MaybeSendRequest(c, r) /\ UNCHANGED delivered
    BY <1>2 DEF LookupDone
  <2>3. ~Settled(req[c])
    BY <1>2 DEF LookupDone, SInv, IInv, Bookkeeping, Settled
  <2>4. ~req[c].request_sent
    BY <2>2, <2>3 DEF SInv, IInv, OnePhase
  <2>. HIDE DEF r
  <2>5. delivered' = [delivered EXCEPT ![c] = r.fetched_cards]
    BY <2>1, <2>2, <2>4 DEF SInv, IInv, TypeOK, Gathered
  <2>. QED
    BY <2>1, <2>2, <2>4, <2>5, Decision
<1>3. ASSUME NEW m \in card_net, ReceiveCard(m)
      PROVE  Gathered' /\ BestOfAll'
  <2>. DEFINE c == m.conv
              f == <<m.cap, m.peer>>
              cards == {m.card} \ {NONE}
              r == WithCards(req[c], f, cards)
  <2>1. m \in CardMessage /\ c \in Conv /\ f \in FetchId
        /\ cards \subseteq Card
    BY DEF SInv, IInv, TypeOK, CardMessage, FetchId
  <2>2. /\ r \in RequesterState /\ r.request_sent = req[c].request_sent
        /\ r.fetched_cards = req[c].fetched_cards \cup cards
    BY <2>1, FetchType, WithCardsFields DEF SInv, IInv, TypeOK
  <2>3. /\ c \in requesters /\ MaybeSendRequest(c, r)
        /\ delivered' = [delivered EXCEPT ![c] = @ \cup cards]
    BY <1>3 DEF ReceiveCard
  <2>4. ~Settled(req[c])
    BY <1>3, <2>1 DEF ReceiveCard, SInv, IInv, Bookkeeping, Settled
  <2>5. ~req[c].request_sent
    BY <2>3, <2>4 DEF SInv, IInv, OnePhase
  <2>. HIDE DEF r, cards
  <2>6. delivered' = [delivered EXCEPT ![c] = r.fetched_cards]
    BY <2>1, <2>2, <2>3, <2>5 DEF SInv, IInv, TypeOK, Gathered
  <2>. QED
    BY <2>2, <2>3, <2>5, <2>6, Decision
<1>4. ASSUME NEW m \in acl_net, ReceiveInform(m)
      PROVE  Gathered' /\ BestOfAll'
  BY <1>4 DEF ReceiveInform, NoRequester, NewRequester, SInv, IInv, TypeOK,
              Gathered, BestOfAll
<1>5. ASSUME NEW n \in Node, NEW r \in writing[n], ReceiptStored(n, r)
      PROVE  Gathered' /\ BestOfAll'
  BY <1>5 DEF ReceiptStored, SInv, IInv, TypeOK, Gathered, BestOfAll
<1>6. ASSUME NEW c \in Conv, SubmitIntent(c)
      PROVE  Gathered' /\ BestOfAll'
  <2>1. /\ NewRequester(Table).fetched_cards = {}
        /\ ~NewRequester(Table).request_sent
    BY DEF NewRequester
  <2>. QED
    BY <1>6, <2>1
       DEF SubmitIntent, SInv, IInv, TypeOK, Gathered, BestOfAll
<1>7. ASSUME NEW c \in Conv, NEW t \in Table, NEW z \in dht,
             FoundRecord(c, t, z[1], z[2])
      PROVE  Gathered' /\ BestOfAll'
  <2>. DEFINE f == <<CapOf[z[2]], z[1]>>
              s == WithFetch(req[c], f)
  <2>1. /\ s.request_sent = req[c].request_sent /\ s.chosen = req[c].chosen
        /\ s.fetched_cards = req[c].fetched_cards
    BY DEF WithFetch, SInv, IInv, TypeOK, RequesterState
  <2>2. req' = [req EXCEPT ![c] = s]
        /\ UNCHANGED <<requesters, reply, delivered>>
    BY <1>7 DEF FoundRecord
  <2>. HIDE DEF s, f
  <2>. QED
    BY <2>1, <2>2 DEF SInv, IInv, TypeOK, Gathered, BestOfAll
<1>8. ASSUME NEW n \in Node, Stop(n)
      PROVE  Gathered' /\ BestOfAll'
  BY <1>8 DEF Stop, NoRequester, NewRequester, SInv, IInv, TypeOK, Gathered,
              BestOfAll
<1>. QED
  BY <1>1, <1>2, <1>3, <1>4, <1>5, <1>6, <1>7, <1>8
     DEF Next, Handle, vars, ServeCard, HandleRequestRound1, ReceivePropose,
         HandleAgreeRound2, Publish, Restart, LoseCard, LoseAcl

\* No card that reaches the requester, before or after the decision, outranks
\* the one the REQUEST went out for, and none that passes the filter reaches
\* it in a conversation that was given up.
THEOREM BestOfAllCorrect == Spec => []BestOfAll
BY SInvInit, SInvNext, PTL DEF Spec, SInv
-----------------------------------------------------------------------------
(* The negotiation and what it leaves behind: receipts are backed by       *)
(* executions, and the mesh implements ReceiptLedger.                      *)

\* Nothing of c is under way and nothing was done for it.
Quiet(c) == executions[c] = 0 /\ \A m \in acl_net : m.conv # c

\* Before its REQUEST is sent, and when none will be, a conversation is quiet.
Fresh ==
    \A c \in Conv :
        \/ reply[c] \in {"unsent", "no_match"}
        \/ c \in requesters /\ ~req[c].request_sent
        => Quiet(c)

\* A conversation has one ACL message under way at most; its requester is
\* waiting in the round the message belongs to, or has stopped; and the task
\* has run exactly when the message is the INFORM.
OneMessage ==
    \A m \in acl_net :
        /\ \A o \in acl_net : o.conv = m.conv => o = m
        /\ m.conv \in requesters \/ reply[m.conv] = "dropped"
        /\ m.conv \in requesters =>
              IF m.perf \in {"REQUEST", "PROPOSE"}
                  THEN m.conv \in pending_acl_round1
                  ELSE m.conv \in pending_acl_round2
        /\ executions[m.conv] = (IF m.perf = "INFORM" THEN 1 ELSE 0)

\* A task runs once, and then its requester is past the first round.
RunOnce ==
    \A c \in Conv :
        /\ executions[c] \in {0, 1}
        /\ executions[c] = 1 /\ c \in requesters => c \in pending_acl_round2

\* While the INFORM is under way, the rows of its conversation name the sender.
InformNamesProvider ==
    \A m \in acl_net : m.perf = "INFORM" =>
        \A n \in Node : \A r \in receipts[n] \cup writing[n] :
            r.conv = m.conv => r.provider = m.peer

\* The inductive invariant.
NInv == /\ IInv
        /\ Fresh
        /\ OneMessage
        /\ RunOnce
        /\ ReceiptsBacked
        /\ InformNamesProvider

LEMMA NInvInit == Init => NInv
<1>. SUFFICES ASSUME Init PROVE NInv
  OBVIOUS
<1>1. IInv
  BY IInvInit
<1>2. Fresh /\ OneMessage /\ RunOnce
  BY DEF Init, Fresh, Quiet, OneMessage, RunOnce
<1>3. ReceiptsBacked /\ InformNamesProvider
  BY DEF Init, ReceiptsBacked, InformNamesProvider
<1>. QED
  BY <1>1, <1>2, <1>3 DEF NInv

-----------------------------------------------------------------------------
(* What an event of a gathering conversation does to its negotiation.      *)

\* The event books something off, so the conversation has not sent its
\* REQUEST; maybe_send_request leaves all other conversations alone.
LEMMA GatheringEvent ==
    ASSUME NInv, NEW c \in requesters, NEW r \in RequesterState,
           MaybeSendRequest(c, r), ~req[c].request_sent, ~r.request_sent
    PROVE  /\ c \in Conv /\ reply[c] = "waiting" /\ Quiet(c)
           /\ \A d \in Conv \ {c} :
                 /\ reply'[d] = reply[d]
                 /\ req'[d] = req[d]
                 /\ d \in requesters' <=> d \in requesters
                 /\ d \in pending_acl_round1' <=> d \in pending_acl_round1
           /\ \/ /\ ~req'[c].request_sent /\ reply'[c] = "waiting"
                 /\ UNCHANGED <<acl_net, requesters>>
              \/ /\ requesters' = requesters \ {c} /\ reply'[c] = "no_match"
                 /\ UNCHANGED acl_net
              \/ /\ c \in requesters' /\ req'[c].request_sent
                 /\ reply'[c] = "waiting" /\ c \in pending_acl_round1'
                 /\ \E p \in Node :
                       acl_net' \subseteq acl_net
                                  \cup {Acl("REQUEST", c, p, NONE)}
<1>1. c \in Conv /\ reply[c] = "waiting"
  BY DEF NInv, IInv, TypeOK, NoForgottenCaller
<1>2. Quiet(c)
  BY <1>1 DEF NInv, Fresh
<1>3. CASE /\ req' = [req EXCEPT ![c] = r]
           /\ UNCHANGED <<requesters, reply, pending_acl_round1, acl_net>>
  BY <1>1, <1>2, <1>3 DEF NInv, IInv, TypeOK
<1>4. CASE /\ req' = [req EXCEPT ![c] = NoRequester]
           /\ requesters' = requesters \ {c}
           /\ reply' = [reply EXCEPT ![c] = "no_match"]
           /\ UNCHANGED <<pending_acl_round1, acl_net>>
  BY <1>1, <1>2, <1>4 DEF NInv, IInv, TypeOK
<1>5. ASSUME NEW s \in RequesterState,
             req' = [req EXCEPT ![c] = s], s.request_sent,
             s.chosen \in Passing[c],
             acl_net' = acl_net \cup
                 Sent(OwnerOf[c], Acl("REQUEST", c, AgentOf[s.chosen], NONE)),
             pending_acl_round1' = pending_acl_round1 \cup {c},
             UNCHANGED <<requesters, reply>>
      PROVE  /\ \A d \in Conv \ {c} :
                   /\ reply'[d] = reply[d]
                   /\ req'[d] = req[d]
                   /\ d \in requesters' <=> d \in requesters
                   /\ d \in pending_acl_round1' <=> d \in pending_acl_round1
             /\ c \in requesters' /\ req'[c].request_sent
             /\ reply'[c] = "waiting" /\ c \in pending_acl_round1'
             /\ \E p \in Node :
                   acl_net' \subseteq acl_net
                              \cup {Acl("REQUEST", c, p, NONE)}
  <2>1. AgentOf[s.chosen] \in Node
    BY <1>1, <1>5, MapAssumption, MatchAssumption
  <2>2. acl_net' \subseteq acl_net
                   \cup {Acl("REQUEST", c, AgentOf[s.chosen], NONE)}
    BY <1>5, SentIsSubset
  <2>. QED
    BY <1>1, <1>5, <2>1, <2>2 DEF NInv, IInv, TypeOK
<1>. QED
  BY <1>1, <1>2, <1>3, <1>4, <1>5, MaybeSendRequestCases DEF NInv, IInv

\* The two events that call maybe_send_request are such events.
LEMMA LookupDoneGathers ==
    ASSUME IInv, NEW c \in Conv, NEW t \in Table, LookupDone(c, t)
    PROVE  /\ c \in requesters /\ ~req[c].request_sent
           /\ \E r \in RequesterState :
                 ~r.request_sent /\ MaybeSendRequest(c, r)
<1>. DEFINE r == [req[c] EXCEPT !.outstanding_dht_queries = @ \ {t}]
<1>1. r \in RequesterState /\ r.request_sent = req[c].request_sent
  BY DEF IInv, TypeOK, RequesterState
<1>2. c \in requesters /\ MaybeSendRequest(c, r)
  BY DEF LookupDone
<1>3. ~Settled(req[c])
  BY DEF LookupDone, IInv, Bookkeeping, Settled
<1>4. ~req[c].request_sent
  BY <1>2, <1>3 DEF IInv, OnePhase
<1>. HIDE DEF r
<1>. QED
  BY <1>1, <1>2, <1>4

LEMMA ReceiveCardGathers ==
    ASSUME IInv, NEW m \in card_net, ReceiveCard(m)
    PROVE  /\ m.conv \in requesters /\ ~req[m.conv].request_sent
           /\ \E r \in RequesterState :
                 ~r.request_sent /\ MaybeSendRequest(m.conv, r)
<1>. DEFINE c == m.conv
            f == <<m.cap, m.peer>>
            cards == {m.card} \ {NONE}
            r == WithCards(req[c], f, cards)
<1>1. m \in CardMessage /\ c \in Conv /\ f \in FetchId /\ cards \subseteq Card
  BY DEF IInv, TypeOK, CardMessage, FetchId
<1>2. r \in RequesterState /\ r.request_sent = req[c].request_sent
  BY <1>1, FetchType, WithCardsFields DEF IInv, TypeOK
<1>3. c \in requesters /\ MaybeSendRequest(c, r)
  BY DEF ReceiveCard
<1>4. ~Settled(req[c])
  BY <1>1 DEF ReceiveCard, IInv, Bookkeeping, Settled
<1>5. ~req[c].request_sent
  BY <1>3, <1>4 DEF IInv, OnePhase
<1>. HIDE DEF r
<1>. QED
  BY <1>2, <1>3, <1>5

-----------------------------------------------------------------------------
(* The negotiation.                                                        *)

LEMMA FreshNext == NInv /\ [Next]_vars => Fresh'
<1>. SUFFICES ASSUME NInv, [Next]_vars PROVE Fresh'
  OBVIOUS
<1>. USE DEF requesterVars, pendingVars, daemonVars, directoryVars
<1>1. CASE acl_net' \subseteq acl_net
           /\ UNCHANGED <<reply, requesters, req, executions>>
  BY <1>1 DEF NInv, Fresh, Quiet
\* The message of a conversation is replaced by its next one.
<1>2. ASSUME NEW m \in acl_net, NEW o, o.conv = m.conv,
             acl_net' \subseteq (acl_net \ {m}) \cup {o},
             \A c \in Conv \ {m.conv} : executions'[c] = executions[c],
             UNCHANGED <<reply, requesters, req>>
      PROVE  Fresh'
  BY <1>2 DEF NInv, Fresh, Quiet
<1>3. ASSUME NEW c \in requesters, NEW r \in RequesterState,
             MaybeSendRequest(c, r), ~req[c].request_sent, ~r.request_sent,
             UNCHANGED executions
      PROVE  Fresh'
  BY <1>3, GatheringEvent DEF NInv, Fresh, Quiet, Acl
<1>4. ASSUME NEW c \in Conv, NEW t \in Table, LookupDone(c, t)
      PROVE  Fresh'
  BY <1>3, <1>4, LookupDoneGathers DEF NInv, LookupDone
<1>5. ASSUME NEW m \in card_net, ReceiveCard(m)
      PROVE  Fresh'
  BY <1>3, <1>5, ReceiveCardGathers DEF NInv, ReceiveCard
<1>6. ASSUME NEW m \in acl_net, HandleRequestRound1(m)
      PROVE  Fresh'
  <2>1. ASSUME NEW k, acl_net' = (acl_net \ {m})
                         \cup {Acl("PROPOSE", m.conv, m.peer, CapOf[k])}
        PROVE  Fresh'
    BY <1>2, <1>6, <2>1 DEF HandleRequestRound1, Acl
  <2>. QED
    BY <1>1, <1>6, <2>1 DEF HandleRequestRound1
<1>7. ASSUME NEW m \in acl_net, ReceivePropose(m)
      PROVE  Fresh'
  <2>. DEFINE o == Acl("AGREE", m.conv, AgentOf[req[m.conv].chosen],
                       CapOf[req[m.conv].chosen])
  <2>1. acl_net' \subseteq (acl_net \ {m}) \cup {o} /\ o.conv = m.conv
    BY <1>7, SentIsSubset DEF ReceivePropose, Acl
  <2>. HIDE DEF o
  <2>. QED
    BY <1>2, <1>7, <2>1 DEF ReceivePropose
<1>8. ASSUME NEW m \in acl_net, HandleAgreeRound2(m)
      PROVE  Fresh'
  <2>1. ASSUME NEW s \in providers[m.peer], Execute(m, s)
        PROVE  Fresh'
    <3>1. Acl("INFORM", m.conv, m.peer, NONE).conv = m.conv
      BY DEF Acl
    <3>. QED
      BY <1>2, <1>8, <2>1, <3>1
         DEF HandleAgreeRound2, Execute, NInv, IInv, TypeOK
  <2>. QED
    BY <1>1, <1>8, <2>1 DEF HandleAgreeRound2, UnknownConversation
<1>9. ASSUME NEW m \in acl_net, ReceiveInform(m)
      PROVE  Fresh'
  BY <1>9 DEF ReceiveInform, NInv, IInv, TypeOK, Fresh, Quiet
<1>10. ASSUME NEW n \in Node, NEW r \in writing[n], ReceiptStored(n, r)
       PROVE  Fresh'
  BY <1>10 DEF ReceiptStored, NInv, IInv, TypeOK, Fresh, Quiet
<1>11. ASSUME NEW c \in Conv, SubmitIntent(c)
       PROVE  Fresh'
  BY <1>11 DEF SubmitIntent, NInv, IInv, TypeOK, Fresh, Quiet
<1>12. ASSUME NEW c \in Conv, NEW t \in Table, NEW z \in dht,
              FoundRecord(c, t, z[1], z[2])
       PROVE  Fresh'
  <2>1. WithFetch(req[c], <<CapOf[z[2]], z[1]>>).request_sent
          = req[c].request_sent
    BY WithFetchFields DEF NInv, IInv, TypeOK
  <2>2. \A d \in Conv : req'[d].request_sent = req[d].request_sent
    BY <1>12, <2>1 DEF FoundRecord, NInv, IInv, TypeOK
  <2>. QED
    BY <1>12, <2>2 DEF FoundRecord, NInv, Fresh, Quiet
<1>13. ASSUME NEW n \in Node, Stop(n)
       PROVE  Fresh'
  BY <1>13 DEF Stop, NInv, IInv, TypeOK, Fresh, Quiet
<1>. QED
  BY <1>1, <1>4, <1>5, <1>6, <1>7, <1>8, <1>9, <1>10, <1>11, <1>12, <1>13
     DEF Next, Handle, vars, ServeCard, Publish, Restart, LoseCard, LoseAcl

LEMMA OneMessageNext == NInv /\ [Next]_vars => OneMessage'
<1>. SUFFICES ASSUME NInv, [Next]_vars PROVE OneMessage'
  OBVIOUS
<1>. USE DEF requesterVars, pendingVars, daemonVars, directoryVars
<1>0. \A m \in acl_net : m.conv \in Conv
  BY DEF NInv, IInv, TypeOK, AclMessage
<1>1. CASE /\ acl_net' \subseteq acl_net
           /\ UNCHANGED <<reply, requesters, pending_acl_round1,
                          pending_acl_round2, executions>>
  BY <1>1 DEF NInv, OneMessage
<1>3. ASSUME NEW c \in requesters, NEW r \in RequesterState,
             MaybeSendRequest(c, r), ~req[c].request_sent, ~r.request_sent,
             UNCHANGED <<pending_acl_round2, executions>>
      PROVE  OneMessage'
  <2>. USE <1>0, <1>3, GatheringEvent
  <2>1. \A m \in acl_net : m.conv # c
    BY DEF Quiet
  <2>2. CASE UNCHANGED acl_net
    BY <2>1, <2>2 DEF NInv, OneMessage
  <2>3. ASSUME NEW p \in Node, c \in requesters', c \in pending_acl_round1',
               acl_net' \subseteq acl_net \cup {Acl("REQUEST", c, p, NONE)}
        PROVE  OneMessage'
    BY <2>1, <2>3 DEF NInv, OneMessage, Quiet, Acl
  <2>. QED
    BY <2>2, <2>3
<1>4. ASSUME NEW c \in Conv, NEW t \in Table, LookupDone(c, t)
      PROVE  OneMessage'
  BY <1>3, <1>4, LookupDoneGathers DEF NInv, LookupDone
<1>5. ASSUME NEW m \in card_net, ReceiveCard(m)
      PROVE  OneMessage'
  BY <1>3, <1>5, ReceiveCardGathers DEF NInv, ReceiveCard
<1>6. ASSUME NEW m \in acl_net, HandleRequestRound1(m)
      PROVE  OneMessage'
  <2>1. ASSUME NEW k, acl_net' = (acl_net \ {m})
                         \cup {Acl("PROPOSE", m.conv, m.peer, CapOf[k])}
        PROVE  OneMessage'
    BY <1>6, <2>1 DEF HandleRequestRound1, Acl, NInv, OneMessage
  <2>. QED
    BY <1>1, <1>6, <2>1 DEF HandleRequestRound1
<1>7. ASSUME NEW m \in acl_net, ReceivePropose(m)
      PROVE  OneMessage'
  <2>. DEFINE o == Acl("AGREE", m.conv, AgentOf[req[m.conv].chosen],
                       CapOf[req[m.conv].chosen])
  <2>1. /\ acl_net' \subseteq (acl_net \ {m}) \cup {o}
        /\ o.conv = m.conv /\ o.perf = "AGREE"
    BY <1>7, SentIsSubset DEF ReceivePropose, Acl
  <2>. HIDE DEF o
  <2>. QED
    BY <1>7, <2>1 DEF ReceivePropose, NInv, OneMessage
<1>8. ASSUME NEW m \in acl_net, HandleAgreeRound2(m)
      PROVE  OneMessage'
  <2>1. ASSUME NEW s \in providers[m.peer], Execute(m, s)
        PROVE  OneMessage'
    <3>1. /\ executions[m.conv] = 0 /\ executions'[m.conv] = 1
          /\ \A c \in Conv \ {m.conv} : executions'[c] = executions[c]
      BY <1>0, <1>8, <2>1
         DEF HandleAgreeRound2, Execute, NInv, IInv, TypeOK, OneMessage
    <3>. QED
      BY <1>0, <1>8, <2>1, <3>1
         DEF HandleAgreeRound2, Execute, NInv, OneMessage, Acl
  <2>. QED
    BY <1>1, <1>8, <2>1 DEF HandleAgreeRound2, UnknownConversation
<1>9. ASSUME NEW m \in acl_net, ReceiveInform(m)
      PROVE  OneMessage'
  BY <1>9 DEF ReceiveInform, NInv, OneMessage
\* The caller of a row being written waits, and nothing of it is under way.
<1>10. ASSUME NEW n \in Node, NEW r \in writing[n], ReceiptStored(n, r)
       PROVE  OneMessage'
  <2>1. CASE r.requester = n
    <3>1. /\ r.conv \in Conv /\ OwnerOf[r.conv] = n
          /\ r.conv \notin requesters
      BY <2>1 DEF NInv, IInv, TypeOK, Receipt, Writers
    <3>2. reply[r.conv] = "waiting"
      BY <2>1, <3>1 DEF NInv, IInv, NoForgottenCaller
    <3>3. \A m \in acl_net : m.conv # r.conv
      BY <3>1, <3>2 DEF NInv, OneMessage
    <3>. QED
      BY <1>0, <1>10, <3>1, <3>3
         DEF ReceiptStored, NInv, IInv, TypeOK, OneMessage
  <2>. QED
    BY <1>1, <1>10, <2>1 DEF ReceiptStored
<1>11. ASSUME NEW c \in Conv, SubmitIntent(c)
       PROVE  OneMessage'
  <2>1. \A m \in acl_net : m.conv # c
    BY <1>11 DEF SubmitIntent, NInv, Fresh, Quiet
  <2>. QED
    BY <1>0, <1>11, <2>1 DEF SubmitIntent, NInv, IInv, TypeOK, OneMessage
<1>12. ASSUME NEW c \in Conv, NEW t \in Table, NEW z \in dht,
              FoundRecord(c, t, z[1], z[2])
       PROVE  OneMessage'
  BY <1>1, <1>12 DEF FoundRecord
<1>13. ASSUME NEW n \in Node, Stop(n)
       PROVE  OneMessage'
  BY <1>0, <1>13
     DEF Stop, NInv, IInv, TypeOK, NoForgottenCaller, OneMessage
<1>. QED
  BY <1>1, <1>4, <1>5, <1>6, <1>7, <1>8, <1>9, <1>10, <1>11, <1>12, <1>13
     DEF Next, Handle, vars, ServeCard, Publish, Restart, LoseCard, LoseAcl

LEMMA RunOnceNext == NInv /\ [Next]_vars => RunOnce'
<1>. SUFFICES ASSUME NInv, [Next]_vars PROVE RunOnce'
  OBVIOUS
<1>. USE DEF requesterVars, pendingVars, daemonVars, directoryVars
<1>1. CASE /\ requesters' \subseteq requesters
           /\ pending_acl_round2 \subseteq pending_acl_round2'
           /\ UNCHANGED executions
  BY <1>1 DEF NInv, RunOnce
<1>2. ASSUME NEW c, NEW r, MaybeSendRequest(c, r)
      PROVE  requesters' \subseteq requesters
  BY <1>2 DEF MaybeSendRequest, KeepWaiting, NoMatchingCapability, SendRequest
<1>3. ASSUME NEW m \in acl_net, HandleAgreeRound2(m)
      PROVE  RunOnce'
  <2>1. m.conv \in Conv
    BY DEF NInv, IInv, TypeOK, AclMessage
  <2>2. ASSUME NEW s \in providers[m.peer], Execute(m, s)
        PROVE  RunOnce'
    <3>1. /\ executions[m.conv] = 0 /\ executions'[m.conv] = 1
          /\ \A c \in Conv \ {m.conv} : executions'[c] = executions[c]
      BY <1>3, <2>1, <2>2
         DEF HandleAgreeRound2, Execute, NInv, IInv, TypeOK, OneMessage
    <3>2. m.conv \in requesters => m.conv \in pending_acl_round2
      BY <1>3 DEF HandleAgreeRound2, NInv, OneMessage
    <3>. QED
      BY <1>3, <3>1, <3>2 DEF HandleAgreeRound2, NInv, RunOnce
  <2>. QED
    BY <1>1, <1>3, <2>2 DEF HandleAgreeRound2, UnknownConversation
<1>4. ASSUME NEW m \in acl_net, ReceiveInform(m)
      PROVE  RunOnce'
  BY <1>4 DEF ReceiveInform, NInv, RunOnce
<1>5. ASSUME NEW c \in Conv, SubmitIntent(c)
      PROVE  RunOnce'
  BY <1>5 DEF SubmitIntent, NInv, Fresh, Quiet, RunOnce
<1>6. ASSUME NEW n \in Node, Stop(n)
      PROVE  RunOnce'
  BY <1>6 DEF Stop, NInv, RunOnce
<1>. QED
  BY <1>1, <1>2, <1>3, <1>4, <1>5, <1>6
     DEF Next, Handle, vars, LookupDone, ServeCard, ReceiveCard,
         HandleRequestRound1, ReceivePropose, ReceiptStored, Publish,
         FoundRecord, Restart, LoseCard, LoseAcl

-----------------------------------------------------------------------------
(* The rows.                                                               *)

\* A row appears when the provider executes and when the requester completes;
\* storing it, and stopping, add none.
LEMMA RowsKept ==
    ASSUME IInv, NEW n \in Node,
           Stop(n) \/ \E r \in writing[n] : ReceiptStored(n, r)
    PROVE  \A o \in Node : receipts'[o] \cup writing'[o]
                             \subseteq receipts[o] \cup writing[o]
BY DEF IInv, TypeOK, Stop, ReceiptStored, InsertRow

\* The row of an execution is the first of its conversation.
LEMMA ExecuteRows ==
    ASSUME NInv, NEW m \in acl_net, m.perf = "AGREE",
           NEW s \in providers[m.peer], Execute(m, s),
           UNCHANGED receipts
    PROVE  /\ m.conv \in Conv /\ m.peer \in Node
           /\ executions'[m.conv] = 1
           /\ \A c \in Conv \ {m.conv} : executions'[c] = executions[c]
           /\ \A n \in Node : \A r \in receipts[n] \cup writing[n] :
                 r.conv \in Conv \ {m.conv}
           /\ \A n \in Node : \A r \in receipts'[n] \cup writing'[n] :
                 \/ r \in receipts[n] \cup writing[n]
                 \/ /\ r.conv = m.conv /\ n = m.peer /\ r.provider = m.peer
                    /\ r.requester = OwnerOf[m.conv]
<1>1. m.conv \in Conv /\ m.peer \in Node
  BY DEF NInv, IInv, TypeOK, AclMessage
<1>2. /\ executions[m.conv] = 0 /\ executions'[m.conv] = 1
      /\ \A c \in Conv \ {m.conv} : executions'[c] = executions[c]
  BY <1>1 DEF Execute, NInv, IInv, TypeOK, OneMessage
<1>3. \A n \in Node : \A r \in receipts[n] \cup writing[n] :
        r.conv \in Conv /\ executions[r.conv] = 1
  BY DEF NInv, IInv, TypeOK, Receipt, ReceiptsBacked
<1>4. s.requester_peer = OwnerOf[m.conv]
  BY <1>1 DEF Execute, NInv, IInv, OtherPeer
<1>5. \A n \in Node : \A r \in receipts'[n] \cup writing'[n] :
        \/ r \in receipts[n] \cup writing[n]
        \/ /\ r.conv = m.conv /\ n = m.peer /\ r.provider = m.peer
           /\ r.requester = OwnerOf[m.conv]
  BY <1>1, <1>4 DEF Execute, NInv, IInv, TypeOK
<1>. QED
  BY <1>1, <1>2, <1>3, <1>5

\* The requester's row names the sender of the INFORM, as the other rows do.
LEMMA InformRows ==
    ASSUME NInv, NEW m \in acl_net, ReceiveInform(m)
    PROVE  /\ m.conv \in Conv /\ executions[m.conv] = 1
           /\ \A n \in Node : \A r \in receipts[n] \cup writing[n] :
                 r.conv = m.conv => r.provider = m.peer
           /\ \A n \in Node : \A r \in receipts'[n] \cup writing'[n] :
                 \/ r \in receipts[n] \cup writing[n]
                 \/ /\ r.conv = m.conv /\ r.provider = m.peer
                    /\ n = OwnerOf[m.conv] /\ r.requester = OwnerOf[m.conv]
<1>1. m.conv \in Conv /\ executions[m.conv] = 1
  BY DEF ReceiveInform, NInv, IInv, TypeOK, AclMessage, OneMessage
<1>2. \A n \in Node : \A r \in receipts[n] \cup writing[n] :
        r.conv = m.conv => r.provider = m.peer
  BY DEF ReceiveInform, NInv, InformNamesProvider
<1>3. \A n \in Node : \A r \in receipts'[n] \cup writing'[n] :
        \/ r \in receipts[n] \cup writing[n]
        \/ /\ r.conv = m.conv /\ r.provider = m.peer
           /\ n = OwnerOf[m.conv] /\ r.requester = OwnerOf[m.conv]
  BY <1>1, MapAssumption DEF ReceiveInform, NInv, IInv, TypeOK
<1>. QED
  BY <1>1, <1>2, <1>3

LEMMA ReceiptsBackedNext == NInv /\ [Next]_vars => ReceiptsBacked'
<1>. SUFFICES ASSUME NInv, [Next]_vars PROVE ReceiptsBacked'
  OBVIOUS
<1>. USE DEF requesterVars, pendingVars, daemonVars, directoryVars
<1>1. CASE /\ \A n \in Node : receipts'[n] \cup writing'[n]
                               \subseteq receipts[n] \cup writing[n]
           /\ UNCHANGED executions
  BY <1>1 DEF NInv, ReceiptsBacked
<1>2. ASSUME NEW m \in acl_net, HandleAgreeRound2(m)
      PROVE  ReceiptsBacked'
  <2>1. ASSUME NEW s \in providers[m.peer], Execute(m, s)
        PROVE  ReceiptsBacked'
    BY <1>2, <2>1, ExecuteRows DEF HandleAgreeRound2, NInv, ReceiptsBacked
  <2>. QED
    BY <1>1, <1>2, <2>1 DEF HandleAgreeRound2, UnknownConversation
<1>3. ASSUME NEW m \in acl_net, ReceiveInform(m)
      PROVE  ReceiptsBacked'
  <2>1. UNCHANGED executions
    BY <1>3 DEF ReceiveInform
  <2>. QED
    BY <1>3, <2>1, InformRows DEF NInv, ReceiptsBacked
<1>4. ASSUME NEW n \in Node,
             Stop(n) \/ \E r \in writing[n] : ReceiptStored(n, r)
      PROVE  ReceiptsBacked'
  <2>1. UNCHANGED executions
    BY <1>4 DEF Stop, ReceiptStored
  <2>. QED
    BY <1>1, <1>4, <2>1, RowsKept DEF NInv
<1>. QED
  BY <1>1, <1>2, <1>3, <1>4
     DEF Next, Handle, vars, LookupDone, ServeCard, ReceiveCard,
         HandleRequestRound1, ReceivePropose, Publish, SubmitIntent,
         FoundRecord, Restart, LoseCard, LoseAcl

LEMMA InformNamesProviderNext == NInv /\ [Next]_vars => InformNamesProvider'
<1>. SUFFICES ASSUME NInv, [Next]_vars PROVE InformNamesProvider'
  OBVIOUS
<1>. USE DEF requesterVars, pendingVars, daemonVars, directoryVars
\* Only an execution sends an INFORM.
<1>1. CASE /\ \A m \in acl_net' : m \in acl_net \/ m.perf # "INFORM"
           /\ \A n \in Node : receipts'[n] \cup writing'[n]
                               \subseteq receipts[n] \cup writing[n]
  BY <1>1 DEF NInv, InformNamesProvider
<1>2. ASSUME NEW c, NEW r, MaybeSendRequest(c, r)
      PROVE  \A m \in acl_net' : m \in acl_net \/ m.perf # "INFORM"
  <2>1. \A p : Acl("REQUEST", c, p, NONE).perf = "REQUEST"
    BY DEF Acl
  <2>2. \/ acl_net' = acl_net
        \/ \E p : acl_net' = acl_net \cup
                     Sent(OwnerOf[c], Acl("REQUEST", c, p, NONE))
    BY <1>2 DEF MaybeSendRequest, KeepWaiting, NoMatchingCapability,
                SendRequest
  <2>. QED
    BY <2>1, <2>2, SentIsSubset
<1>3. ASSUME NEW m, HandleRequestRound1(m) \/ ReceivePropose(m)
      PROVE  \A o \in acl_net' : o \in acl_net \/ o.perf # "INFORM"
  <2>1. \A perf, c, p, cap : Acl(perf, c, p, cap).perf = perf
    BY DEF Acl
  <2>2. CASE HandleRequestRound1(m)
    <3>1. \/ acl_net' = acl_net \ {m}
          \/ \E k : acl_net' = (acl_net \ {m})
                       \cup {Acl("PROPOSE", m.conv, m.peer, CapOf[k])}
      BY <2>2 DEF HandleRequestRound1
    <3>. QED
      BY <2>1, <3>1
  <2>3. CASE ReceivePropose(m)
    BY <2>1, <2>3, SentIsSubset DEF ReceivePropose
  <2>. QED
    BY <1>3, <2>2, <2>3
<1>4. ASSUME NEW m \in acl_net, HandleAgreeRound2(m)
      PROVE  InformNamesProvider'
  <2>1. ASSUME NEW s \in providers[m.peer], Execute(m, s)
        PROVE  InformNamesProvider'
    <3>1. \A o \in acl_net' : \/ o \in acl_net /\ o.conv # m.conv
                              \/ o.conv = m.conv /\ o.peer = m.peer
      BY <2>1 DEF Execute, Acl, NInv, OneMessage
    <3>. QED
      BY <1>4, <2>1, <3>1, ExecuteRows
         DEF HandleAgreeRound2, NInv, InformNamesProvider
  <2>. QED
    BY <1>1, <1>4, <2>1 DEF HandleAgreeRound2, UnknownConversation
<1>5. ASSUME NEW m \in acl_net, ReceiveInform(m)
      PROVE  InformNamesProvider'
  <2>1. \A o \in acl_net' : o \in acl_net /\ o.conv # m.conv
    BY <1>5 DEF ReceiveInform, NInv, OneMessage
  <2>. QED
    BY <1>5, <2>1, InformRows DEF NInv, InformNamesProvider
<1>6. ASSUME NEW n \in Node,
             Stop(n) \/ \E r \in writing[n] : ReceiptStored(n, r)
      PROVE  InformNamesProvider'
  <2>1. UNCHANGED acl_net
    BY <1>6 DEF Stop, ReceiptStored
  <2>. QED
    BY <1>1, <1>6, <2>1, RowsKept DEF NInv
<1>. QED
  BY <1>1, <1>2, <1>3, <1>4, <1>5, <1>6
     DEF Next, Handle, vars, LookupDone, ServeCard, ReceiveCard,
         HandleRequestRound1, ReceivePropose, Publish, SubmitIntent,
         FoundRecord, Restart, LoseCard, LoseAcl

LEMMA NInvNext == NInv /\ [Next]_vars => NInv'
BY IInvNext, FreshNext, OneMessageNext, RunOnceNext, ReceiptsBackedNext,
   InformNamesProviderNext DEF NInv

LEMMA NegotiationInvariance == Spec => []NInv
BY NInvInit, NInvNext, PTL DEF Spec

\* A row, on disk or on its way there, stands for one execution, is held by
\* one of the peers it names and agrees with the row of the other side.
THEOREM ReceiptsBackedCorrect == Spec => []ReceiptsBacked
BY NegotiationInvariance, PTL DEF NInv

\* The rows of a daemon other than the owner of a conversation are not lost
\* but by a stop that cuts their insert: the insert that replaces a row writes one
\* of the same conversation, and a daemon that awaits an insert starts no other.
LEMMA ExecutionRecordedNext ==
    IInv /\ ExecutionRecorded /\ [Next]_vars => ExecutionRecorded'
<1>. SUFFICES ASSUME IInv, ExecutionRecorded, [Next]_vars
              PROVE  ExecutionRecorded'
  OBVIOUS
<1>. USE DEF requesterVars, pendingVars, daemonVars, directoryVars
<1>. DEFINE Row(n, c) == \E r \in receipts[n] \cup writing[n] : r.conv = c
<1>1. CASE UNCHANGED <<executions, receipts, writing, cut>>
  BY <1>1 DEF ExecutionRecorded
<1>2. ASSUME NEW m \in acl_net, HandleAgreeRound2(m)
      PROVE  ExecutionRecorded'
  <2>1. ASSUME NEW s \in providers[m.peer], Execute(m, s)
        PROVE  ExecutionRecorded'
    <3>1. m.conv \in Conv /\ m.peer \in Node \ {OwnerOf[m.conv]}
      BY DEF IInv, TypeOK, AclMessage, OtherPeer
    <3>2. /\ UNCHANGED <<cut, receipts>>
          /\ \A c \in Conv \ {m.conv} : executions'[c] = executions[c]
      BY <1>2, <2>1 DEF HandleAgreeRound2, Execute, IInv, TypeOK
    <3>3. Row(m.peer, m.conv)'
      <4>1. PICK r : r.conv = m.conv
                     /\ writing' = [writing EXCEPT ![m.peer] = {r}]
        BY <2>1 DEF Execute
      <4>2. r \in writing'[m.peer]
        BY <3>1, <4>1 DEF IInv, TypeOK
      <4>. QED
        BY <4>1, <4>2
    <3>4. writing[m.peer] = {}
          /\ \A n \in Node \ {m.peer} : writing'[n] = writing[n]
      BY <1>2, <2>1 DEF HandleAgreeRound2, Execute, Polling, IInv, TypeOK
    <3>5. \A n \in Node, c \in Conv : Row(n, c) => Row(n, c)'
      BY <3>2, <3>4
    <3>. QED
      BY <3>1, <3>2, <3>3, <3>5 DEF ExecutionRecorded
  <2>. QED
    BY <1>1, <1>2, <2>1 DEF HandleAgreeRound2, UnknownConversation
<1>3. ASSUME NEW m \in acl_net, ReceiveInform(m)
      PROVE  ExecutionRecorded'
  <2>1. OwnerOf[m.conv] \in Node
    BY MapAssumption DEF IInv, TypeOK, AclMessage
  <2>2. \A n \in Node, c \in Conv : Row(n, c) => Row(n, c)'
    BY <1>3, <2>1 DEF ReceiveInform, Polling, IInv, TypeOK
  <2>3. UNCHANGED <<executions, cut>>
    BY <1>3 DEF ReceiveInform
  <2>. QED
    BY <2>2, <2>3 DEF ExecutionRecorded
<1>4. ASSUME NEW n \in Node, NEW r \in writing[n], ReceiptStored(n, r)
      PROVE  ExecutionRecorded'
  <2>1. \A o \in Node, c \in Conv : Row(o, c) => Row(o, c)'
    BY <1>4 DEF ReceiptStored, InsertRow, IInv, TypeOK, Writers
  <2>2. UNCHANGED <<executions, cut>>
    BY <1>4 DEF ReceiptStored
  <2>. QED
    BY <2>1, <2>2 DEF ExecutionRecorded
<1>5. ASSUME NEW n \in Node, Stop(n)
      PROVE  ExecutionRecorded'
  <2>1. UNCHANGED executions /\ cut \subseteq cut'
    BY <1>5 DEF Stop
  <2>2. \A r \in writing[n] : <<n, r.conv>> \in cut'
    BY <1>5 DEF Stop
  <2>3. \A r \in writing[n] :
           \A x \in receipts[n] : \E y \in InsertRow(receipts[n], r) : y.conv = x.conv
    BY DEF InsertRow
  <2>4. \A o \in Node : \A x \in receipts[o] : \E y \in receipts'[o] : y.conv = x.conv
    BY <1>5, <2>3 DEF Stop, IInv, TypeOK
  <2>5. \A o \in Node \ {n} : writing'[o] = writing[o]
    BY <1>5 DEF Stop, IInv, TypeOK
  <2>6. \A o \in Node, c \in Conv :
           Row(o, c) => Row(o, c)' \/ <<o, c>> \in cut'
    BY <2>2, <2>4, <2>5
  <2>. QED
    BY <2>1, <2>6 DEF ExecutionRecorded
<1>. QED
  BY <1>1, <1>2, <1>3, <1>4, <1>5
     DEF Next, Handle, vars, LookupDone, ServeCard, ReceiveCard,
         HandleRequestRound1, ReceivePropose, Publish, SubmitIntent,
         FoundRecord, Restart, LoseCard, LoseAcl

\* An execution leaves the provider's row, on disk or on its way there, unless the
\* provider stops before the insert of that row is done: no message that is lost
\* or late, no insert of another conversation and no other stop takes it away.
THEOREM ExecutionRecordedCorrect == Spec => []ExecutionRecorded
<1>1. Init => ExecutionRecorded
  BY DEF Init, ExecutionRecorded
<1>. QED
  BY <1>1, ExecutionRecordedNext, Invariance, PTL DEF Spec

-----------------------------------------------------------------------------
(* The mesh implements the ledger.                                         *)

LEMMA LedgerInit == Init => Ledger!Init
BY MapAssumption DEF Init, Ledger!Init, RequesterRows, ProviderRows

\* INSERT OR REPLACE adds the conversation of its row to the table it writes.
LEMMA RowInserted ==
    ASSUME IInv, NEW n \in Node, NEW r \in writing[n],
           receipts' = [receipts EXCEPT ![n] = InsertRow(@, r)]
    PROVE  /\ r.conv \in Conv /\ r.requester = OwnerOf[r.conv]
           /\ r.requester = n => /\ RequesterRows' = RequesterRows \cup {r.conv}
                                /\ ProviderRows' = ProviderRows
           /\ r.requester # n => /\ RequesterRows' = RequesterRows
                                /\ ProviderRows' = ProviderRows \cup {r.conv}
<1>1. r.conv \in Conv /\ r.requester = OwnerOf[r.conv]
  BY DEF IInv, TypeOK, Receipt, Writers
<1>2. \A o \in Node, c \in Conv :
        (\E x \in receipts'[o] : x.conv = c) <=>
            \/ \E x \in receipts[o] : x.conv = c
            \/ o = n /\ c = r.conv
  BY <1>1 DEF IInv, TypeOK, InsertRow
<1>. QED
  BY <1>1, <1>2, MapAssumption DEF RequesterRows, ProviderRows

\* The row that is awaited stands for one execution; if it is the requester's,
\* its caller is waiting.
LEMMA RowAwaited ==
    ASSUME NInv, NEW n \in Node, NEW r \in writing[n]
    PROVE  /\ executions[r.conv] = 1
           /\ r.requester = n => reply[r.conv] = "waiting"
<1>1. executions[r.conv] = 1
  BY DEF NInv, ReceiptsBacked
<1>2. r.conv \in Conv /\ r.requester = OwnerOf[r.conv]
  BY DEF NInv, IInv, TypeOK, Receipt, Writers
<1>3. reply[r.conv] = "waiting" <=>
         \/ r.conv \in requesters
         \/ \E x \in writing[OwnerOf[r.conv]] :
               x.conv = r.conv /\ x.requester = OwnerOf[r.conv]
  BY <1>2 DEF NInv, IInv, NoForgottenCaller
<1>. QED
  BY <1>1, <1>2, <1>3

\* A task that runs has not run before, and its caller is waiting or gone.
LEMMA ExecuteLedger ==
    ASSUME NInv, NEW m \in acl_net, HandleAgreeRound2(m),
           NEW s \in providers[m.peer], Execute(m, s)
    PROVE  m.conv \in Conv /\ Ledger!Execute(m.conv)
<1>1. m.conv \in Conv
  BY DEF NInv, IInv, TypeOK, AclMessage
<1>2. executions[m.conv] = 0
  BY DEF HandleAgreeRound2, NInv, OneMessage
<1>3. reply[m.conv] \in {"waiting", "dropped"}
  BY <1>1 DEF NInv, IInv, NoForgottenCaller, OneMessage
<1>4. executions' = [executions EXCEPT ![m.conv] = 1]
  BY <1>1, <1>2 DEF Execute, NInv, IInv, TypeOK
<1>5. UNCHANGED <<reply, RequesterRows, ProviderRows>>
  BY DEF HandleAgreeRound2, requesterVars, RequesterRows, ProviderRows
<1>. QED
  BY <1>1, <1>2, <1>3, <1>4, <1>5 DEF Ledger!Execute

\* Stopping halts the ledger for the callers of the daemon; the row that was
\* awaited is kept or not.
LEMMA StopLedger ==
    ASSUME NInv, NEW n \in Node, Stop(n)
    PROVE  \E D, R, P \in SUBSET Conv : Ledger!Halt(D, R, P)
<1>. DEFINE D == {c \in Conv : OwnerOf[c] = n /\ reply[c] = "waiting"}
<1>1. /\ D \in SUBSET Conv
      /\ \A c \in D : reply[c] = "waiting"
      /\ reply' = [c \in Conv |-> IF c \in D THEN "dropped" ELSE reply[c]]
      /\ UNCHANGED executions
  BY DEF Stop
<1>2. CASE UNCHANGED receipts
  <2>1. RequesterRows' = RequesterRows /\ ProviderRows' = ProviderRows
    BY <1>2 DEF RequesterRows, ProviderRows
  <2>2. Ledger!Halt(D, {}, {})
    BY <1>1, <2>1 DEF Ledger!Halt
  <2>. QED
    BY <1>1, <2>2
<1>3. ASSUME NEW r \in writing[n],
             receipts' = [receipts EXCEPT ![n] = InsertRow(@, r)]
      PROVE  \E E, R, P \in SUBSET Conv : Ledger!Halt(E, R, P)
  <2>1. CASE r.requester = n
    <3>1. r.conv \in D /\ executions[r.conv] = 1
      BY <1>3, <2>1, RowInserted, RowAwaited DEF NInv
    <3>2. /\ RequesterRows' = RequesterRows \cup {r.conv}
          /\ ProviderRows' = ProviderRows
      BY <1>3, <2>1, RowInserted DEF NInv
    <3>. HIDE DEF D
    <3>3. Ledger!Halt(D, {r.conv}, {})
      BY <1>1, <3>1, <3>2 DEF Ledger!Halt
    <3>. QED
      BY <1>1, <3>1, <3>3
  <2>2. CASE r.requester # n
    <3>1. r.conv \in Conv /\ executions[r.conv] = 1
      BY <1>3, RowInserted, RowAwaited DEF NInv
    <3>2. /\ RequesterRows' = RequesterRows
          /\ ProviderRows' = ProviderRows \cup {r.conv}
      BY <1>3, <2>2, RowInserted DEF NInv
    <3>. HIDE DEF D
    <3>3. Ledger!Halt(D, {}, {r.conv})
      BY <1>1, <3>1, <3>2 DEF Ledger!Halt
    <3>. QED
      BY <1>1, <3>1, <3>3
  <2>. QED
    BY <2>1, <2>2
<1>. QED
  BY <1>2, <1>3 DEF Stop

LEMMA LedgerNext ==
    NInv /\ [Next]_vars => [Ledger!Next]_(Ledger!ledger)
<1>. SUFFICES ASSUME NInv, [Next]_vars
              PROVE  [Ledger!Next]_(Ledger!ledger)
  OBVIOUS
<1>. USE DEF requesterVars, pendingVars, daemonVars, directoryVars
<1>1. CASE UNCHANGED <<reply, executions, receipts>>
  BY <1>1 DEF Ledger!ledger, RequesterRows, ProviderRows
\* Giving up is said of a conversation whose task has not run.
<1>2. ASSUME NEW c \in requesters, NEW r \in RequesterState,
             MaybeSendRequest(c, r), ~req[c].request_sent, ~r.request_sent,
             UNCHANGED <<executions, receipts>>
      PROVE  [Ledger!Next]_(Ledger!ledger)
  <2>1. CASE UNCHANGED reply
    BY <1>1, <1>2, <2>1
  <2>2. CASE NoMatchingCapability(c, r)
    <3>1. c \in Conv /\ reply[c] = "waiting" /\ executions[c] = 0
      BY <1>2, GatheringEvent DEF Quiet
    <3>2. UNCHANGED <<RequesterRows, ProviderRows>>
      BY <1>2 DEF RequesterRows, ProviderRows
    <3>3. Ledger!NoMatch(c)
      BY <1>2, <2>2, <3>1, <3>2 DEF NoMatchingCapability, Ledger!NoMatch
    <3>. QED
      BY <3>1, <3>3 DEF Ledger!Next
  <2>. QED
    BY <1>2, <2>1, <2>2 DEF MaybeSendRequest, KeepWaiting, SendRequest
<1>3. ASSUME NEW c \in Conv, NEW t \in Table, LookupDone(c, t)
      PROVE  [Ledger!Next]_(Ledger!ledger)
  BY <1>2, <1>3, LookupDoneGathers DEF NInv, LookupDone
<1>4. ASSUME NEW m \in card_net, ReceiveCard(m)
      PROVE  [Ledger!Next]_(Ledger!ledger)
  BY <1>2, <1>4, ReceiveCardGathers DEF NInv, ReceiveCard
<1>5. ASSUME NEW m \in acl_net, HandleAgreeRound2(m)
      PROVE  [Ledger!Next]_(Ledger!ledger)
  <2>1. ASSUME NEW s \in providers[m.peer], Execute(m, s)
        PROVE  [Ledger!Next]_(Ledger!ledger)
    BY <1>5, <2>1, ExecuteLedger DEF Ledger!Next
  <2>. QED
    BY <1>1, <1>5, <2>1 DEF HandleAgreeRound2, UnknownConversation
<1>6. ASSUME NEW n \in Node, NEW r \in writing[n], ReceiptStored(n, r)
      PROVE  [Ledger!Next]_(Ledger!ledger)
  <2>1. /\ receipts' = [receipts EXCEPT ![n] = InsertRow(@, r)]
        /\ UNCHANGED executions
    BY <1>6 DEF ReceiptStored
  <2>2. r.conv \in Conv
    BY <2>1, RowInserted DEF NInv
  <2>3. CASE r.requester = n
    <3>1. Ledger!Complete(r.conv)
      BY <1>6, <2>1, <2>3, RowInserted, RowAwaited
         DEF NInv, ReceiptStored, Ledger!Complete
    <3>. QED
      BY <2>2, <3>1 DEF Ledger!Next
  <2>4. CASE r.requester # n
    <3>1. Ledger!RecordProvider(r.conv)
      BY <1>6, <2>1, <2>4, RowInserted, RowAwaited
         DEF NInv, ReceiptStored, Ledger!RecordProvider
    <3>. QED
      BY <2>2, <3>1 DEF Ledger!Next
  <2>. QED
    BY <2>3, <2>4
<1>7. ASSUME NEW c \in Conv, SubmitIntent(c)
      PROVE  [Ledger!Next]_(Ledger!ledger)
  <2>1. Ledger!Submit(c)
    BY <1>7 DEF SubmitIntent, Ledger!Submit, RequesterRows, ProviderRows
  <2>. QED
    BY <2>1 DEF Ledger!Next
<1>8. ASSUME NEW n \in Node, Stop(n)
      PROVE  [Ledger!Next]_(Ledger!ledger)
  BY <1>8, StopLedger DEF Ledger!Next
<1>. QED
  BY <1>1, <1>3, <1>4, <1>5, <1>6, <1>7, <1>8
     DEF Next, Handle, vars, ServeCard, HandleRequestRound1, ReceivePropose,
         ReceiveInform, Publish, FoundRecord, Restart, LoseCard, LoseAcl

\* The event loops implement the ledger: for any number of daemons and
\* conversations, any losses and any stops, an outcome is answered only once
\* its row is on disk, "no matching capability" only of a task that never ran,
\* and no task runs twice.
THEOREM LedgerImplemented == Spec => ImplementsLedger
BY LedgerInit, LedgerNext, NegotiationInvariance, PTL
   DEF Spec, ImplementsLedger, Ledger!Spec

-----------------------------------------------------------------------------
(* What the ledger promises.                                               *)

\* Every step of the ledger keeps the answers and the rows trustworthy.
LEMMA TrustworthyNext ==
    ASSUME TypeOK, Ledger!Trustworthy,
           [Ledger!Next]_(Ledger!ledger)
    PROVE  Ledger!Trustworthy'
<1>. USE DEF Ledger!Trustworthy
<1>0. /\ DOMAIN reply = Conv /\ reply = [c \in Conv |-> reply[c]]
      /\ executions \in [Conv -> Nat]
      /\ RequesterRows \subseteq Conv /\ ProviderRows \subseteq Conv
  BY DEF TypeOK, RequesterRows, ProviderRows
<1>1. CASE UNCHANGED (Ledger!ledger)
  BY <1>1 DEF Ledger!ledger
<1>2. ASSUME NEW c \in Conv, Ledger!Submit(c)
      PROVE  Ledger!Trustworthy'
  BY <1>0, <1>2 DEF Ledger!Submit
<1>3. ASSUME NEW c \in Conv, Ledger!Execute(c)
      PROVE  Ledger!Trustworthy'
  BY <1>0, <1>3 DEF Ledger!Execute
<1>4. ASSUME NEW c \in Conv, Ledger!RecordProvider(c)
      PROVE  Ledger!Trustworthy'
  BY <1>0, <1>4 DEF Ledger!RecordProvider
<1>5. ASSUME NEW c \in Conv, Ledger!Complete(c)
      PROVE  Ledger!Trustworthy'
  BY <1>0, <1>5 DEF Ledger!Complete
<1>6. ASSUME NEW c \in Conv, Ledger!NoMatch(c)
      PROVE  Ledger!Trustworthy'
  BY <1>0, <1>6 DEF Ledger!NoMatch
<1>7. ASSUME NEW D \in SUBSET Conv, NEW R \in SUBSET Conv,
             NEW P \in SUBSET Conv, Ledger!Halt(D, R, P)
      PROVE  Ledger!Trustworthy'
  BY <1>0, <1>7 DEF Ledger!Halt
<1>. QED
  BY <1>1, <1>2, <1>3, <1>4, <1>5, <1>6, <1>7 DEF Ledger!Next

\* A caller that was told an outcome has its receipt on disk and a task that
\* ran once behind it, whatever stopped since; a caller that was told there is
\* no matching capability has caused no execution.
THEOREM AnswersTrustworthy == Spec => []Ledger!Trustworthy
<1>1. Init => Ledger!Trustworthy
  BY MapAssumption
     DEF Init, Ledger!Trustworthy, RequesterRows, ProviderRows
<1>2. NInv /\ Ledger!Trustworthy /\ [Next]_vars => Ledger!Trustworthy'
  BY LedgerNext, TrustworthyNext DEF NInv, IInv
<1>. QED
  BY <1>1, <1>2, NegotiationInvariance, PTL DEF Spec
=============================================================================
