--------------------------- MODULE DiscoveryProofs ---------------------------
(***************************************************************************)
(* Proofs about Discovery: a peer is known only after a handshake, and is   *)
(* announced once, for any number of peers and any sizes of the routing    *)
(* table and of the event channel.                                         *)
(***************************************************************************)
EXTENDS Discovery, FiniteSetTheorems, TLAPS

Has(s, p) == \E i \in 1..Len(s) : s[i] = p

\* A sequence names each peer once at most; it may repeat LISTENING.
NamesOnce(s) ==
    \A i, j \in 1..Len(s) : s[i] = s[j] /\ s[i] \in Peer => i = j

\* Every peer in known_peers is in exactly one of the three places an event can
\* be in, and no other peer is in any.
InOnePlace ==
    /\ NamesOnce(read) /\ NamesOnce(events) /\ NamesOnce(dropped)
    /\ \A p \in Peer :
          /\ p \in known_peers <=> Has(read, p) \/ Has(events, p) \/ Has(dropped, p)
          /\ ~(Has(read, p) /\ Has(events, p))
          /\ ~(Has(read, p) /\ Has(dropped, p))
          /\ ~(Has(events, p) /\ Has(dropped, p))

\* Who is connected or identified was met, and so was who Kademlia speaks of.
Met ==
    /\ connected \subseteq met /\ \A x \in identified : x[1] \in met
    /\ known_peers \cup routing \cup pending \subseteq met \cap Speaks
    /\ \A i \in 1..Len(updates) : updates[i][1] \in met \cap Speaks

\* The inductive invariant.
DInv == TypeOK /\ IsFiniteSet(routing) /\ Met /\ InOnePlace
-----------------------------------------------------------------------------
LEMMA AppendNames ==
    ASSUME NEW s \in Seq(Event), NEW x \in Event
    PROVE  /\ Append(s, x) \in Seq(Event) /\ Len(Append(s, x)) = Len(s) + 1
           /\ \A p : Has(Append(s, x), p) <=> Has(s, p) \/ p = x
           /\ NamesOnce(s) /\ (x \in Peer => ~Has(s, x)) =>
                  NamesOnce(Append(s, x))
<1>1. /\ Append(s, x) \in Seq(Event) /\ Len(Append(s, x)) = Len(s) + 1
      /\ \A i \in 1..Len(s) : Append(s, x)[i] = s[i]
      /\ Append(s, x)[Len(s) + 1] = x /\ Len(s) \in Nat
  OBVIOUS
<1>. DEFINE a == Append(s, x)
<1>. HIDE DEF a
<1>2. \A p : Has(a, p) <=> Has(s, p) \/ p = x
  BY <1>1 DEF Has, a
<1>3. NamesOnce(s) /\ (x \in Peer => ~Has(s, x)) => NamesOnce(a)
  BY <1>1 DEF Has, NamesOnce, a
<1>. QED
  BY <1>1, <1>2, <1>3 DEF a

LEMMA TailNames ==
    ASSUME NEW s \in Seq(Event), s # <<>>, NamesOnce(s)
    PROVE  /\ Tail(s) \in Seq(Event) /\ Len(Tail(s)) = Len(s) - 1
           /\ Head(s) \in Event
           /\ \A p : Has(s, p) <=> Has(Tail(s), p) \/ p = Head(s)
           /\ NamesOnce(Tail(s))
           /\ Head(s) \in Peer => ~Has(Tail(s), Head(s))
<1>. DEFINE u == Tail(s)
<1>1. /\ u \in Seq(Event) /\ Len(s) \in Nat /\ Len(s) > 0 /\ Len(u) = Len(s) - 1
      /\ Head(s) = s[1] /\ Head(s) \in Event
      /\ \A i \in 1..Len(u) : i + 1 \in 1..Len(s) /\ u[i] = s[i + 1]
  OBVIOUS
<1>. HIDE DEF u
<1>2. ASSUME NEW p, Has(s, p), p # s[1] PROVE Has(u, p)
  <2>1. PICK i \in 1..Len(s) : s[i] = p
    BY <1>2 DEF Has
  <2>2. i - 1 \in 1..Len(u) /\ u[i - 1] = p
    BY <1>1, <1>2, <2>1
  <2>. QED
    BY <2>2 DEF Has
<1>3. 1 \in 1..Len(s)
  BY <1>1
<1>4. \A p : Has(u, p) \/ p = s[1] => Has(s, p)
  BY <1>1, <1>3 DEF Has
<1>5. NamesOnce(u)
  BY <1>1 DEF NamesOnce
<1>6. s[1] \in Peer => ~Has(u, s[1])
  BY <1>1, <1>3 DEF NamesOnce, Has
<1>. QED
  BY <1>1, <1>2, <1>4, <1>5, <1>6 DEF u

\* Three sequences that each name a peer once, and not the same peers, name it
\* once when they are put one after the other.
LEMMA NamesOnceTogether ==
    ASSUME NEW r \in Seq(Event), NEW e \in Seq(Event), NEW d \in Seq(Event),
           NamesOnce(r), NamesOnce(e), NamesOnce(d), NEW p \in Peer,
           ~(Has(r, p) /\ Has(e, p)), ~(Has(r, p) /\ Has(d, p)),
           ~(Has(e, p) /\ Has(d, p))
    PROVE  Cardinality({i \in DOMAIN (r \o e \o d) : (r \o e \o d)[i] = p})
             = IF Has(r, p) \/ Has(e, p) \/ Has(d, p) THEN 1 ELSE 0
<1>. DEFINE all == r \o e \o d
            at == {i \in DOMAIN all : all[i] = p}
<1>1. /\ Len(r) \in Nat /\ Len(e) \in Nat /\ Len(d) \in Nat
      /\ r \o e \in Seq(Event) /\ Len(r \o e) = Len(r) + Len(e)
      /\ \A i \in 1..(Len(r) + Len(e)) :
            (r \o e)[i] = IF i <= Len(r) THEN r[i] ELSE e[i - Len(r)]
  OBVIOUS
<1>2. /\ all \in Seq(Event) /\ Len(all) = Len(r) + Len(e) + Len(d)
      /\ DOMAIN all = 1..Len(all)
      /\ \A i \in 1..Len(all) :
            all[i] = IF i <= Len(r) + Len(e) THEN (r \o e)[i]
                                             ELSE d[i - Len(r) - Len(e)]
  BY <1>1
<1>. HIDE DEF all
<1>3. \A i \in 1..Len(all) :
         \/ i \in 1..Len(r) /\ all[i] = r[i]
         \/ i - Len(r) \in 1..Len(e) /\ all[i] = e[i - Len(r)]
         \/ i - Len(r) - Len(e) \in 1..Len(d) /\ all[i] = d[i - Len(r) - Len(e)]
  BY <1>1, <1>2
<1>4. \A i, j \in at : i = j
  <2>. SUFFICES ASSUME NEW i \in 1..Len(all), NEW j \in 1..Len(all),
                       all[i] = p, all[j] = p
                PROVE  i = j
    BY <1>2
  <2>1. \A k \in {i, j} :
           \/ k \in 1..Len(r) /\ r[k] = p /\ Has(r, p)
           \/ k - Len(r) \in 1..Len(e) /\ e[k - Len(r)] = p /\ Has(e, p)
           \/ /\ k - Len(r) - Len(e) \in 1..Len(d)
              /\ d[k - Len(r) - Len(e)] = p /\ Has(d, p)
    BY <1>3 DEF Has
  <2>2. CASE Has(r, p)
    BY <2>1, <2>2 DEF NamesOnce
  <2>3. CASE Has(e, p)
    <3>1. i - Len(r) = j - Len(r)
      BY <2>1, <2>3 DEF NamesOnce
    <3>. QED
      BY <1>1, <3>1
  <2>4. CASE Has(d, p)
    <3>1. i - Len(r) - Len(e) = j - Len(r) - Len(e)
      BY <2>1, <2>4 DEF NamesOnce
    <3>. QED
      BY <1>1, <3>1
  <2>. QED
    BY <2>1, <2>2, <2>3, <2>4
<1>5. CASE Has(r, p) \/ Has(e, p) \/ Has(d, p)
  <2>1. \E i \in 1..Len(all) : all[i] = p
    <3>1. ASSUME NEW i \in 1..Len(r), r[i] = p
          PROVE  i \in 1..Len(all) /\ all[i] = p
      BY <1>1, <1>2, <3>1
    <3>2. ASSUME NEW i \in 1..Len(e), e[i] = p
          PROVE  i + Len(r) \in 1..Len(all) /\ all[i + Len(r)] = p
      BY <1>1, <1>2, <3>2
    <3>3. ASSUME NEW i \in 1..Len(d), d[i] = p
          PROVE  /\ i + Len(r) + Len(e) \in 1..Len(all)
                 /\ all[i + Len(r) + Len(e)] = p
      <4>1. /\ i + Len(r) + Len(e) \in 1..Len(all)
            /\ ~(i + Len(r) + Len(e) <= Len(r) + Len(e))
            /\ (i + Len(r) + Len(e)) - Len(r) - Len(e) = i
        BY <1>1, <1>2
      <4>. QED
        BY <1>2, <3>3, <4>1
    <3>. QED
      BY <1>5, <3>1, <3>2, <3>3 DEF Has
  <2>2. PICK i \in 1..Len(all) : all[i] = p
    BY <2>1
  <2>3. at = {i}
    BY <1>2, <1>4, <2>2
  <2>. QED
    BY <1>5, <2>3, FS_Singleton DEF all
<1>6. CASE ~(Has(r, p) \/ Has(e, p) \/ Has(d, p))
  <2>1. at = {}
    BY <1>2, <1>3, <1>6 DEF Has
  <2>. QED
    BY <1>6, <2>1, FS_EmptySet DEF all
<1>. QED
  BY <1>5, <1>6 DEF all
-----------------------------------------------------------------------------
LEMMA DInvInit == Init => DInv
<1>. SUFFICES ASSUME Init PROVE DInv
  OBVIOUS
<1>1. IsFiniteSet(routing) /\ Cardinality(routing) = 0
  BY FS_EmptySet DEF Init
<1>2. TypeOK
  BY <1>1, DiscoveryAssumption DEF Init, TypeOK
<1>3. Met
  BY DEF Init, Met
<1>4. InOnePlace
  BY DEF Init, InOnePlace, NamesOnce, Has
<1>. QED
  BY <1>1, <1>2, <1>3, <1>4 DEF DInv

\* What a step of Kademlia's table about peer p may do: the bucket keeps its
\* size, the slot holds one peer, and only p is added or reported.
Reported(p) ==
    /\ updates' \in Seq(Peer \X BOOLEAN)
    /\ \A i \in 1..Len(updates') :
          updates'[i][1] = p \/ (i \in 1..Len(updates) /\ updates'[i] = updates[i])
TableStep(p) ==
    /\ routing' \subseteq routing \cup {p}
    /\ IsFiniteSet(routing') /\ Cardinality(routing') <= BucketSize
    /\ pending' \subseteq (pending \cup {p}) \ routing'
    /\ \A x, y \in pending' : x = y
    /\ online' \subseteq routing' \cup pending'
    /\ Reported(p)

LEMMA UpdatesReported ==
    ASSUME DInv, NEW p \in Peer,
           \/ UNCHANGED updates
           \/ \E b \in BOOLEAN : updates' = Append(updates, <<p, b>>)
    PROVE  Reported(p)
<1>1. CASE UNCHANGED updates
  BY <1>1 DEF DInv, TypeOK, Reported
<1>2. ASSUME NEW b \in BOOLEAN, updates' = Append(updates, <<p, b>>)
      PROVE  Reported(p)
  <2>1. <<p, b>> \in Peer \X BOOLEAN /\ <<p, b>>[1] = p
    OBVIOUS
  <2>. DEFINE x == <<p, b>>
  <2>. HIDE DEF x
  <2>2. updates \in Seq(Peer \X BOOLEAN) /\ updates' = Append(updates, x)
    BY <1>2 DEF DInv, TypeOK, x
  <2>3. /\ updates' \in Seq(Peer \X BOOLEAN)
        /\ \A i \in 1..Len(updates') :
              updates'[i] = x \/ (i \in 1..Len(updates) /\ updates'[i] = updates[i])
    BY <2>1, <2>2 DEF x
  <2>. QED
    BY <2>1, <2>3 DEF Reported, x
<1>. QED
  BY <1>1, <1>2

LEMMA InsertSteps ==
    ASSUME DInv, NEW p \in Peer, Insert(p)
    PROVE  TableStep(p)
<1>. USE DiscoveryAssumption
<1>1. /\ Cardinality(routing) \in Nat /\ Cardinality(routing) <= BucketSize
      /\ IsFiniteSet(routing)
      /\ pending \cap routing = {} /\ \A x, y \in pending : x = y
      /\ online \subseteq routing \cup pending
  BY FS_CardinalityType DEF DInv, TypeOK
<1>2. Reported(p)
  BY UpdatesReported DEF Insert, kadVars
<1>3. CASE UNCHANGED tableVars
  BY <1>1, <1>2, <1>3 DEF tableVars, TableStep
<1>4. CASE /\ p \notin routing \cup pending /\ ~Full
           /\ routing' = routing \cup {p}
           /\ online' = online \cup ({p} \cap connected)
           /\ UNCHANGED pending
  <2>1. IsFiniteSet(routing \cup {p})
        /\ Cardinality(routing \cup {p}) = Cardinality(routing) + 1
    BY <1>4, FS_AddElement DEF DInv
  <2>2. Cardinality(routing') <= BucketSize
    BY <1>1, <1>4, <2>1 DEF Full
  <2>. QED
    BY <1>1, <1>2, <1>4, <2>1, <2>2 DEF TableStep
<1>5. CASE /\ p \notin routing /\ pending = {}
           /\ pending' = {p} /\ online' = online \cup {p}
           /\ UNCHANGED routing
  BY <1>1, <1>2, <1>5 DEF TableStep
<1>. QED
  BY <1>3, <1>4, <1>5 DEF Insert, kadVars

LEMMA ApplyPendingSteps ==
    ASSUME DInv, ApplyPending
    PROVE  \E p \in pending : TableStep(p)
<1>. USE DiscoveryAssumption
<1>1. /\ Cardinality(routing) \in Nat /\ Cardinality(routing) <= BucketSize
      /\ IsFiniteSet(routing)
      /\ pending \subseteq Peer \ routing /\ \A x, y \in pending : x = y
      /\ online \subseteq routing \cup pending
  BY FS_CardinalityType DEF DInv, TypeOK
<1>2. PICK p \in pending :
        /\ pending' = {}
        /\ \/ \E q \in routing \ online :
                 /\ routing' = (routing \ {q}) \cup {p}
                 /\ updates' = Append(updates, <<p, TRUE>>)
                 /\ UNCHANGED online
           \/ /\ online' = online \ {p}
              /\ UNCHANGED <<routing, updates>>
  BY DEF ApplyPending
<1>3. p \in Peer /\ p \notin routing /\ pending = {p}
  BY <1>1
<1>4. Reported(p)
  BY <1>2, <1>3, UpdatesReported
<1>5. ASSUME NEW q \in routing \ online, routing' = (routing \ {q}) \cup {p},
             UNCHANGED online
      PROVE  TableStep(p)
  <2>1. IsFiniteSet(routing \ {q})
        /\ Cardinality(routing \ {q}) = Cardinality(routing) - 1
    BY FS_RemoveElement DEF DInv
  <2>2. IsFiniteSet(routing')
        /\ Cardinality(routing') = Cardinality(routing \ {q}) + 1
    BY <1>3, <1>5, <2>1, FS_AddElement
  <2>3. Cardinality(routing') <= BucketSize
    BY <1>1, <2>1, <2>2
  <2>. QED
    BY <1>1, <1>2, <1>3, <1>4, <1>5, <2>2, <2>3 DEF TableStep
<1>6. CASE online' = online \ {p} /\ UNCHANGED routing
  BY <1>1, <1>2, <1>3, <1>4, <1>6 DEF TableStep
<1>. QED
  BY <1>2, <1>5, <1>6

\* Such a step about a peer that was met and speaks Kademlia keeps the invariant.
LEMMA TableStepKeeps ==
    ASSUME DInv, NEW p \in met \cap Speaks, TableStep(p),
           identified' \subseteq identified,
           UNCHANGED <<dialing, connected, connects, met,
                       loopVars>>
    PROVE  DInv'
<1>1. p \in Peer
  BY DiscoveryAssumption
<1>2. UNCHANGED <<known_peers, addrs, events, read, dropped>>
  BY DEF loopVars
<1>3. TypeOK' /\ IsFiniteSet(routing')
  BY <1>1, <1>2 DEF DInv, TypeOK, TableStep, Reported
<1>4. Met'
  <2>1. \A i \in 1..Len(updates') : updates'[i][1] \in met \cap Speaks
    BY DEF DInv, Met, TableStep, Reported
  <2>2. routing' \cup pending' \subseteq met \cap Speaks
    BY DEF DInv, Met, TableStep
  <2>. QED
    BY <1>2, <2>1, <2>2 DEF DInv, Met
<1>5. InOnePlace'
  BY <1>2 DEF DInv, InOnePlace, NamesOnce, Has
<1>. QED
  BY <1>3, <1>4, <1>5 DEF DInv

\* emit puts an event in one of two places, and known_peers notes a new peer.
LEMMA EmitKeeps ==
    ASSUME DInv, NEW e \in Event, Emit(e), e \notin known_peers,
           known_peers' = known_peers \cup ({e} \cap Peer),
           UNCHANGED read
    PROVE  /\ InOnePlace'
           /\ events' \in Seq(Event) /\ Len(events') <= EventCap
           /\ dropped' \in Seq(Event)
<1>. USE DiscoveryAssumption
<1>1. /\ read \in Seq(Event) /\ events \in Seq(Event) /\ dropped \in Seq(Event)
      /\ Len(events) \in Nat /\ Len(events) <= EventCap
  BY DEF DInv, TypeOK
<1>2. e \in Peer => ~Has(read, e) /\ ~Has(events, e) /\ ~Has(dropped, e)
  BY DEF DInv, InOnePlace
<1>3. CASE /\ Len(events) < EventCap
           /\ events' = Append(events, e) /\ UNCHANGED dropped
  <2>1. /\ events' \in Seq(Event) /\ Len(events') = Len(events) + 1
        /\ \A p : Has(events', p) <=> Has(events, p) \/ p = e
        /\ NamesOnce(events')
    BY <1>1, <1>2, <1>3, AppendNames DEF DInv, InOnePlace
  <2>2. InOnePlace'
    BY <1>2, <1>3, <2>1 DEF DInv, InOnePlace
  <2>. QED
    BY <1>1, <1>3, <2>1, <2>2
<1>4. CASE dropped' = Append(dropped, e) /\ UNCHANGED events
  <2>1. /\ dropped' \in Seq(Event)
        /\ \A p : Has(dropped', p) <=> Has(dropped, p) \/ p = e
        /\ NamesOnce(dropped')
    BY <1>1, <1>2, <1>4, AppendNames DEF DInv, InOnePlace
  <2>2. InOnePlace'
    BY <1>2, <1>4, <2>1 DEF DInv, InOnePlace
  <2>. QED
    BY <1>1, <1>4, <2>1, <2>2
<1>. QED
  BY <1>3, <1>4 DEF Emit
-----------------------------------------------------------------------------
LEMMA HandleRoutingUpdatedKeeps ==
    ASSUME DInv, HandleRoutingUpdated PROVE DInv'
<1>1. UNCHANGED <<dialing, connected, connects, met,
                  identified, routing, pending, online, addrs, read>>
  BY DEF HandleRoutingUpdated, netVars, tableVars
<1>2. /\ updates' \in Seq(Peer \X BOOLEAN)
      /\ Head(updates) = updates[1] /\ 1 \in 1..Len(updates)
      /\ \A i \in 1..Len(updates') :
            i + 1 \in 1..Len(updates) /\ updates'[i] = updates[i + 1]
  BY DEF HandleRoutingUpdated, DInv, TypeOK
<1>3. Head(updates)[1] \in met \cap Speaks \cap Peer
  BY <1>2, DiscoveryAssumption DEF DInv, Met
<1>4. \A i \in 1..Len(updates') : updates'[i][1] \in met \cap Speaks
  BY <1>2 DEF DInv, Met
<1>5. CASE UNCHANGED <<known_peers, events, dropped>>
  <2>1. TypeOK'
    BY <1>1, <1>2, <1>5 DEF DInv, TypeOK
  <2>2. Met'
    BY <1>1, <1>4, <1>5 DEF DInv, Met
  <2>3. InOnePlace'
    BY <1>1, <1>5 DEF DInv, InOnePlace, NamesOnce, Has
  <2>. QED
    BY <1>1, <2>1, <2>2, <2>3 DEF DInv
<1>6. ASSUME NEW p \in Peer, p = Head(updates)[1], p \notin known_peers,
             known_peers' = known_peers \cup {p}, Emit(p)
      PROVE  DInv'
  <2>1. p \in Event /\ known_peers' = known_peers \cup ({p} \cap Peer)
    BY <1>6 DEF Event
  <2>2. /\ InOnePlace'
        /\ events' \in Seq(Event) /\ Len(events') <= EventCap
        /\ dropped' \in Seq(Event)
    BY <1>1, <1>6, <2>1, EmitKeeps
  <2>3. TypeOK'
    BY <1>1, <1>2, <1>6, <2>2 DEF DInv, TypeOK
  <2>4. Met'
    BY <1>1, <1>3, <1>4, <1>6 DEF DInv, Met
  <2>. QED
    BY <1>1, <2>2, <2>3, <2>4 DEF DInv
<1>. QED
  BY <1>3, <1>5, <1>6 DEF HandleRoutingUpdated

LEMMA NewListenAddrKeeps ==
    ASSUME DInv, NewListenAddr PROVE DInv'
<1>1. UNCHANGED <<dialing, connected, connects, met,
                  identified, routing, pending, online, updates,
                  known_peers, read>>
  BY DEF NewListenAddr, netVars, kadVars, tableVars
<1>2. /\ LISTENING \in Event /\ LISTENING \notin known_peers
      /\ known_peers' = known_peers \cup ({LISTENING} \cap Peer)
  BY <1>1, DiscoveryAssumption DEF Event, DInv, TypeOK
<1>3. /\ InOnePlace'
      /\ events' \in Seq(Event) /\ Len(events') <= EventCap
      /\ dropped' \in Seq(Event)
  BY <1>1, <1>2, EmitKeeps DEF NewListenAddr
<1>4. addrs' \in 0..MaxAddrs
  BY DiscoveryAssumption DEF NewListenAddr, DInv, TypeOK
<1>5. TypeOK' /\ Met'
  BY <1>1, <1>3, <1>4 DEF DInv, TypeOK, Met
<1>. QED
  BY <1>1, <1>3, <1>5 DEF DInv

LEMMA ReceiveKeeps ==
    ASSUME DInv, Receive PROVE DInv'
<1>1. UNCHANGED <<dialing, connected, connects, met,
                  identified, routing, pending, online, updates,
                  known_peers, addrs, dropped>>
  BY DEF Receive, netVars, kadVars, tableVars
<1>2. /\ events' = Tail(events) /\ read' = Append(read, Head(events))
      /\ read \in Seq(Event) /\ events \in Seq(Event) /\ events # <<>>
      /\ Len(events) \in Nat /\ Len(events) <= EventCap /\ EventCap \in Nat
      /\ NamesOnce(events) /\ NamesOnce(read)
  BY DiscoveryAssumption DEF Receive, DInv, TypeOK, InOnePlace
<1>. DEFINE e == Head(events)
<1>3. /\ events' \in Seq(Event) /\ Len(events') = Len(events) - 1
      /\ e \in Event
      /\ \A p : Has(events, p) <=> Has(events', p) \/ p = e
      /\ NamesOnce(events')
      /\ e \in Peer => ~Has(events', e)
  BY <1>2, TailNames
<1>4. e \in Peer => ~Has(read, e)
  BY <1>3 DEF DInv, InOnePlace
<1>5. /\ read' \in Seq(Event)
      /\ \A p : Has(read', p) <=> Has(read, p) \/ p = e
      /\ NamesOnce(read')
  BY <1>2, <1>3, <1>4, AppendNames
<1>. HIDE DEF e
<1>6. InOnePlace'
  BY <1>1, <1>3, <1>4, <1>5 DEF DInv, InOnePlace
<1>7. TypeOK' /\ Met'
  BY <1>1, <1>2, <1>3, <1>5 DEF DInv, TypeOK, Met
<1>. QED
  BY <1>1, <1>6, <1>7 DEF DInv

\* What the network does leaves the events of the daemon alone, and of its table
\* changes the status of a peer that disconnects.
LEMMA NetworkKeeps ==
    ASSUME DInv, NEW p \in Peer,
           \/ MdnsDiscovered(p) \/ DialFails(p) \/ Disconnect(p)
           \/ \E listens \in BOOLEAN : Connect(p, listens)
    PROVE  DInv'
<1>1. /\ UNCHANGED <<routing, pending, updates, known_peers, addrs, events, read,
                     dropped>>
      /\ online' \subseteq online
  BY DEF MdnsDiscovered, HandleMdns, DialFails, Connect, Disconnect,
         kadVars, tableVars, loopVars
<1>2. TypeOK'
  BY <1>1, DiscoveryAssumption
     DEF DInv, TypeOK, MdnsDiscovered, HandleMdns, DialFails,
         Connect, Disconnect
<1>3. /\ connected' \subseteq met' /\ met \subseteq met'
      /\ \A x \in identified' : x[1] \in met'
  BY DEF DInv, Met, MdnsDiscovered, DialFails, Connect, Disconnect
<1>4. Met'
  BY <1>1, <1>3 DEF DInv, Met
<1>5. InOnePlace'
  BY <1>1 DEF DInv, InOnePlace, NamesOnce, Has
<1>. QED
  BY <1>1, <1>2, <1>4, <1>5 DEF DInv

LEMMA ProtocolConfirmedKeeps ==
    ASSUME DInv, NEW p \in Peer, ProtocolConfirmed(p) PROVE DInv'
<1>1. p \in met \cap Speaks
  BY DEF ProtocolConfirmed, DInv, Met
<1>2. CASE Insert(p)
  BY <1>1, <1>2, InsertSteps, TableStepKeeps DEF ProtocolConfirmed, netVars
<1>3. CASE /\ p \in routing \cup pending /\ UNCHANGED <<routing, updates>>
           /\ \/ online' = online \cup {p} /\ UNCHANGED pending
              \/ /\ p \in routing /\ pending' = {}
                 /\ online' = (online \ pending) \cup {p}
  <2>1. Reported(p)
    BY <1>3, UpdatesReported
  <2>2. TableStep(p)
    BY <1>3, <2>1 DEF DInv, TypeOK, TableStep
  <2>. QED
    BY <1>1, <2>2, TableStepKeeps DEF ProtocolConfirmed, netVars
<1>. QED
  BY <1>2, <1>3 DEF ProtocolConfirmed

LEMMA DInvNext == DInv /\ [Next]_vars => DInv'
<1>. SUFFICES ASSUME DInv, [Next]_vars PROVE DInv'
  OBVIOUS
<1>1. ASSUME UNCHANGED <<dialing, connected, connects, met,
                         kadVars, loopVars>>,
             identified' \subseteq identified
      PROVE  DInv'
  BY <1>1 DEF kadVars, tableVars, loopVars, DInv, TypeOK, Met, InOnePlace,
              NamesOnce, Has
<1>2. CASE UNCHANGED vars
  BY <1>1, <1>2 DEF vars, netVars
<1>3. ASSUME NEW p \in Peer, NEW listens \in BOOLEAN, HandleIdentify(p, listens)
      PROVE  DInv'
  <2>1. p \in met /\ identified' \subseteq identified
    BY <1>3 DEF HandleIdentify, DInv, Met
  <2>2. CASE p \in Speaks /\ listens
    BY <1>3, <2>1, <2>2, InsertSteps, TableStepKeeps DEF HandleIdentify
  <2>3. CASE ~(p \in Speaks /\ listens)
    BY <1>1, <1>3, <2>1, <2>3 DEF HandleIdentify
  <2>. QED
    BY <2>2, <2>3
<1>4. CASE ApplyPending
  <2>1. PICK p \in pending : TableStep(p)
    BY <1>4, ApplyPendingSteps
  <2>2. p \in met \cap Speaks
    BY DEF DInv, Met
  <2>. QED
    BY <1>4, <2>1, <2>2, TableStepKeeps DEF ApplyPending, netVars
<1>. QED
  BY <1>2, <1>3, <1>4, ProtocolConfirmedKeeps, HandleRoutingUpdatedKeeps,
     NewListenAddrKeeps, ReceiveKeeps, NetworkKeeps DEF Next

LEMMA DiscoveryInvariance == Spec => []DInv
BY DInvInit, DInvNext, PTL DEF Spec

\* The routing table and the event channel stay within their sizes.
THEOREM DiscoveryTypeCorrect == Spec => []TypeOK
BY DiscoveryInvariance, PTL DEF DInv

\* No peer is known, has or awaits a place in the routing table or is reported
\* by it unless it speaks Kademlia and a connection to it existed before.
THEOREM KnownAfterHandshakeCorrect == Spec => []KnownAfterHandshake
<1>1. DInv => KnownAfterHandshake
  BY DEF DInv, TypeOK, Met, KnownAfterHandshake, Range
<1>. QED
  BY <1>1, DiscoveryInvariance, PTL

\* PeerDiscovered is emitted exactly once for each known peer and for no other,
\* however often the peer comes and goes and whatever the channel loses.
THEOREM AnnouncedOnceCorrect == Spec => []AnnouncedOnce
<1>1. DInv => AnnouncedOnce
  <2>. SUFFICES ASSUME DInv, NEW p \in Peer
                PROVE  Cardinality({i \in DOMAIN Announced : Announced[i] = p})
                         = IF p \in known_peers THEN 1 ELSE 0
    BY DEF AnnouncedOnce
  <2>1. Cardinality({i \in DOMAIN Announced : Announced[i] = p})
          = IF Has(read, p) \/ Has(events, p) \/ Has(dropped, p) THEN 1 ELSE 0
    <3>1. /\ read \in Seq(Event) /\ events \in Seq(Event)
          /\ dropped \in Seq(Event)
          /\ NamesOnce(read) /\ NamesOnce(events) /\ NamesOnce(dropped)
          /\ ~(Has(read, p) /\ Has(events, p))
          /\ ~(Has(read, p) /\ Has(dropped, p))
          /\ ~(Has(events, p) /\ Has(dropped, p))
      BY DEF DInv, TypeOK, InOnePlace
    <3>. QED
      BY <3>1, NamesOnceTogether DEF Announced
  <2>. QED
    BY <2>1 DEF DInv, InOnePlace
<1>. QED
  BY <1>1, DiscoveryInvariance, PTL
=============================================================================
