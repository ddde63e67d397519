------------------------------ MODULE Discovery ------------------------------
(***************************************************************************)
(* How a daemon comes to know its peers (handle_mdns, handle_identify and  *)
(* the RoutingUpdated arm of handle_kad in crates/kited/src/event_loop.rs) *)
(* and tells the owner of its handle, over a bounded channel that loses    *)
(* what does not fit.                                                      *)
(*                                                                         *)
(* libp2p is external: mDNS sees peers come and go, a dial may fail, a     *)
(* connection may come from either side and may close, and identify        *)
(* reports what the other side speaks and where it listens, if anywhere.   *)
(* Of Kademlia's routing table one k-bucket is modelled, as peers of other *)
(* buckets do not compete for a place: when it is full, a connected peer   *)
(* may wait in a single pending slot for the place of a disconnected one,  *)
(* which it is given after a timeout.                                      *)
(***************************************************************************)
EXTENDS Naturals, Sequences, FiniteSets, Functions

CONSTANTS
    Peer,         \* the other peers
    Subnet,       \* those mDNS can see: the others dial in
    Speaks,       \* those that announce kad::PROTOCOL_NAME
    BucketSize,   \* places of the bucket: K_VALUE, 20
    EventCap,     \* slots of the event channel: 32
    MaxAddrs,     \* bound: listen addresses reported
    MaxConnects,  \* bound: connections made
    LISTENING     \* KitedEvent::Listening

ASSUME DiscoveryAssumption ==
    /\ Subnet \subseteq Peer /\ Speaks \subseteq Peer /\ LISTENING \notin Peer
    /\ BucketSize \in Nat /\ EventCap \in Nat \ {0}
    /\ MaxAddrs \in Nat /\ MaxConnects \in Nat

VARIABLES
    dialing,      \* dials under way
    connected,    \* peers with a connection
    connects,     \* connections made so far
    met,          \* history: peers that ever were connected
    identified,   \* identify::Event::Received, yet to be handled: <<peer,
                  \* whether info.listen_addrs has an address>>
    routing,      \* the peers in the bucket
    pending,      \* the peer in its pending slot, if any
    online,       \* those of both whose NodeStatus is Connected
    updates,      \* RoutingUpdated events yet to be handled: <<peer, is_new>>
    known_peers,
    addrs,        \* listen addresses so far
    events,       \* the event channel
    read,         \* history: what the owner of the handle received
    dropped       \* history: what emit dropped

netVars == <<dialing, connected, connects, met, identified>>
tableVars == <<routing, pending, online>>
kadVars == <<tableVars, updates>>
loopVars == <<known_peers, addrs, events, read, dropped>>
vars == <<netVars, kadVars, loopVars>>
-----------------------------------------------------------------------------
Event == Peer \cup {LISTENING}

TypeOK ==
    /\ dialing \subseteq Peer /\ connected \subseteq Peer
    /\ met \subseteq Peer /\ identified \subseteq Peer \X BOOLEAN
    /\ known_peers \subseteq Peer
    /\ connects \in 0..MaxConnects /\ addrs \in 0..MaxAddrs
    /\ routing \subseteq Peer /\ Cardinality(routing) <= BucketSize
    /\ pending \subseteq Peer \ routing /\ \A p, q \in pending : p = q
    /\ online \subseteq routing \cup pending
    /\ updates \in Seq(Peer \X BOOLEAN)
    /\ events \in Seq(Event) /\ Len(events) <= EventCap
    /\ read \in Seq(Event) /\ dropped \in Seq(Event)

Init ==
    /\ dialing = {} /\ connected = {} /\ connects = 0 /\ met = {} /\ identified = {}
    /\ routing = {} /\ pending = {} /\ online = {} /\ updates = <<>>
    /\ known_peers = {} /\ addrs = 0 /\ events = <<>>
    /\ read = <<>> /\ dropped = <<>>
-----------------------------------------------------------------------------
\* A variant of Emit: the channel grows.
EmitUnbounded(e) == events' = Append(events, e) /\ UNCHANGED dropped

\* emit: try_send.
Emit(e) ==
    IF Len(events) < EventCap
    THEN events' = Append(events, e) /\ UNCHANGED dropped
    ELSE dropped' = Append(dropped, e) /\ UNCHANGED events

Full == Cardinality(routing) >= BucketSize

\* Kademlia::add_address, or the same on a connection: of a peer that has a place
\* an address may be learnt; a new one takes a free place, or waits in the
\* pending slot if it is connected and some other is not, or is refused.
Insert(p) ==
    \/ /\ p \in routing
       /\ updates' = Append(updates, <<p, FALSE>>)
       /\ UNCHANGED tableVars
    \/ /\ p \notin routing \cup pending
       /\ ~Full
       /\ routing' = routing \cup {p}
       /\ online' = online \cup ({p} \cap connected)
       /\ updates' = Append(updates, <<p, TRUE>>)
       /\ UNCHANGED pending
    \/ /\ p \in connected \ (routing \cup pending)
       /\ Full /\ pending = {} /\ ~(routing \subseteq online)
       /\ pending' = {p}
       /\ online' = online \cup {p}
       /\ UNCHANGED <<routing, updates>>
    \/ /\ p \notin routing
       /\ Full
       /\ p \in connected => pending # {} \/ routing \subseteq online
       /\ UNCHANGED kadVars

\* The timeout of the pending slot: its peer takes the place of a disconnected
\* one, or is given up when there is none any more.
ApplyPending ==
    \E p \in pending :
        /\ pending' = {}
        /\ \/ \E q \in routing \ online :
                 /\ routing' = (routing \ {q}) \cup {p}
                 /\ updates' = Append(updates, <<p, TRUE>>)
                 /\ UNCHANGED online
           \/ /\ routing \subseteq online
              /\ online' = online \ {p}
              /\ UNCHANGED <<routing, updates>>
        /\ UNCHANGED <<netVars, loopVars>>

\* A variant of HandleMdns: the address goes to Kademlia at once.
HandleMdnsAdds(p) == dialing' = dialing \cup {p} /\ Insert(p)

\* handle_mdns, Discovered: dial, and nothing else.
HandleMdns(p) == dialing' = dialing \cup {p} /\ UNCHANGED kadVars

\* mDNS reports a peer, for the first time or after it had expired; that it has
\* expired is ignored.
MdnsDiscovered(p) ==
    /\ p \in Subnet
    /\ HandleMdns(p)
    /\ UNCHANGED <<connected, connects, met, identified, loopVars>>

DialFails(p) ==
    /\ p \in dialing
    /\ dialing' = dialing \ {p}
    /\ UNCHANGED <<connected, connects, met, identified,
                   kadVars, loopVars>>

\* A connection is made, by either side's dial, and identify runs over it.
Connect(p, listens) ==
    /\ p \notin connected
    /\ connects < MaxConnects
    /\ connects' = connects + 1
    /\ dialing' = dialing \ {p}
    /\ connected' = connected \cup {p}
    /\ met' = met \cup {p}
    /\ identified' = identified \cup {<<p, listens>>}
    /\ UNCHANGED <<kadVars, loopVars>>

Disconnect(p) ==
    /\ p \in connected
    /\ connected' = connected \ {p}
    /\ online' = online \ {p}
    /\ UNCHANGED <<dialing, connects, met, identified,
                   routing, pending, updates, loopVars>>

\* A variant of HandleIdentify: the addresses are not passed on.
HandleIdentifyIgnored(p, listens) ==
    /\ <<p, listens>> \in identified
    /\ identified' = identified \ {<<p, listens>>}
    /\ UNCHANGED kadVars
    /\ UNCHANGED <<dialing, connected, connects, met, loopVars>>

\* handle_identify: add_address for a peer that speaks Kademlia, with each of
\* its listen addresses, so not at all when it reports none.
HandleIdentify(p, listens) ==
    /\ <<p, listens>> \in identified
    /\ identified' = identified \ {<<p, listens>>}
    /\ IF p \in Speaks /\ listens THEN Insert(p) ELSE UNCHANGED kadVars
    /\ UNCHANGED <<dialing, connected, connects, met, loopVars>>

\* Kademlia's own handler finds that a connected peer speaks its protocol.  Of
\* one it has it notes the status, which makes a waiting peer give up when the
\* place it waits for is the one that came back.
ProtocolConfirmed(p) ==
    /\ p \in connected \cap Speaks
    /\ \/ /\ p \notin routing \cup pending
          /\ Insert(p)
       \/ /\ p \in routing \cup pending
          /\ \/ online' = online \cup {p} /\ UNCHANGED pending
             \/ /\ p \in routing \ online
                /\ pending' = {}
                /\ online' = (online \ pending) \cup {p}
          /\ UNCHANGED <<routing, updates>>
    /\ UNCHANGED <<netVars, loopVars>>

\* A variant of HandleRoutingUpdated: each insertion is announced.
AnnounceEveryUpdate ==
    /\ updates # <<>>
    /\ updates' = Tail(updates)
    /\ LET p == Head(updates)[1] IN
       IF Head(updates)[2]
       THEN known_peers' = known_peers \cup {p} /\ Emit(p)
       ELSE UNCHANGED <<known_peers, events, dropped>>
    /\ UNCHANGED <<netVars, tableVars, addrs, read>>

\* The RoutingUpdated arm of handle_kad.
HandleRoutingUpdated ==
    /\ updates # <<>>
    /\ updates' = Tail(updates)
    /\ LET p == Head(updates)[1] IN
       IF Head(updates)[2] /\ p \notin known_peers
       THEN known_peers' = known_peers \cup {p} /\ Emit(p)
       ELSE UNCHANGED <<known_peers, events, dropped>>
    /\ UNCHANGED <<netVars, tableVars, addrs, read>>

\* The NewListenAddr arm of handle_swarm_event.
NewListenAddr ==
    /\ addrs < MaxAddrs
    /\ addrs' = addrs + 1
    /\ Emit(LISTENING)
    /\ UNCHANGED <<netVars, kadVars, known_peers, read>>

\* The owner of the handle receives an event; kited's main never does.
Receive ==
    /\ events # <<>>
    /\ read' = Append(read, Head(events))
    /\ events' = Tail(events)
    /\ UNCHANGED <<netVars, kadVars, known_peers, addrs, dropped>>
-----------------------------------------------------------------------------
Next ==
    \/ HandleRoutingUpdated \/ NewListenAddr \/ Receive \/ ApplyPending
    \/ \E p \in Peer :
          \/ MdnsDiscovered(p) \/ DialFails(p)
          \/ Disconnect(p) \/ ProtocolConfirmed(p)
          \/ \E listens \in BOOLEAN : Connect(p, listens) \/ HandleIdentify(p, listens)

Spec == Init /\ [][Next]_vars

\* What the loop does with events of the swarm, one after the other.
Handle ==
    \/ HandleRoutingUpdated
    \/ \E p \in Peer, listens \in BOOLEAN : HandleIdentify(p, listens)

\* The loop goes on polling the swarm.  Of the network, of Kademlia's timeouts
\* and of the owner of the handle nothing is assumed.
FairSpec == Spec /\ WF_vars(Handle)
-----------------------------------------------------------------------------
Announced == read \o events \o dropped

\* What handle_mdns says it dials without add_address for: no peer is announced,
\* or has a place in the routing table or waits for one, before a connection to
\* it existed, and only peers that speak Kademlia ever are.
KnownAfterHandshake ==
    known_peers \cup routing \cup pending \cup {u[1] : u \in Range(updates)}
        \subseteq met \cap Speaks

\* PeerDiscovered is emitted once per peer, however often the peer loses its
\* place in the table or its connection and comes back.
AnnouncedOnce ==
    \A p \in Peer :
        Cardinality({i \in DOMAIN Announced : Announced[i] = p})
            = IF p \in known_peers THEN 1 ELSE 0

\* A peer that speaks Kademlia and reports where it listens is announced: its
\* event is sent, or was, unless it disconnects first or all places are taken by
\* others, connected or not.  No reader of the events is needed for that.
ConnectedIsAnnounced ==
    \A p \in Speaks :
        (p \in connected /\ <<p, TRUE>> \in identified) ~>
            \/ p \in Range(Announced)
            \/ p \notin connected
            \/ Cardinality(routing \ {p}) = BucketSize
=============================================================================
