------------------------------ MODULE Directory ------------------------------
(***************************************************************************)
(* The LSH directory over Kademlia (crates/kite-mesh-discovery/src/lsh.rs  *)
(* and directory.rs) as publish, submit_intent, on_directory_hit and       *)
(* handle_card of the event loop use it: hash codes, keys, the records of  *)
(* a card, their copies in the stores of the mesh, and one intent that     *)
(* looks up its keys and fetches the cards it finds.                       *)
(*                                                                         *)
(* Kademlia is external: a put stores the record locally and sends it to   *)
(* the closest peers, here all of them; a store keeps one record per key,  *)
(* in memory; a get asks the local store and every peer it can reach.  A   *)
(* copy, an answer or a fetch that never comes stands for one that is lost. *)
(***************************************************************************)
EXTENDS Facets, Naturals

CONSTANTS
    Node,        \* daemons, each with a record store
    Card, CapId, \* capability cards and their ids
    PublisherOf, \* [Card -> Node]: the daemon that publishes the card, whose
                 \* identity its records carry, whichever agent it is of
    CapOf,       \* [Card -> CapId]
    FacetsOf,    \* [Card -> FacetSet]
    VectorOf,    \* [Card -> Vector]
    Vector,      \* embeddings of CANONICAL_EMBEDDING_DIM numbers
    NonNegative, \* [Vector -> SUBSET Plane]: planes with v . plane >= 0
    K, L,        \* bits of a hash code, hash tables
    ByteBits,    \* bits of a byte: 8
    Requester,   \* the daemon the intent is submitted at
    Required,    \* its facets
    Query,       \* its vector
    MaxPublishes, \* bound: publications
    MaxRestarts  \* bound: restarts of daemons

Plane == 0..(L * K - 1)
Table == 0..(L - 1)

ASSUME ShapeAssumption ==
    /\ K \in Nat \ {0} /\ L \in Nat \ {0} /\ ByteBits \in Nat \ {0}
    /\ MaxPublishes \in Nat /\ MaxRestarts \in Nat
ASSUME CardAssumption ==
    /\ PublisherOf \in [Card -> Node] /\ CapOf \in [Card -> CapId]
    /\ FacetsOf \in [Card -> FacetSet] /\ VectorOf \in [Card -> Vector]
    /\ NonNegative \in [Vector -> SUBSET Plane]
    /\ Requester \in Node /\ Required \in FacetSet /\ Query \in Vector

VARIABLES
    publishes,   \* publications so far
    restarts,    \* restarts so far
    local_cards, \* local_cards[n]: the cards n offers
    store,       \* store[n]: the records of n's MemoryStore, one per key
    puts,        \* <<n, record>>: copies on their way to n
    asked,       \* whether the intent was submitted
    lookups,     \* <<table, n>>: stores a get_record has yet to ask
    hits,        \* records the lookups returned
    fetches,     \* RequesterState::in_flight_card_fetches, <<cap, peer>>
    requested,   \* history: every fetch that was started
    fetched,     \* fetched_cards
    filled       \* history: tables whose bucket had a card when it was asked

dhtVars == <<publishes, local_cards, store, puts>>
intentVars == <<asked, lookups, hits, fetches, requested, fetched, filled>>
vars == <<restarts, dhtVars, intentVars>>
-----------------------------------------------------------------------------
\* A variant of Signature: every table uses the planes of the first.
SignatureOfTableZero(v, t) ==
    [byte \in 0..((K + ByteBits - 1) \div ByteBits - 1) |->
        {bit % ByteBits : bit \in
            {b \in 0..(K - 1) : b \div ByteBits = byte /\ b \in NonNegative[v]}}]

\* AngularLsh::signatures, for one table: ceil(K / 8) bytes, each the set of
\* its bits that are one.
Signature(v, t) ==
    [byte \in 0..((K + ByteBits - 1) \div ByteBits - 1) |->
        {bit % ByteBits : bit \in
            {b \in 0..(K - 1) : /\ b \div ByteBits = byte
                                /\ t * K + b \in NonNegative[v]}}]

\* dht_key: a hash of the fingerprint, the table and the code, next to the
\* protocol version and the model id, which are the same everywhere.
DhtKey(fp, t, code) == <<fp, t, code>>

\* The record of card k for table t.
RecordOf(k, t) ==
    LET fp == Fingerprint(FacetsOf[k])
        code == Signature(VectorOf[k], t)
    IN [key |-> DhtKey(fp, t, code), card |-> k, cap |-> CapOf[k],
        peer |-> PublisherOf[k], table |-> t]

\* A variant of RecordsOf: the last table is left out.
RecordsButLast(k) == {RecordOf(k, t) : t \in Table \ {L - 1}}

\* build_records: one record per table.
RecordsOf(k) == {RecordOf(k, t) : t \in Table}

Record == {RecordOf(k, t) : k \in Card, t \in Table}

\* A variant of LookupKey: only the first byte of the code is hashed.
LookupKeyCut(t) ==
    DhtKey(Fingerprint(Required), t, [byte \in {0} |-> Signature(Query, t)[byte]])

\* lookup_keys: the key of the intent for table t.
LookupKey(t) == DhtKey(Fingerprint(Required), t, Signature(Query, t))

\* MemoryStore::put keeps one record per key.
StoreRecord(S, r) == {x \in S : x.key # r.key} \cup {r}

\* A variant of InsertCard: cards are pushed on a list.
PushCard(S, k) == S \cup {k}

\* local_cards.insert: one card per id.
InsertCard(S, k) == {x \in S : CapOf[x] # CapOf[k]} \cup {k}

TypeOK ==
    /\ publishes \in 0..MaxPublishes /\ restarts \in 0..MaxRestarts
    /\ \A n \in Node :
          /\ local_cards[n] \subseteq Card
          /\ \A x, y \in local_cards[n] : CapOf[x] = CapOf[y] => x = y
          /\ store[n] \subseteq Record
          /\ \A r, s \in store[n] : r.key = s.key => r = s
    /\ puts \subseteq Node \X Record
    /\ lookups \subseteq Table \X Node
    /\ hits \subseteq Record
    /\ fetches \subseteq requested /\ requested \subseteq CapId \X Node
    /\ fetched \subseteq Card
    /\ asked \in BOOLEAN /\ filled \subseteq Table
-----------------------------------------------------------------------------
\* The two vectors lie on the same side of every plane of the table.
SameSide(v, w, t) ==
    \A p \in (t * K)..(t * K + K - 1) :
        p \in NonNegative[v] <=> p \in NonNegative[w]

Init ==
    /\ publishes = 0 /\ restarts = 0
    /\ local_cards = [n \in Node |-> {}]
    /\ store = [n \in Node |-> {}]
    /\ puts = {}
    /\ asked = FALSE
    /\ lookups = {} /\ hits = {} /\ fetches = {} /\ requested = {}
    /\ fetched = {} /\ filled = {}

\* publish: L records, put locally and sent out.
Publish(k) ==
    LET n == PublisherOf[k]
        records == RecordsOf(k)
    IN
    /\ publishes < MaxPublishes
    /\ publishes' = publishes + 1
    /\ local_cards' = [local_cards EXCEPT ![n] = InsertCard(@, k)]
    /\ store' = [store EXCEPT ![n] =
                    {x \in @ : \A r \in records : x.key # r.key} \cup records]
    /\ puts' = puts \cup ((Node \ {n}) \X records)
    /\ UNCHANGED <<restarts, intentVars>>

\* A copy arrives, and displaces the record the node had under that key.
Replicate(n, r) ==
    /\ <<n, r>> \in puts
    /\ puts' = puts \ {<<n, r>>}
    /\ store' = [store EXCEPT ![n] = StoreRecord(@, r)]
    /\ UNCHANGED <<publishes, restarts, local_cards, intentVars>>

\* The daemon of n stops and starts again: cards and store were in memory.
Restart(n) ==
    /\ n # Requester
    /\ restarts < MaxRestarts
    /\ restarts' = restarts + 1
    /\ local_cards' = [local_cards EXCEPT ![n] = {}]
    /\ store' = [store EXCEPT ![n] = {}]
    /\ puts' = {x \in puts : x[1] # n}
    /\ UNCHANGED <<publishes, intentVars>>

\* submit_intent: a get_record per table.
SubmitIntent ==
    /\ ~asked
    /\ asked' = TRUE
    /\ lookups' = Table \X Node
    /\ filled' = {t \in Table : \E n \in Node : \E k \in local_cards[n] :
                     /\ Fingerprint(FacetsOf[k]) = Fingerprint(Required)
                     /\ SameSide(VectorOf[k], Query, t)
                     /\ <<Requester, RecordOf(k, t)>> \notin puts}
    /\ UNCHANGED <<restarts, dhtVars, hits, fetches, requested, fetched>>

\* on_directory_hit: a capability id is fetched from the first peer that has a
\* record of it, and never again.
OnDirectoryHit(r) ==
    LET seen == {h.cap : h \in hits} IN
    /\ hits' = hits \cup {r}
    /\ fetches' = IF r.cap \in seen THEN fetches
                                    ELSE fetches \cup {<<r.cap, r.peer>>}
    /\ requested' = requested \cup fetches'

\* A store answers a get_record.
Answer(t, n) ==
    LET found == {r \in store[n] : r.key = LookupKey(t)} IN
    /\ <<t, n>> \in lookups
    /\ lookups' = lookups \ {<<t, n>>}
    /\ \/ \E r \in found : OnDirectoryHit(r)
       \/ found = {} /\ UNCHANGED <<hits, fetches, requested>>
    /\ UNCHANGED <<restarts, dhtVars, asked, fetched, filled>>

\* handle_card at both ends: Found, with the card the peer offers now, or
\* NotFound.
ServeCard(cap, p) ==
    /\ <<cap, p>> \in fetches
    /\ p # Requester
    /\ fetches' = fetches \ {<<cap, p>>}
    /\ fetched' = fetched \cup {k \in local_cards[p] : CapOf[k] = cap}
    /\ UNCHANGED <<restarts, dhtVars, asked, lookups, hits, requested, filled>>
-----------------------------------------------------------------------------
Next ==
    \/ SubmitIntent
    \/ \E k \in Card : Publish(k)
    \/ \E n \in Node : Restart(n)
    \/ \E x \in puts : Replicate(x[1], x[2])
    \/ \E t \in Table, n \in Node : Answer(t, n)
    \/ \E f \in fetches : ServeCard(f[1], f[2])

Spec == Init /\ [][Next]_vars
-----------------------------------------------------------------------------
\* A hit is a neighbour: its card has the facets that were asked for and lies
\* on the query's side of all the planes of the table it was found in.  No
\* key of one table is taken for one of another, no bit is lost in packing.
HitsAreNeighbours ==
    \A r \in hits :
        /\ Fingerprint(FacetsOf[r.card]) = Fingerprint(Required)
        /\ SameSide(VectorOf[r.card], Query, r.table)

\* A daemon that offers a card keeps all its records, through copies of others
\* and restarts of others, unless another card shares a bucket with it: equal
\* facets, and the same side of the planes of some table.
OwnRecordsKept ==
    \A n \in Node : \A k \in local_cards[n], t \in Table :
        \/ RecordOf(k, t) \in store[n]
        \/ \E j \in Card \ {k} :
              /\ Fingerprint(FacetsOf[j]) = Fingerprint(FacetsOf[k])
              /\ SameSide(VectorOf[j], VectorOf[k], t)

\* A lookup is not in vain: when a card with the facets that were asked for lay
\* in the query's bucket of a table, and its record had reached the requester,
\* the lookups of that table end with a hit, of this card or of another that
\* displaced its record, although copies keep arriving and daemons restart.
FilledBucketsHit ==
    \A t \in filled :
        (\A n \in Node : <<t, n>> \notin lookups) => \E r \in hits : r.table = t
=============================================================================
