# TLA+ specifications of kite-mesh

kite-mesh is a peer-to-peer mesh of agents. Each agent runs a daemon, `kited`,
that publishes signed capability cards into a Kademlia directory, looks up
cards for an intent, negotiates with the agent of the best one and leaves a
signed receipt on both sides. This directory models the daemon, from the frames
on the wire to the files it leaves behind, and what it promises; checks the
models with TLC on small instances; and proves every safety property of theirs,
the two refinements included, with TLAPS for all of them.

## The system

| component | state it keeps | operations | who it talks to |
|---|---|---|---|
| event loop, conversations (`kited/src/event_loop.rs`) | `requesters`, `providers`, `pending_lookups`, `pending_card_fetches`, `pending_acl_round1/2`, `local_cards` | `submit_intent`, `on_directory_hit`, `handle_card`, `maybe_send_request`, `handle_request_round1`, `handle_agree_round2`, `on_acl_response`, `complete_intent` | other daemons through libp2p, the receipt store, the callers' oneshot channels |
| publication and command channel (`event_loop.rs`, `daemon.rs`) | command channel of 32, event channel of 32, `pending_publish_acks` | `publish`, PutRecord results, `Inbox::publish_capability`, `Inbox::shutdown`, `emit` | kademlia, callers |
| receipt store (`kite-mesh-core/src/receipt.rs`) | one SQLite row per conversation | `insert`, `get`, `build`, `verify` | event loop |
| matching (`rerank.rs`, `facets.rs`) | none | `facet_filter`, `rerank`, `fingerprint` | `maybe_send_request` |
| directory and LSH (`directory.rs`, `lsh.rs`) | random hyperplanes | `build_records`, `lookup_keys`, `signatures`, `verify_record` | `publish`, `submit_intent` |
| cards, intents, ACL envelopes (`capability.rs`, `intent.rs`, `acl.rs`) | none | `build`, `verify` | everything |
| peer discovery (`event_loop.rs`, `behaviour.rs`, `swarm.rs`) | `known_peers`, libp2p tables | `handle_mdns`, `handle_identify`, RoutingUpdated | libp2p |
| wire codecs (`codec.rs`) | none | `read_framed`, `write_framed` | libp2p |
| identity and boot (`identity.rs`, `config.rs`, `daemon.rs`, `main.rs`) | key file, configuration | `load`, `save`, `Kited::start` | everything |
| encoder, metrics, protocol buffers | model weights, counters | | |

A daemon is a single tokio task. `State::run` selects between a command and a
swarm event and runs the handler to its end, so handlers of one daemon never
interleave; what interleaves are daemons, messages, queries and callers. The
hard behaviours are

* directory hits, ends of lookups and card responses in any order, while the
  choice of a card must be made once and on all of them;
* two bookkeepings of each outstanding operation (a map of the daemon, a set of
  the conversation) that have to agree;
* failures that come as events nobody handles (`OutboundFailure`);
* the receipt insert that is awaited after the INFORM is out;
* a daemon that stops, by shutdown, by an error that a handler returns with
  `?`, or by dying, with callers waiting, messages under way and a row half
  written, and starts again with its receipts and without its maps;
* channels of fixed size and oneshot senders that die with the loop;
* connections that die in the middle of a frame, between binaries with different
  limits;
* peers that come, go, lose their place in the routing table and come back;
* records of different publishers under one key of the directory;
* a start that fails or crashes at any of its steps, and a key file that is
  truncated before it is written.

What would make each component correct:

* conversations: no caller is forgotten, no conversation is stuck in a state no
  event can move, the best card that arrived is chosen, receipts tell the truth
  about what ran, nothing runs twice;
* publication: every call returns, an answer means something, shutdown works;
* matching: the filter is the subset-and-equality relation of the facets and
  agrees with the fingerprint that keys the directory; the sort puts the best
  passing card first;
* directory: a card and a query get equal keys exactly when they lie in one
  bucket, a filled bucket is found, a daemon keeps its own records;
* cards, messages, records, receipts: verify accepts exactly what build made;
* codecs: what is read is what was written or an error, and every read ends;
* peer discovery: a peer is announced after a handshake, once, and eventually;
* identity and boot: a daemon keeps its peer id and its receipts over a restart,
  and an interrupt ends it.

## Modules

| module | models | state and actions |
|---|---|---|
| `Mesh` | the conversations of all daemons, their network and receipts | the maps of `State` under their names, one action per handler |
| `ReceiptLedger` | the promise: what callers are told, what ran, what is on disk | four variables, six actions |
| `Publication` | one daemon's `Inbox`, `publish` and its acknowledgement | channels, queries, acks |
| `MeshProofs` | proofs about `Mesh`: types, bookkeeping, phases, callers, the choice of a card, receipts, and that `Mesh` implements `ReceiptLedger` | |
| `PublicationProofs`, `FramingProofs`, `MatchingProofs`, `DirectoryProofs`, `EnvelopeProofs`, `DiscoveryProofs`, `BootProofs` | proofs about the module of that name | |
| `Exchange` | what the handlers rely on when they send a request: one message each way, as sent or not at all | two variables, three actions |
| `Framing` | `read_framed` and `write_framed` under both codecs; implements `Exchange` | the bytes of one substream |
| `Facets` | `CanonicalFacets`, `fingerprint`, `facet_filter` | operators only |
| `Matching` | `rerank` and the choice of `maybe_send_request`; uses `Facets` | the insertion sort, one step per element |
| `Directory` | `signatures`, `dht_key`, `build_records`, `lookup_keys` and the part of the event loop that uses them; uses `Facets` | record stores, copies under way, one intent |
| `Envelope` | build, signature and verify of cards, directory records, ACL messages and receipts, and the receipts table; uses `Facets` | one value under way |
| `Discovery` | `handle_mdns`, `handle_identify`, RoutingUpdated, the event channel | libp2p's view of the peers, `known_peers`, events |
| `Boot` | `run`, `Kited::start`, key file, receipts file, shutdown and `join` | one process over its restarts |
| `MCMesh`, `MCPublication`, `MCFraming`, `MCMatching`, `MCDirectory`, `MCEnvelope`, `MCDiscovery`, `MCBoot` | instances for TLC | |

The modules meet at the facts they assume of each other. `Mesh` loses messages
or delivers them as they were sent, which is `Exchange`; its constants `Passing`
and `Score` and its choice of the first of the best are what `Matching` computes;
its `Hits` are what `Directory` finds; that a message or a card is what its
sender built is `Envelope`; that a daemon starts again with its receipts is
`Boot`, and that it has peers at all `Discovery`.

### Mesh

`req[c]` is the `RequesterState` of conversation `c` while `c` is in
`requesters`. Ids are named by what they stand for: a lookup by conversation
and table, a fetch by conversation, capability id and peer, an ACL round by its
conversation; uuids and request ids are fresh, so nothing is lost by this.
Every conversation belongs to one daemon, `OwnerOf[c]`, and one variable holds
the entries of all daemons.

| action | code |
|---|---|
| `Publish` | `publish`, as far as conversations can see it |
| `SubmitIntent` | `submit_intent` |
| `FoundRecord` | `handle_kad` on FoundRecord, `on_directory_hit` |
| `LookupDone` | `handle_kad` on the end or the failure of a lookup, then `maybe_send_request` |
| `ServeCard`, `ReceiveCard` | `handle_card` on a request and on a response, then `maybe_send_request` |
| `KeepWaiting`, `NoMatchingCapability`, `SendRequest` | the three outcomes of `maybe_send_request` |
| `HandleRequestRound1`, `HandleAgreeRound2` | the handlers of the provider |
| `ReceivePropose`, `ReceiveInform` | `on_acl_response`, `complete_intent` up to the insert |
| `ReceiptStored` | the insert returns, the rest of the handler runs |
| `Stop`, `Restart` | the loop ends, `Kited::start` runs again |
| `LoseCard`, `LoseAcl` | a request or response is lost, times out, or its connection closes: the event falls in a `_ => {}` arm |

Handlers are atomic with one exception. `send_response` hands the INFORM to the
connection's own task, and `receipts.insert(..).await` comes after it; the model
splits there. `writing[n]` is the row whose insert is awaited; while it is not
empty the daemon handles nothing else. Requests and commands are polled only
between handlers, so no other split can be observed.

What is abstracted: which cards share a DHT key with an intent (`Hits`), which
pass `facet_filter` (`Passing`) and how they score (`Score`) are constants; any
assignment is allowed, so the proofs cover every directory and every filter. A
directory record once put may be found by any later lookup, and need not be: a
Kademlia store keeps one record per key, so records can displace each other,
and lookups may miss. Signatures verify. A self-addressed request is not sent
(`Sent`): libp2p does not dial the local peer; this is the one definition taken
from the library.

`delivered`, `executions` and `cut` are history variables: the cards that reached
a requester, how often a task ran, and which daemon stopped while it held a
caller or a half-written row of which conversation. The arms of `on_acl_response`
for a wrong performative are left out: a provider answers a REQUEST with a
PROPOSE and an AGREE with an INFORM or not at all, so they are not reached.

### ReceiptLedger

`Mesh` implements it with `ask` as the callers' replies, `runs` as
`executions`, and the rows of either side as read from the stores. Outcome and
requester row appear in one step; a task runs at most once, also after its
caller is gone; "no matching capability" is final and said only of what never
ran; when a daemon halts its callers get an error and the row being written is
there or not.

### Publication

A caller is idle, waits for room in the channel, awaits its oneshot, or has an
answer: what was sent, or "closed" when a channel broke. `HandleCommand` takes
the head of the channel; `Publish` starts one query per table with one
`PublishAck` each, and only the ack of the last has the caller's sender
(`Remaining`). Any error in `publish` ends the loop (`PublishFails`), and so does
one of a handler of swarm events (`HandleSwarmEventFails`); the end drops the
channel, the acks and their senders (`End`). `L` is at least one, as
in `LshParams::default_for_skeleton`, so the branch for a card without records
is not modelled. Intents travel through the same channel; their answers are the
subject of `Mesh`, except for those in `Misfit`, whose query vector has another
length than the hash planes: `submit_intent` hashes it before anything else, the
assertion in `AngularLsh::signatures` panics the task of the loop
(`SubmitPanics`), and all senders die with it.

### Exchange and Framing

A frame is four bytes of length, most significant first, and the prost encoding.
The two calls of `read_exact` take bytes in pieces of any size; `Cut` drops what
is in flight from any byte on, in both directions, and records that it did.
Encodings are given by the constant `Encoded` and are prefixes of each other, so
a body that is cut short would decode to another message. Each end has the cap
of its own binary. libp2p's part is whose turn it is (`MayWrite`) and that a
failed write or read drops the stream.

### Facets and Matching

A string is a word, the way it is capitalised (not at all, in ASCII, beyond
ASCII) and whether white space surrounds it: the fingerprint trims and folds all
of Unicode in the enum-like fields and neither in the lists, the filter folds
ASCII everywhere and never trims. A fingerprint is the canonical form itself.
`sort_by` is modelled by the insertion sort std uses for up to twenty elements,
which matters only where the order is not total: with a NaN among more
candidates std merges runs, and their order may be another one. A score is an integer, a NaN,
or the least value for a card without embedding.

### Directory

`NonNegative[v]` is the set of hyperplanes the vector lies on the positive side
of; `Signature` packs them into bytes, `DhtKey` is injective in fingerprint,
table and code. A put goes to the local store and, as messages, to all others; a
store keeps one record per key, in memory. The peer a record names is its
publisher (`PublisherOf`), who need not be the agent of the card. `on_directory_hit`
follows up one record per capability id.

### Envelope

A signature is the pair of signer and bytes, the bytes are the value with an
empty signature. Between build and verify, `Change` gives any field another
value of its type, a signature of another value included. A behaviour handles
values of one kind. Times have `W` bits, and `ToI64` and `ToU64` are the casts
at the edge of SQLite.

### Discovery

libp2p is external: mDNS finds and loses peers, dials fail, connections come
from either side and close, and identify runs over each. `handle_identify` adds
one address after the other to the table, so a peer that reports no listen
address is not added at all; the peers of `Subnet` are those mDNS can see, at any
time, and that it no longer does is ignored by `handle_mdns`. The
table is one k-bucket of `BucketSize` places. A newcomer that finds it full
becomes the `pending` one if it is connected, some peer of the bucket is not,
and nobody is pending yet, and is refused otherwise; after a timeout it takes
the place of a peer that is not `online`, if there still is one (`ApplyPending`).
`read` and `dropped` are what became of the events: `emit` is a `try_send`, and
no handler waits for a reader.

### Boot

One action per step of `run` and `Kited::start`, each of which may fail; `Crash`
at any moment; `BeginSave` and `EndSave` for the truncation and the write of
`fs::write`. `save` is part of the library and the owner of a handle may call
it; `kited` does not. `exists()` is false for a file whose metadata cannot be
read; such a start takes a fresh identity and is recorded as `blind`.

## Runs

| run | instance | distinct states | result |
|---|---|---|---|
| `mesh_faults` | two intents of two daemons, the owner of the second also a provider, two tables, three cards of two providers, two with the same capability id, one published by both; the card that scores like another does not pass; the second intent finds cards in one table only; losses, one stop | 722,738 | 8 properties hold |
| `mesh_live` | two intents at one daemon, three cards, no loss, no stop, fairness | 48,028 | 2 properties hold |
| `mesh_own_record` | a daemon that publishes what it looks for, no loss, no stop, fairness | | violated |
| `mesh_capability` | a provider with two cards | | violated |
| `publication` | four calls, one rejected, one that panics the loop, channel of two, two tables, fairness | 11,216 | 5 properties hold |
| `framing` | six messages of 0 to 5 bytes, caps of 4 and 3, fairness | 1,097 | 5 properties hold |
| `matching` | all lists of up to four of eight cards, seven requests | 191,926 | 3 properties hold |
| `directory` | two daemons, three cards of one id, two tables of three bits, three publications, one restart, one intent | 443,375 | 4 properties hold |
| `envelope` | two values of either of four kinds, two changes, two identities | 1.5 million | 3 properties hold |
| `discovery` | four peers, one place in the table and its pending slot, an event channel of two, three connections, fairness | 525,006 | 4 properties hold |
| `boot` | three starts, a key path, two receipts, fairness | 3,404 | 4 properties hold |
| `boot_identity` | the same | | violated |

Properties of the conversations:

* `NoForgottenCaller`: a sender that is dropped unanswered is one of a daemon that
  stopped while its caller waited, and no answered caller is kept. In Rust a
  dropped sender wakes its caller with an error, so a handler that forgets to
  answer shows as such an error and not as a hang; this is the bug the property
  excludes. `Bookkeeping`: maps and sets agree. `OnePhase`: a live conversation
  gathers with something outstanding or waits in one ACL round.
* `BestOfAll`: no card that reaches the requester, before or after the choice,
  beats the chosen one.
* `ReceiptsBacked`: a row stands for one execution and both rows name the same
  peers. `ExecutionRecorded`: an execution has its provider's row, through losses
  and stops, unless the provider stops during that very insert.
* `ImplementsLedger`: the refinement.
* `EveryIntentAnswered`, `ProviderStateReleased`: liveness of the two sides.

The other modules:

* `Publication`. `AwaitedIsUnderWay`: callers that await an answer are those with
  a command in the channel or the last table's query under way; no
  acknowledgement outlives its query. `AnswerIsLastQuery`: answer and event tell how the
  put of the last table ended, and only that. `EveryCallReturns`,
  `ShutdownEndsLoop`: liveness, through errors and a panic.
* `Framing`. `TypeOK`: besides the types, a message that is refused for its size
  leaves no byte on the stream. `ImplementsExchange`: the refinement. `BoundedBuffer`: no length a
  peer announces makes the reader wait for more than its cap. `EveryReadEnds`,
  and `FittingDelivered`: what fits both caps arrives unless the connection
  dies.
* `Matching`. `FirstOfBest`: the choice `Mesh` assumes. `RankedSoFar`: the order
  at each step of the sort, and that a NaN spoils no more than the order of what
  lies on either side of it, never the filter. `FoundCardsPass`: a plainly
  spelled card found by its fingerprint passes the filter.
* `Directory`. `HitsAreNeighbours` and `FilledBucketsHit`: lookups find what is
  in the query's bucket and nothing else. `OwnRecordsKept`: a daemon loses a
  record of its own to a card of the same bucket only.
* `Envelope`. `AcceptedIffBuilt`. `ReceiptsSurvive`: a row verifies, whatever its
  time.
* `Discovery`. `KnownAfterHandshake`, `AnnouncedOnce`. `ConnectedIsAnnounced`: a
  peer that reports where it listens is announced, unless it disconnects or the
  places of the bucket are taken by others.
* `Boot`. `OneIdentityOnceSaved`: once a key was saved, every start that sees the
  file has that identity. `RowsKept`, `InterruptEnds`.

Deadlock is not checked: a mesh in which every intent is answered, or stuck,
rests, and so do a daemon that has ended, an exchange that is over and a sort
that is done.

### Bounds

`MaxStops` bounds how often a daemon stops; one lets either side stop between
any two of its handlers, with the other conversation under way.
Three cards are the least that give a tie, a card that does not pass, a
provider with two cards and two providers with one capability id. Two tables
make hits overlap, so that `seen_capability_ids` matters and a lookup can end
while a fetch is under way. Two conversations are the least in which a handler
waits for another one's insert. The channels of 32 are cut to two slots and one,
which is where a full channel is reached. The proofs have no bounds.

`Framing`: with two values per byte, lengths up to 15 use all four bytes of the
prefix; messages of 0 to 5 bytes lie below, at, between and above the two caps.
`Matching`: the eight cards differ from the requests in word, capitals, white
space, list and field, tie, lack an embedding or the facets, or score NaN; four
candidates leave two on either side of a NaN. `Directory`: three bits in bytes of
two need a second, partly filled byte; two tables have different buckets; three
publications (`MaxPublishes`) let one replace, displace or repeat another before
and after the restart (`MaxRestarts`). `Envelope`: two values and two changes
(`MaxBuilt`, `MaxChanges`) let a change be made up for by another, a signature
moved between values, or a field restored; times of two bits cross the largest
positive integer. `Discovery`: one place and three connections (`MaxConnects`)
are the least for a peer to lose its place to a pending one and come back, and
for a second newcomer to find the pending slot taken; one listen address
(`MaxAddrs`) and two peers overflow the channel; one peer in `Subnet` is enough
for a dial beside the connections that come in. `Boot`: three starts (`MaxBoots`) allow a crash in a save, a start on
the torn file and another one; `MaxRows` bounds the receipts.

### Fairness

`Mesh!FairSpec` asks for weak fairness of the handlers taken together: the loop
polls for ever, handlers end, libp2p delivers what is not lost, and kademlia
ends a query after 10 seconds (`behaviour.rs`). No lookup is promised a record,
no caller is promised to call. `Publication!FairSpec` asks for weak fairness of
command handling and of query results, because `tokio::select!` polls in random
order, and of each sender, because tokio's channel serves waiting senders in
turn. Nobody is promised to read events.

`Framing!FairSpec`: a read that can go on is polled, and a handler that was given
a request answers or drops its channel; nobody promises a request.
`Discovery!FairSpec`: the loop takes the events of the swarm as they come;
nothing is asked of the network, and no reader of events is assumed, since
`kited`'s main is none. `Boot!FairSpec`: the steps of `run` return and the loop takes its
next command; nobody promises an interrupt, and crashes stay possible.

`EveryIntentAnswered` is claimed for what the code can do: nothing is lost,
nobody stops, agents serve their own cards and not those of the daemon that
asks. Without these an intent can hang; see the findings.

## Findings

* `mesh_own_record`. `submit_intent` says that the ACL request is emitted "once
  dht queries settle". A card request that fails is never taken out of
  `in_flight_card_fetches`, because `handle_card` ignores `OutboundFailure`. A
  daemon that finds its own record meets this without any fault of the network.
* `mesh_capability`. The provider proposes the first card its map iterates, and
  the requester does not compare: two cards are enough for the two receipts of
  one conversation to disagree, which the integration test asserts they do not.
* `boot_identity`. `examples/local.toml` says of `keypair_path` "Set to a path to
  persist and reload". `Kited::start` loads the file if it exists and otherwise
  generates a key it never saves: every restart makes another peer of the
  daemon, and its receipts name identities that are gone. Once somebody has
  saved the key, a start that sees the file keeps it (`OneIdentityOnceSaved`);
  one for which `exists()` is false because the metadata cannot be read does not.

Differences between documentation and code that the models follow on the side
of the code, and that no run of its own shows:

* The INFORM leaves before the provider's row is stored, and the integration test
  reads that row as soon as the outcome is there (`walking_skeleton.rs`,
  "Receipts on both sides."). In `Mesh`, `ReceiptStored` is a step of its own;
  what holds is `ReceiptsBacked`.
* `CapabilityPublished` reports `L` records as soon as the last table's put
  succeeded, whatever became of the others (`events.rs`, "records inserted");
  what holds is `AnswerIsLastQuery`.
* Cards of one bucket displace each other's records, so a lookup does not "union
  all candidate directory records" (`MESH_PRD.md`, query path); what holds is
  `FilledBucketsHit`. Nor are all that are found followed up: `on_directory_hit`
  drops every record but the first of a capability id, whichever agent it names,
  and when that agent's fetch fails the other is not tried.
* `facet_filter` says of the equality fields that it "uses case-insensitive exact
  match" (`rerank.rs`); it folds ASCII only, while the fingerprint folds all of
  Unicode, so a card that differs in a capital beyond ASCII is found and then
  refused. What holds is `FoundCardsPass`.
* A query vector of the wrong length reaches the assertion of the LSH and panics
  the event loop; what holds is that every caller learns of it
  (`EveryCallReturns`).
* The ranking is "by exact cosine similarity" (`MESH_PRD.md`) only for vectors of
  norm one, which neither `build` nor `verify` checks, and a NaN can keep the
  best card from the first place; what holds is `RankedSoFar`.
* Cards are "TTL-bounded" (`MESH_PRD.md`), but `expires_at_ns` is compared with
  the time nowhere.

## Proofs

Proved for every value of the constants:

    MeshProofs         TypeCorrect                 Spec => []TypeOK
                       BookkeepingCorrect          Spec => []Bookkeeping
                       OnePhaseCorrect             Spec => []OnePhase
                       NoForgottenCallerCorrect    Spec => []NoForgottenCaller
                       BestOfAllCorrect            Spec => []BestOfAll
                       ReceiptsBackedCorrect       Spec => []ReceiptsBacked
                       ExecutionRecordedCorrect    Spec => []ExecutionRecorded
                       LedgerImplemented           Spec => ImplementsLedger
                       AnswersTrustworthy          Spec => []Ledger!Trustworthy
    PublicationProofs  PublicationTypeCorrect      Spec => []TypeOK
                       AwaitedIsUnderWayCorrect    Spec => []AwaitedIsUnderWay
                       AnswerIsLastQueryCorrect    Spec => []AnswerIsLastQuery
    FramingProofs      FramingTypeCorrect          Spec => []TypeOK
                       BoundedBufferCorrect        Spec => []BoundedBuffer
                       ExchangeImplemented         Spec => ImplementsExchange
    MatchingProofs     MatchingTypeCorrect         Spec => []TypeOK
                       RankedSoFarCorrect          Spec => []RankedSoFar
                       FirstOfBestCorrect          Spec => []FirstOfBest
                       FoundCardsPassCorrect       Spec => []FoundCardsPass
    DirectoryProofs    DirectoryTypeCorrect        Spec => []TypeOK
                       HitsAreNeighboursCorrect    Spec => []HitsAreNeighbours
                       OwnRecordsKeptCorrect       Spec => []OwnRecordsKept
                       FilledBucketsHitCorrect     Spec => []FilledBucketsHit
    EnvelopeProofs     EnvelopeTypeCorrect         Spec => []TypeOK
                       AcceptedIffBuiltCorrect     Spec => []AcceptedIffBuilt
                       ReceiptsSurviveCorrect      Spec => []ReceiptsSurvive
    DiscoveryProofs    DiscoveryTypeCorrect        Spec => []TypeOK
                       KnownAfterHandshakeCorrect  Spec => []KnownAfterHandshake
                       AnnouncedOnceCorrect        Spec => []AnnouncedOnce
    BootProofs         BootTypeCorrect             Spec => []TypeOK
                       OneIdentityCorrect          Spec => []OneIdentityOnceSaved
                       RowsKeptCorrect             Spec => RowsKept

The assumptions are named where the constants are declared: the types of the
constant maps, sizes that are numbers and not zero where the code has them not
zero, and that an absent value (`NONE`, `TORN`, `FAILED`) is none of the values
that can be present. Three say more. `Framing!MessageAssumption`: different
messages of one protocol have different encodings, as prost's are.
`Framing!SizeAssumption`: the caps fit the four bytes of the length;
`MAX_MESSAGE_BYTES` is 1 MiB. `Matching!CosineAssumption`: a score is a number,
a NaN or missing.

### Types, bookkeeping, phases, callers

None of the four is inductive alone. `TypeOK` needs `OnePhase`: the card named
in an AGREE must exist when a PROPOSE arrives. `OnePhase` needs `Bookkeeping`:
an event of a lookup or fetch shows that its conversation has not settled, hence
has not sent its request. `Bookkeeping` needs `OnePhase` where `ReceiveInform`
forgets a conversation, which is right because nothing is outstanding any more,
and `NoForgottenCaller` where `SubmitIntent` takes a conversation that must be
new. `NoForgottenCaller` needs two facts about the provider side: `Writers`, a
daemon awaits one insert at a time, and `OtherPeer`, no daemon negotiates with
itself, so that the row a provider writes is not mistaken for the row of a
caller of its own. `IInv` is the conjunction of the six. Each conjunct has a
lemma with one step per action; `MaybeSendRequestCases` says once what is left
of a conversation after `maybe_send_request`, and the lemmas about lookups and
card responses share it.

### The choice of a card

`BestOfAll` speaks of the cards that were delivered, `maybe_send_request` looks
at `fetched_cards`. `Gathered` ties them: while a conversation gathers,
`fetched_cards` is all that was delivered for it. An event that delivers a card
finds its conversation gathering (by `Bookkeeping` and `OnePhase`), so no card
comes after the decision, and the decision is taken on all of them (`Decision`).

### Receipts and the ledger

`NInv` adds to `IInv` what holds between the two sides of a conversation.
`Fresh`: before its REQUEST, and when none is sent, nothing of it is under way
and nothing has run. `OneMessage`: it has at most one ACL message under way, of
the round its requester is in, unless that has stopped; the task has run exactly
if the message is the INFORM. `RunOnce`: a task runs once.
`InformNamesProvider`: rows written while the INFORM is under way name its
sender. With these an AGREE finds its task not run, so the provider's row is the
first of its conversation, and the row of the requester agrees with it.

The refinement maps `SubmitIntent` to `Submit`, `NoMatchingCapability` to
`NoMatch`, `Execute` to `Execute`, `ReceiptStored` to `Complete` or
`RecordProvider`, and `Stop` to `Halt`; all other steps leave the ledger as it
is. `NoMatch` needs `Fresh`, `Execute` needs `OneMessage`, `Complete` needs
`NoForgottenCaller` and `ReceiptsBacked`. `Trustworthy`, the invariant of the
ledger that a caller would rely on, follows from the ledger's steps alone
(`TrustworthyNext`).

`ExecutionRecorded` needs no more than `IInv`: the step that runs a task also puts
the row into `writing`, where `Writers` keeps other rows from taking its place,
`ReceiptStored` moves it to `receipts`, and otherwise it goes only when its daemon
stops, which puts the pair of daemon and conversation into `cut`; `OtherPeer` makes it the row of another daemon than the caller's.

### Publication

`PInv` joins two facts, which need each other's ground: an answer is
the end of the last table's query (`AnswerIsLastQuery`) because exactly that
query's acknowledgement holds the sender (`AwaitingIsOwed`, from which
`AwaitedIsUnderWay` follows with `Queries`). What makes them inductive is `SentOnce`, a call is in the channel once and has no queries before
it is taken out, and `Queries`, `puts` and `pending_publish_acks` are the same
set, a query that ended well is not under way, and a loop that has ended holds
nothing.

### Framing

The invariant of one direction (`DirectionOK`) says that the bytes that were
read followed by those in the pipe are a prefix of the frame, and of its body
once the length is read; it is stated position by position (`Carried`), so that
reading any piece (`CarriedRead`) and cutting the stream anywhere (`CarriedCut`)
keep it. `LengthRoundTrip`, which rests on laws of division proved first, shows
that the four bytes give back the size of the message, so a reader waits for
exactly the body or refuses it, and a complete body decodes to the message that
was sent. `WriteFramed` is then `Send` of `Exchange`, `ReadBody` is `Deliver`, a
refused length and the end of the stream are `Fail`, and all else stutters.

### Matching

`Slot` is a CHOOSE; that there is such a position follows from the well-foundedness
of the naturals (`SlotIsFound`). `InsertRanks` shows that an insertion keeps
`RankedSoFar`: old pairs keep their order and what lies between them, the new
candidate precedes what it was moved past, and what stays before it precedes it
because `Above` is a strict weak order on numbers (`AboveIsOrder`), or else a NaN
lies between. `PickedFirst` adds that the choice is the first position that
passes; `FirstOfBest` follows from the two. `FoundCardsPass` follows from what
`Canonical` keeps (`SameFingerprintPasses`). `TypeOK` is proved and no run checks
it, because it has no content beyond the types.

### Directory

`SignatureIsSameSide`: two vectors have one code in a table exactly if they lie on
the same side of all its planes, since every bit has a place in the code and no
two share one (`Packing`). Hence keys are equal exactly within a bucket
(`KeyIsBucket`, `LookupIsBucket`), which gives `HitsAreNeighbours` and
`OwnRecordsKept`. `FilledBucketsHit` needs that a record that reached the
requester leaves its key there for good (`ReachesRequester`), and that a filled
bucket has been hit or is still to be asked for in the requester's own store
(`FilledIsAsked`).

### Envelope

Nobody makes a signature but build: the one of the value under way is none or
that of a built value (`HeldSignature`), which is over its own fields
(`BuiltGenuine`). A value that verifies has therefore the signing bytes of a
built one, and with the same signature it is that one
(`SigningBytesInjective`). Rows are the images of built values, and the casts
between `u64` and `i64` are inverse for every width (`StampRoundTrip`; the powers
of two it needs are counted with sets of subsets in `PowerDoubles`).

### Discovery and Boot

`AnnouncedOnce` counts in a sequence; `InOnePlace` says the same without counting:
a known peer is named in exactly one of `read`, `events` and `dropped`, and there
once. `KnownAfterHandshake` needs that connections and identify events are of
peers that were met (`Met`), and what an insertion and the pending slot may do to
the table and its updates is said once (`TableStep`). `OneIdentityOnceSaved` needs
which phases have an identity, a table and a loop (`Staged`) and that only a save
makes a key file, whole or torn, of the identity it claims (`Claimed`).

### Only model-checked

The liveness properties `EveryIntentAnswered`, `ProviderStateReleased`,
`EveryCallReturns`, `ShutdownEndsLoop`, `EveryReadEnds`, `FittingDelivered`,
`ConnectedIsAnnounced` and `InterruptEnds`: the installed provers handle neither
fairness nor ENABLED. All other properties of the passing runs are proved.

## Plan

1. What the modules assume of each other, as theorems: that the choice of
   `Matching` is the choice `Mesh` makes, for the same scores and filter, and that
   `Mesh`'s network does what `Exchange` allows.
2. More of the ledger: the action properties of `ReceiptLedger` carried over to
   `Mesh`.

## Not modelled

* `CanonicalEncoder::encode`: a neural network over floats. The daemon creates an
  encoder and never calls it; its creation is a step of `Boot`.
* The generation of the hash planes from a seed: `Directory` takes any planes.
* libp2p's timers: republication and expiry of records, keep-alive. Its behaviour
  towards the daemon is marked external where a module needs it.
* Metric counters, which the program writes and never reads; generated
  protocol-buffer code; logging.
* `network.enable_mdns` and other settings that are parsed and read by nobody.
* Deadlines, TTLs and expiry times of intents, cards and records, which the code
  stores and never reads.
