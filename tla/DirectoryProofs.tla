--------------------------- MODULE DirectoryProofs ---------------------------
(***************************************************************************)
(* Proofs about Directory: what equal keys mean, and what the lookups of an *)
(* intent find, for any shape of the hash, any cards and any daemons.      *)
(***************************************************************************)
EXTENDS Directory, TLAPS

\* How many bytes a hash code takes.
Bytes == (K + ByteBits - 1) \div ByteBits
-----------------------------------------------------------------------------
(* The hash.                                                               *)

LEMMA DivMod ==
    ASSUME NEW n \in Nat, NEW d \in Nat \ {0}
    PROVE  /\ n \div d \in Nat /\ n % d \in 0..(d - 1)
           /\ n = d * (n \div d) + (n % d)
OBVIOUS

\* Every bit has a place in the code, and no two bits share one.
LEMMA Packing ==
    /\ \A b \in 0..(K - 1) : b \div ByteBits \in 0..(Bytes - 1)
    /\ \A b, c \in 0..(K - 1) :
          b \div ByteBits = c \div ByteBits /\ b % ByteBits = c % ByteBits => b = c
<1>. USE ShapeAssumption
<1>1. ASSUME NEW b \in 0..(K - 1)
      PROVE  b \div ByteBits \in 0..(Bytes - 1)
  <2>. DEFINE q == b \div ByteBits
              m == K + ByteBits - 1
              Q == m \div ByteBits
  <2>1. q \in Nat /\ ByteBits * q <= b
    BY <1>1, DivMod
  <2>2. m \in Nat /\ Q \in Nat /\ m < ByteBits * Q + ByteBits
    <3>1. m \in Nat
      OBVIOUS
    <3>. HIDE DEF m
    <3>. QED
      BY <3>1, DivMod
  <2>3. ByteBits * q < ByteBits * Q
    <3>1. b <= K - 1 /\ b \in Nat /\ K \in Nat /\ ByteBits \in Nat
      BY <1>1
    <3>2. ByteBits * q \in Nat /\ ByteBits * Q \in Nat
      BY <2>1, <2>2
    <3>. QED
      BY <2>1, <2>2, <3>1, <3>2
  <2>. HIDE DEF q, Q
  <2>4. q < Q
    <3>1. CASE q >= Q
      <4>1. ByteBits * q >= ByteBits * Q
        BY <2>1, <2>2, <3>1
      <4>. QED
        BY <2>1, <2>2, <2>3, <4>1
    <3>. QED
      BY <2>1, <2>2, <3>1
  <2>. QED
    BY <2>1, <2>2, <2>4 DEF q, Q, Bytes
<1>2. ASSUME NEW b \in 0..(K - 1), NEW c \in 0..(K - 1),
             b \div ByteBits = c \div ByteBits, b % ByteBits = c % ByteBits
      PROVE  b = c
  <2>1. b = ByteBits * (b \div ByteBits) + (b % ByteBits)
    BY <1>2, DivMod
  <2>2. c = ByteBits * (c \div ByteBits) + (c % ByteBits)
    BY <1>2, DivMod
  <2>. QED
    BY <1>2, <2>1, <2>2
<1>. QED
  BY <1>1, <1>2

\* Two vectors have the same code in a table exactly when they lie on the same
\* side of all its planes.
LEMMA SignatureIsSameSide ==
    ASSUME NEW v \in Vector, NEW w \in Vector, NEW t \in Table
    PROVE  Signature(v, t) = Signature(w, t) <=> SameSide(v, w, t)
<1>. DEFINE Ones(x, byte) ==
         {b \in 0..(K - 1) : b \div ByteBits = byte /\ t * K + b \in NonNegative[x]}
            Code(x, byte) == {bit % ByteBits : bit \in Ones(x, byte)}
<1>0. K \in Nat /\ t \in Nat /\ t * K \in Nat
  BY ShapeAssumption DEF Table
<1>1. SameSide(v, w, t) <=>
        \A b \in 0..(K - 1) : t * K + b \in NonNegative[v] <=>
                              t * K + b \in NonNegative[w]
  <2>1. ASSUME \A b \in 0..(K - 1) : t * K + b \in NonNegative[v] <=>
                                     t * K + b \in NonNegative[w],
               NEW p \in (t * K)..(t * K + K - 1)
        PROVE  p \in NonNegative[v] <=> p \in NonNegative[w]
    <3>1. p - t * K \in 0..(K - 1) /\ t * K + (p - t * K) = p
      BY <1>0
    <3>. QED
      BY <2>1, <3>1
  <2>2. \A b \in 0..(K - 1) : t * K + b \in (t * K)..(t * K + K - 1)
    BY <1>0
  <2>. QED
    BY <2>1, <2>2 DEF SameSide
<1>2. Signature(v, t) = [byte \in 0..(Bytes - 1) |-> Code(v, byte)]
      /\ Signature(w, t) = [byte \in 0..(Bytes - 1) |-> Code(w, byte)]
  BY DEF Signature, Bytes
<1>3. ASSUME SameSide(v, w, t)
      PROVE  Signature(v, t) = Signature(w, t)
  <2>1. \A byte : Ones(v, byte) = Ones(w, byte)
    BY <1>1, <1>3
  <2>2. \A byte : Code(v, byte) = Code(w, byte)
    BY <2>1
  <2>. HIDE DEF Code
  <2>. QED
    BY <1>2, <2>2
<1>4. ASSUME Signature(v, t) = Signature(w, t), NEW b \in 0..(K - 1)
      PROVE  t * K + b \in NonNegative[v] <=> t * K + b \in NonNegative[w]
  <2>1. ASSUME NEW x, NEW y, Code(x, b \div ByteBits) = Code(y, b \div ByteBits),
               t * K + b \in NonNegative[x]
        PROVE  t * K + b \in NonNegative[y]
    <3>1. b \in Ones(x, b \div ByteBits)
      BY <2>1
    <3>2. b % ByteBits \in Code(y, b \div ByteBits)
      BY <2>1, <3>1
    <3>3. PICK c \in Ones(y, b \div ByteBits) : c % ByteBits = b % ByteBits
      BY <3>2
    <3>4. c = b
      BY <3>3, Packing
    <3>. QED
      BY <3>3, <3>4
  <2>2. Code(v, b \div ByteBits) = Code(w, b \div ByteBits)
    <3>. HIDE DEF Code
    <3>1. b \div ByteBits \in 0..(Bytes - 1)
      BY <1>4, Packing
    <3>2. Signature(v, t)[b \div ByteBits] = Code(v, b \div ByteBits)
          /\ Signature(w, t)[b \div ByteBits] = Code(w, b \div ByteBits)
      BY <1>2, <3>1
    <3>. QED
      BY <1>4, <3>2
  <2>. HIDE DEF Code
  <2>. QED
    BY <2>1, <2>2
<1>. QED
  BY <1>1, <1>3, <1>4
-----------------------------------------------------------------------------
(* Keys and records.                                                       *)

LEMMA RecordFields ==
    ASSUME NEW k \in Card, NEW t \in Table
    PROVE  /\ RecordOf(k, t) \in Record
           /\ RecordOf(k, t).card = k /\ RecordOf(k, t).table = t
           /\ RecordOf(k, t).cap = CapOf[k] /\ RecordOf(k, t).cap \in CapId
           /\ RecordOf(k, t).peer = PublisherOf[k] /\ RecordOf(k, t).peer \in Node
           /\ RecordOf(k, t).key =
                 <<Fingerprint(FacetsOf[k]), t, Signature(VectorOf[k], t)>>
<1>1. RecordOf(k, t) \in Record
  BY DEF Record
<1>. QED
  BY <1>1, CardAssumption DEF RecordOf, DhtKey

\* The bucket a card is in, for a table: its facets and its side of the planes.
SameBucket(j, k, t) ==
    /\ Fingerprint(FacetsOf[j]) = Fingerprint(FacetsOf[k])
    /\ SameSide(VectorOf[j], VectorOf[k], t)

\* Records share a key exactly when they are of one table and one bucket of it.
LEMMA KeyIsBucket ==
    ASSUME NEW j \in Card, NEW k \in Card, NEW s \in Table, NEW t \in Table
    PROVE  RecordOf(j, s).key = RecordOf(k, t).key <=> s = t /\ SameBucket(j, k, t)
<1>1. VectorOf[j] \in Vector /\ VectorOf[k] \in Vector
  BY CardAssumption
<1>2. RecordOf(j, s).key = RecordOf(k, t).key <=>
        /\ Fingerprint(FacetsOf[j]) = Fingerprint(FacetsOf[k])
        /\ s = t
        /\ Signature(VectorOf[j], s) = Signature(VectorOf[k], t)
  BY RecordFields
<1>. QED
  BY <1>1, <1>2, SignatureIsSameSide DEF SameBucket

\* An intent finds under its keys the cards of its own bucket, and no others.
LEMMA LookupIsBucket ==
    ASSUME NEW k \in Card, NEW s \in Table, NEW t \in Table
    PROVE  RecordOf(k, s).key = LookupKey(t) <=>
             /\ s = t
             /\ Fingerprint(FacetsOf[k]) = Fingerprint(Required)
             /\ SameSide(VectorOf[k], Query, t)
<1>1. VectorOf[k] \in Vector /\ Query \in Vector
  BY CardAssumption
<1>2. RecordOf(k, s).key = LookupKey(t) <=>
        /\ Fingerprint(FacetsOf[k]) = Fingerprint(Required)
        /\ s = t
        /\ Signature(VectorOf[k], s) = Signature(Query, t)
  BY RecordFields DEF LookupKey, DhtKey
<1>. QED
  BY <1>1, <1>2, SignatureIsSameSide

LEMMA RecordsOfType ==
    ASSUME NEW k \in Card
    PROVE  /\ RecordsOf(k) \subseteq Record
           /\ \A t \in Table : RecordOf(k, t) \in RecordsOf(k)
           /\ \A r \in RecordsOf(k) : \E t \in Table : r = RecordOf(k, t)
           /\ \A r, s \in RecordsOf(k) : r.key = s.key => r = s
<1>1. \A s, t \in Table : RecordOf(k, s).key = RecordOf(k, t).key => s = t
  BY RecordFields
<1>. QED
  BY <1>1 DEF RecordsOf, Record
-----------------------------------------------------------------------------
(* The stores.                                                             *)

\* The variables that are indexed by daemons are functions of them.
Stores ==
    /\ local_cards \in [Node -> SUBSET Card]
    /\ store \in [Node -> SUBSET Record]

HasKey(n, key) == \E r \in store[n] : r.key = key

\* The requester does not restart, so a record that reached it leaves its key
\* there: of every card that is offered the record is under way to it, or its
\* store has that record or another of the same bucket.
ReachesRequester ==
    \A n \in Node : \A k \in local_cards[n], t \in Table :
        \/ <<Requester, RecordOf(k, t)>> \in puts
        \/ HasKey(Requester, RecordOf(k, t).key)

\* A filled bucket is still to be asked for at the requester's own store, which
\* has the key, or was hit.
FilledIsAsked ==
    \A t \in filled :
        \/ <<t, Requester>> \in lookups /\ HasKey(Requester, LookupKey(t))
        \/ \E r \in hits : r.table = t

\* The inductive invariant.
DirInv ==
    /\ TypeOK /\ Stores
    /\ HitsAreNeighbours /\ OwnRecordsKept
    /\ ReachesRequester /\ FilledIsAsked

LEMMA DirInvInit == Init => DirInv
<1>. SUFFICES ASSUME Init PROVE DirInv
  OBVIOUS
<1>1. TypeOK /\ Stores
  <2>1. asked \in BOOLEAN
    BY Zenon DEF Init
  <2>2. publishes \in 0..MaxPublishes /\ restarts \in 0..MaxRestarts
    BY ShapeAssumption DEF Init
  <2>. QED
    BY <2>1, <2>2 DEF Init, TypeOK, Stores
<1>2. HitsAreNeighbours /\ OwnRecordsKept /\ ReachesRequester
  BY DEF Init, HitsAreNeighbours, OwnRecordsKept, ReachesRequester
<1>3. FilledIsAsked
  BY DEF Init, FilledIsAsked
<1>. QED
  BY <1>1, <1>2, <1>3 DEF DirInv

\* What is left unchanged when only the stores of the daemons change.
LEMMA StoreStepKeeps ==
    ASSUME DirInv, TypeOK', Stores', OwnRecordsKept', ReachesRequester',
           \A key : HasKey(Requester, key) => HasKey(Requester, key)',
           UNCHANGED intentVars
    PROVE  DirInv'
<1>1. HitsAreNeighbours'
  BY DEF DirInv, intentVars, HitsAreNeighbours
<1>2. FilledIsAsked'
  BY DEF DirInv, intentVars, FilledIsAsked, LookupKey, DhtKey
<1>. QED
  BY <1>1, <1>2 DEF DirInv

LEMMA PublishKeeps ==
    ASSUME DirInv, NEW k \in Card, Publish(k) PROVE DirInv'
<1>. DEFINE n == PublisherOf[k]
            records == RecordsOf(k)
<1>1. n \in Node /\ Requester \in Node
  BY CardAssumption
<1>2. /\ publishes' \in 0..MaxPublishes /\ restarts' = restarts
      /\ puts' = puts \cup ((Node \ {n}) \X records)
      /\ UNCHANGED intentVars
  BY ShapeAssumption DEF Publish, DirInv, TypeOK
<1>3. /\ local_cards' \in [Node -> SUBSET Card]
      /\ local_cards'[n] = InsertCard(local_cards[n], k)
      /\ \A m \in Node \ {n} : local_cards'[m] = local_cards[m]
  BY <1>1 DEF Publish, DirInv, Stores, InsertCard
<1>4. /\ store' \in [Node -> SUBSET Record]
      /\ store'[n] =
            {x \in store[n] : \A r \in records : x.key # r.key} \cup records
      /\ \A m \in Node \ {n} : store'[m] = store[m]
  BY <1>1, RecordsOfType DEF Publish, DirInv, Stores
<1>5. \A x \in store'[n] : x \in records \/ (x \in store[n] /\ \A r \in records : x.key # r.key)
  BY <1>4
<1>. HIDE DEF n, records
<1>6. \A m \in Node : \A key : HasKey(m, key) => HasKey(m, key)'
  <2>. SUFFICES ASSUME NEW m \in Node, NEW key, HasKey(m, key)
                PROVE  HasKey(m, key)'
    OBVIOUS
  <2>1. PICK r \in store[m] : r.key = key
    BY DEF HasKey
  <2>2. \E x \in store'[m] : x.key = key
    BY <1>4, <2>1
  <2>. QED
    BY <2>2 DEF HasKey
<1>7. TypeOK' /\ Stores'
  <2>1. records \subseteq Record /\ \A r, s \in records : r.key = s.key => r = s
    BY RecordsOfType DEF records
  <2>2. \A m \in Node : \A r, s \in store'[m] : r.key = s.key => r = s
    <3>1. \A r, s \in store'[n] : r.key = s.key => r = s
      BY <1>1, <1>5, <2>1 DEF DirInv, TypeOK
    <3>. QED
      BY <1>4, <3>1 DEF DirInv, TypeOK
  <2>3. \A m \in Node : \A x, y \in local_cards'[m] : CapOf[x] = CapOf[y] => x = y
    BY <1>1, <1>3 DEF DirInv, TypeOK, InsertCard
  <2>4. puts' \subseteq Node \X Record
    BY <1>2, <2>1 DEF DirInv, TypeOK
  <2>. QED
    BY <1>2, <1>3, <1>4, <2>2, <2>3, <2>4 DEF DirInv, TypeOK, Stores, intentVars
<1>8. OwnRecordsKept'
  <2>. SUFFICES ASSUME NEW m \in Node, NEW j \in local_cards'[m], NEW t \in Table
                PROVE  \/ RecordOf(j, t) \in store'[m]
                       \/ \E i \in Card \ {j} : SameBucket(i, j, t)
    BY DEF OwnRecordsKept, SameBucket
  <2>0. j \in Card
    BY <1>3
  <2>1. CASE m # n
    BY <1>3, <1>4, <2>1 DEF DirInv, OwnRecordsKept, SameBucket
  <2>2. CASE j = k /\ m = n
    BY <1>4, <2>2, RecordsOfType DEF records
  <2>3. CASE j # k /\ m = n
    <3>1. j \in local_cards[n]
      BY <1>3, <2>3 DEF InsertCard
    <3>2. CASE RecordOf(j, t) \in store[n] /\ RecordOf(j, t) \notin store'[n]
      <4>1. PICK r \in records : r.key = RecordOf(j, t).key
        BY <1>4, <3>2
      <4>2. PICK s \in Table : r = RecordOf(k, s)
        BY <4>1, RecordsOfType DEF records
      <4>3. SameBucket(k, j, t)
        BY <2>0, <4>1, <4>2, KeyIsBucket
      <4>. QED
        BY <2>3, <4>3
    <3>. QED
      BY <1>1, <2>3, <3>1, <3>2 DEF DirInv, OwnRecordsKept, SameBucket
  <2>. QED
    BY <2>1, <2>2, <2>3
<1>9. ReachesRequester'
  <2>. SUFFICES ASSUME NEW m \in Node, NEW j \in local_cards'[m], NEW t \in Table
                PROVE  \/ <<Requester, RecordOf(j, t)>> \in puts'
                       \/ HasKey(Requester, RecordOf(j, t).key)'
    BY DEF ReachesRequester
  <2>1. CASE j = k
    <3>1. RecordOf(k, t) \in records
      BY RecordsOfType DEF records
    <3>2. CASE Requester = n
      BY <1>1, <1>4, <2>1, <3>1, <3>2 DEF HasKey
    <3>3. CASE Requester # n
      BY <1>1, <1>2, <2>1, <3>1, <3>3
    <3>. QED
      BY <3>2, <3>3
  <2>2. CASE j # k
    <3>1. j \in local_cards[m]
      BY <1>1, <1>3, <2>2 DEF InsertCard
    <3>. QED
      BY <1>1, <1>2, <1>6, <3>1 DEF DirInv, ReachesRequester
  <2>. QED
    BY <2>1, <2>2
<1>. QED
  BY <1>1, <1>2, <1>6, <1>7, <1>8, <1>9, StoreStepKeeps

LEMMA ReplicateKeeps ==
    ASSUME DirInv, NEW n, NEW r, <<n, r>> \in puts, Replicate(n, r) PROVE DirInv'
<1>1. n \in Node /\ r \in Record /\ Requester \in Node
  BY CardAssumption DEF DirInv, TypeOK
<1>2. /\ puts' = puts \ {<<n, r>>}
      /\ UNCHANGED <<publishes, restarts, local_cards, intentVars>>
  BY DEF Replicate
<1>3. /\ store' \in [Node -> SUBSET Record]
      /\ store'[n] = {x \in store[n] : x.key # r.key} \cup {r}
      /\ \A m \in Node \ {n} : store'[m] = store[m]
  BY <1>1 DEF Replicate, DirInv, Stores, StoreRecord
<1>4. PICK i \in Card, u \in Table : r = RecordOf(i, u)
  BY <1>1 DEF Record
<1>5. \A m \in Node : \A key : HasKey(m, key) => HasKey(m, key)'
  BY <1>3 DEF HasKey
<1>6. TypeOK' /\ Stores'
  <2>1. \A m \in Node : \A x, y \in store'[m] : x.key = y.key => x = y
    BY <1>1, <1>3 DEF DirInv, TypeOK
  <2>. QED
    BY <1>2, <1>3, <2>1 DEF DirInv, TypeOK, Stores, intentVars
<1>7. OwnRecordsKept'
  <2>. SUFFICES ASSUME NEW m \in Node, NEW j \in local_cards[m], NEW t \in Table
                PROVE  \/ RecordOf(j, t) \in store'[m]
                       \/ \E h \in Card \ {j} : SameBucket(h, j, t)
    BY <1>2 DEF OwnRecordsKept, SameBucket
  <2>0. j \in Card
    BY DEF DirInv, Stores
  <2>1. CASE RecordOf(j, t) \in store[m] /\ RecordOf(j, t) \notin store'[m]
    <3>1. m = n /\ RecordOf(i, u).key = RecordOf(j, t).key
      BY <1>3, <1>4, <2>1
    <3>2. u = t /\ SameBucket(i, j, t)
      BY <2>0, <3>1, KeyIsBucket
    <3>3. i # j
      BY <1>3, <1>4, <2>1, <3>1, <3>2
    <3>. QED
      BY <3>2, <3>3
  <2>. QED
    BY <2>1 DEF DirInv, OwnRecordsKept, SameBucket
<1>8. ReachesRequester'
  <2>. SUFFICES ASSUME NEW m \in Node, NEW j \in local_cards[m], NEW t \in Table
                PROVE  \/ <<Requester, RecordOf(j, t)>> \in puts'
                       \/ HasKey(Requester, RecordOf(j, t).key)'
    BY <1>2 DEF ReachesRequester
  <2>1. CASE n = Requester /\ r = RecordOf(j, t)
    BY <1>3, <2>1 DEF HasKey
  <2>2. CASE ~(n = Requester /\ r = RecordOf(j, t))
    BY <1>1, <1>2, <1>5, <2>2 DEF DirInv, ReachesRequester
  <2>. QED
    BY <2>1, <2>2
<1>. QED
  BY <1>1, <1>2, <1>5, <1>6, <1>7, <1>8, StoreStepKeeps

LEMMA RestartKeeps ==
    ASSUME DirInv, NEW n \in Node, Restart(n) PROVE DirInv'
<1>1. n # Requester /\ Requester \in Node
  BY CardAssumption DEF Restart
<1>2. /\ restarts' \in 0..MaxRestarts /\ publishes' = publishes
      /\ puts' = {x \in puts : x[1] # n}
      /\ UNCHANGED intentVars
  BY ShapeAssumption DEF Restart, DirInv, TypeOK
<1>3. /\ local_cards' \in [Node -> SUBSET Card] /\ local_cards'[n] = {}
      /\ store' \in [Node -> SUBSET Record] /\ store'[n] = {}
      /\ \A m \in Node \ {n} : local_cards'[m] = local_cards[m] /\ store'[m] = store[m]
  BY DEF Restart, DirInv, Stores
<1>4. TypeOK' /\ Stores'
  BY <1>2, <1>3 DEF DirInv, TypeOK, Stores, intentVars
<1>5. OwnRecordsKept'
  BY <1>3 DEF DirInv, OwnRecordsKept
<1>6. \A key : HasKey(Requester, key) => HasKey(Requester, key)'
  BY <1>1, <1>3 DEF HasKey
<1>7. ReachesRequester'
  BY <1>1, <1>2, <1>3, <1>6 DEF DirInv, ReachesRequester
<1>. QED
  BY <1>2, <1>4, <1>5, <1>6, <1>7, StoreStepKeeps
-----------------------------------------------------------------------------
(* The intent.                                                             *)

\* The steps of the intent leave the stores alone.
LEMMA IntentStepKeeps ==
    ASSUME DirInv, UNCHANGED <<restarts, dhtVars>>, TypeOK',
           HitsAreNeighbours', FilledIsAsked'
    PROVE  DirInv'
BY DEF DirInv, dhtVars, Stores, OwnRecordsKept, ReachesRequester, HasKey

LEMMA SubmitIntentKeeps ==
    ASSUME DirInv, SubmitIntent PROVE DirInv'
<1>1. /\ UNCHANGED <<restarts, dhtVars, hits, fetches, requested, fetched>>
      /\ lookups' = Table \X Node
  BY DEF SubmitIntent
<1>2. /\ asked' \in BOOLEAN
  BY Zenon DEF SubmitIntent
<1>3. filled' \subseteq Table
  BY DEF SubmitIntent
<1>4. TypeOK'
  BY <1>1, <1>2, <1>3 DEF DirInv, TypeOK, dhtVars
<1>5. HitsAreNeighbours'
  BY <1>1 DEF DirInv, HitsAreNeighbours
<1>6. FilledIsAsked'
  <2>. SUFFICES ASSUME NEW t \in filled'
                PROVE  /\ <<t, Requester>> \in lookups'
                       /\ HasKey(Requester, LookupKey(t))'
    BY DEF FilledIsAsked
  <2>1. PICK n \in Node : \E k \in local_cards[n] :
                     /\ Fingerprint(FacetsOf[k]) = Fingerprint(Required)
                     /\ SameSide(VectorOf[k], Query, t)
                     /\ <<Requester, RecordOf(k, t)>> \notin puts
    BY DEF SubmitIntent
  <2>2. PICK k \in local_cards[n] :
                     /\ Fingerprint(FacetsOf[k]) = Fingerprint(Required)
                     /\ SameSide(VectorOf[k], Query, t)
                     /\ <<Requester, RecordOf(k, t)>> \notin puts
    BY <2>1
  <2>3. t \in Table /\ k \in Card
    BY <1>3 DEF DirInv, Stores
  <2>4. RecordOf(k, t).key = LookupKey(t)
    BY <2>2, <2>3, LookupIsBucket
  <2>5. HasKey(Requester, LookupKey(t))
    BY <2>2, <2>3, <2>4 DEF DirInv, ReachesRequester
  <2>. QED
    BY <1>1, <2>3, <2>5, CardAssumption DEF HasKey, dhtVars, LookupKey, DhtKey
<1>. QED
  BY <1>1, <1>4, <1>5, <1>6, IntentStepKeeps

\* A record found under the key of table t is of t and of the query's bucket.
LEMMA FoundRecord ==
    ASSUME DirInv, NEW n \in Node, NEW t \in Table, NEW r \in store[n],
           r.key = LookupKey(t)
    PROVE  /\ r \in Record /\ r.table = t
           /\ <<r.cap, r.peer>> \in CapId \X Node
           /\ Fingerprint(FacetsOf[r.card]) = Fingerprint(Required)
           /\ SameSide(VectorOf[r.card], Query, r.table)
<1>1. PICK k \in Card, s \in Table : r = RecordOf(k, s)
  BY DEF DirInv, Stores, Record
<1>2. /\ s = t
      /\ Fingerprint(FacetsOf[k]) = Fingerprint(Required)
      /\ SameSide(VectorOf[k], Query, t)
  BY <1>1, LookupIsBucket
<1>. QED
  BY <1>1, <1>2, RecordFields

LEMMA OnDirectoryHitKeeps ==
    ASSUME DirInv, NEW r, OnDirectoryHit(r), <<r.cap, r.peer>> \in CapId \X Node
    PROVE  fetches' \subseteq requested' /\ requested' \subseteq CapId \X Node
<1>1. requested' = requested \cup fetches'
  BY DEF OnDirectoryHit
<1>2. fetches' \subseteq fetches \cup {<<r.cap, r.peer>>}
  BY DEF OnDirectoryHit
<1>. QED
  BY <1>1, <1>2 DEF DirInv, TypeOK

LEMMA AnswerKeeps ==
    ASSUME DirInv, NEW t \in Table, NEW n \in Node, Answer(t, n) PROVE DirInv'
<1>1. /\ lookups' = lookups \ {<<t, n>>}
      /\ UNCHANGED <<restarts, dhtVars, asked, fetched, filled>>
  BY DEF Answer
<1>2. \A key : HasKey(Requester, key)' <=> HasKey(Requester, key)
  BY <1>1 DEF HasKey, dhtVars
<1>3. ASSUME NEW r \in store[n], r.key = LookupKey(t), OnDirectoryHit(r)
      PROVE  DirInv'
  <2>1. /\ r \in Record /\ r.table = t
        /\ <<r.cap, r.peer>> \in CapId \X Node
        /\ Fingerprint(FacetsOf[r.card]) = Fingerprint(Required)
        /\ SameSide(VectorOf[r.card], Query, r.table)
    BY <1>3, FoundRecord
  <2>2. hits' = hits \cup {r}
    BY <1>3 DEF OnDirectoryHit
  <2>3. fetches' \subseteq requested' /\ requested' \subseteq CapId \X Node
    BY <1>3, <2>1, OnDirectoryHitKeeps
  <2>4. HitsAreNeighbours'
    BY <2>1, <2>2 DEF DirInv, HitsAreNeighbours
  <2>5. TypeOK'
    BY <1>1, <2>1, <2>2, <2>3 DEF DirInv, TypeOK, dhtVars
  <2>6. FilledIsAsked'
    <3>. SUFFICES ASSUME NEW u \in filled
                  PROVE  \/ /\ <<u, Requester>> \in lookups'
                            /\ HasKey(Requester, LookupKey(u))'
                         \/ \E x \in hits' : x.table = u
      BY <1>1 DEF FilledIsAsked
    <3>1. CASE u = t
      BY <2>1, <2>2, <3>1
    <3>2. CASE u # t
      <4>1. LookupKey(u)' = LookupKey(u)
        BY DEF LookupKey, DhtKey
      <4>2. <<u, Requester>> \in lookups => <<u, Requester>> \in lookups'
        BY <1>1, <3>2
      <4>. QED
        BY <1>2, <2>2, <4>1, <4>2 DEF DirInv, FilledIsAsked
    <3>. QED
      BY <3>1, <3>2
  <2>. QED
    BY <1>1, <2>4, <2>5, <2>6, IntentStepKeeps
<1>4. CASE /\ {r \in store[n] : r.key = LookupKey(t)} = {}
           /\ UNCHANGED <<hits, fetches, requested>>
  <2>1. TypeOK' /\ HitsAreNeighbours'
    BY <1>1, <1>4 DEF DirInv, TypeOK, dhtVars, HitsAreNeighbours
  <2>2. FilledIsAsked'
    <3>. SUFFICES ASSUME NEW u \in filled
                  PROVE  \/ /\ <<u, Requester>> \in lookups'
                            /\ HasKey(Requester, LookupKey(u))'
                         \/ \E x \in hits' : x.table = u
      BY <1>1 DEF FilledIsAsked
    <3>1. LookupKey(u)' = LookupKey(u)
      BY DEF LookupKey, DhtKey
    <3>2. CASE \E x \in hits : x.table = u
      BY <1>4, <3>2
    <3>3. CASE <<u, Requester>> \in lookups /\ HasKey(Requester, LookupKey(u))
      <4>1. <<u, Requester>> # <<t, n>>
        BY <1>4, <3>3 DEF HasKey
      <4>. QED
        BY <1>1, <1>2, <3>1, <3>3, <4>1
    <3>. QED
      BY <3>2, <3>3 DEF DirInv, FilledIsAsked
  <2>. QED
    BY <1>1, <2>1, <2>2, IntentStepKeeps
<1>. QED
  BY <1>3, <1>4 DEF Answer

LEMMA ServeCardKeeps ==
    ASSUME DirInv, NEW cap, NEW p, <<cap, p>> \in fetches, ServeCard(cap, p)
    PROVE  DirInv'
<1>1. /\ UNCHANGED <<restarts, dhtVars, asked, lookups, hits, requested, filled>>
      /\ fetches' \subseteq fetches
      /\ fetched' = fetched \cup {k \in local_cards[p] : CapOf[k] = cap}
  BY DEF ServeCard
<1>2. p \in Node
  BY DEF DirInv, TypeOK
<1>3. TypeOK'
  BY <1>1, <1>2 DEF DirInv, TypeOK, Stores, dhtVars
<1>4. HitsAreNeighbours'
  BY <1>1 DEF DirInv, HitsAreNeighbours
<1>5. FilledIsAsked'
  BY <1>1 DEF DirInv, FilledIsAsked, HasKey, dhtVars, LookupKey, DhtKey
<1>. QED
  BY <1>1, <1>3, <1>4, <1>5, IntentStepKeeps
-----------------------------------------------------------------------------
LEMMA DirInvNext == DirInv /\ [Next]_vars => DirInv'
<1>. SUFFICES ASSUME DirInv, [Next]_vars PROVE DirInv'
  OBVIOUS
<1>1. CASE UNCHANGED vars
  <2>1. UNCHANGED <<publishes, restarts, local_cards, store, puts, asked,
                    lookups, hits, fetches, requested, fetched, filled>>
    BY <1>1 DEF vars, dhtVars, intentVars
  <2>2. TypeOK' /\ Stores'
    BY <2>1 DEF DirInv, TypeOK, Stores
  <2>3. OwnRecordsKept' /\ ReachesRequester'
    BY <2>1 DEF DirInv, OwnRecordsKept, ReachesRequester, HasKey
  <2>. QED
    BY <2>1, <2>2, <2>3, StoreStepKeeps DEF intentVars, HasKey
<1>2. ASSUME NEW x \in puts, Replicate(x[1], x[2])
      PROVE  DirInv'
  <2>1. <<x[1], x[2]>> \in puts
    BY <1>2 DEF DirInv, TypeOK
  <2>. QED
    BY <1>2, <2>1, ReplicateKeeps
<1>3. ASSUME NEW f \in fetches, ServeCard(f[1], f[2])
      PROVE  DirInv'
  <2>1. <<f[1], f[2]>> \in fetches
    BY <1>3 DEF DirInv, TypeOK
  <2>. QED
    BY <1>3, <2>1, ServeCardKeeps
<1>. QED
  BY <1>1, <1>2, <1>3, SubmitIntentKeeps, PublishKeeps, RestartKeeps, AnswerKeeps
     DEF Next

LEMMA DirectoryInvariance == Spec => []DirInv
BY DirInvInit, DirInvNext, PTL DEF Spec

\* A daemon has one card per id and one record per key.
THEOREM DirectoryTypeCorrect == Spec => []TypeOK
BY DirectoryInvariance, PTL DEF DirInv

\* Whatever the number of tables and of bits, and however the bits are packed,
\* a lookup returns cards of the bucket that was asked for and no others.
THEOREM HitsAreNeighboursCorrect == Spec => []HitsAreNeighbours
BY DirectoryInvariance, PTL DEF DirInv

\* A daemon loses a record of a card it offers only to a card of the same bucket.
THEOREM OwnRecordsKeptCorrect == Spec => []OwnRecordsKept
BY DirectoryInvariance, PTL DEF DirInv

\* The lookups of a bucket that had a card in reach end with a hit, whatever
\* copies arrive and whichever other daemons restart in the meantime.
THEOREM FilledBucketsHitCorrect == Spec => []FilledBucketsHit
<1>1. DirInv => FilledBucketsHit
  BY CardAssumption DEF DirInv, FilledIsAsked, FilledBucketsHit
<1>. QED
  BY <1>1, DirectoryInvariance, PTL
=============================================================================
