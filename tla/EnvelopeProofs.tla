---------------------------- MODULE EnvelopeProofs ----------------------------
(***************************************************************************)
(* Proofs about Envelope: verify accepts exactly what build returned, and  *)
(* receipts survive the table, for any identities, facets, lengths and     *)
(* width of a timestamp, and any number of values and changes.             *)
(***************************************************************************)
EXTENDS Envelope, FiniteSetTheorems, TLAPS

-----------------------------------------------------------------------------
(* Timestamps.                                                             *)

\* Counted with the subsets of 1..n, as the provers know no law of powers.
LEMMA PowerDoubles ==
    ASSUME NEW n \in Nat
    PROVE  2^n \in Nat \ {0} /\ 2^(n + 1) = 2 * 2^n
<1>. DEFINE A == 1..n
            x == n + 1
            B == 1..x
            P == SUBSET A
            Q == {X \cup {x} : X \in P}
            f == [X \in P |-> X \cup {x}]
<1>1. IsFiniteSet(A) /\ Cardinality(A) = n /\ IsFiniteSet(B) /\ Cardinality(B) = n + 1
  BY FS_Interval
<1>2. B = A \cup {x} /\ x \notin A
  OBVIOUS
<1>3. /\ IsFiniteSet(P) /\ Cardinality(P) = 2^n
      /\ IsFiniteSet(SUBSET B) /\ Cardinality(SUBSET B) = 2^(n + 1)
  <2>1. \A S : IsFiniteSet(S) => IsFiniteSet(SUBSET S) /\ Cardinality(SUBSET S) = 2^Cardinality(S)
    BY FS_SUBSET
  <2>. HIDE DEF B, x, A
  <2>. QED
    BY <1>1, <2>1
<1>. HIDE DEF A, B, x
<1>4. IsFiniteSet(Q) /\ Cardinality(Q) = Cardinality(P)
  <2>1. f \in [P -> Q] /\ \A q \in Q : \E X \in P : f[X] = q
    OBVIOUS
  <2>2. \A X, Y \in P : f[X] = f[Y] => X = Y
    BY <1>2
  <2>3. ExistsBijection(P, Q)
    BY <2>1, <2>2 DEF ExistsBijection, Bijection, Injection, Surjection, IsInjective
  <2>. QED
    BY <1>3, <2>3, FS_Bijection
<1>5. SUBSET B = P \cup Q
  <2>1. ASSUME NEW Y \in SUBSET B, x \in Y PROVE Y \in Q
    <3>1. Y \ {x} \in P /\ Y = (Y \ {x}) \cup {x}
      BY <1>2, <2>1
    <3>. QED
      BY <3>1
  <2>. QED
    BY <1>2, <2>1
<1>6. P \cap Q = {}
  BY <1>2
<1>7. Cardinality(SUBSET B) = Cardinality(P) + Cardinality(Q) - Cardinality(P \cap Q)
  BY <1>3, <1>4, <1>5, FS_Union
<1>8. Cardinality(P \cap Q) = 0
  BY <1>6, FS_EmptySet
<1>9. Cardinality(P) \in Nat /\ Cardinality(P) # 0
  <2>1. {} \in P
    OBVIOUS
  <2>. QED
    BY <1>3, <2>1, FS_CardinalityType, FS_EmptySet
<1>. QED
  BY <1>3, <1>4, <1>7, <1>8, <1>9

\* `as i64` has a value for every u64, and `as u64` gives it back.
LEMMA StampRoundTrip ==
    ASSUME NEW u \in Stamp
    PROVE  /\ ToI64(u) \in (-(2^(W - 1)))..(2^(W - 1) - 1)
           /\ ToU64(ToI64(u)) = u
<1>. DEFINE h == 2^(W - 1)
            m == 2^W
<1>1. W - 1 \in Nat /\ (W - 1) + 1 = W
  BY EnvelopeAssumption
<1>2. h \in Nat \ {0} /\ m = 2 * h
  BY <1>1, PowerDoubles
<1>3. u \in 0..(m - 1)
  BY DEF Stamp
<1>4. ToI64(u) = (IF u < h THEN u ELSE u - m) /\ \A i : ToU64(i) = i % m
  BY DEF ToI64, ToU64
<1>. HIDE DEF h, m
<1>5. m \in Nat \ {0} /\ u \in Nat /\ u < m
  BY <1>2, <1>3
<1>6. u % m = u
  BY <1>5
<1>7. (u - m) % m = u
  <2>1. u - m = m * (-1) + u
    BY <1>5
  <2>. QED
    BY <1>5, <2>1
<1>8. ToI64(u) \in (-h)..(h - 1)
  BY <1>2, <1>4, <1>5
<1>. QED
  BY <1>4, <1>6, <1>7, <1>8 DEF h, m

-----------------------------------------------------------------------------
(* Values.                                                                 *)

LEMMA SameFields ==
    ASSUME NEW S, NEW v \in Fields(S), NEW w \in Fields(S),
           v.owner = w.owner, v.key = w.key, v.facets = w.facets,
           v.fingerprint = w.fingerprint, v.embedding = w.embedding,
           v.body = w.body, v.at = w.at, v.signature = w.signature
    PROVE  v = w
BY DEF Fields

LEMMA SigningBytesType ==
    ASSUME NEW v \in Value
    PROVE  SigningBytes(v) \in Unsigned
BY DEF SigningBytes, Value, Unsigned, Fields

\* Two values with the same signing bytes and signature are one.
LEMMA SigningBytesInjective ==
    ASSUME NEW v \in Value, NEW w \in Value,
           SigningBytes(v) = SigningBytes(w), v.signature = w.signature
    PROVE  v = w
<1>1. \A u \in Value :
        LET b == SigningBytes(u) IN
        /\ b.owner = u.owner /\ b.key = u.key /\ b.facets = u.facets
        /\ b.fingerprint = u.fingerprint /\ b.embedding = u.embedding
        /\ b.body = u.body /\ b.at = u.at
  BY DEF SigningBytes, Value, Fields
<1>. QED
  BY <1>1, SameFields DEF Value

\* The row of a value, as InsertRow writes it.
Row(v) == [v EXCEPT !.at = ToI64(@)]

LEMMA RowRoundTrip ==
    ASSUME NEW v \in Value
    PROVE  /\ Row(v).body = v.body
           /\ Row(v).at \in (-(2^(W - 1)))..(2^(W - 1) - 1)
           /\ FromRow(Row(v)) = v
<1>1. v.at \in Stamp
  BY DEF Value, Fields
<1>. DEFINE t == ToI64(v.at)
<1>2. t \in (-(2^(W - 1)))..(2^(W - 1) - 1) /\ ToU64(t) = v.at
  BY <1>1, StampRoundTrip
<1>3. Row(v) = [v EXCEPT !.at = t]
  BY DEF Row
<1>. HIDE DEF t
<1>4. Row(v).body = v.body /\ Row(v).at = t
  BY <1>3 DEF Value, Fields
<1>5. FromRow(Row(v)) = [[v EXCEPT !.at = t] EXCEPT !.at = v.at]
  BY <1>2, <1>3, <1>4 DEF FromRow
<1>6. [[v EXCEPT !.at = t] EXCEPT !.at = v.at] = v
  BY DEF Value, Fields
<1>. QED
  BY <1>2, <1>4, <1>5, <1>6

-----------------------------------------------------------------------------
(* The inductive invariant.                                                *)

\* What build returns: signed by its key, which is its owner's, over its own
\* fields, and a card with the canonical embedding and its own fingerprint.
Genuine(w) ==
    /\ w.key \in Identity
    /\ w.owner = IF Owned THEN w.key ELSE NONE
    /\ kind = "card" =>
          /\ w.facets \in FacetChoices /\ w.fingerprint = Fingerprint(w.facets)
          /\ Dim \in Lengths
          /\ w.embedding = [model_id |-> "canonical", dimension |-> Dim, len |-> Dim]
    /\ w.signature = Sign(w.key, SigningBytes(w))

BuiltGenuine == IsFiniteSet(built) /\ \A w \in built : Genuine(w)

\* Nobody makes a signature but build.
HeldSignature ==
    held # NONE => \/ held.signature = NONE
                   \/ \E w \in built : held.signature = w.signature

RowsOfBuilt == \A r \in rows : \E v \in built : r = Row(v)

VerdictOfHeld == verdict # NONE => held # NONE /\ verdict = Verdict(held)

EInv == TypeOK /\ BuiltGenuine /\ HeldSignature /\ RowsOfBuilt /\ VerdictOfHeld

LEMMA GenuineVerifies ==
    ASSUME kind \in Kind, NEW w \in Value, Genuine(w)
    PROVE  Verdict(w) = "Ok"
<1>1. w.key # NONE /\ (Owned => w.owner # NONE /\ w.key = w.owner)
  BY NoneAssumption DEF Genuine
<1>2. kind = "card" => CardError(w) = NONE
  <2>. SUFFICES ASSUME kind = "card" PROVE CardError(w) = NONE
    OBVIOUS
  <2>2. w.embedding.model_id = "canonical" /\ w.embedding.dimension = Dim /\ w.embedding.len = Dim
    BY DEF Genuine
  <2>3. w.facets # NONE /\ w.fingerprint = Fingerprint(w.facets)
    BY NoneAssumption DEF Genuine
  <2>4. w.embedding # NONE
    BY NoneAssumption DEF Genuine, Embedding, Model
  <2>. QED
    BY <2>2, <2>3, <2>4 DEF CardError
<1>3. VerifySignature(w.key, SigningBytes(w), w.signature)
  BY DEF Genuine, VerifySignature
<1>. QED
  BY <1>1, <1>2, <1>3 DEF Verdict

LEMMA VerifiedIsBuilt ==
    ASSUME TypeOK, BuiltGenuine, HeldSignature, held # NONE, Verdict(held) = "Ok"
    PROVE  held \in built
<1>1. held \in Value /\ built \subseteq Value
  BY DEF TypeOK
<1>2. held.key # NONE /\ held.signature = Sign(held.key, SigningBytes(held))
  <2>1. CardError(held) # "Ok"
    BY NoneAssumption DEF CardError
  <2>2. held.key # NONE
    BY <2>1 DEF Verdict
  <2>3. VerifySignature(held.key, SigningBytes(held), held.signature)
    BY <2>1 DEF Verdict
  <2>. QED
    BY <2>2, <2>3 DEF VerifySignature
<1>3. held.signature # NONE
  <2>1. held.key \in Identity
    BY <1>1, <1>2 DEF Value, Fields
  <2>2. held.signature \in Signature
    BY <1>1, <1>2, <2>1, SigningBytesType DEF Sign, Signature
  <2>. QED
    BY <2>2, NoneAssumption
<1>4. PICK w \in built : held.signature = w.signature
  BY <1>3 DEF HeldSignature
<1>5. w.signature = Sign(w.key, SigningBytes(w))
  BY DEF BuiltGenuine, Genuine
<1>6. SigningBytes(held) = SigningBytes(w)
  BY <1>2, <1>4, <1>5 DEF Sign
<1>7. held = w
  BY <1>1, <1>4, <1>6, SigningBytesInjective
<1>. QED
  BY <1>7

-----------------------------------------------------------------------------
(* The steps.                                                              *)

\* What build returns is genuine, and of the type of a value.
LEMMA SignedIsGenuine ==
    ASSUME TypeOK, NEW i \in Identity, NEW b \in Body, NEW f \in FacetChoices,
           NEW len \in Lengths, kind = "card" => len = Dim
    PROVE  Signed(i, Draft(i, b, f, len)) \in Value
           /\ Genuine(Signed(i, Draft(i, b, f, len)))
<1>. DEFINE d == Draft(i, b, f, len)
            v == Signed(i, d)
<1>1. /\ d \in Unsigned /\ d.key = i /\ d.owner = (IF Owned THEN i ELSE NONE)
      /\ kind = "card" =>
            /\ d.facets = f /\ d.fingerprint = Fingerprint(f)
            /\ d.embedding = [model_id |-> "canonical", dimension |-> Dim, len |-> Dim]
  <2>1. kind = "card" =>
          [model_id |-> "canonical", dimension |-> Dim, len |-> len] \in Embedding
    BY DEF Embedding, Model
  <2>2. now \in Stamp /\ Fingerprint(f) \in {Fingerprint(g) : g \in FacetChoices}
    BY DEF TypeOK
  <2>3. d \in Unsigned
    BY <2>1, <2>2 DEF Draft, Unsigned, Fields
  <2>4. d.key = i /\ d.owner = (IF Owned THEN i ELSE NONE)
    BY DEF Draft
  <2>5. kind = "card" =>
            /\ d.facets = f /\ d.fingerprint = Fingerprint(f)
            /\ d.embedding = [model_id |-> "canonical", dimension |-> Dim, len |-> Dim]
    BY DEF Draft
  <2>. QED
    BY <2>3, <2>4, <2>5
<1>2. v = [d EXCEPT !.signature = Sign(i, SigningBytes(d))]
  BY DEF Signed
<1>. HIDE DEF d, v
<1>3. SigningBytes(d) = d
  BY <1>1 DEF SigningBytes, Unsigned, Fields
<1>4. <<i, d>> \in Signature
  BY <1>1 DEF Signature
<1>5. v = [d EXCEPT !.signature = <<i, d>>]
  BY <1>2, <1>3 DEF Sign
<1>6. v \in Value
  BY <1>1, <1>4, <1>5 DEF Unsigned, Value, Fields
<1>7. SigningBytes(v) = d
  BY <1>1, <1>5 DEF SigningBytes, Unsigned, Fields
<1>8. /\ v.key = d.key /\ v.owner = d.owner /\ v.facets = d.facets
      /\ v.fingerprint = d.fingerprint /\ v.embedding = d.embedding
      /\ v.signature = <<i, d>>
  BY <1>1, <1>5 DEF Unsigned, Fields
<1>9. Genuine(v)
  <2>1. v.key \in Identity /\ v.owner = (IF Owned THEN v.key ELSE NONE)
    BY <1>1, <1>8
  <2>2. v.signature = Sign(v.key, SigningBytes(v))
    BY <1>1, <1>7, <1>8 DEF Sign
  <2>3. kind = "card" =>
          /\ v.facets \in FacetChoices /\ v.fingerprint = Fingerprint(v.facets)
          /\ Dim \in Lengths
          /\ v.embedding = [model_id |-> "canonical", dimension |-> Dim, len |-> Dim]
    BY <1>1, <1>8
  <2>. QED
    BY <2>1, <2>2, <2>3 DEF Genuine
<1>. QED
  BY <1>6, <1>9 DEF v, d

\* A change leaves a value, whose signature is no new one.
LEMMA AlteredType ==
    ASSUME TypeOK, BuiltGenuine, NEW h \in Value, NEW v \in Altered(h)
    PROVE  /\ v \in Value
           /\ \/ v.signature = h.signature \/ v.signature = NONE
              \/ \E w \in built : v.signature = w.signature
<1>1. ASSUME NEW o \in Identity \cup {NONE}, v = [h EXCEPT !.owner = o]
      PROVE  v \in Value /\ v.signature = h.signature
  BY <1>1 DEF Value, Fields
<1>2. ASSUME NEW k \in Identity \cup {NONE}, v = [h EXCEPT !.key = k]
      PROVE  v \in Value /\ v.signature = h.signature
  BY <1>2 DEF Value, Fields
<1>3. ASSUME NEW b \in Body, v = [h EXCEPT !.body = b]
      PROVE  v \in Value /\ v.signature = h.signature
  BY <1>3 DEF Value, Fields
<1>4. ASSUME NEW t \in Stamp, v = [h EXCEPT !.at = t]
      PROVE  v \in Value /\ v.signature = h.signature
  BY <1>4 DEF Value, Fields
<1>5. ASSUME NEW s \in {w.signature : w \in built} \cup {NONE},
             v = [h EXCEPT !.signature = s]
      PROVE  v \in Value /\ v.signature = s
  <2>1. s \in Signature \cup {NONE}
    <3>1. ASSUME NEW w \in built PROVE w.signature \in Signature \cup {NONE}
      BY DEF TypeOK, Value, Fields
    <3>. QED
      BY <3>1
  <2>. QED
    BY <1>5, <2>1 DEF Value, Fields
<1>6. ASSUME NEW f \in FacetChoices \cup {NONE}, v = [h EXCEPT !.facets = f]
      PROVE  v \in Value /\ v.signature = h.signature
  BY <1>6 DEF Value, Fields
<1>7. ASSUME NEW f \in FacetChoices, v = [h EXCEPT !.fingerprint = Fingerprint(f)]
      PROVE  v \in Value /\ v.signature = h.signature
  <2>. DEFINE g == Fingerprint(f)
  <2>1. g \in {Fingerprint(x) : x \in FacetChoices} /\ v = [h EXCEPT !.fingerprint = g]
    BY <1>7
  <2>. HIDE DEF g
  <2>. QED
    BY <2>1 DEF Value, Fields
<1>8. ASSUME NEW e \in Embedding \cup {NONE}, v = [h EXCEPT !.embedding = e]
      PROVE  v \in Value /\ v.signature = h.signature
  BY <1>8 DEF Value, Fields
<1>9. \/ \E o \in Identity \cup {NONE} : v = [h EXCEPT !.owner = o]
      \/ \E k \in Identity \cup {NONE} : v = [h EXCEPT !.key = k]
      \/ \E b \in Body : v = [h EXCEPT !.body = b]
      \/ \E t \in Stamp : v = [h EXCEPT !.at = t]
      \/ \E s \in {w.signature : w \in built} \cup {NONE} : v = [h EXCEPT !.signature = s]
      \/ \E f \in FacetChoices \cup {NONE} : v = [h EXCEPT !.facets = f]
      \/ \E f \in FacetChoices : v = [h EXCEPT !.fingerprint = Fingerprint(f)]
      \/ \E e \in Embedding \cup {NONE} : v = [h EXCEPT !.embedding = e]
  BY Zenon DEF Altered
<1>. QED
  BY <1>1, <1>2, <1>3, <1>4, <1>5, <1>6, <1>7, <1>8, <1>9

LEMMA EInit == Init => EInv
<1>. SUFFICES ASSUME Init PROVE EInv
  OBVIOUS
<1>1. IsFiniteSet(built) /\ Cardinality(built) = 0
  BY FS_EmptySet DEF Init
<1>2. TypeOK
  BY <1>1, EnvelopeAssumption DEF Init, TypeOK
<1>. QED
  BY <1>1, <1>2 DEF Init, EInv, BuiltGenuine, HeldSignature, RowsOfBuilt, VerdictOfHeld

Stepped ==
    TypeOK' /\ BuiltGenuine' /\ HeldSignature' /\ RowsOfBuilt' /\ VerdictOfHeld'

LEMMA VerdictType ==
    ASSUME NEW v
    PROVE  Verdict(v) \in {"Ok", "InvalidCard", "UnsupportedModel",
                    "EmbeddingDimension", "FingerprintMismatch", "BadSignature"}
<1>1. CardError(v) \in {NONE, "InvalidCard", "UnsupportedModel",
                    "EmbeddingDimension", "FingerprintMismatch"}
  BY DEF CardError
<1>. QED
  BY <1>1 DEF Verdict

LEMMA EStep == EInv /\ [Next]_vars => EInv'
<1>. SUFFICES ASSUME EInv, [Next]_vars PROVE Stepped
  BY DEF EInv, Stepped
<1>. USE DEF Stepped
<1>0. /\ TypeOK /\ BuiltGenuine /\ HeldSignature /\ RowsOfBuilt /\ VerdictOfHeld
  BY DEF EInv
<1>1. ASSUME NEW i \in Identity, NEW b \in Body, NEW f \in FacetChoices,
             NEW len \in Lengths, Build(i, b, f, len)
      PROVE  Stepped
  <2>. DEFINE v == Signed(i, Draft(i, b, f, len))
  <2>1. /\ Cardinality(built) < MaxBuilt
        /\ held' = v /\ verdict' = NONE /\ built' = built \cup {v}
        /\ UNCHANGED <<kind, now, changes, rows>>
    BY <1>1 DEF Build, Hold
  <2>2. v \in Value /\ Genuine(v)
    BY <1>0, <1>1, SignedIsGenuine DEF Build
  <2>. HIDE DEF v
  <2>3. IsFiniteSet(built') /\ Cardinality(built') <= MaxBuilt
    <3>1. IsFiniteSet(built) /\ Cardinality(built) \in Nat
      BY <1>0, FS_CardinalityType DEF BuiltGenuine
    <3>2. IsFiniteSet(built \cup {v}) /\ Cardinality(built \cup {v}) <= Cardinality(built) + 1
      <4>1. /\ IsFiniteSet(built \cup {v})
            /\ Cardinality(built \cup {v}) =
                 IF v \in built THEN Cardinality(built) ELSE Cardinality(built) + 1
        BY <3>1, FS_AddElement, Zenon
      <4>. QED
        BY <3>1, <4>1
    <3>3. Cardinality(built \cup {v}) \in Nat
      BY <3>2, FS_CardinalityType
    <3>. QED
      BY <1>1, <2>1, <3>1, <3>2, <3>3, EnvelopeAssumption
  <2>4. TypeOK'
    <3>1. built' \subseteq Value /\ held' \in Value /\ held' # NONE
      BY <1>0, <2>1, <2>2, NoneAssumption DEF TypeOK
    <3>. QED
      BY <1>0, <2>1, <2>3, <3>1 DEF TypeOK
  <2>5. BuiltGenuine'
    <3>1. \A w : Genuine(w) => Genuine(w)'
      BY <2>1 DEF Genuine, Owned
    <3>. QED
      BY <1>0, <2>1, <2>2, <2>3, <3>1 DEF BuiltGenuine
  <2>6. HeldSignature' /\ VerdictOfHeld'
    BY <2>1 DEF HeldSignature, VerdictOfHeld
  <2>7. RowsOfBuilt'
    BY <1>0, <2>1 DEF RowsOfBuilt
  <2>. QED
    BY <2>4, <2>5, <2>6, <2>7
<1>2. CASE Tick
  <2>1. /\ now < 2^W - 1 /\ now' = now + 1
        /\ UNCHANGED <<kind, built, held, changes, verdict, rows>>
    BY <1>2 DEF Tick
  <2>2. now' \in Stamp
    <3>1. 2^W \in Nat
      BY EnvelopeAssumption, PowerDoubles
    <3>. QED
      BY <1>0, <2>1, <3>1 DEF TypeOK, Stamp
  <2>3. TypeOK'
    BY <1>0, <2>1, <2>2 DEF TypeOK
  <2>4. BuiltGenuine' /\ HeldSignature' /\ RowsOfBuilt'
    BY <1>0, <2>1 DEF BuiltGenuine, Genuine, Owned, HeldSignature, RowsOfBuilt
  <2>5. VerdictOfHeld'
    BY <1>0, <2>1 DEF VerdictOfHeld, Verdict, Owned
  <2>. QED
    BY <2>3, <2>4, <2>5
<1>3. CASE Change
  <2>1. PICK v \in Altered(held) : held' = v /\ verdict' = NONE
    BY <1>3 DEF Change, Hold
  <2>2. /\ held # NONE /\ changes < MaxChanges /\ changes' = changes + 1
        /\ UNCHANGED <<kind, now, built, rows>>
    BY <1>3 DEF Change
  <2>3. held \in Value
    BY <1>0, <2>2 DEF TypeOK
  <2>4. /\ v \in Value
        /\ \/ v.signature = held.signature \/ v.signature = NONE
           \/ \E w \in built : v.signature = w.signature
    BY <1>0, <2>3, AlteredType
  <2>5. TypeOK'
    <3>1. held' \in Value /\ held' # NONE
      BY <2>1, <2>4, NoneAssumption
    <3>2. changes' \in 0..MaxChanges
      BY <1>0, <2>2, EnvelopeAssumption DEF TypeOK
    <3>. QED
      BY <1>0, <2>1, <2>2, <3>1, <3>2 DEF TypeOK
  <2>6. BuiltGenuine' /\ RowsOfBuilt' /\ VerdictOfHeld'
    BY <1>0, <2>1, <2>2 DEF BuiltGenuine, Genuine, Owned, RowsOfBuilt, VerdictOfHeld
  <2>7. HeldSignature'
    BY <1>0, <2>1, <2>2, <2>4 DEF HeldSignature
  <2>. QED
    BY <2>5, <2>6, <2>7
<1>4. CASE Verify
  <2>1. /\ held # NONE /\ verdict' = Verdict(held)
        /\ UNCHANGED <<kind, now, built, held, changes, rows>>
    BY <1>4 DEF Verify
  <2>2. TypeOK'
    BY <1>0, <2>1, VerdictType DEF TypeOK
  <2>3. BuiltGenuine' /\ HeldSignature' /\ RowsOfBuilt'
    BY <1>0, <2>1 DEF BuiltGenuine, Genuine, Owned, HeldSignature, RowsOfBuilt
  <2>4. Verdict(held)' = Verdict(held)
    BY <2>1 DEF Verdict, Owned
  <2>. QED
    BY <2>1, <2>2, <2>3, <2>4 DEF VerdictOfHeld
<1>5. CASE Insert
  <2>1. /\ held \in built /\ rows' = InsertRow(rows, held)
        /\ UNCHANGED <<kind, now, built, held, changes, verdict>>
    BY <1>5 DEF Insert
  <2>2. held \in Value /\ built \subseteq Value
    BY <1>0, <2>1 DEF TypeOK
  <2>3. rows' = {r \in rows : r.body # held.body} \cup {Row(held)}
    BY <2>1 DEF InsertRow, Row
  <2>4. Row(held).body = held.body /\ Row(held).at \in (-(2^(W - 1)))..(2^(W - 1) - 1)
    BY <2>2, RowRoundTrip
  <2>5. TypeOK'
    <3>1. \A r \in rows' : r.at \in (-(2^(W - 1)))..(2^(W - 1) - 1)
      BY <1>0, <2>3, <2>4 DEF TypeOK
    <3>2. \A r, s \in rows' : r.body = s.body => r = s
      BY <1>0, <2>3, <2>4 DEF TypeOK
    <3>. QED
      BY <1>0, <2>1, <3>1, <3>2 DEF TypeOK
  <2>6. RowsOfBuilt'
    BY <1>0, <2>1, <2>3 DEF RowsOfBuilt
  <2>7. BuiltGenuine' /\ HeldSignature'
    BY <1>0, <2>1 DEF BuiltGenuine, Genuine, Owned, HeldSignature
  <2>8. VerdictOfHeld'
    BY <1>0, <2>1 DEF VerdictOfHeld, Verdict, Owned
  <2>. QED
    BY <2>5, <2>6, <2>7, <2>8
<1>6. CASE Get
  <2>1. PICK r \in rows : held' = FromRow(r) /\ verdict' = NONE
    BY <1>6 DEF Get, Hold
  <2>2. UNCHANGED <<kind, now, built, changes, rows>>
    BY <1>6 DEF Get
  <2>3. PICK v \in built : r = Row(v)
    BY <1>0 DEF RowsOfBuilt
  <2>4. v \in Value /\ v # NONE /\ held' = v
    BY <1>0, <2>1, <2>3, RowRoundTrip, NoneAssumption DEF TypeOK
  <2>5. TypeOK'
    BY <1>0, <2>1, <2>2, <2>4 DEF TypeOK
  <2>6. BuiltGenuine' /\ RowsOfBuilt' /\ VerdictOfHeld'
    BY <1>0, <2>1, <2>2 DEF BuiltGenuine, Genuine, Owned, RowsOfBuilt, VerdictOfHeld
  <2>7. HeldSignature'
    BY <2>2, <2>4 DEF HeldSignature
  <2>. QED
    BY <2>5, <2>6, <2>7
<1>7. CASE UNCHANGED vars
  <2>1. TypeOK' /\ BuiltGenuine' /\ HeldSignature' /\ RowsOfBuilt'
    BY <1>0, <1>7 DEF vars, TypeOK, BuiltGenuine, Genuine, Owned, HeldSignature, RowsOfBuilt
  <2>2. VerdictOfHeld'
    BY <1>0, <1>7 DEF vars, VerdictOfHeld, Verdict, Owned
  <2>. QED
    BY <2>1, <2>2
<1>. QED
  BY <1>1, <1>2, <1>3, <1>4, <1>5, <1>6, <1>7 DEF Next

LEMMA EInvariant == Spec => []EInv
<1>. QED
  BY EInit, EStep, PTL DEF Spec

\* The values under way are of their types, the times in the table fit an i64,
\* and the table has one row per conversation.
THEOREM EnvelopeTypeCorrect == Spec => []TypeOK
BY EInvariant, PTL DEF EInv

\* verify says Ok of a card, record, ACL message or receipt exactly when build
\* returned it, as long as nobody signs but the holders of the keys.
THEOREM AcceptedIffBuiltCorrect == Spec => []AcceptedIffBuilt
<1>1. EInv => AcceptedIffBuilt
  <2>. SUFFICES ASSUME EInv, verdict # NONE PROVE verdict = "Ok" <=> held \in built
    BY DEF AcceptedIffBuilt
  <2>1. held # NONE /\ verdict = Verdict(held)
    BY DEF EInv, VerdictOfHeld
  <2>2. verdict = "Ok" => held \in built
    BY <2>1, VerifiedIsBuilt DEF EInv
  <2>3. held \in built => verdict = "Ok"
    BY <2>1, GenuineVerifies DEF EInv, TypeOK, BuiltGenuine
  <2>. QED
    BY <2>2, <2>3
<1>. QED
  BY <1>1, EInvariant, PTL

\* ReceiptStore::get returns what was built, for every time a u64 can hold.
THEOREM ReceiptsSurviveCorrect == Spec => []ReceiptsSurvive
<1>1. EInv => ReceiptsSurvive
  BY RowRoundTrip DEF EInv, TypeOK, RowsOfBuilt, ReceiptsSurvive
<1>. QED
  BY <1>1, EInvariant, PTL
=============================================================================
