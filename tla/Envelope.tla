------------------------------- MODULE Envelope -------------------------------
(***************************************************************************)
(* The signed values of the mesh: capability cards, directory records, ACL *)
(* messages and receipts (capability.rs, acl.rs and receipt.rs of          *)
(* kite-mesh-core, directory.rs of kite-mesh-discovery).  Each is built    *)
(* with a signature over its own encoding with the signature field empty,  *)
(* may lose or change fields on its way, and is verified where it arrives. *)
(* Receipts also go through SQLite, whose integers are signed.             *)
(*                                                                         *)
(* Cryptography is external: a signature is the pair of signer and bytes,  *)
(* and the peer id of a key is the key itself.  One behaviour handles one  *)
(* kind of value, as encodings of different kinds are never compared.      *)
(***************************************************************************)
EXTENDS Facets, Integers, FiniteSets

CONSTANTS
    Identity,     \* AgentIdentity: key pairs
    Body,         \* the fields no function here looks at; of a receipt, its
                  \* conversation_id, the key of its row
    FacetChoices, \* the facets of cards
    Dim,          \* CANONICAL_EMBEDDING_DIM
    Lengths,      \* lengths of vectors callers pass to build
    W,            \* bits of a timestamp: 64
    MaxBuilt,     \* bound: values built
    MaxChanges,   \* bound: fields changed
    NONE          \* an absent field, or one that does not parse

ASSUME EnvelopeAssumption ==
    /\ FacetChoices \subseteq FacetSet
    /\ Dim \in Nat /\ Lengths \subseteq Nat
    /\ W \in Nat \ {0} /\ MaxBuilt \in Nat /\ MaxChanges \in Nat

Kind == {"card", "record", "acl", "receipt"}
Stamp == 0..(2^W - 1)
Model == {"canonical", "other"}
Embedding == [model_id : Model, dimension : Lengths, len : Lengths]

\* The values of all kinds, with signatures of S: a kind leaves the fields it
\* does not have NONE.
Fields(S) ==
    [owner : Identity \cup {NONE}, key : Identity \cup {NONE},
     facets : FacetChoices \cup {NONE},
     fingerprint : {Fingerprint(f) : f \in FacetChoices} \cup {NONE},
     embedding : Embedding \cup {NONE},
     body : Body, at : Stamp, signature : S]
Unsigned == Fields({NONE})
Signature == Identity \X Unsigned
Value == Fields(Signature \cup {NONE})

\* What is absent is none of the values a field may hold.
ASSUME NoneAssumption ==
    /\ NONE \notin Identity /\ NONE \notin FacetChoices /\ NONE \notin Embedding
    /\ NONE \notin Signature /\ NONE \notin Value
    /\ NONE \notin {"Ok", "InvalidCard", "UnsupportedModel", "EmbeddingDimension",
                    "FingerprintMismatch", "BadSignature"}

VARIABLES
    kind,     \* the kind of value of this behaviour
    now,      \* now_ns()
    built,    \* history: what build returned
    held,     \* the value under way, NONE before the first
    changes,  \* fields changed so far
    verdict,  \* what verify said of held, NONE before
    rows      \* the receipts table, one row per conversation

vars == <<kind, now, built, held, changes, verdict, rows>>
-----------------------------------------------------------------------------
\* A variant of SigningBytes: the time is left out.
SigningBytesUndated(v) == [v EXCEPT !.signature = NONE, !.at = 0]

\* signing_bytes: the value with an empty signature, encoded.
SigningBytes(v) == [v EXCEPT !.signature = NONE]

\* AgentIdentity::sign and verify.
Sign(i, bytes) == <<i, bytes>>
VerifySignature(key, bytes, signature) == signature = Sign(key, bytes)

\* The kinds that name their signer, and compare that name with the key.
Owned == kind \in {"card", "record", "acl"}

\* The fields build fills in before it signs.
Draft(i, b, f, len) ==
    LET card == kind = "card" IN
    [owner     |-> IF Owned THEN i ELSE NONE,
     key       |-> i,
     facets    |-> IF card THEN f ELSE NONE,
     fingerprint |-> IF card THEN Fingerprint(f) ELSE NONE,
     embedding |-> IF card THEN [model_id |-> "canonical", dimension |-> Dim,
                                 len |-> len]
                           ELSE NONE,
     body      |-> b,
     at        |-> now,
     signature |-> NONE]

Signed(i, v) == [v EXCEPT !.signature = Sign(i, SigningBytes(v))]

\* The tests of capability::verify that precede those on the key.
CardError(v) ==
    IF v.facets = NONE \/ v.embedding = NONE THEN "InvalidCard"
    ELSE IF v.embedding.model_id # "canonical" THEN "UnsupportedModel"
    ELSE IF v.embedding.dimension # Dim \/ v.embedding.len # Dim
        THEN "EmbeddingDimension"
    ELSE IF v.fingerprint # Fingerprint(v.facets) THEN "FingerprintMismatch"
    ELSE NONE

\* verify of each kind: a receipt names no signer to compare its key with.
Verdict(v) ==
    IF kind = "card" /\ CardError(v) # NONE THEN CardError(v)
    ELSE IF \/ v.key = NONE
            \/ Owned /\ (v.owner = NONE \/ v.key # v.owner) THEN "InvalidCard"
    ELSE IF VerifySignature(v.key, SigningBytes(v), v.signature) THEN "Ok"
    ELSE "BadSignature"

\* A variant of ToI64: values beyond the largest i64 become that.
ToI64Saturating(u) == IF u < 2^(W - 1) THEN u ELSE 2^(W - 1) - 1

\* `as i64` and `as u64`.
ToI64(u) == IF u < 2^(W - 1) THEN u ELSE u - 2^W
ToU64(i) == i % 2^W

\* A variant of InsertRow: a plain INSERT, into a table without the key.
InsertRowUnkeyed(S, v) == S \cup {[v EXCEPT !.at = ToI64(@)]}

\* ReceiptStore::insert and get.
InsertRow(S, v) == {r \in S : r.body # v.body} \cup {[v EXCEPT !.at = ToI64(@)]}
FromRow(r) == [r EXCEPT !.at = ToU64(@)]
-----------------------------------------------------------------------------
TypeOK ==
    /\ kind \in Kind /\ now \in Stamp
    /\ Cardinality(built) <= MaxBuilt /\ changes \in 0..MaxChanges
    /\ built \subseteq Value /\ held \in Value \cup {NONE}
    /\ held = NONE => built = {}
    /\ \A r \in rows : r.at \in (-(2^(W - 1)))..(2^(W - 1) - 1)
    /\ \A r, s \in rows : r.body = s.body => r = s
    /\ verdict \in {NONE, "Ok", "InvalidCard", "UnsupportedModel",
                    "EmbeddingDimension", "FingerprintMismatch", "BadSignature"}

Init ==
    /\ kind \in Kind /\ now \in Stamp
    /\ built = {} /\ held = NONE /\ changes = 0 /\ verdict = NONE /\ rows = {}

Hold(v) == held' = v /\ verdict' = NONE

\* build of each kind; that of a card refuses a vector of another length.
Build(i, b, f, len) ==
    LET v == Signed(i, Draft(i, b, f, len)) IN
    /\ Cardinality(built) < MaxBuilt
    /\ kind = "card" => len = Dim
    /\ Hold(v)
    /\ built' = built \cup {v}
    /\ UNCHANGED <<kind, now, changes, rows>>

Tick ==
    /\ now < 2^W - 1
    /\ now' = now + 1
    /\ UNCHANGED <<kind, built, held, changes, verdict, rows>>

\* A field of the value is lost or comes out as something else, a field of
\* another value of that kind included.
Altered(v) ==
    {[v EXCEPT !.owner = o] : o \in IF Owned THEN Identity \cup {NONE} ELSE {}}
    \cup {[v EXCEPT !.key = k] : k \in Identity \cup {NONE}}
    \cup {[v EXCEPT !.body = b] : b \in Body}
    \cup {[v EXCEPT !.at = t] : t \in Stamp}
    \cup {[v EXCEPT !.signature = s] :
             s \in {w.signature : w \in built} \cup {NONE}}
    \cup IF kind # "card" THEN {} ELSE
         {[v EXCEPT !.facets = f] : f \in FacetChoices \cup {NONE}}
         \cup {[v EXCEPT !.fingerprint = Fingerprint(f)] : f \in FacetChoices}
         \cup {[v EXCEPT !.embedding = e] : e \in Embedding \cup {NONE}}

Change ==
    /\ held # NONE
    /\ changes < MaxChanges
    /\ changes' = changes + 1
    /\ \E v \in Altered(held) \ {held} : Hold(v)
    /\ UNCHANGED <<kind, now, built, rows>>

Verify ==
    /\ held # NONE
    /\ verdict' = Verdict(held)
    /\ UNCHANGED <<kind, now, built, held, changes, rows>>

\* The daemon stores the receipt it has just built.
Insert ==
    /\ kind = "receipt" /\ held \in built
    /\ rows' = InsertRow(rows, held)
    /\ UNCHANGED <<kind, now, built, held, changes, verdict>>

Get ==
    /\ \E r \in rows : Hold(FromRow(r))
    /\ UNCHANGED <<kind, now, built, changes, rows>>

Next ==
    \/ \E i \in Identity, b \in Body, f \in FacetChoices, len \in Lengths :
          Build(i, b, f, len)
    \/ Tick \/ Change \/ Verify \/ Insert \/ Get

Spec == Init /\ [][Next]_vars
-----------------------------------------------------------------------------
\* verify accepts exactly what build returned: nothing that was changed in any
\* field, with any other change made to make up for it, and all that was not.
AcceptedIffBuilt ==
    verdict # NONE => (verdict = "Ok" <=> held \in built)

\* A receipt comes out of the table as it was built, whatever its time, so
\* that it still verifies: u64 to i64 and back is lossless.
ReceiptsSurvive == \A r \in rows : FromRow(r) \in built
=============================================================================
