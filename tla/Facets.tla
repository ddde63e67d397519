-------------------------------- MODULE Facets --------------------------------
(***************************************************************************)
(* The exact facets of a capability: the canonical form that is hashed     *)
(* into the fingerprint of a card (crates/kite-mesh-core/src/facets.rs)    *)
(* and the filter a candidate has to pass (crates/kite-mesh-discovery/     *)
(* src/rerank.rs).  The two compare text differently.                      *)
(***************************************************************************)
EXTENDS Sequences, Functions

CONSTANTS
    Field,      \* the seven enum-like facets: sandbox_level ... trust_tier
    Word,       \* lower-case words, EMPTY among them
    EMPTY       \* the empty string

ASSUME WordAssumption == EMPTY \in Word

\* A string is a word, the way its letters are capitalised, and whether white
\* space surrounds it.  "ascii" has capitals of ASCII only, "unicode" others.
Text == [word : Word, case : {"lower", "ascii", "unicode"}, padded : BOOLEAN]

\* CapabilityFacets; status is left out of the fingerprint and of the filter.
FacetSet == [tools : Seq(Text), ontologies : Seq(Text), field : [Field -> Text]]
-----------------------------------------------------------------------------
\* s.trim().to_lowercase().
Normalize(s) == [s EXCEPT !.case = "lower", !.padded = FALSE]

\* A variant of Canonical: one field was forgotten.
CanonicalForgetful(f) ==
    [tools |-> Range(f.tools), ontologies |-> Range(f.ontologies),
     field |-> [x \in Field \ {CHOOSE x \in Field : TRUE} |->
                   Normalize(f.field[x])]]

\* CanonicalFacets::from: sort and dedup make sets of the lists, whose members
\* stay as they are spelled; the fields are normalized.
Canonical(f) ==
    [tools |-> Range(f.tools), ontologies |-> Range(f.ontologies),
     field |-> [x \in Field |-> Normalize(f.field[x])]]

\* blake3 over the serialized canonical form: equal for equal forms only.
Fingerprint(f) == Canonical(f)

\* str::eq_ignore_ascii_case: neither trims nor folds letters beyond ASCII.
EqIgnoreAsciiCase(a, b) ==
    /\ a.word = b.word
    /\ a.padded = b.padded
    /\ a.case = "unicode" <=> b.case = "unicode"

IsEmpty(s) == s.word = EMPTY /\ ~s.padded

\* Every required entry of a list has a counterpart in the candidate's.
Covers(candidate, required) ==
    \A t \in Range(required) : \E c \in Range(candidate) :
        EqIgnoreAsciiCase(c, t)

\* facet_filter: whether the trace of mismatches stays empty.
FacetFilter(required, candidate) ==
    /\ Covers(candidate.tools, required.tools)
    /\ Covers(candidate.ontologies, required.ontologies)
    /\ \A x \in Field :
          \/ IsEmpty(required.field[x])
          \/ EqIgnoreAsciiCase(required.field[x], candidate.field[x])
=============================================================================
