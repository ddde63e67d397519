------------------------------- MODULE Matching -------------------------------
(***************************************************************************)
(* rerank (crates/kite-mesh-discovery/src/rerank.rs) and the choice of its *)
(* first passing candidate by maybe_send_request.                          *)
(*                                                                         *)
(* sort_by is stable, so on a total order its result is determined, however *)
(* many elements there are.  Up to twenty of them std sorts by insertion,  *)
(* one step of which is an action here: that fixes what happens when the   *)
(* order is not total.  With a NaN among more than twenty candidates std   *)
(* merges sorted runs, which is not modelled.                              *)
(***************************************************************************)
EXTENDS Facets, Integers, FiniteSets

CONSTANTS
    Card,       \* cards that were fetched
    FacetsOf,   \* [Card -> FacetSet \cup {NONE}]
    Cosine,     \* [Card -> Int \cup {NAN, NONE}]: dot product with the query
    Requests,   \* the facets intents ask for
    MaxCards,   \* bound: candidates of one intent
    NONE,       \* an absent value
    NAN,        \* a product that is not a number
    NEG_INF     \* f32::NEG_INFINITY

ASSUME MatchingAssumption ==
    /\ FacetsOf \in [Card -> FacetSet \cup {NONE}]
    /\ Requests \subseteq FacetSet
    /\ MaxCards \in Nat
ASSUME CosineAssumption ==
    /\ Cosine \in [Card -> Int \cup {NAN, NONE}]
    /\ NAN \notin Int /\ NEG_INF \notin Int /\ NAN # NEG_INF

VARIABLES
    required,    \* the facets of the intent
    candidates,  \* fetched_cards, in the order they arrived
    scored,      \* the sorted part: indices of candidates
    top          \* index of the card chosen, 0 for none, NONE while sorting

vars == <<required, candidates, scored, top>>
-----------------------------------------------------------------------------
Index == 1..Len(candidates)

TypeOK ==
    /\ required \in Requests
    /\ candidates \in Seq(Card)
    /\ scored \in Seq(Index)
    /\ top \in Index \cup {0, NONE}

\* ScoredCandidate: a card without facets fails, one without an embedding has
\* the lowest score.
Passed(k) == FacetsOf[k] # NONE /\ FacetFilter(required, FacetsOf[k])
Score(k) == IF Cosine[k] = NONE THEN NEG_INF ELSE Cosine[k]

\* partial_cmp gives Greater; a NaN is Equal to everything.
Above(a, b) ==
    /\ a \notin {NAN, NEG_INF} /\ b # NAN
    /\ b = NEG_INF \/ a > b

\* A variant of Less: scores first, then the filter.
LessByScore(i, j) ==
    LET a == candidates[i]  b == candidates[j] IN
    \/ Above(Score(a), Score(b))
    \/ ~Above(Score(b), Score(a)) /\ Passed(a) /\ ~Passed(b)

\* The closure given to sort_by orders candidate i before candidate j.
Less(i, j) ==
    LET a == candidates[i]  b == candidates[j] IN
    \/ Passed(a) /\ ~Passed(b)
    \/ (Passed(a) <=> Passed(b)) /\ Above(Score(a), Score(b))
-----------------------------------------------------------------------------
Init ==
    /\ required \in Requests
    /\ candidates \in UNION {[1..n -> Card] : n \in 0..MaxCards}
    /\ scored = <<>>
    /\ top = NONE

\* Insertion moves left from the end until it meets an element that i does not
\* precede: the position of that element.
Slot(i) ==
    CHOOSE p \in 0..Len(scored) :
        /\ \A j \in (p + 1)..Len(scored) : Less(i, scored[j])
        /\ p > 0 => ~Less(i, scored[p])

\* One step of the insertion sort.
Insert ==
    LET i == Len(scored) + 1
        p == Slot(i)
    IN
    /\ i \in Index
    /\ scored' = SubSeq(scored, 1, p) \o <<i>> \o SubSeq(scored, p + 1, Len(scored))
    /\ UNCHANGED <<required, candidates, top>>

\* A variant of Pick: the first candidate, whether it passes or not.
PickFirst ==
    /\ top = NONE
    /\ Len(scored) = Len(candidates)
    /\ top' = IF scored = <<>> THEN 0 ELSE scored[1]
    /\ UNCHANGED <<required, candidates, scored>>

\* maybe_send_request: scored.into_iter().find(|c| c.passed_filter).
Pick ==
    LET passing == {p \in 1..Len(scored) : Passed(candidates[scored[p]])} IN
    /\ top = NONE
    /\ Len(scored) = Len(candidates)
    /\ \/ passing = {} /\ top' = 0
       \/ \E p \in passing : /\ \A q \in passing : p <= q
                             /\ top' = scored[p]
    /\ UNCHANGED <<required, candidates, scored>>

Next == Insert \/ Pick

Spec == Init /\ [][Next]_vars
-----------------------------------------------------------------------------
HasNaN == \E i \in Index : Score(candidates[i]) = NAN
Chosen == {i \in Index : top = i}

\* The choice is the one module Mesh makes: without NaN scores, the earliest
\* of the passing candidates that no passing candidate outscores, and none
\* only when none passes.
FirstOfBest ==
    (top # NONE /\ ~HasNaN) =>
        LET passing == {i \in Index : Passed(candidates[i])}
            best == {i \in passing : \A j \in passing :
                        ~Above(Score(candidates[j]), Score(candidates[i]))}
        IN  Chosen = {i \in best : \A j \in best : i <= j}

\* The sorted part holds every candidate met so far once: those that pass the
\* filter first, each group by falling score, equals in order of arrival.  A
\* NaN, which is no better and no worse than any other score, spoils the order
\* of the candidates on either side of it, and nothing else: not the filter.
RankedSoFar ==
    /\ Range(scored) = 1..Len(scored)
    /\ \A p, q \in 1..Len(scored) :
          LET a == candidates[scored[p]]  b == candidates[scored[q]] IN
          p < q => \/ Passed(a) /\ ~Passed(b)
                   \/ /\ Passed(a) <=> Passed(b)
                      /\ \/ Above(Score(a), Score(b))
                         \/ /\ ~Above(Score(b), Score(a))
                            /\ scored[p] < scored[q]
                         \/ \E r \in p..q : Score(candidates[scored[r]]) = NAN

\* What has no white space around it and no capitals beyond ASCII.
PlainText(s) == ~s.padded /\ s.case # "unicode"
PlainFacets(f) ==
    \A s \in Range(f.tools) \cup Range(f.ontologies) \cup Range(f.field) :
        PlainText(s)

\* A card that was found through its fingerprint passes the filter of the same
\* intent, as long as both are plainly spelled: the canonical form trims and
\* folds all of Unicode, the filter does neither.
FoundCardsPass ==
    \A i \in Index :
        LET f == FacetsOf[candidates[i]] IN
        (/\ f # NONE
         /\ PlainFacets(f) /\ PlainFacets(required)
         /\ Fingerprint(f) = Fingerprint(required)) => Passed(candidates[i])
=============================================================================
