------------------------------ MODULE MCMatching ------------------------------
(***************************************************************************)
(* Two of the fields and one list of facets, with texts that differ in     *)
(* word, capitals or white space; candidates of equal and of different     *)
(* scores, one without an embedding, one without facets.                   *)
(***************************************************************************)
EXTENDS Matching

CONSTANTS eu, us, python, bash

T(w, c, p) == [word |-> w, case |-> c, padded |-> p]
Lower(w) == T(w, "lower", FALSE)
Facet(tools, region, gpu) ==
    [tools |-> tools, ontologies |-> <<Lower(python)>>,
     field |-> [region |-> region, gpu_class |-> gpu]]

Fields == {"region", "gpu_class"}
Words == {EMPTY, eu, us, python, bash}

Plain   == Facet(<<Lower(python)>>, Lower(eu), Lower(EMPTY))
Doubled == Facet(<<Lower(python), Lower(python)>>, T(eu, "ascii", FALSE),
                 Lower(EMPTY))
Super   == Facet(<<Lower(bash), Lower(python)>>, Lower(eu), Lower(us))
Capital == Facet(<<T(python, "ascii", FALSE)>>, Lower(eu), Lower(us))
Padded  == Facet(<<Lower(python)>>, T(eu, "lower", TRUE), Lower(EMPTY))
Folded  == Facet(<<Lower(python)>>, T(eu, "unicode", FALSE), Lower(us))
Open    == Facet(<<>>, Lower(EMPTY), Lower(EMPTY))
Other   == Facet(<<Lower(python)>>, Lower(us), Lower(EMPTY))

AllRequests == {Plain, Doubled, Capital, Padded, Folded, Open, Other}

Cards == 1..8
CardFacets == <<Plain, Doubled, Super, Capital, Padded, Folded, Other, NONE>>

\* Ties, a missing embedding, and among the cards that often pass one whose
\* vector has a NaN: capability::build and verify let it through.
Cosines == <<2, 2, 3, 1, NAN, NONE, 4, 4>>
=============================================================================
