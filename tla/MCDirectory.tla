----------------------------- MODULE MCDirectory -----------------------------
(***************************************************************************)
(* Three bits per code in bytes of two, two tables.  Cards a and b of two  *)
(* daemons share facets, id and the bucket of the first table; d has other *)
(* facets and would share all of a's keys without them, and replaces b as  *)
(* the card of its id.                                                     *)
(***************************************************************************)
EXTENDS Directory, TLC

CONSTANTS n1, n2, a, b, d, x, near, next, python, bash

T(w) == [word |-> w, case |-> "lower", padded |-> FALSE]
Facet(tool) == [tools |-> <<T(tool)>>, ontologies |-> <<>>,
                field |-> [region |-> T(EMPTY)]]
Asked == Facet(python)

Sides == (near :> {0, 2, 4}) @@ (next :> {0, 2, 3})

Publishers == [k \in Card |-> IF k = a THEN n1 ELSE n2]
Ids == [k \in Card |-> x]
CardFacets == [k \in Card |-> Facet(IF k = d THEN bash ELSE python)]
Vectors == [k \in Card |-> IF k = b THEN next ELSE near]
=============================================================================
