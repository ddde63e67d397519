------------------------------ MODULE MCEnvelope ------------------------------
(***************************************************************************)
(* Two identities, times of two bits, three facet sets, two of which have  *)
(* the same canonical form.                                                *)
(***************************************************************************)
EXTENDS Envelope

CONSTANTS container, bare

Facet(w, c) == [tools |-> <<>>, ontologies |-> <<>>,
                field |-> [sandbox_level |->
                              [word |-> w, case |-> c, padded |-> FALSE]]]
Choices == {Facet(container, "lower"), Facet(container, "ascii"),
            Facet(bare, "lower")}
=============================================================================
