---------------------------- MODULE MCPublication ----------------------------
(***************************************************************************)
(* Small instances of Publication: three publications, the third with a    *)
(* card that is rejected, a query that does not fit, channels that fill up. *)
(***************************************************************************)
EXTENDS Publication

CONSTANTS q1, q2, q3, q4
=============================================================================
