------------------------------ MODULE MCFraming ------------------------------
(***************************************************************************)
(* Frames over binary "bytes", so that lengths up to 15 take all four of   *)
(* the prefix.  Encodings that are prefixes of each other, the empty one   *)
(* among them, and sizes around the caps of the two ends, which differ.    *)
(***************************************************************************)
EXTENDS Framing

CONSTANTS notFound, short, middle, long, larger, largest

Messages == {notFound, short, middle, long, larger, largest}

Encodings ==
    [m \in Messages |->
        CASE m = notFound -> <<>>
          [] m = short    -> <<1>>
          [] m = middle   -> <<1, 0>>
          [] m = long     -> <<1, 0, 1>>
          [] m = larger   -> <<1, 0, 1, 1>>
          [] m = largest  -> <<1, 0, 1, 1, 0>>]
=============================================================================
