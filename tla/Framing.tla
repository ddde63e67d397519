------------------------------- MODULE Framing -------------------------------
(***************************************************************************)
(* The wire codecs (crates/kite-mesh-transport/src/codec.rs) on one        *)
(* substream of libp2p request-response: the requester writes one frame    *)
(* and closes its half, the responder reads it and answers with one frame. *)
(* A frame is a length, four bytes in big-endian order, and the prost      *)
(* encoding of a message.                                                  *)
(*                                                                         *)
(* Bytes arrive in pieces of any size and the connection may die after any *)
(* of them.  The two ends run binaries of their own, so each has its own   *)
(* MAX_MESSAGE_BYTES.                                                      *)
(***************************************************************************)
EXTENDS Naturals, Sequences

CONSTANTS
    Message,        \* AclMessage, CardRequest and CardResponse values
    Encoded,        \* [Message -> Seq(Byte)]: the prost encoding
    Base,           \* values of a byte: 256
    RequesterMax,   \* MAX_MESSAGE_BYTES of the requester's binary
    ResponderMax,   \* MAX_MESSAGE_BYTES of the responder's binary
    NONE, FAILED

Byte == 0..(Base - 1)

ASSUME MessageAssumption ==
    /\ NONE \notin Message /\ FAILED \notin Message /\ NONE # FAILED
    /\ \A m \in Message : Encoded[m] \in Seq(Byte)
    /\ \A m, n \in Message : Encoded[m] = Encoded[n] => m = n
ASSUME SizeAssumption ==
    /\ Base \in Nat \ {0, 1}
    /\ RequesterMax \in Nat /\ ResponderMax \in Nat
    /\ RequesterMax < Base * Base * Base * Base
    /\ ResponderMax < Base * Base * Base * Base

VARIABLES
    sent,     \* sent[d]: the message whose frame was written
    got,      \* got[d]: what read_framed returned
    pipe,     \* pipe[d]: bytes written and not yet read
    closed,   \* closed[d]: no byte will follow those in the pipe
    reading,  \* reading[d]: which of the two read_exact calls is awaited
    want,     \* want[d]: the bytes it waits for
    buf,      \* buf[d]: the bytes it has
    cut       \* history: the connection died, or a timeout dropped the stream

vars == <<sent, got, pipe, closed, reading, want, buf, cut>>
-----------------------------------------------------------------------------
Direction == {"request", "response"}
WriterMax(d) == IF d = "request" THEN RequesterMax ELSE ResponderMax
ReaderMax(d) == IF d = "request" THEN ResponderMax ELSE RequesterMax

Shape ==
    /\ sent \in [Direction -> Message \cup {NONE}]
    /\ got \in [Direction -> Message \cup {NONE, FAILED}]
    /\ pipe \in [Direction -> Seq(Byte)]
    /\ closed \in [Direction -> BOOLEAN]
    /\ reading \in [Direction -> {"length", "body"}]
    /\ want \in [Direction -> Nat]
    /\ buf \in [Direction -> Seq(Byte)]
    /\ cut \in BOOLEAN

\* The types, and: of a frame that was not written, because the message was too
\* large or the handler gave none, no byte is on the wire or with the reader.
TypeOK ==
    /\ Shape
    /\ \A d \in Direction : sent[d] = NONE => pipe[d] = <<>> /\ buf[d] = <<>>

\* u32::to_be_bytes, of the low 32 bits of a length.
ToBytes(n) ==
    <<(n \div (Base * Base * Base)) % Base, (n \div (Base * Base)) % Base,
      (n \div Base) % Base, n % Base>>

\* u32::from_be_bytes.
FromBytes(b) == ((b[1] * Base + b[2]) * Base + b[3]) * Base + b[4]

Size(m) == Len(Encoded[m])
Frame(m) == ToBytes(Size(m)) \o Encoded[m]

\* M::decode: prost refuses what is not the encoding of a message.  Bytes cut
\* short may well be the encoding of another one; no bytes at all are that of
\* a message with every field at its default, such as CardResponse::NotFound.
Decode(body) ==
    IF \E m \in Message : Encoded[m] = body
        THEN CHOOSE m \in Message : Encoded[m] = body
        ELSE FAILED
-----------------------------------------------------------------------------
Init ==
    /\ sent = [d \in Direction |-> NONE]
    /\ got = [d \in Direction |-> NONE]
    /\ pipe = [d \in Direction |-> <<>>]
    /\ closed = [d \in Direction |-> FALSE]
    /\ reading = [d \in Direction |-> "length"]
    /\ want = [d \in Direction |-> 4]
    /\ buf = [d \in Direction |-> <<>>]
    /\ cut = FALSE

\* Whose turn it is: the request is written first, the response by the handler
\* that was given the request.
MayWrite(d) ==
    /\ sent[d] = NONE
    /\ ~closed[d]
    /\ d = "response" => got["request"] \in Message

\* write_framed, within the cap; request-response then closes its half.
WriteFramed(d, m) ==
    /\ MayWrite(d)
    /\ Size(m) <= WriterMax(d)
    /\ sent' = [sent EXCEPT ![d] = m]
    /\ pipe' = [pipe EXCEPT ![d] = Frame(m)]
    /\ closed' = [closed EXCEPT ![d] = TRUE]
    /\ UNCHANGED <<got, reading, want, buf, cut>>

\* A variant of WriteTooLarge: the cap is checked after the length was written.
WriteTooLargeLate(d, m) ==
    /\ MayWrite(d)
    /\ Size(m) > WriterMax(d)
    /\ pipe' = [pipe EXCEPT ![d] = ToBytes(Size(m))]
    /\ closed' = [closed EXCEPT ![d] = TRUE]
    /\ UNCHANGED <<sent, got, reading, want, buf, cut>>

\* write_framed beyond the cap: an error before a byte is written, on which
\* request-response drops the stream.
WriteTooLarge(d, m) ==
    /\ MayWrite(d)
    /\ Size(m) > WriterMax(d)
    /\ closed' = [closed EXCEPT ![d] = TRUE]
    /\ UNCHANGED <<sent, got, pipe, reading, want, buf, cut>>

\* The handler of the request returns early and drops its ResponseChannel.
DropChannel ==
    /\ MayWrite("response")
    /\ closed' = [closed EXCEPT !["response"] = TRUE]
    /\ UNCHANGED <<sent, got, pipe, reading, want, buf, cut>>

\* io.read_exact: some of the bytes that are there.
ReadSome(d, k) ==
    /\ got[d] = NONE
    /\ k \in 1..Len(pipe[d])
    /\ Len(buf[d]) + k <= want[d]
    /\ buf' = [buf EXCEPT ![d] = @ \o SubSeq(pipe[d], 1, k)]
    /\ pipe' = [pipe EXCEPT ![d] = SubSeq(@, k + 1, Len(@))]
    /\ UNCHANGED <<sent, got, closed, reading, want, cut>>

\* read_framed returns.  A request that was not read ends the responder's side
\* of the stream as well.
Return(d, result) ==
    /\ got' = [got EXCEPT ![d] = result]
    /\ closed' = IF d = "request" /\ result = FAILED
                     THEN [closed EXCEPT !["response"] = TRUE] ELSE closed

\* A variant of ReadLength: the length is not compared with the cap.
ReadLengthUnchecked(d) ==
    /\ got[d] = NONE
    /\ reading[d] = "length" /\ Len(buf[d]) = want[d]
    /\ reading' = [reading EXCEPT ![d] = "body"]
    /\ want' = [want EXCEPT ![d] = FromBytes(buf[d])]
    /\ buf' = [buf EXCEPT ![d] = <<>>]
    /\ UNCHANGED <<got, closed, sent, pipe, cut>>

\* Another variant: a body of exactly the cap is refused.
ReadLengthBelow(d) ==
    LET len == FromBytes(buf[d]) IN
    /\ got[d] = NONE
    /\ reading[d] = "length" /\ Len(buf[d]) = want[d]
    /\ \/ /\ len >= ReaderMax(d)
          /\ Return(d, FAILED)
          /\ UNCHANGED <<reading, want, buf>>
       \/ /\ len < ReaderMax(d)
          /\ reading' = [reading EXCEPT ![d] = "body"]
          /\ want' = [want EXCEPT ![d] = len]
          /\ buf' = [buf EXCEPT ![d] = <<>>]
          /\ UNCHANGED <<got, closed>>
    /\ UNCHANGED <<sent, pipe, cut>>

\* The length is complete: refused when above the cap, else the body is read
\* into a buffer of that size.
ReadLength(d) ==
    LET len == FromBytes(buf[d]) IN
    /\ got[d] = NONE
    /\ reading[d] = "length" /\ Len(buf[d]) = want[d]
    /\ \/ /\ len > ReaderMax(d)
          /\ Return(d, FAILED)
          /\ UNCHANGED <<reading, want, buf>>
       \/ /\ len <= ReaderMax(d)
          /\ reading' = [reading EXCEPT ![d] = "body"]
          /\ want' = [want EXCEPT ![d] = len]
          /\ buf' = [buf EXCEPT ![d] = <<>>]
          /\ UNCHANGED <<got, closed>>
    /\ UNCHANGED <<sent, pipe, cut>>

\* A variant of ReadBody: read in place of read_exact, one piece will do.
ReadBodyShort(d) ==
    /\ got[d] = NONE
    /\ reading[d] = "body"
    /\ Len(buf[d]) > 0 \/ want[d] = 0
    /\ Return(d, Decode(buf[d]))
    /\ UNCHANGED <<sent, pipe, reading, want, buf, cut>>

\* The body is complete: decode it.
ReadBody(d) ==
    /\ got[d] = NONE
    /\ reading[d] = "body" /\ Len(buf[d]) = want[d]
    /\ Return(d, Decode(buf[d]))
    /\ UNCHANGED <<sent, pipe, reading, want, buf, cut>>

\* A variant of ReadEof: the end of the stream is taken for a slow peer.
ReadEofIgnored(d) ==
    /\ got[d] = NONE
    /\ closed[d] /\ pipe[d] = <<>>
    /\ UNCHANGED vars

\* read_exact: the stream ended before the bytes were complete.
ReadEof(d) ==
    /\ got[d] = NONE
    /\ closed[d] /\ pipe[d] = <<>>
    /\ Len(buf[d]) < want[d]
    /\ Return(d, FAILED)
    /\ UNCHANGED <<sent, pipe, reading, want, buf, cut>>

\* The connection dies, or the requester's timeout drops the stream: bytes in
\* flight are lost from some point on in either direction.
Cut(keep) ==
    /\ cut' = TRUE
    /\ \E d \in Direction : ~closed[d] \/ pipe[d] # <<>>
    /\ \A d \in Direction : keep[d] <= Len(pipe[d])
    /\ closed' = [d \in Direction |-> TRUE]
    /\ pipe' = [d \in Direction |-> SubSeq(pipe[d], 1, keep[d])]
    /\ UNCHANGED <<sent, got, reading, want, buf>>
-----------------------------------------------------------------------------
\* Bounds the quantifiers over bytes: the longest frame that can be written.
MaxFrame == 4 + RequesterMax + ResponderMax

Write(d) == \E m \in Message : WriteFramed(d, m) \/ WriteTooLarge(d, m)
Respond == Write("response") \/ DropChannel
Read(d) ==
    \/ \E k \in 1..MaxFrame : ReadSome(d, k)
    \/ ReadLength(d) \/ ReadBody(d) \/ ReadEof(d)

Next ==
    \/ Write("request") \/ Respond
    \/ \E d \in Direction : Read(d)
    \/ \E keep \in [Direction -> 0..MaxFrame] : Cut(keep)

Spec == Init /\ [][Next]_vars

\* The reads are polled until they return; an event loop that was given a
\* request answers it or drops its channel.  Nobody promises to send one.
FairSpec ==
    /\ Spec
    /\ \A d \in Direction : WF_vars(Read(d))
    /\ WF_vars(Respond)
-----------------------------------------------------------------------------
Deliverable(d) ==
    {m \in Message : Size(m) <= WriterMax(d) /\ Size(m) <= ReaderMax(d)}

\* The responder's handler is given the very request that was written, or
\* none; the requester the very response, or an error.  In particular a frame
\* that is cut short never yields another message, although its bytes may
\* decode, and an empty body is a message like any other.
Stream == INSTANCE Exchange WITH Fits <- [d \in Direction |-> Deliverable(d)]
ImplementsExchange == Stream!Spec

\* vec![0u8; len]: whatever length a peer with another cap announces, the
\* reader waits for no more bytes than its own cap, or the four of the length.
BoundedBuffer ==
    \A d \in Direction :
        Len(buf[d]) <= want[d] /\ (reading[d] = "body" => want[d] <= ReaderMax(d))

\* Every exchange ends: once a request was written or refused, both ends stop
\* reading, with a message or with an error, wherever the connection is cut.
EveryReadEnds ==
    closed["request"] ~> \A d \in Direction : got[d] # NONE

\* Unless the connection dies, a message that fits both caps is delivered.
FittingDelivered ==
    \A d \in Direction : \A m \in Deliverable(d) :
        sent[d] = m ~> (got[d] = m \/ cut)
=============================================================================
