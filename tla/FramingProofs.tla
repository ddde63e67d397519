---------------------------- MODULE FramingProofs ----------------------------
(***************************************************************************)
(* Proofs about Framing: the codecs implement Exchange and bound what they  *)
(* read, for any messages, any caps below the width of the length and any  *)
(* way the bytes arrive or stop arriving.                                  *)
(***************************************************************************)
EXTENDS Framing, SequenceTheorems, TLAPS

-----------------------------------------------------------------------------
(* The length.                                                             *)

LEMMA DivIsBetween ==
    ASSUME NEW n \in Nat, NEW d \in Nat \ {0}
    PROVE  /\ n \div d \in Nat /\ n % d \in 0..(d - 1)
           /\ n = d * (n \div d) + (n % d)
           /\ d * (n \div d) <= n /\ n < d * (n \div d) + d
OBVIOUS

LEMMA DivIsUnique ==
    ASSUME NEW n \in Nat, NEW d \in Nat \ {0}, NEW p \in Nat,
           d * p <= n, n < d * p + d
    PROVE  n \div d = p
<1>. DEFINE q == n \div d
<1>1. q \in Nat /\ d * q <= n /\ n < d * q + d
  BY DivIsBetween
<1>. HIDE DEF q
<1>2. d * p \in Nat /\ d * q \in Nat
  BY <1>1
<1>3. ~(p < q)
  <2>1. p < q => d * p + d <= d * q
    BY <1>1
  <2>. QED
    BY <1>1, <1>2, <2>1
<1>4. ~(q < p)
  <2>1. q < p => d * q + d <= d * p
    BY <1>1
  <2>. QED
    BY <1>1, <1>2, <2>1
<1>. QED
  BY <1>1, <1>3, <1>4 DEF q

LEMMA DivOfProduct ==
    ASSUME NEW n \in Nat, NEW a \in Nat \ {0}, NEW b \in Nat \ {0}
    PROVE  n \div (a * b) = (n \div a) \div b
<1>. DEFINE q == n \div a
            p == q \div b
<1>1. q \in Nat /\ a * q <= n /\ n < a * q + a
  BY DivIsBetween
<1>. HIDE DEF q
<1>2. p \in Nat /\ b * p <= q /\ q < b * p + b
  BY <1>1, DivIsBetween
<1>. HIDE DEF p
<1>3. a * b \in Nat \ {0} /\ b * p \in Nat
  BY <1>2
<1>4. (a * b) * p <= n
  <2>1. a * (b * p) <= a * q
    BY <1>1, <1>2, <1>3
  <2>2. (a * b) * p = a * (b * p)
    BY <1>2
  <2>3. a * q \in Nat /\ a * (b * p) \in Nat
    BY <1>1, <1>3
  <2>. QED
    BY <1>1, <2>1, <2>2, <2>3
<1>5. n < (a * b) * p + a * b
  <2>1. q + 1 <= b * p + b /\ q + 1 \in Nat /\ b * p + b \in Nat
    BY <1>1, <1>2, <1>3
  <2>2. a * (q + 1) <= a * (b * p + b)
    <3>. DEFINE x == q + 1
                y == b * p + b
    <3>1. x \in Nat /\ y \in Nat /\ x <= y
      BY <2>1
    <3>. HIDE DEF x, y
    <3>2. a * x <= a * y
      BY <3>1
    <3>. QED
      BY <3>2 DEF x, y
  <2>3. a * (b * p + b) = (a * b) * p + a * b
    BY <1>2
  <2>4. a * (q + 1) = a * q + a
    BY <1>1
  <2>5. a * q \in Nat /\ (a * b) * p \in Nat
    BY <1>1, <1>2, <1>3
  <2>. QED
    BY <1>1, <1>3, <2>2, <2>3, <2>4, <2>5
<1>6. n \div (a * b) = p
  BY <1>2, <1>3, <1>4, <1>5, DivIsUnique
<1>. QED
  BY <1>6 DEF p, q

\* from_be_bytes undoes to_be_bytes for every length that fits in four bytes.
LEMMA LengthRoundTrip ==
    ASSUME NEW n \in Nat, n < Base * Base * Base * Base
    PROVE  /\ ToBytes(n) \in Seq(Byte) /\ Len(ToBytes(n)) = 4
           /\ FromBytes(ToBytes(n)) = n
<1>. DEFINE q == n \div Base
            r == q \div Base
            s == r \div Base
<1>0. Base \in Nat \ {0} /\ Base * Base \in Nat \ {0}
  BY SizeAssumption
<1>1. q \in Nat /\ n % Base \in Byte /\ n = Base * q + (n % Base)
  BY <1>0, DivIsBetween DEF Byte
<1>2. n \div (Base * Base) = r
  BY <1>0, DivOfProduct
<1>3. n \div (Base * Base * Base) = s
  <2>. DEFINE a == Base * Base
  <2>1. a \in Nat \ {0} /\ n \div a = r
    BY <1>0, <1>2
  <2>. HIDE DEF a
  <2>2. n \div (a * Base) = (n \div a) \div Base
    BY <1>0, <2>1, DivOfProduct
  <2>. QED
    BY <2>1, <2>2 DEF a
<1>. HIDE DEF q
<1>4. r \in Nat /\ q % Base \in Byte /\ q = Base * r + (q % Base)
  BY <1>0, <1>1, DivIsBetween DEF Byte
<1>. HIDE DEF r
<1>5. s \in Nat /\ r % Base \in Byte /\ r = Base * s + (r % Base)
  BY <1>0, <1>4, DivIsBetween DEF Byte
<1>. HIDE DEF s
<1>6. s < Base
  <2>1. CASE s >= Base
    <3>1. r >= Base * Base
      BY <1>0, <1>5, <2>1 DEF Byte
    <3>2. q >= Base * Base * Base
      BY <1>0, <1>4, <3>1 DEF Byte
    <3>3. n >= Base * Base * Base * Base
      BY <1>0, <1>1, <3>2 DEF Byte
    <3>. QED
      BY <1>0, <3>3
  <2>. QED
    BY <1>0, <1>5, <2>1
<1>7. s % Base = s /\ s \in Byte
  BY <1>0, <1>5, <1>6 DEF Byte
<1>8. ToBytes(n) = <<s, r % Base, q % Base, n % Base>>
  BY <1>2, <1>3, <1>7 DEF ToBytes, q
<1>. DEFINE R == r % Base
            Q == q % Base
            N == n % Base
<1>9. /\ R \in Nat /\ Q \in Nat /\ N \in Nat
      /\ n = Base * q + N /\ q = Base * r + Q /\ r = Base * s + R
  BY <1>0, <1>1, <1>4, <1>5 DEF Byte
<1>. HIDE DEF R, Q, N
<1>10. ((s * Base + R) * Base + Q) * Base + N = n
  BY <1>0, <1>1, <1>4, <1>5, <1>9
<1>. QED
  BY <1>1, <1>4, <1>5, <1>7, <1>8, <1>10 DEF FromBytes, R, Q, N
-----------------------------------------------------------------------------
(* What is read.  The bytes b that were read and the bytes p still in the  *)
(* pipe are a prefix of f, cut anywhere.                                   *)
Carried(b, p, f) ==
    /\ Len(b) + Len(p) <= Len(f)
    /\ \A i \in 1..Len(b) : b[i] = f[i]
    /\ \A i \in 1..Len(p) : p[i] = f[Len(b) + i]

LEMMA CarriedRead ==
    ASSUME NEW b \in Seq(Byte), NEW p \in Seq(Byte), NEW f \in Seq(Byte),
           Carried(b, p, f), NEW k \in 1..Len(p)
    PROVE  LET c == b \o SubSeq(p, 1, k)
               q == SubSeq(p, k + 1, Len(p))
           IN  c \in Seq(Byte) /\ q \in Seq(Byte)
               /\ Len(c) = Len(b) + k /\ Carried(c, q, f)
<1>. DEFINE a == SubSeq(p, 1, k)
            q == SubSeq(p, k + 1, Len(p))
            c == b \o a
<1>0. Len(p) \in Nat /\ Len(b) \in Nat /\ Len(f) \in Nat /\ k \in Nat /\ k <= Len(p)
  OBVIOUS
<1>1. a \in Seq(Byte) /\ Len(a) = k /\ \A i \in 1..k : a[i] = p[i]
  BY <1>0
<1>2. q \in Seq(Byte) /\ Len(q) = Len(p) - k /\ \A i \in 1..Len(q) : q[i] = p[k + i]
  BY <1>0
<1>. HIDE DEF a, q
<1>3. /\ c \in Seq(Byte) /\ Len(c) = Len(b) + k
      /\ \A i \in 1..Len(c) : c[i] = IF i <= Len(b) THEN b[i] ELSE a[i - Len(b)]
  <2>1. /\ b \o a \in Seq(Byte) /\ Len(b \o a) = Len(b) + Len(a)
        /\ \A i \in 1..(Len(b) + Len(a)) :
               (b \o a)[i] = IF i <= Len(b) THEN b[i] ELSE a[i - Len(b)]
    BY <1>1, ConcatProperties
  <2>. QED
    BY <1>1, <2>1
<1>. HIDE DEF c
<1>4. Len(c) + Len(q) <= Len(f)
  BY <1>0, <1>2, <1>3 DEF Carried
<1>5. ASSUME NEW i \in 1..Len(c) PROVE c[i] = f[i]
  <2>1. CASE i <= Len(b)
    BY <1>0, <1>3, <2>1 DEF Carried
  <2>2. CASE i > Len(b)
    <3>. DEFINE j == i - Len(b)
    <3>1. j \in 1..k /\ j \in 1..Len(p) /\ Len(b) + j = i
      BY <1>0, <1>3, <2>2
    <3>. HIDE DEF j
    <3>2. c[i] = a[j]
      BY <1>0, <1>3, <2>2 DEF j
    <3>. QED
      BY <1>1, <3>1, <3>2 DEF Carried
  <2>. QED
    BY <1>0, <1>3, <2>1, <2>2
<1>6. ASSUME NEW i \in 1..Len(q) PROVE q[i] = f[Len(c) + i]
  <2>1. k + i \in 1..Len(p) /\ Len(b) + (k + i) = Len(c) + i
    BY <1>0, <1>2, <1>3
  <2>2. p[k + i] = f[Len(b) + (k + i)]
    BY <2>1 DEF Carried
  <2>. QED
    BY <1>2, <2>1, <2>2
<1>7. Carried(c, q, f)
  BY <1>4, <1>5, <1>6 DEF Carried
<1>. QED
  BY <1>2, <1>3, <1>7 DEF a, q, c

LEMMA CarriedCut ==
    ASSUME NEW b \in Seq(Byte), NEW p \in Seq(Byte), NEW f \in Seq(Byte),
           Carried(b, p, f), NEW k \in 0..Len(p)
    PROVE  SubSeq(p, 1, k) \in Seq(Byte) /\ Carried(b, SubSeq(p, 1, k), f)
<1>. DEFINE a == SubSeq(p, 1, k)
<1>1. a \in Seq(Byte) /\ Len(a) = k /\ \A i \in 1..k : a[i] = p[i]
  OBVIOUS
<1>. HIDE DEF a
<1>2. Carried(b, a, f)
  BY <1>1 DEF Carried
<1>. QED
  BY <1>1, <1>2 DEF a

LEMMA CarriedWhole ==
    ASSUME NEW b \in Seq(Byte), NEW p \in Seq(Byte), NEW f \in Seq(Byte),
           Carried(b, p, f), Len(b) = Len(f)
    PROVE  b = f
BY DEF Carried

-----------------------------------------------------------------------------
(* A frame.                                                                *)

LEMMA FrameShape ==
    ASSUME NEW m \in Message, Size(m) < Base * Base * Base * Base
    PROVE  /\ Encoded[m] \in Seq(Byte) /\ Size(m) \in Nat
           /\ Frame(m) \in Seq(Byte) /\ Len(Frame(m)) = 4 + Size(m)
           /\ \A b \in Seq(Byte) :
                (Len(b) = 4 /\ \A i \in 1..4 : b[i] = Frame(m)[i])
                    => FromBytes(b) = Size(m)
           /\ \A i \in 1..Size(m) : Frame(m)[4 + i] = Encoded[m][i]
<1>. DEFINE t == ToBytes(Size(m))
            e == Encoded[m]
<1>1. e \in Seq(Byte) /\ Size(m) \in Nat /\ Len(e) = Size(m)
  BY MessageAssumption DEF Size
<1>2. t \in Seq(Byte) /\ Len(t) = 4 /\ FromBytes(t) = Size(m)
  BY <1>1, LengthRoundTrip
<1>3. Frame(m) = t \o e
  BY DEF Frame
<1>. HIDE DEF t, e
<1>4. /\ t \o e \in Seq(Byte) /\ Len(t \o e) = 4 + Size(m)
      /\ \A i \in 1..4 : (t \o e)[i] = t[i]
      /\ \A i \in 1..Size(m) : (t \o e)[4 + i] = e[i]
  <2>1. /\ t \o e \in Seq(Byte) /\ Len(t \o e) = Len(t) + Len(e)
        /\ \A i \in 1..(Len(t) + Len(e)) :
               (t \o e)[i] = IF i <= Len(t) THEN t[i] ELSE e[i - Len(t)]
    BY <1>1, <1>2, ConcatProperties
  <2>. QED
    BY <1>1, <1>2, <2>1
<1>5. ASSUME NEW b \in Seq(Byte), Len(b) = 4, \A i \in 1..4 : b[i] = Frame(m)[i]
      PROVE  FromBytes(b) = Size(m)
  <2>1. b[1] = t[1] /\ b[2] = t[2] /\ b[3] = t[3] /\ b[4] = t[4]
    <3>1. \A i \in 1..4 : b[i] = t[i]
      BY <1>3, <1>4, <1>5
    <3>. QED
      BY <3>1
  <2>. QED
    BY <1>2, <2>1 DEF FromBytes
<1>. QED
  BY <1>1, <1>3, <1>4, <1>5 DEF e

LEMMA DecodeInverts ==
    ASSUME NEW m \in Message
    PROVE  Decode(Encoded[m]) = m
BY MessageAssumption DEF Decode
-----------------------------------------------------------------------------
(* The inductive invariant, of each direction with its message s, result   *)
(* g, pipe p, buffer b, and read_exact call r for w bytes.  Before a       *)
(* message is written there is nothing to read; after that what was read   *)
(* and what is in the pipe is a prefix of the frame, or of its body once   *)
(* the length was read, and the body is as long as the length said.        *)
Idle(g, p, r, w, b) ==
    p = <<>> /\ b = <<>> /\ r = "length" /\ w = 4 /\ g \notin Message

Underway(d, s, g, p, r, w, b) ==
    /\ Size(s) <= WriterMax(d)
    /\ r = "length" => w = 4 /\ Len(b) <= 4 /\ Carried(b, p, Frame(s))
    /\ r = "body" => /\ w = Size(s) /\ w <= ReaderMax(d)
                     /\ Len(b) <= w /\ Carried(b, p, Encoded[s])
    /\ g \in Message => g = s /\ g \in Deliverable(d)

DirectionOK(d, s, g, p, r, w, b) ==
    /\ s = NONE => Idle(g, p, r, w, b)
    /\ s # NONE => Underway(d, s, g, p, r, w, b)

EveryDirectionOK ==
    \A d \in Direction :
        DirectionOK(d, sent[d], got[d], pipe[d], reading[d], want[d], buf[d])

FInv == Shape /\ EveryDirectionOK

LEMMA WriterBound ==
    ASSUME NEW d \in Direction, NEW m \in Message, Size(m) <= WriterMax(d)
    PROVE  Size(m) < Base * Base * Base * Base
BY MessageAssumption, SizeAssumption DEF WriterMax, Size

\* The state of one direction before and after a step, as constants.
LEMMA CutOK ==
    ASSUME NEW d \in Direction, NEW s \in Message \cup {NONE}, NEW g,
           NEW p \in Seq(Byte), NEW b \in Seq(Byte),
           NEW r \in {"length", "body"}, NEW w \in Nat,
           DirectionOK(d, s, g, p, r, w, b), NEW k \in 0..Len(p)
    PROVE  LET q == SubSeq(p, 1, k)
           IN  q \in Seq(Byte) /\ DirectionOK(d, s, g, q, r, w, b)
<1>. DEFINE q == SubSeq(p, 1, k)
<1>1. CASE s = NONE
  <2>1. Idle(g, p, r, w, b)
    BY <1>1 DEF DirectionOK
  <2>2. p = <<>> /\ k = 0
    BY <2>1 DEF Idle
  <2>3. q = <<>>
    BY <2>2
  <2>4. q = p
    BY <2>2, <2>3
  <2>. QED
    BY <2>4
<1>2. CASE s # NONE
  <2>1. s \in Message /\ Underway(d, s, g, p, r, w, b)
    BY <1>2 DEF DirectionOK
  <2>2. Frame(s) \in Seq(Byte) /\ Encoded[s] \in Seq(Byte)
    BY <2>1, WriterBound, FrameShape DEF Underway
  <2>3. \A f \in Seq(Byte) : Carried(b, p, f) => Carried(b, q, f)
    BY CarriedCut
  <2>4. q \in Seq(Byte)
    BY SubSeqProperties
  <2>. HIDE DEF q
  <2>5. Underway(d, s, g, q, r, w, b)
    BY <2>1, <2>2, <2>3 DEF Underway
  <2>6. DirectionOK(d, s, g, q, r, w, b)
    BY <1>2, <2>5 DEF DirectionOK
  <2>. QED
    BY <2>4, <2>6 DEF q
<1>. QED
  BY <1>1, <1>2

\* The length that was read is that of the message; what follows is its body.
LEMMA ReadLengthOK ==
    ASSUME NEW d \in Direction, NEW s \in Message \cup {NONE}, NEW g,
           NEW p \in Seq(Byte), NEW b \in Seq(Byte), NEW w \in Nat,
           DirectionOK(d, s, g, p, "length", w, b), Len(b) = w
    PROVE  /\ s \in Message /\ FromBytes(b) = Size(s) /\ Size(s) \in Nat
           /\ Size(s) <= ReaderMax(d)
                => DirectionOK(d, s, g, p, "body", Size(s), <<>>)
<1>1. s # NONE
  BY DEF DirectionOK, Idle
<1>2. s \in Message /\ Underway(d, s, g, p, "length", w, b)
  BY <1>1 DEF DirectionOK
<1>3. Len(b) = 4 /\ Carried(b, p, Frame(s))
  BY <1>2 DEF Underway
<1>4. /\ Encoded[s] \in Seq(Byte) /\ Size(s) \in Nat
      /\ Frame(s) \in Seq(Byte) /\ Len(Frame(s)) = 4 + Size(s)
      /\ (Len(b) = 4 /\ \A i \in 1..4 : b[i] = Frame(s)[i])
            => FromBytes(b) = Size(s)
      /\ \A i \in 1..Size(s) : Frame(s)[4 + i] = Encoded[s][i]
  BY <1>2, WriterBound, FrameShape DEF Underway
<1>5. FromBytes(b) = Size(s)
  BY <1>3, <1>4 DEF Carried
<1>6. Carried(<<>>, p, Encoded[s])
  <2>1. Len(p) <= Size(s) /\ Len(p) \in Nat /\ Len(Encoded[s]) = Size(s)
    BY <1>3, <1>4 DEF Carried, Size
  <2>2. ASSUME NEW i \in 1..Len(p) PROVE p[i] = Encoded[s][0 + i]
    <3>1. p[i] = Frame(s)[4 + i]
      BY <1>3 DEF Carried
    <3>2. i \in 1..Size(s) /\ 0 + i = i
      BY <1>4, <2>1
    <3>. QED
      BY <1>4, <3>1, <3>2
  <2>3. Len(<<>>) = 0
    OBVIOUS
  <2>. QED
    BY <2>1, <2>2, <2>3 DEF Carried
<1>7. Size(s) <= ReaderMax(d) => Underway(d, s, g, p, "body", Size(s), <<>>)
  BY <1>2, <1>4, <1>6 DEF Underway
<1>. QED
  BY <1>1, <1>2, <1>4, <1>5, <1>7 DEF DirectionOK

\* A complete body is that of the message.
LEMMA ReadBodyOK ==
    ASSUME NEW d \in Direction, NEW s \in Message \cup {NONE}, NEW g,
           NEW p \in Seq(Byte), NEW b \in Seq(Byte), NEW w \in Nat,
           DirectionOK(d, s, g, p, "body", w, b), Len(b) = w
    PROVE  /\ s \in Deliverable(d) /\ Decode(b) = s
           /\ DirectionOK(d, s, s, p, "body", w, b)
<1>1. s # NONE
  BY DEF DirectionOK, Idle
<1>2. s \in Message /\ Underway(d, s, g, p, "body", w, b)
  BY <1>1 DEF DirectionOK
<1>3. b = Encoded[s]
  <2>1. Encoded[s] \in Seq(Byte) /\ Len(b) = Len(Encoded[s])
    BY <1>2, MessageAssumption DEF Underway, Size
  <2>. QED
    BY <1>2, <2>1, CarriedWhole DEF Underway
<1>4. Decode(b) = s
  BY <1>2, <1>3, DecodeInverts
<1>5. s \in Deliverable(d)
  BY <1>2 DEF Underway, Deliverable
<1>6. Underway(d, s, s, p, "body", w, b)
  BY <1>2, <1>5 DEF Underway
<1>. QED
  BY <1>1, <1>4, <1>5, <1>6 DEF DirectionOK

LEMMA FailedOK ==
    ASSUME NEW d, NEW s, NEW g, NEW p, NEW r, NEW w, NEW b,
           DirectionOK(d, s, g, p, r, w, b)
    PROVE  DirectionOK(d, s, FAILED, p, r, w, b)
BY MessageAssumption DEF DirectionOK, Idle, Underway

LEMMA WriteOK ==
    ASSUME NEW d \in Direction, NEW m \in Message, Size(m) <= WriterMax(d),
           NEW g, NEW p, NEW r, NEW w, NEW b,
           DirectionOK(d, NONE, g, p, r, w, b)
    PROVE  Frame(m) \in Seq(Byte) /\ DirectionOK(d, m, g, Frame(m), r, w, b)
<1>1. Idle(g, p, r, w, b)
  BY DEF DirectionOK
<1>2. Frame(m) \in Seq(Byte)
  BY WriterBound, FrameShape
<1>3. Carried(<<>>, Frame(m), Frame(m))
  <2>1. Len(<<>>) = 0 /\ Len(Frame(m)) \in Nat
    BY <1>2
  <2>. QED
    BY <2>1 DEF Carried
<1>4. Underway(d, m, g, Frame(m), r, w, b)
  BY <1>1, <1>3 DEF Idle, Underway
<1>. QED
  BY <1>2, <1>4, MessageAssumption DEF DirectionOK
-----------------------------------------------------------------------------
(* The steps.                                                              *)

LEMMA FInit == Init => FInv
<1>. SUFFICES ASSUME Init PROVE FInv
  OBVIOUS
<1>1. Shape
  <2>1. <<>> \in Seq(Byte)
    OBVIOUS
  <2>2. cut \in BOOLEAN /\ closed \in [Direction -> BOOLEAN]
    BY DEF Init
  <2>. QED
    BY <2>1, <2>2 DEF Init, Shape
<1>2. EveryDirectionOK
  BY MessageAssumption DEF Init, EveryDirectionOK, DirectionOK, Idle
<1>. QED
  BY <1>1, <1>2 DEF FInv

\* The parts of the state of direction d, typed.
LEMMA Parts ==
    ASSUME FInv, NEW d \in Direction
    PROVE  /\ sent[d] \in Message \cup {NONE} /\ got[d] \in Message \cup {NONE, FAILED}
           /\ pipe[d] \in Seq(Byte) /\ buf[d] \in Seq(Byte)
           /\ reading[d] \in {"length", "body"} /\ want[d] \in Nat
           /\ DirectionOK(d, sent[d], got[d], pipe[d], reading[d], want[d], buf[d])
BY DEF FInv, Shape, EveryDirectionOK

LEMMA ReadSomeOK ==
    ASSUME FInv, NEW d \in Direction,
           NEW k \in 1..Len(pipe[d]), Len(buf[d]) + k <= want[d]
    PROVE  LET c == buf[d] \o SubSeq(pipe[d], 1, k)
               q == SubSeq(pipe[d], k + 1, Len(pipe[d]))
           IN  /\ c \in Seq(Byte) /\ q \in Seq(Byte)
               /\ DirectionOK(d, sent[d], got[d], q, reading[d], want[d], c)
<1>. DEFINE s == sent[d]
            g == got[d]
            p == pipe[d]
            r == reading[d]
            w == want[d]
            b == buf[d]
            c == b \o SubSeq(p, 1, k)
            q == SubSeq(p, k + 1, Len(p))
<1>0. /\ s \in Message \cup {NONE} /\ p \in Seq(Byte) /\ b \in Seq(Byte)
      /\ r \in {"length", "body"} /\ w \in Nat
      /\ DirectionOK(d, s, g, p, r, w, b)
      /\ k \in 1..Len(p) /\ Len(b) + k <= w
  BY Parts
<1>c. c = b \o SubSeq(p, 1, k) /\ q = SubSeq(p, k + 1, Len(p))
  OBVIOUS
<1>. HIDE DEF s, g, p, r, w, b, c, q
<1>1. s # NONE
  BY <1>0 DEF DirectionOK, Idle
<1>2. s \in Message /\ Underway(d, s, g, p, r, w, b)
  BY <1>0, <1>1 DEF DirectionOK
<1>3. Frame(s) \in Seq(Byte) /\ Encoded[s] \in Seq(Byte)
  BY <1>2, WriterBound, FrameShape DEF Underway
<1>4. \A f \in Seq(Byte) : Carried(b, p, f) =>
        c \in Seq(Byte) /\ q \in Seq(Byte) /\ Len(c) = Len(b) + k /\ Carried(c, q, f)
  BY <1>0, <1>c, CarriedRead
<1>5. r = "length" => /\ c \in Seq(Byte) /\ q \in Seq(Byte)
                      /\ Len(c) <= w /\ Carried(c, q, Frame(s))
  BY <1>0, <1>2, <1>3, <1>4 DEF Underway
<1>6. r = "body" => /\ c \in Seq(Byte) /\ q \in Seq(Byte)
                    /\ Len(c) <= w /\ Carried(c, q, Encoded[s])
  BY <1>0, <1>2, <1>3, <1>4 DEF Underway
<1>7. Underway(d, s, g, q, r, w, c)
  BY <1>2, <1>5, <1>6 DEF Underway
<1>8. DirectionOK(d, s, g, q, r, w, c)
  BY <1>1, <1>7 DEF DirectionOK
<1>. QED
  BY <1>0, <1>5, <1>6, <1>8 DEF s, g, p, r, w, b, c, q

LEMMA ReturnType ==
    ASSUME Shape, NEW d \in Direction, NEW x \in Message \cup {FAILED}, Return(d, x)
    PROVE  /\ got' \in [Direction -> Message \cup {NONE, FAILED}]
           /\ closed' \in [Direction -> BOOLEAN]
           /\ got'[d] = x
           /\ \A e \in Direction \ {d} : got'[e] = got[e]
BY DEF Shape, Return, Direction

LEMMA FStep == FInv /\ [Next]_vars => FInv'
<1>. SUFFICES ASSUME FInv, [Next]_vars PROVE FInv'
  OBVIOUS
<1>. USE DEF FInv
<1>1. ASSUME NEW d \in Direction, NEW m \in Message, WriteFramed(d, m) PROVE FInv'
  <2>1. /\ sent[d] = NONE /\ Size(m) <= WriterMax(d)
    BY <1>1 DEF WriteFramed, MayWrite
  <2>2. /\ Frame(m) \in Seq(Byte)
        /\ DirectionOK(d, m, got[d], Frame(m), reading[d], want[d], buf[d])
    BY <2>1, Parts, WriteOK
  <2>3. Shape'
    BY <1>1, <2>2 DEF WriteFramed, Shape
  <2>4. ASSUME NEW e \in Direction
        PROVE DirectionOK(e, sent'[e], got'[e], pipe'[e], reading'[e], want'[e], buf'[e])
    <3>1. CASE e = d
      BY <1>1, <2>2, <3>1 DEF WriteFramed, Shape
    <3>2. CASE e # d
      <4>1. sent'[e] = sent[e] /\ pipe'[e] = pipe[e]
        BY <1>1, <3>2 DEF WriteFramed, Shape
      <4>. QED
        BY <1>1, <4>1, Parts DEF WriteFramed
    <3>. QED
      BY <3>1, <3>2
  <2>. QED
    BY <2>3, <2>4 DEF EveryDirectionOK
<1>2. ASSUME NEW d \in Direction, NEW m \in Message, WriteTooLarge(d, m) PROVE FInv'
  BY <1>2 DEF WriteTooLarge, Shape, EveryDirectionOK
<1>3. CASE DropChannel
  BY <1>3 DEF DropChannel, Shape, EveryDirectionOK
<1>4. ASSUME NEW d \in Direction, NEW k \in 1..MaxFrame, ReadSome(d, k) PROVE FInv'
  <2>. DEFINE c == buf[d] \o SubSeq(pipe[d], 1, k)
              q == SubSeq(pipe[d], k + 1, Len(pipe[d]))
  <2>1. /\ k \in 1..Len(pipe[d]) /\ Len(buf[d]) + k <= want[d]
        /\ buf' = [buf EXCEPT ![d] = c] /\ pipe' = [pipe EXCEPT ![d] = q]
        /\ UNCHANGED <<sent, got, closed, reading, want, cut>>
    BY <1>4 DEF ReadSome, Shape
  <2>2. /\ c \in Seq(Byte) /\ q \in Seq(Byte)
        /\ DirectionOK(d, sent[d], got[d], q, reading[d], want[d], c)
    <3>1. k \in 1..Len(pipe[d]) /\ Len(buf[d]) + k <= want[d]
      BY <2>1
    <3>. QED
      BY <3>1, ReadSomeOK
  <2>. HIDE DEF c, q
  <2>3. Shape'
    BY <2>1, <2>2 DEF Shape
  <2>4. ASSUME NEW e \in Direction
        PROVE DirectionOK(e, sent'[e], got'[e], pipe'[e], reading'[e], want'[e], buf'[e])
    <3>1. CASE e = d
      BY <2>1, <2>2, <3>1 DEF Shape
    <3>2. CASE e # d
      <4>1. buf'[e] = buf[e] /\ pipe'[e] = pipe[e]
        BY <2>1, <3>2 DEF Shape
      <4>. QED
        BY <2>1, <4>1, Parts
    <3>. QED
      BY <3>1, <3>2
  <2>. QED
    BY <2>3, <2>4 DEF EveryDirectionOK
<1>5. ASSUME NEW d \in Direction, ReadLength(d) PROVE FInv'
  <2>1. /\ got[d] = NONE /\ reading[d] = "length" /\ Len(buf[d]) = want[d]
        /\ UNCHANGED <<sent, pipe, cut>>
    BY <1>5 DEF ReadLength
  <2>p. /\ sent[d] \in Message \cup {NONE} /\ want[d] \in Nat
        /\ pipe[d] \in Seq(Byte) /\ buf[d] \in Seq(Byte)
        /\ reading[d] \in {"length", "body"}
        /\ DirectionOK(d, sent[d], got[d], pipe[d], "length", want[d], buf[d])
    BY <2>1, Parts
  <2>2. /\ FromBytes(buf[d]) = Size(sent[d]) /\ Size(sent[d]) \in Nat
        /\ Size(sent[d]) <= ReaderMax(d) =>
             DirectionOK(d, sent[d], got[d], pipe[d], "body", Size(sent[d]), <<>>)
    <3>1. Len(buf[d]) = want[d]
      BY <2>1
    <3>. QED
      BY ONLY <3>1, <2>p, ReadLengthOK, d \in Direction
  <2>3. CASE Return(d, FAILED) /\ UNCHANGED <<reading, want, buf>>
    <3>1. Shape'
      BY <2>1, <2>3, ReturnType DEF Shape
    <3>2. ASSUME NEW e \in Direction
          PROVE DirectionOK(e, sent'[e], got'[e], pipe'[e], reading'[e], want'[e], buf'[e])
      <4>1. got'[e] = IF e = d THEN FAILED ELSE got[e]
        BY <2>3, ReturnType
      <4>. QED
        BY <2>1, <2>3, <4>1, Parts, FailedOK
    <3>. QED
      BY <3>1, <3>2 DEF EveryDirectionOK
  <2>4. CASE /\ FromBytes(buf[d]) <= ReaderMax(d)
             /\ reading' = [reading EXCEPT ![d] = "body"]
             /\ want' = [want EXCEPT ![d] = FromBytes(buf[d])]
             /\ buf' = [buf EXCEPT ![d] = <<>>]
             /\ UNCHANGED <<got, closed>>
    <3>1. Shape'
      <4>1. <<>> \in Seq(Byte)
        OBVIOUS
      <4>. QED
        BY <2>1, <2>2, <2>4, <4>1 DEF Shape
    <3>2. ASSUME NEW e \in Direction
          PROVE DirectionOK(e, sent'[e], got'[e], pipe'[e], reading'[e], want'[e], buf'[e])
      <4>1. CASE e = d
        <5>1. reading'[e] = "body" /\ want'[e] = Size(sent[d]) /\ buf'[e] = <<>>
          BY <2>2, <2>4, <4>1 DEF Shape
        <5>. QED
          BY <2>1, <2>2, <2>4, <4>1, <5>1
      <4>2. CASE e # d
        <5>1. reading'[e] = reading[e] /\ want'[e] = want[e] /\ buf'[e] = buf[e]
          BY <2>4, <4>2 DEF Shape
        <5>. QED
          BY <2>1, <2>4, <5>1, Parts
      <4>. QED
        BY <4>1, <4>2
    <3>. QED
      BY <3>1, <3>2 DEF EveryDirectionOK
  <2>. QED
    BY <1>5, <2>3, <2>4 DEF ReadLength
<1>6. ASSUME NEW d \in Direction, ReadBody(d) PROVE FInv'
  <2>1. /\ got[d] = NONE /\ reading[d] = "body" /\ Len(buf[d]) = want[d]
        /\ Return(d, Decode(buf[d]))
        /\ UNCHANGED <<sent, pipe, reading, want, buf, cut>>
    BY <1>6 DEF ReadBody
  <2>2. /\ sent[d] \in Message /\ Decode(buf[d]) = sent[d]
        /\ DirectionOK(d, sent[d], sent[d], pipe[d], reading[d], want[d], buf[d])
    BY <2>1, Parts, ReadBodyOK DEF Deliverable
  <2>3. Shape'
    BY <2>1, <2>2, ReturnType DEF Shape
  <2>4. ASSUME NEW e \in Direction
        PROVE DirectionOK(e, sent'[e], got'[e], pipe'[e], reading'[e], want'[e], buf'[e])
    <3>1. got'[e] = IF e = d THEN sent[d] ELSE got[e]
      BY <2>1, <2>2, ReturnType
    <3>. QED
      BY <2>1, <2>2, <3>1, Parts
  <2>. QED
    BY <2>3, <2>4 DEF EveryDirectionOK
<1>7. ASSUME NEW d \in Direction, ReadEof(d) PROVE FInv'
  <2>1. Return(d, FAILED) /\ UNCHANGED <<sent, pipe, reading, want, buf, cut>>
    BY <1>7 DEF ReadEof
  <2>2. Shape'
    BY <2>1, ReturnType DEF Shape
  <2>3. ASSUME NEW e \in Direction
        PROVE DirectionOK(e, sent'[e], got'[e], pipe'[e], reading'[e], want'[e], buf'[e])
    <3>1. got'[e] = IF e = d THEN FAILED ELSE got[e]
      BY <2>1, ReturnType
    <3>. QED
      BY <2>1, <3>1, Parts, FailedOK
  <2>. QED
    BY <2>2, <2>3 DEF EveryDirectionOK
<1>8. ASSUME NEW keep \in [Direction -> 0..MaxFrame], Cut(keep) PROVE FInv'
  <2>1. /\ \A e \in Direction : keep[e] <= Len(pipe[e])
        /\ closed' = [e \in Direction |-> TRUE]
        /\ pipe' = [e \in Direction |-> SubSeq(pipe[e], 1, keep[e])]
        /\ cut' = TRUE
        /\ UNCHANGED <<sent, got, reading, want, buf>>
    BY <1>8 DEF Cut
  <2>2. ASSUME NEW e \in Direction
        PROVE /\ pipe'[e] \in Seq(Byte)
              /\ DirectionOK(e, sent'[e], got'[e], pipe'[e], reading'[e], want'[e], buf'[e])
    <3>1. keep[e] \in 0..Len(pipe[e])
      <4>1. MaxFrame \in Nat
        BY SizeAssumption DEF MaxFrame
      <4>2. Len(pipe[e]) \in Nat
        BY Parts
      <4>. QED
        BY <2>1, <4>1, <4>2
    <3>2. pipe'[e] = SubSeq(pipe[e], 1, keep[e])
      BY <2>1
    <3>p. /\ sent[e] \in Message \cup {NONE} /\ want[e] \in Nat
          /\ pipe[e] \in Seq(Byte) /\ buf[e] \in Seq(Byte)
          /\ reading[e] \in {"length", "body"}
          /\ DirectionOK(e, sent[e], got[e], pipe[e], reading[e], want[e], buf[e])
      BY Parts
    <3>3. /\ SubSeq(pipe[e], 1, keep[e]) \in Seq(Byte)
          /\ DirectionOK(e, sent[e], got[e], SubSeq(pipe[e], 1, keep[e]),
                         reading[e], want[e], buf[e])
      BY <3>1, <3>p, CutOK, Zenon
    <3>. QED
      BY <2>1, <3>2, <3>3
  <2>3. cut' \in BOOLEAN /\ closed' \in [Direction -> BOOLEAN]
    BY <2>1
  <2>4. pipe' \in [Direction -> Seq(Byte)]
    BY <2>1, <2>2
  <2>5. Shape'
    BY <2>1, <2>3, <2>4 DEF Shape
  <2>. QED
    BY <2>2, <2>5 DEF EveryDirectionOK
<1>9. CASE UNCHANGED vars
  BY <1>9 DEF vars, Shape, EveryDirectionOK
<1>. QED
  BY <1>1, <1>2, <1>3, <1>4, <1>5, <1>6, <1>7, <1>8, <1>9
     DEF Next, Write, Respond, Read, Direction

LEMMA FInvariant == Spec => []FInv
<1>. QED
  BY FInit, FStep, PTL DEF Spec

\* The buffers hold bytes, the length that is waited for is a number, read_framed
\* returns a message or an error, and a frame that was refused leaves no byte.
THEOREM FramingTypeCorrect == Spec => []TypeOK
<1>1. FInv => TypeOK
  BY DEF FInv, EveryDirectionOK, DirectionOK, Idle, TypeOK
<1>. QED
  BY <1>1, FInvariant, PTL

\* vec![0u8; len] is never larger than the reader's MAX_MESSAGE_BYTES, and is
\* never filled beyond its end, whatever the peer's cap is and however its
\* bytes arrive.
THEOREM BoundedBufferCorrect == Spec => []BoundedBuffer
<1>1. FInv => BoundedBuffer
  <2>. SUFFICES ASSUME FInv, NEW d \in Direction
       PROVE Len(buf[d]) <= want[d] /\ (reading[d] = "body" => want[d] <= ReaderMax(d))
    BY DEF BoundedBuffer
  <2>1. CASE sent[d] = NONE
    <3>1. buf[d] = <<>> /\ want[d] = 4 /\ reading[d] = "length"
      BY <2>1, Parts DEF DirectionOK, Idle
    <3>. QED
      BY <3>1
  <2>2. CASE sent[d] # NONE
    <3>1. Underway(d, sent[d], got[d], pipe[d], reading[d], want[d], buf[d])
      BY <2>2, Parts DEF DirectionOK
    <3>2. reading[d] \in {"length", "body"}
      BY Parts
    <3>. QED
      BY <3>1, <3>2 DEF Underway
  <2>. QED
    BY <2>1, <2>2
<1>. QED
  BY <1>1, FInvariant, PTL

\* Framing implements Exchange, with sent and got as they are: a message that
\* is delivered is the one that was written, whole, within both caps, however
\* the bytes were cut into pieces and wherever the stream was cut off.
THEOREM ExchangeImplemented == Spec => ImplementsExchange
<1>1. Init => Stream!Init
  BY DEF Init, Stream!Init, Stream!Direction, Direction
<1>2. FInv /\ [Next]_vars => [Stream!Next]_<<sent, got>>
  <2>. SUFFICES ASSUME FInv, [Next]_vars
       PROVE Stream!Next \/ UNCHANGED <<sent, got>>
    OBVIOUS
  <2>d. Stream!Direction = Direction
    BY DEF Stream!Direction, Direction
  <2>. USE <2>d DEF Stream!Next
  <2>1. ASSUME NEW d \in Direction, NEW m \in Message, WriteFramed(d, m)
        PROVE Stream!Next
    BY <2>1 DEF WriteFramed, MayWrite, Stream!Send
  <2>2. ASSUME NEW d \in Direction, NEW m \in Message, WriteTooLarge(d, m)
        PROVE UNCHANGED <<sent, got>>
    BY <2>2 DEF WriteTooLarge
  <2>3. CASE DropChannel
    BY <2>3 DEF DropChannel
  <2>4. ASSUME NEW d \in Direction, NEW k \in 1..MaxFrame, ReadSome(d, k)
        PROVE UNCHANGED <<sent, got>>
    BY <2>4 DEF ReadSome
  <2>5. ASSUME NEW d \in Direction, ReadLength(d)
        PROVE Stream!Next \/ UNCHANGED <<sent, got>>
    BY <2>5 DEF ReadLength, Return, Stream!Fail
  <2>6. ASSUME NEW d \in Direction, ReadBody(d) PROVE Stream!Next
    <3>1. /\ got[d] = NONE /\ got' = [got EXCEPT ![d] = Decode(buf[d])]
          /\ reading[d] = "body" /\ Len(buf[d]) = want[d] /\ UNCHANGED sent
      BY <2>6 DEF ReadBody, Return
    <3>p. /\ sent[d] \in Message \cup {NONE} /\ want[d] \in Nat
          /\ pipe[d] \in Seq(Byte) /\ buf[d] \in Seq(Byte)
          /\ reading[d] \in {"length", "body"}
          /\ DirectionOK(d, sent[d], got[d], pipe[d], "body", want[d], buf[d])
      BY <3>1, Parts
    <3>2. sent[d] \in Deliverable(d) /\ Decode(buf[d]) = sent[d]
      BY <3>1, <3>p, ReadBodyOK, Zenon
    <3>3. Stream!Deliver(d)
      BY <3>1, <3>2 DEF Stream!Deliver
    <3>. QED
      BY <3>3
  <2>7. ASSUME NEW d \in Direction, ReadEof(d) PROVE Stream!Next
    BY <2>7 DEF ReadEof, Return, Stream!Fail
  <2>8. ASSUME NEW keep, Cut(keep) PROVE UNCHANGED <<sent, got>>
    BY <2>8 DEF Cut
  <2>9. CASE UNCHANGED vars
    BY <2>9 DEF vars
  <2>. QED
    BY <2>1, <2>2, <2>3, <2>4, <2>5, <2>6, <2>7, <2>8, <2>9
       DEF Next, Write, Respond, Read, Direction
<1>. QED
  BY <1>1, <1>2, FInvariant, PTL DEF Spec, ImplementsExchange, Stream!Spec
=============================================================================
