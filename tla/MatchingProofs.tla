---------------------------- MODULE MatchingProofs ----------------------------
(***************************************************************************)
(* Proofs about Matching: the filter agrees with the fingerprint on plain  *)
(* spelling, the sort ranks what it was given, and the choice is the first *)
(* of the best, for any cards, scores, facets and number of candidates.    *)
(***************************************************************************)
EXTENDS Matching, SequenceTheorems, WellFoundedInduction, TLAPS

-----------------------------------------------------------------------------
(* The filter and the fingerprint.                                         *)

\* Texts with the same normal form, both plainly spelled, are equal to the
\* filter.
LEMMA PlainTextsMatch ==
    ASSUME NEW s \in Text, NEW t \in Text, PlainText(s), PlainText(t),
           Normalize(s) = Normalize(t)
    PROVE  EqIgnoreAsciiCase(s, t)
<1>1. Normalize(s).word = s.word /\ Normalize(t).word = t.word
  BY DEF Normalize, Text
<1>. QED
  BY <1>1 DEF PlainText, EqIgnoreAsciiCase, Text

LEMMA ListCoversItself ==
    ASSUME NEW a, NEW b, Range(a) = Range(b)
    PROVE  Covers(a, b)
BY DEF Covers, EqIgnoreAsciiCase

LEMMA SameFingerprintPasses ==
    ASSUME NEW f \in FacetSet, NEW g \in FacetSet, PlainFacets(f), PlainFacets(g),
           Fingerprint(f) = Fingerprint(g)
    PROVE  FacetFilter(g, f)
<1>1. Canonical(f) = Canonical(g)
  BY DEF Fingerprint
<1>2. Range(f.tools) = Range(g.tools) /\ Range(f.ontologies) = Range(g.ontologies)
  BY <1>1 DEF Canonical
<1>3. ASSUME NEW x \in Field PROVE EqIgnoreAsciiCase(g.field[x], f.field[x])
  <2>1. Normalize(f.field[x]) = Normalize(g.field[x])
    <3>1. Canonical(f).field[x] = Canonical(g).field[x]
      BY <1>1
    <3>. QED
      BY <3>1 DEF Canonical
  <2>2. f.field \in [Field -> Text] /\ g.field \in [Field -> Text]
    BY DEF FacetSet
  <2>3. f.field[x] \in Range(f.field) /\ g.field[x] \in Range(g.field)
    BY <2>2 DEF Range
  <2>4. PlainText(f.field[x]) /\ PlainText(g.field[x])
    BY <2>3 DEF PlainFacets
  <2>5. f.field[x] \in Text /\ g.field[x] \in Text
    BY <2>2
  <2>. QED
    BY <2>1, <2>4, <2>5, PlainTextsMatch
<1>4. Covers(f.tools, g.tools) /\ Covers(f.ontologies, g.ontologies)
  BY <1>2, ListCoversItself
<1>. QED
  BY <1>3, <1>4 DEF FacetFilter

-----------------------------------------------------------------------------
(* The order of scores.                                                    *)

Number == Int \cup {NEG_INF}

LEMMA ScoreType ==
    ASSUME NEW k \in Card, Score(k) # NAN
    PROVE  Score(k) \in Number
BY CosineAssumption DEF Score, Number

\* Without NaN, Above is a strict weak order.
LEMMA AboveIsOrder ==
    ASSUME NEW x \in Number, NEW y \in Number
    PROVE  /\ ~(Above(x, y) /\ Above(y, x))
           /\ \A z \in Number : (~Above(y, x) /\ ~Above(z, y)) => ~Above(z, x)
BY CosineAssumption DEF Above, Number

-----------------------------------------------------------------------------
(* Where insertion stops.                                                  *)

LEMMA LeastNumber ==
    ASSUME NEW S \in SUBSET Nat, S # {}
    PROVE  \E x \in S : \A y \in S : x <= y
<1>1. IsWellFoundedOn(OpToRel(<, Nat), Nat)
  BY NatLessThanWellFounded
<1>2. PICK x \in S : \A y \in S : ~(<<y, x>> \in OpToRel(<, Nat))
  BY <1>1, WFMin
<1>3. \A y \in S : ~(y < x)
  BY <1>2 DEF OpToRel
<1>. QED
  BY <1>3

LEMMA GreatestNumber ==
    ASSUME NEW n \in Nat, NEW S \in SUBSET (0..n), S # {}
    PROVE  \E x \in S : \A y \in S : y <= x
<1>. DEFINE T == {n - x : x \in S}
<1>1. T \in SUBSET Nat /\ T # {}
  <2>1. ASSUME NEW x \in S PROVE n - x \in Nat
    OBVIOUS
  <2>2. PICK x \in S : TRUE
    OBVIOUS
  <2>3. n - x \in T
    OBVIOUS
  <2>. QED
    BY <2>1, <2>3
<1>2. PICK t \in T : \A u \in T : t <= u
  BY <1>1, LeastNumber
<1>3. PICK x \in S : t = n - x
  OBVIOUS
<1>4. ASSUME NEW y \in S PROVE y <= x
  <2>1. n - y \in T
    OBVIOUS
  <2>2. n - x <= n - y
    BY <1>2, <1>3, <2>1
  <2>3. x \in Int /\ y \in Int
    OBVIOUS
  <2>. QED
    BY ONLY n \in Nat, <2>2, <2>3
<1>. QED
  BY <1>4

LEMMA SlotIsFound ==
    ASSUME TypeOK, NEW i
    PROVE  /\ Slot(i) \in 0..Len(scored)
           /\ \A j \in (Slot(i) + 1)..Len(scored) : Less(i, scored[j])
           /\ Slot(i) > 0 => ~Less(i, scored[Slot(i)])
<1>. DEFINE n == Len(scored)
            S == {p \in 0..n : p = 0 \/ ~Less(i, scored[p])}
<1>1. n \in Nat
  BY DEF TypeOK
<1>2. 0 \in S /\ S \in SUBSET (0..n)
  BY <1>1
<1>3. PICK p \in S : \A q \in S : q <= p
  BY <1>1, <1>2, GreatestNumber
<1>4. /\ p \in 0..n
      /\ \A j \in (p + 1)..n : Less(i, scored[j])
      /\ p > 0 => ~Less(i, scored[p])
  BY <1>1, <1>3
<1>. QED
  BY <1>4 DEF Slot

-----------------------------------------------------------------------------
(* One step of the insertion.                                              *)

\* i put into scored behind position p: what is before stays, what follows moves.
LEMMA Inserted ==
    ASSUME TypeOK, NEW i \in Index, NEW p \in 0..Len(scored)
    PROVE  LET t == SubSeq(scored, 1, p) \o <<i>> \o SubSeq(scored, p + 1, Len(scored))
           IN  /\ t \in Seq(Index) /\ Len(t) = Len(scored) + 1
               /\ \A x \in 1..p : t[x] = scored[x]
               /\ t[p + 1] = i
               /\ \A x \in (p + 1)..Len(scored) : t[x + 1] = scored[x]
<1>. DEFINE a == SubSeq(scored, 1, p)
            b == SubSeq(scored, p + 1, Len(scored))
            c == a \o <<i>>
            t == c \o b
<1>0. scored \in Seq(Index) /\ Len(scored) \in Nat /\ p \in Nat /\ p <= Len(scored)
  BY DEF TypeOK
<1>1. a \in Seq(Index) /\ Len(a) = p /\ \A x \in 1..p : a[x] = scored[x]
  BY <1>0
<1>2. b \in Seq(Index) /\ Len(b) = Len(scored) - p /\ \A x \in 1..Len(b) : b[x] = scored[p + x]
  BY <1>0
<1>3. t = c \o b
  OBVIOUS
<1>. HIDE DEF t
<1>4. <<i>> \in Seq(Index) /\ Len(<<i>>) = 1 /\ <<i>>[1] = i
  OBVIOUS
<1>5. /\ c \in Seq(Index) /\ Len(c) = Len(a) + 1
      /\ \A x \in 1..(Len(a) + 1) : c[x] = IF x <= Len(a) THEN a[x] ELSE <<i>>[x - Len(a)]
  BY <1>1, <1>4, ConcatProperties
<1>. HIDE DEF a, b
<1>6. c \in Seq(Index) /\ Len(c) = p + 1 /\ (\A x \in 1..p : c[x] = scored[x]) /\ c[p + 1] = i
  <2>1. c[p + 1] = <<i>>[(p + 1) - p]
    BY <1>0, <1>1, <1>5
  <2>2. (p + 1) - p = 1
    BY <1>0
  <2>. QED
    BY <1>0, <1>1, <1>4, <1>5, <2>1, <2>2
<1>. HIDE DEF c
<1>7. /\ t \in Seq(Index) /\ Len(t) = Len(c) + Len(b)
      /\ \A x \in 1..(Len(c) + Len(b)) : t[x] = IF x <= Len(c) THEN c[x] ELSE b[x - Len(c)]
  <2>1. /\ c \o b \in Seq(Index) /\ Len(c \o b) = Len(c) + Len(b)
        /\ \A x \in 1..(Len(c) + Len(b)) :
              (c \o b)[x] = IF x <= Len(c) THEN c[x] ELSE b[x - Len(c)]
    BY ONLY <1>2, <1>6, ConcatProperties
  <2>. QED
    BY ONLY <1>3, <2>1
<1>8. Len(t) = Len(scored) + 1
  BY ONLY <1>0, <1>2, <1>6, <1>7
<1>9. (\A x \in 1..p : t[x] = scored[x]) /\ t[p + 1] = i
  <2>1. ASSUME NEW x \in 1..(p + 1) PROVE t[x] = c[x]
    <3>1. Len(b) \in Nat /\ x \in 1..(Len(c) + Len(b)) /\ x <= Len(c)
      BY ONLY <1>0, <1>2, <1>6, x \in 1..(p + 1)
    <3>. QED
      BY ONLY <1>7, <3>1
  <2>2. p + 1 \in 1..(p + 1) /\ \A x \in 1..p : x \in 1..(p + 1)
    BY ONLY <1>0
  <2>. QED
    BY ONLY <1>6, <2>1, <2>2
<1>10. ASSUME NEW x \in (p + 1)..Len(scored) PROVE t[x + 1] = scored[x]
  <2>. DEFINE y == x - p
  <2>1. y \in 1..Len(b) /\ (x + 1) - Len(c) = y /\ p + y = x
    <3>1. x \in Int /\ p + 1 <= x /\ x <= Len(scored)
      BY ONLY <1>0, x \in (p + 1)..Len(scored)
    <3>2. Len(b) = Len(scored) - p /\ Len(c) = p + 1
      BY ONLY <1>2, <1>6
    <3>. QED
      BY ONLY <1>0, <3>1, <3>2 DEF y
  <2>2. x + 1 \in 1..(Len(c) + Len(b)) /\ ~(x + 1 <= Len(c))
    BY <1>0, <1>2, <1>6
  <2>3. t[x + 1] = b[y]
    BY <1>7, <2>1, <2>2
  <2>. HIDE DEF y
  <2>. QED
    BY <1>2, <2>1, <2>3
<1>. QED
  BY <1>7, <1>8, <1>9, <1>10 DEF t, c, a, b

-----------------------------------------------------------------------------
(* The ranking.                                                            *)

Same(i, j) == Passed(candidates[i]) <=> Passed(candidates[j])
NotANumber(i) == Score(candidates[i]) = NAN

\* Candidate i belongs before candidate j.
InOrder(i, j) ==
    LET a == candidates[i]  b == candidates[j] IN
    \/ Passed(a) /\ ~Passed(b)
    \/ /\ Same(i, j)
       /\ Above(Score(a), Score(b)) \/ (~Above(Score(b), Score(a)) /\ i < j)

\* What RankedSoFar says of positions p and q of s.
RankedPair(s, p, q) ==
    \/ InOrder(s[p], s[q])
    \/ Same(s[p], s[q]) /\ \E r \in p..q : NotANumber(s[r])

LEMMA RankedSoFarIsPairs ==
    RankedSoFar <=>
        /\ Range(scored) = 1..Len(scored)
        /\ \A p, q \in 1..Len(scored) : p < q => RankedPair(scored, p, q)
BY DEF RankedSoFar, RankedPair, InOrder, Same, NotANumber

LEMMA LessIsInOrder ==
    ASSUME NEW i, NEW j, Less(i, j)
    PROVE  InOrder(i, j)
BY DEF Less, InOrder, Same

LEMMA NotLessIsInOrder ==
    ASSUME NEW i, NEW j, ~Less(i, j), j < i
    PROVE  InOrder(j, i)
BY DEF Less, InOrder, Same

\* Where i does not go before b, and a precedes b, a precedes i.
LEMMA BeforeSlot ==
    ASSUME NEW a \in Index, NEW b \in Index, NEW i \in Index,
           candidates \in Seq(Card), InOrder(a, b), ~Less(i, b), a < i
    PROVE  \/ InOrder(a, i)
           \/ Same(a, i) /\ (NotANumber(a) \/ NotANumber(b) \/ NotANumber(i))
<1>. DEFINE A == candidates[a]
            B == candidates[b]
            I == candidates[i]
<1>1. A \in Card /\ B \in Card /\ I \in Card
  BY DEF Index
<1>2. ~(Passed(I) /\ ~Passed(B)) /\ (Same(i, b) => ~Above(Score(I), Score(B)))
  BY DEF Less, Same
<1>3. \/ Passed(A) /\ ~Passed(B)
      \/ Same(a, b) /\ (Above(Score(A), Score(B)) \/ ~Above(Score(B), Score(A)))
  BY DEF InOrder
<1>4. CASE Passed(A) /\ ~Passed(I)
  BY <1>4 DEF InOrder
<1>5. CASE ~(Passed(A) /\ ~Passed(I))
  <2>1. Same(a, i) /\ Same(a, b) /\ Same(i, b)
    BY <1>2, <1>3, <1>5 DEF Same
  <2>2. CASE NotANumber(a) \/ NotANumber(b) \/ NotANumber(i)
    BY <2>1, <2>2
  <2>3. CASE ~(NotANumber(a) \/ NotANumber(b) \/ NotANumber(i))
    <3>1. Score(A) \in Number /\ Score(B) \in Number /\ Score(I) \in Number
      BY <1>1, <2>3, ScoreType DEF NotANumber
    <3>2. ~Above(Score(B), Score(A))
      BY <1>3, <2>1, <3>1, AboveIsOrder DEF Same
    <3>3. ~Above(Score(I), Score(A))
      BY <1>2, <2>1, <3>1, <3>2, AboveIsOrder
    <3>. QED
      BY <2>1, <3>3 DEF InOrder
  <2>. QED
    BY <2>2, <2>3
<1>. QED
  BY <1>4, <1>5

\* One insertion keeps the ranking.
LEMMA InsertRanks ==
    ASSUME TypeOK, RankedSoFar, Insert
    PROVE  /\ scored' \in Seq(Index) /\ Len(scored') = Len(scored) + 1
           /\ Len(scored') <= Len(candidates)
           /\ Range(scored') = 1..Len(scored')
           /\ \A x, y \in 1..Len(scored') : x < y => RankedPair(scored', x, y)
<1>. DEFINE n == Len(scored)
            i == n + 1
            p == Slot(i)
            t == scored'
<1>0. scored \in Seq(Index) /\ candidates \in Seq(Card) /\ n \in Nat
  BY DEF TypeOK
<1>1. /\ p \in 0..n
      /\ \A j \in (p + 1)..n : Less(i, scored[j])
      /\ p > 0 => ~Less(i, scored[p])
  BY SlotIsFound
<1>2. i \in Index /\ n + 1 <= Len(candidates)
  BY <1>0 DEF Insert, Index
<1>. HIDE DEF p
<1>3. /\ t \in Seq(Index) /\ Len(t) = n + 1
      /\ \A x \in 1..p : t[x] = scored[x]
      /\ t[p + 1] = i
      /\ \A x \in (p + 1)..n : t[x + 1] = scored[x]
  <2>1. t = SubSeq(scored, 1, p) \o <<i>> \o SubSeq(scored, p + 1, Len(scored))
    BY DEF Insert, p
  <2>2. p \in 0..Len(scored)
    BY <1>1
  <2>. HIDE DEF t, i, n
  <2>3. /\ t \in Seq(Index) /\ Len(t) = Len(scored) + 1
        /\ \A x \in 1..p : t[x] = scored[x]
        /\ t[p + 1] = i
        /\ \A x \in (p + 1)..Len(scored) : t[x + 1] = scored[x]
    <3>. DEFINE u == SubSeq(scored, 1, p) \o <<i>> \o SubSeq(scored, p + 1, Len(scored))
    <3>1. /\ u \in Seq(Index) /\ Len(u) = Len(scored) + 1
          /\ \A x \in 1..p : u[x] = scored[x]
          /\ u[p + 1] = i
          /\ \A x \in (p + 1)..Len(scored) : u[x + 1] = scored[x]
      BY <1>2, <2>2, Inserted
    <3>2. t = u
      BY <2>1
    <3>. HIDE DEF u
    <3>. QED
      BY ONLY <3>1, <3>2
  <2>. QED
    BY ONLY <2>3 DEF n
<1>4. /\ Range(scored) = 1..n
      /\ \A x, y \in 1..n : x < y => RankedPair(scored, x, y)
  BY RankedSoFarIsPairs
<1>5. \A x \in 1..n : scored[x] \in 1..n /\ scored[x] \in Index
  BY <1>0, <1>4 DEF Range
<1>. DEFINE New(x) == IF x <= p THEN x ELSE x + 1
<1>. HIDE DEF t, i, n
<1>6. \A x \in 1..n : New(x) \in 1..(n + 1) /\ New(x) # p + 1 /\ t[New(x)] = scored[x]
  BY <1>0, <1>1, <1>3
<1>7. \A y \in 1..(n + 1) : y # p + 1 => \E x \in 1..n : y = New(x)
  <2>. SUFFICES ASSUME NEW y \in 1..(n + 1), y # p + 1
       PROVE \E x \in 1..n : y = New(x)
    OBVIOUS
  <2>1. CASE y <= p
    <3>1. y \in 1..n /\ New(y) = y
      BY <1>0, <1>1, <2>1
    <3>. QED
      BY <3>1
  <2>2. CASE y > p
    <3>1. y - 1 \in 1..n /\ New(y - 1) = y
      BY <1>0, <1>1, <2>2
    <3>. QED
      BY <3>1
  <2>. QED
    BY <1>0, <1>1, <2>1, <2>2
<1>8. \A x, y \in 1..n : (New(x) < New(y) => x < y) /\ (x <= y => New(x) <= New(y))
  BY <1>0, <1>1
<1>i. i = n + 1
  BY DEF i
<1>9. Range(t) = 1..(n + 1)
  <2>1. DOMAIN t = 1..(n + 1) /\ p + 1 \in 1..(n + 1)
    BY <1>0, <1>1, <1>3
  <2>2. Range(t) = {t[x] : x \in 1..(n + 1)}
    BY <2>1 DEF Range
  <2>3. ASSUME NEW y \in 1..(n + 1) PROVE t[y] \in 1..(n + 1)
    <3>1. CASE y = p + 1
      BY <1>0, <1>3, <1>i, <3>1
    <3>2. CASE y # p + 1
      <4>1. PICK x \in 1..n : y = New(x)
        BY <1>7, <3>2
      <4>2. t[y] \in 1..n
        BY <1>5, <1>6, <4>1
      <4>. QED
        BY <1>0, <4>2
    <3>. QED
      BY <3>1, <3>2
  <2>4. ASSUME NEW z \in 1..(n + 1) PROVE \E y \in 1..(n + 1) : t[y] = z
    <3>1. CASE z = n + 1
      BY <1>3, <1>i, <2>1, <3>1
    <3>2. CASE z # n + 1
      <4>1. z \in 1..n
        BY <1>0, <3>2
      <4>2. PICK x \in 1..n : scored[x] = z
        <5>1. DOMAIN scored = 1..n /\ z \in Range(scored)
          BY <1>0, <1>4, <4>1 DEF n
        <5>. QED
          BY <5>1 DEF Range
      <4>. QED
        BY <1>6, <4>2
    <3>. QED
      BY <3>1, <3>2
  <2>. QED
    BY <2>2, <2>3, <2>4
<1>. HIDE DEF New
<1>10. ASSUME NEW x \in 1..n, NEW y \in 1..n, New(x) < New(y)
       PROVE  RankedPair(t, New(x), New(y))
  <2>1. x < y /\ RankedPair(scored, x, y)
    BY <1>4, <1>8, <1>10
  <2>2. t[New(x)] = scored[x] /\ t[New(y)] = scored[y]
    BY <1>6
  <2>3. ASSUME NEW r \in x..y, NotANumber(scored[r])
        PROVE  \E q \in New(x)..New(y) : NotANumber(t[q])
    <3>1. r \in 1..n /\ x <= r /\ r <= y
      BY <1>0
    <3>2. New(r) \in 1..(n + 1) /\ New(x) <= New(r) /\ New(r) <= New(y)
      BY <1>6, <1>8, <3>1
    <3>3. New(r) \in New(x)..New(y)
      <4>1. New(x) \in 1..(n + 1) /\ New(y) \in 1..(n + 1)
        BY <1>6
      <4>. QED
        BY <1>0, <3>2, <4>1
    <3>4. t[New(r)] = scored[r]
      BY <1>6, <3>1
    <3>. QED
      BY <2>3, <3>3, <3>4
  <2>. QED
    BY <2>1, <2>2, <2>3 DEF RankedPair
<1>11. ASSUME NEW x \in 1..n, New(x) < p + 1
       PROVE  RankedPair(t, New(x), p + 1)
  <2>1. New(x) = x /\ x <= p /\ p \in 1..n /\ ~Less(i, scored[p])
    BY <1>0, <1>1, <1>11 DEF New
  <2>2. /\ scored[x] \in Index /\ scored[p] \in Index
        /\ scored[x] < i /\ scored[p] < i
    BY <1>0, <1>5, <1>i, <2>1
  <2>3. t[x] = scored[x] /\ t[p] = scored[p] /\ t[p + 1] = i
    BY <1>1, <1>3, <2>1
  <2>4. CASE x = p
    BY <2>1, <2>2, <2>3, <2>4, NotLessIsInOrder DEF RankedPair
  <2>5. CASE x # p
    <3>1. x < p /\ RankedPair(scored, x, p)
      BY <1>0, <1>4, <2>1, <2>5
    <3>2. x \in x..(p + 1) /\ p \in x..(p + 1) /\ p + 1 \in x..(p + 1)
      BY <1>0, <2>1, <3>1
    <3>3. CASE InOrder(scored[x], scored[p])
      <4>1. \/ InOrder(scored[x], i)
            \/ /\ Same(scored[x], i)
               /\ NotANumber(scored[x]) \/ NotANumber(scored[p]) \/ NotANumber(i)
        BY <1>0, <1>2, <2>1, <2>2, <3>3, BeforeSlot
      <4>. QED
        BY <2>1, <2>3, <3>2, <4>1 DEF RankedPair
    <3>4. CASE Same(scored[x], scored[p]) /\ \E r \in x..p : NotANumber(scored[r])
      <4>1. PICK r \in x..p : NotANumber(scored[r])
        BY <3>4
      <4>2. r \in 1..p /\ r \in x..(p + 1)
        BY <1>0, <2>1
      <4>3. t[r] = scored[r]
        BY <1>3, <4>2
      <4>4. InOrder(scored[x], i) \/ Same(scored[x], i)
        BY <2>1, <3>4 DEF Less, InOrder, Same
      <4>. QED
        BY <2>1, <2>3, <4>1, <4>2, <4>3, <4>4 DEF RankedPair
    <3>. QED
      BY <3>1, <3>3, <3>4 DEF RankedPair
  <2>. QED
    BY <2>4, <2>5
<1>12. ASSUME NEW y \in 1..n, p + 1 < New(y)
       PROVE  RankedPair(t, p + 1, New(y))
  <2>1. y \in (p + 1)..n
    BY <1>0, <1>1, <1>12 DEF New
  <2>2. t[p + 1] = i /\ t[New(y)] = scored[y]
    BY <1>3, <1>6
  <2>3. InOrder(i, scored[y])
    BY <1>1, <2>1, LessIsInOrder
  <2>. QED
    BY <2>2, <2>3 DEF RankedPair
<1>13. ASSUME NEW x \in 1..(n + 1), NEW y \in 1..(n + 1), x < y
       PROVE  RankedPair(t, x, y)
  <2>1. CASE x = p + 1
    <3>1. y # p + 1
      BY <1>0, <1>1, <1>13, <2>1
    <3>2. PICK w \in 1..n : y = New(w)
      BY <1>7, <3>1
    <3>. QED
      BY <1>12, <1>13, <2>1, <3>2
  <2>2. CASE x # p + 1 /\ y = p + 1
    <3>1. PICK w \in 1..n : x = New(w)
      BY <1>7, <2>2
    <3>. QED
      BY <1>11, <1>13, <2>2, <3>1
  <2>3. CASE x # p + 1 /\ y # p + 1
    <3>1. PICK v \in 1..n : x = New(v)
      BY <1>7, <2>3
    <3>2. PICK w \in 1..n : y = New(w)
      BY <1>7, <2>3
    <3>. QED
      BY <1>10, <1>13, <3>1, <3>2
  <2>. QED
    BY <2>1, <2>2, <2>3
<1>. QED
  BY <1>2, <1>3, <1>9, <1>13 DEF t, n

-----------------------------------------------------------------------------
(* The inductive invariant, and the theorems.                              *)

\* The positions find looks at.
PassingPositions == {p \in 1..Len(scored) : Passed(candidates[scored[p]])}

\* A choice is made once all are ranked: the first position that passes.
PickedFirst ==
    top # NONE =>
        /\ Len(scored) = Len(candidates)
        /\ \/ PassingPositions = {} /\ top = 0
           \/ \E p \in PassingPositions :
                 (\A q \in PassingPositions : p <= q) /\ top = scored[p]

MInv ==
    /\ TypeOK /\ RankedSoFar /\ PickedFirst
    /\ Len(scored) <= Len(candidates)

LEMMA MInit == Init => MInv
<1>. SUFFICES ASSUME Init PROVE MInv
  OBVIOUS
<1>1. candidates \in Seq(Card)
  <2>1. PICK n \in 0..MaxCards : candidates \in [1..n -> Card]
    BY DEF Init
  <2>2. n \in Nat
    BY MatchingAssumption
  <2>. QED
    BY <2>1, <2>2, SeqDef
<1>2. scored = <<>> /\ Len(scored) = 0 /\ scored \in Seq(Index) /\ DOMAIN scored = {}
  BY DEF Init
<1>3. TypeOK
  BY <1>1, <1>2 DEF Init, TypeOK
<1>4. RankedSoFar
  <2>1. 1..Len(scored) = {} /\ Range(scored) = {}
    BY <1>2 DEF Range
  <2>. QED
    BY <2>1 DEF RankedSoFar
<1>5. PickedFirst
  BY DEF Init, PickedFirst
<1>6. Len(scored) <= Len(candidates)
  <2>1. Len(candidates) \in Nat
    BY <1>1
  <2>. QED
    BY <1>2, <2>1
<1>. QED
  BY <1>3, <1>4, <1>5, <1>6 DEF MInv

LEMMA MStep == MInv /\ [Next]_vars => MInv'
<1>. SUFFICES ASSUME MInv, [Next]_vars PROVE MInv'
  OBVIOUS
<1>0. TypeOK /\ RankedSoFar /\ PickedFirst /\ Len(scored) <= Len(candidates)
  BY DEF MInv
<1>1. CASE Insert
  <2>1. UNCHANGED <<required, candidates, top>> /\ Len(scored) + 1 \in Index
    BY <1>1 DEF Insert
  <2>2. /\ scored' \in Seq(Index) /\ Len(scored') = Len(scored) + 1
        /\ Len(scored') <= Len(candidates)
        /\ Range(scored') = 1..Len(scored')
        /\ \A x, y \in 1..Len(scored') : x < y => RankedPair(scored', x, y)
    BY <1>0, <1>1, InsertRanks
  <2>3. TypeOK'
    BY <1>0, <2>1, <2>2 DEF TypeOK, Index
  <2>4. RankedSoFar'
    <3>1. \A k : Passed(k)' <=> Passed(k)
      BY <2>1 DEF Passed
    <3>2. ASSUME NEW x \in 1..Len(scored'), NEW y \in 1..Len(scored'), x < y
          PROVE  LET a == candidates[scored'[x]]  b == candidates[scored'[y]] IN
                 \/ Passed(a) /\ ~Passed(b)
                 \/ /\ Passed(a) <=> Passed(b)
                    /\ \/ Above(Score(a), Score(b))
                       \/ /\ ~Above(Score(b), Score(a))
                          /\ scored'[x] < scored'[y]
                       \/ \E r \in x..y : Score(candidates[scored'[r]]) = NAN
      BY <2>2, <3>2 DEF RankedPair, InOrder, Same, NotANumber
    <3>. QED
      BY <2>1, <2>2, <3>1, <3>2 DEF RankedSoFar
  <2>5. PickedFirst'
    <3>1. Len(scored) # Len(candidates)
      BY <1>0, <2>1 DEF TypeOK, Index
    <3>. QED
      BY <1>0, <2>1, <3>1 DEF PickedFirst
  <2>. QED
    BY <2>1, <2>2, <2>3, <2>4, <2>5 DEF MInv
<1>2. CASE Pick
  <2>1. /\ Len(scored) = Len(candidates) /\ UNCHANGED <<required, candidates, scored>>
        /\ \/ PassingPositions = {} /\ top' = 0
           \/ \E p \in PassingPositions :
                 (\A q \in PassingPositions : p <= q) /\ top' = scored[p]
    BY <1>2 DEF Pick, PassingPositions
  <2>2. top' \in Index \cup {0, NONE}
    BY <1>0, <2>1 DEF TypeOK, PassingPositions
  <2>3. TypeOK'
    BY <1>0, <2>1, <2>2 DEF TypeOK, Index
  <2>4. RankedSoFar'
    BY <1>0, <2>1 DEF RankedSoFar, Passed
  <2>5. PassingPositions' = PassingPositions
    BY <2>1 DEF PassingPositions, Passed
  <2>6. PickedFirst'
    BY <2>1, <2>5 DEF PickedFirst
  <2>. QED
    BY <1>0, <2>1, <2>3, <2>4, <2>6 DEF MInv
<1>3. CASE UNCHANGED vars
  <2>1. TypeOK' /\ RankedSoFar'
    BY <1>0, <1>3 DEF vars, TypeOK, Index, RankedSoFar, Passed
  <2>2. PickedFirst'
    BY <1>0, <1>3 DEF vars, PickedFirst, PassingPositions, Passed
  <2>. QED
    BY <1>0, <1>3, <2>1, <2>2 DEF vars, MInv
<1>. QED
  BY <1>1, <1>2, <1>3 DEF Next

LEMMA MInvariant == Spec => []MInv
<1>. QED
  BY MInit, MStep, PTL DEF Spec

\* Every candidate that was met has a place among those that were fetched.
THEOREM MatchingTypeCorrect == Spec => []TypeOK
BY MInvariant, PTL DEF MInv

\* After each step of the sort, the part that is sorted holds what was met,
\* passing candidates first, by falling score and then by arrival, save for
\* the neighbours of a NaN.
THEOREM RankedSoFarCorrect == Spec => []RankedSoFar
BY MInvariant, PTL DEF MInv

\* rerank and find choose, when no score is NaN, the earliest of the passing
\* candidates that no passing candidate outscores.
THEOREM FirstOfBestCorrect == Spec => []FirstOfBest
<1>1. MInv => FirstOfBest
  <2>. DEFINE passing == {i \in Index : Passed(candidates[i])}
              best == {i \in passing : \A j \in passing :
                          ~Above(Score(candidates[j]), Score(candidates[i]))}
              first == {i \in best : \A j \in best : i <= j}
              n == Len(scored)
  <2>. SUFFICES ASSUME MInv, top # NONE, ~HasNaN PROVE Chosen = first
    BY DEF FirstOfBest
  <2>1. /\ n = Len(candidates) /\ n \in Nat /\ Index = 1..n
        /\ scored \in Seq(Index) /\ candidates \in Seq(Card)
    BY DEF MInv, PickedFirst, TypeOK, Index
  <2>2. /\ DOMAIN scored = 1..n
        /\ \A i \in Index : \E q \in 1..n : scored[q] = i
    <3>1. DOMAIN scored = 1..n /\ Range(scored) = 1..n
      BY <2>1 DEF MInv, RankedSoFar
    <3>. QED
      BY <2>1, <3>1 DEF Range
  <2>3. \A i \in Index : Score(candidates[i]) \in Number
    BY <2>1, ScoreType DEF HasNaN
  <2>4. CASE PassingPositions = {} /\ top = 0
    <3>1. passing = {}
      BY <2>1, <2>2, <2>4 DEF PassingPositions
    <3>2. Chosen = {}
      BY <2>1, <2>4 DEF Chosen
    <3>. QED
      BY <3>1, <3>2
  <2>5. ASSUME NEW p \in PassingPositions, \A q \in PassingPositions : p <= q,
               top = scored[p]
        PROVE  Chosen = first
    <3>. DEFINE i == scored[p]
    <3>1. i \in Index /\ p \in 1..n /\ Passed(candidates[i]) /\ i \in passing
      BY <2>1 DEF PassingPositions
    <3>2. Chosen = {i}
      BY <2>5, <3>1 DEF Chosen
    <3>. HIDE DEF i
    <3>3. ASSUME NEW j \in passing, j # i
          PROVE  Above(Score(candidates[i]), Score(candidates[j]))
                 \/ (~Above(Score(candidates[j]), Score(candidates[i])) /\ i < j)
      <4>1. PICK q \in 1..n : scored[q] = j
        BY <2>2
      <4>2. q \in PassingPositions /\ p < q
        <5>1. q \in PassingPositions
          BY <4>1 DEF PassingPositions
        <5>2. p <= q /\ p # q
          BY <2>5, <3>3, <4>1, <5>1 DEF i
        <5>. QED
          BY <2>1, <3>1, <5>1, <5>2
      <4>3. RankedPair(scored, p, q)
        BY <3>1, <4>2, RankedSoFarIsPairs DEF MInv
      <4>4. \A r \in p..q : ~NotANumber(scored[r])
        <5>1. ASSUME NEW r \in p..q PROVE scored[r] \in Index
          <6>1. r \in 1..n
            BY <2>1, <3>1
          <6>2. \A x \in 1..n : scored[x] \in Index
            <7>1. scored \in Seq(Index)
              BY <2>1
            <7>. QED
              BY ONLY <7>1
          <6>. QED
            BY <6>1, <6>2
        <5>. QED
          BY <5>1 DEF HasNaN, NotANumber
      <4>5. InOrder(i, j)
        BY <4>1, <4>3, <4>4 DEF RankedPair, i
      <4>. QED
        BY <3>1, <3>3, <4>5 DEF InOrder
    <3>4. i \in best
      <4>1. ASSUME NEW j \in passing
            PROVE  ~Above(Score(candidates[j]), Score(candidates[i]))
        <5>1. Score(candidates[i]) \in Number /\ Score(candidates[j]) \in Number
          BY <2>3, <3>1
        <5>2. CASE j = i
          BY <5>1, <5>2, AboveIsOrder
        <5>3. CASE j # i
          BY <3>3, <5>1, <5>3, AboveIsOrder
        <5>. QED
          BY <5>2, <5>3
      <4>. QED
        BY <3>1, <4>1
    <3>5. ASSUME NEW j \in best, j # i PROVE i < j
      <4>1. j \in passing /\ ~Above(Score(candidates[i]), Score(candidates[j]))
        BY <3>1
      <4>. QED
        BY <3>3, <3>5, <4>1
    <3>6. i \in Int /\ \A j \in best : j \in Int
      BY <2>1, <3>1
    <3>. HIDE DEF best
    <3>7. first = {i}
      <4>1. ASSUME NEW j \in best PROVE i <= j /\ (j <= i => j = i)
        BY <3>5, <3>6
      <4>. QED
        BY <3>4, <4>1
    <3>. QED
      BY <3>2, <3>7
  <2>. QED
    BY <2>4, <2>5 DEF MInv, PickedFirst
<1>. QED
  BY <1>1, MInvariant, PTL

\* facet_filter passes every card whose fingerprint is the intent's, where the
\* two are spelled without white space around and capitals beyond ASCII.
THEOREM FoundCardsPassCorrect == Spec => []FoundCardsPass
<1>1. MInv => FoundCardsPass
  <2>. SUFFICES ASSUME MInv, NEW i \in Index, FacetsOf[candidates[i]] # NONE,
                       PlainFacets(FacetsOf[candidates[i]]), PlainFacets(required),
                       Fingerprint(FacetsOf[candidates[i]]) = Fingerprint(required)
       PROVE Passed(candidates[i])
    BY DEF FoundCardsPass
  <2>1. candidates[i] \in Card /\ required \in FacetSet
    BY MatchingAssumption DEF MInv, TypeOK, Index
  <2>2. FacetsOf[candidates[i]] \in FacetSet
    BY <2>1, MatchingAssumption
  <2>. QED
    BY <2>1, <2>2, SameFingerprintPasses DEF Passed
<1>. QED
  BY <1>1, MInvariant, PTL
=============================================================================
