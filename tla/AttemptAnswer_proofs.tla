------------------------ MODULE AttemptAnswer_proofs ------------------------
(***************************************************************************)
(* What an observer makes of a stream does not depend on how reads cut it, *)
(* and what the account of an attempt says is what its answer was, for any *)
(* lines, any limits and any sizes.                                        *)
(***************************************************************************)
EXTENDS AttemptAnswer, FiniteSetTheorems, SequenceTheorems, TLAPS

-----------------------------------------------------------------------------
(* The answer of an attempt: SSEObservation and AttemptAnswer.             *)

(* Positions in their order.                                               *)
Place(B, i) == Cardinality({j \in B : j <= i})
Nth(B, n) == CHOOSE i \in B : Place(B, i) = n

LEMMA PlacesOf ==
    ASSUME NEW N \in Nat, NEW B, B \subseteq 1..N
    PROVE  /\ IsFiniteSet(B) /\ Cardinality(B) \in Nat
           /\ \A i \in B : Place(B, i) \in 1..Cardinality(B)
           /\ \A i, k \in B : i < k => Place(B, i) < Place(B, k)
           /\ \A n \in 1..Cardinality(B) : \E i \in B : Place(B, i) = n
<1> DEFINE Upto(i) == {j \in B : j <= i}
           place == [i \in B |-> Place(B, i)]
           C == Cardinality(B)
<1>1. IsFiniteSet(B) /\ C \in Nat
  <2>1. 1 \in Int /\ N \in Int
    OBVIOUS
  <2>2. IsFiniteSet(1..N)
    BY <2>1, FS_Interval
  <2> QED
    BY <2>2, FS_Subset, FS_CardinalityType
<1>2. \A i \in B : i \in Nat
  OBVIOUS
<1>3. ASSUME NEW i \in B
      PROVE  IsFiniteSet(Upto(i)) /\ Place(B, i) = Cardinality(Upto(i)) /\ Place(B, i) \in 1..C
  <2>1. Upto(i) \subseteq B /\ i \in Upto(i)
    BY <1>2
  <2>2. Place(B, i) = Cardinality(Upto(i))
    BY DEF Place
  <2> HIDE DEF Upto, C
  <2>3. IsFiniteSet(Upto(i)) /\ Cardinality(Upto(i)) \in Nat /\ Cardinality(Upto(i)) <= C
    BY <1>1, <2>1, FS_Subset, FS_CardinalityType DEF C
  <2>4. Cardinality(Upto(i)) # 0
    BY <2>1, <2>3, FS_EmptySet
  <2> QED
    BY <1>1, <2>2, <2>3, <2>4
<1>4. ASSUME NEW i \in B, NEW k \in B, i < k PROVE Place(B, i) < Place(B, k)
  <2>1. Upto(i) \subseteq Upto(k) /\ k \in Upto(k) /\ k \notin Upto(i)
    <3>1. i \in Nat /\ k \in Nat /\ \A j \in B : j \in Nat
      BY <1>2
    <3>2. (\A j \in B : j <= i => j <= k) /\ k <= k /\ ~(k <= i)
      BY <1>4, <3>1
    <3> QED
      BY <3>2
  <2>2. IsFiniteSet(Upto(k)) /\ IsFiniteSet(Upto(i)) /\ Place(B, i) = Cardinality(Upto(i)) /\ Place(B, k) = Cardinality(Upto(k))
    BY <1>3
  <2> HIDE DEF Upto
  <2>3. Upto(i) # Upto(k)
    BY <2>1
  <2>4. Cardinality(Upto(i)) <= Cardinality(Upto(k)) /\ (Cardinality(Upto(i)) = Cardinality(Upto(k)) => Upto(i) = Upto(k))
    BY <2>1, <2>2, FS_Subset
  <2>5. Cardinality(Upto(i)) \in Nat /\ Cardinality(Upto(k)) \in Nat
    BY <2>2, FS_CardinalityType
  <2> QED
    BY <2>2, <2>3, <2>4, <2>5
<1>5. place \in Injection(B, 1..C)
  <2>1. place \in [B -> 1..C]
    BY <1>3
  <2>2. ASSUME NEW i \in B, NEW k \in B, place[i] = place[k] PROVE i = k
    <3>1. i \in Nat /\ k \in Nat /\ Place(B, i) \in 1..C /\ Place(B, k) \in 1..C /\ Place(B, i) = Place(B, k)
      BY <1>2, <1>3, <2>2
    <3>2. ~(i < k) /\ ~(k < i)
      BY <1>4, <3>1
    <3> QED
      BY <3>1, <3>2
  <2> HIDE DEF place
  <2> QED
    BY <2>1, <2>2 DEF Injection, IsInjective
<1>6. IsFiniteSet(1..C) /\ Cardinality(1..C) = C
  <2>1. 1 \in Int /\ C \in Int
    BY <1>1
  <2>2. IsFiniteSet(1..C) /\ Cardinality(1..C) = IF 1 > C THEN 0 ELSE C - 1 + 1
    BY <2>1, FS_Interval
  <2> HIDE DEF C
  <2> QED
    BY <1>1, <2>2
<1>7. place \in Surjection(B, 1..C)
  <2> HIDE DEF place
  <2> QED
    BY <1>5, <1>6, FS_Injection DEF C
<1>8. \A n \in 1..C : \E i \in B : place[i] = n
  <2> HIDE DEF place, C
  <2> QED
    BY <1>7 DEF Surjection
<1> QED
  BY <1>1, <1>3, <1>4, <1>8

LEMMA NthOf ==
    ASSUME NEW N \in Nat, NEW B, B \subseteq 1..N
    PROVE  /\ \A n \in 1..Cardinality(B) : Nth(B, n) \in B /\ Place(B, Nth(B, n)) = n
           /\ \A m, n \in 1..Cardinality(B) : m < n => Nth(B, m) < Nth(B, n)
<1> DEFINE C == Cardinality(B)
<1>1. /\ C \in Nat /\ \A i, k \in B : i < k => Place(B, i) < Place(B, k)
      /\ \A n \in 1..C : \E i \in B : Place(B, i) = n
  BY PlacesOf
<1>2. \A i \in B : i \in Nat
  OBVIOUS
<1> HIDE DEF C
<1>3. ASSUME NEW n \in 1..C PROVE Nth(B, n) \in B /\ Place(B, Nth(B, n)) = n
  BY <1>1 DEF Nth
<1>4. ASSUME NEW m \in 1..C, NEW n \in 1..C, m < n PROVE Nth(B, m) < Nth(B, n)
  <2> DEFINE i == Nth(B, m)
             k == Nth(B, n)
  <2>1. i \in B /\ k \in B /\ Place(B, i) = m /\ Place(B, k) = n /\ i \in Nat /\ k \in Nat
    BY <1>2, <1>3
  <2> HIDE DEF i, k
  <2>2. ~(k < i) /\ i # k
    BY <1>1, <1>4, <2>1
  <2>3. i < k
    BY <2>1, <2>2
  <2> QED
    BY <2>3 DEF i, k
<1> QED
  BY <1>3, <1>4 DEF C

\* The bytes of lines, and the pieces a run of them is split into.
Part == (DOMAIN Lines) \X (Nat \ {0})
Byte == Part \cup {LineBreak}
Pieces == [text : Seq(Part), complete : BOOLEAN]

Breaks(run) == {i \in DOMAIN run : run[i] = LineBreak}
Line1(run, n) == IF n = 1 THEN 1 ELSE Nth(Breaks(run), n - 1) + 1

(* What lies between two breaks, or past the last, holds none.             *)
LEMMA BetweenBreaks ==
    ASSUME NEW run \in Seq(Byte), NEW n \in 1..(Cardinality(Breaks(run)) + 1),
           NEW i \in 1..Len(run), Line1(run, n) <= i,
           n <= Cardinality(Breaks(run)) => i < Nth(Breaks(run), n)
    PROVE  run[i] \in Part
<1> DEFINE B == Breaks(run)
           C == Cardinality(B)
<1>1. Len(run) \in Nat /\ DOMAIN run = 1..Len(run) /\ B \subseteq 1..Len(run)
  BY LenProperties DEF Breaks
<1> HIDE DEF B, C
<1>2. /\ C \in Nat /\ \A j \in B : Place(B, j) \in 1..C
      /\ \A j, k \in B : j < k => Place(B, j) < Place(B, k)
      /\ \A m \in 1..C : Nth(B, m) \in B /\ Place(B, Nth(B, m)) = m
  BY <1>1, PlacesOf, NthOf DEF C
<1>3. n \in 1..(C + 1) /\ (n <= C => i < Nth(B, n)) /\ (n # 1 => Nth(B, n - 1) + 1 <= i)
  BY DEF B, C, Line1
<1>4. \A j \in B : j \in Nat
  BY <1>1
<1>5. i \notin B
  <2> SUFFICES ASSUME i \in B PROVE FALSE
    OBVIOUS
  <2>1. Place(B, i) \in 1..C
    BY <1>2
  <2>2. n <= C => Place(B, i) < n
    <3> SUFFICES ASSUME n <= C PROVE Place(B, i) < n
      OBVIOUS
    <3>1. n \in 1..C
      BY <1>2, <1>3
    <3>2. Nth(B, n) \in B /\ Place(B, Nth(B, n)) = n /\ i < Nth(B, n)
      BY <1>2, <1>3, <3>1
    <3>3. Place(B, i) < Place(B, Nth(B, n))
      BY <1>2, <3>2
    <3> QED
      BY <3>2, <3>3
  <2>3. n # 1 => n - 1 < Place(B, i)
    <3> SUFFICES ASSUME n # 1 PROVE n - 1 < Place(B, i)
      OBVIOUS
    <3>1. n - 1 \in 1..C
      BY <1>2, <1>3
    <3>2. Nth(B, n - 1) \in B /\ Place(B, Nth(B, n - 1)) = n - 1
      BY <1>2, <3>1
    <3> DEFINE k == Nth(B, n - 1)
    <3>3. k \in B /\ Place(B, k) = n - 1 /\ k + 1 <= i
      BY <1>3, <3>2
    <3> HIDE DEF k
    <3>4. k \in Nat /\ i \in Nat
      BY <1>4, <3>3
    <3>5. k < i
      BY <3>3, <3>4
    <3>6. Place(B, k) < Place(B, i)
      BY <1>2, <3>3, <3>5
    <3> QED
      BY <3>3, <3>6
  <2> QED
    BY <1>2, <1>3, <2>1, <2>2, <2>3
<1>6. run[i] \in Byte /\ run[i] # LineBreak
  BY <1>1, <1>5, ElementOfSeq DEF B, Breaks
<1> QED
  BY <1>6 DEF Byte

LEMMA SegmentsAre ==
    ASSUME NEW run \in Seq(Byte)
    PROVE  /\ Cardinality(Breaks(run)) \in Nat
           /\ \A n \in 1..Cardinality(Breaks(run)) : Nth(Breaks(run), n) \in 1..Len(run)
           /\ Segments(run) =
                [n \in 1..Cardinality(Breaks(run)) |->
                   [text |-> SubSeq(run, Line1(run, n), Nth(Breaks(run), n) - 1), complete |-> TRUE]]
                \o (LET rest == SubSeq(run, Line1(run, Cardinality(Breaks(run)) + 1), Len(run))
                    IN  IF rest = <<>> THEN <<>> ELSE <<[text |-> rest, complete |-> FALSE]>>)
<1>1. Len(run) \in Nat /\ Breaks(run) \subseteq 1..Len(run)
  BY LenProperties DEF Breaks
<1>2. /\ Cardinality(Breaks(run)) \in Nat
      /\ \A n \in 1..Cardinality(Breaks(run)) : Nth(Breaks(run), n) \in 1..Len(run)
  BY <1>1, PlacesOf, NthOf
<1> QED
  BY <1>2 DEF Segments, Breaks, Line1, Nth, Place

LEMMA SegmentsArePieces == ASSUME NEW run \in Seq(Byte) PROVE Segments(run) \in Seq(Pieces)
<1> DEFINE B == Breaks(run)
           C == Cardinality(B)
           whole == [n \in 1..C |-> [text |-> SubSeq(run, Line1(run, n), Nth(B, n) - 1), complete |-> TRUE]]
           rest == SubSeq(run, Line1(run, C + 1), Len(run))
           last == IF rest = <<>> THEN <<>> ELSE <<[text |-> rest, complete |-> FALSE]>>
<1>1. C \in Nat /\ Segments(run) = whole \o last /\ \A n \in 1..C : Nth(B, n) \in 1..Len(run)
  BY SegmentsAre
<1>2. Len(run) \in Nat
  BY LenProperties
<1>3. ASSUME NEW n \in 1..(C + 1) PROVE Line1(run, n) \in 1..(Len(run) + 1)
  <2>1. CASE n = 1
    BY <1>2, <2>1 DEF Line1
  <2>2. CASE n # 1
    <3>1. n - 1 \in 1..C
      BY <1>1, <2>2
    <3>2. Nth(B, n - 1) \in 1..Len(run) /\ Line1(run, n) = Nth(B, n - 1) + 1
      BY <1>1, <2>2, <3>1 DEF Line1
    <3> HIDE DEF B, C
    <3> QED
      BY <1>2, <3>2
  <2> QED
    BY <2>1, <2>2
<1>4. ASSUME NEW n \in 1..C PROVE SubSeq(run, Line1(run, n), Nth(B, n) - 1) \in Seq(Part)
  <2> DEFINE a == Line1(run, n)
             z == Nth(B, n) - 1
  <2>1. a \in 1..(Len(run) + 1) /\ Nth(B, n) \in 1..Len(run)
    <3>1. n \in 1..(C + 1)
      BY <1>1
    <3> QED
      BY <1>1, <1>3, <3>1
  <2>2. a \in Int /\ z \in Int
    BY <1>2, <2>1
  <2>3. ASSUME NEW i \in a..z PROVE run[i] \in Part
    <3>1. i \in 1..Len(run) /\ a <= i /\ i < Nth(B, n)
      BY <1>2, <2>1, <2>2
    <3>2. n \in 1..(C + 1)
      BY <1>1
    <3> QED
      BY <3>1, <3>2, BetweenBreaks
  <2> HIDE DEF a, z
  <2>4. SubSeq(run, a, z) \in Seq(Part)
    BY <2>2, <2>3, SubSeqProperties
  <2> QED
    BY <2>4 DEF a, z
<1>5. rest \in Seq(Part)
  <2> DEFINE a == Line1(run, C + 1)
             z == Len(run)
  <2>1. C + 1 \in 1..(C + 1) /\ ~(C + 1 <= C)
    BY <1>1
  <2>2. a \in 1..(Len(run) + 1)
    BY <1>3, <2>1
  <2>3. a \in Int /\ z \in Int
    BY <1>2, <2>2
  <2>4. ASSUME NEW i \in a..z PROVE run[i] \in Part
    <3>1. i \in 1..Len(run) /\ a <= i
      BY <1>2, <2>2, <2>3
    <3> QED
      BY <2>1, <3>1, BetweenBreaks
  <2> HIDE DEF a, z
  <2>5. SubSeq(run, a, z) \in Seq(Part)
    BY <2>3, <2>4, SubSeqProperties
  <2> QED
    BY <2>5 DEF a, z
<1>6. whole \in Seq(Pieces)
  <2>1. \A n \in 1..C : whole[n] \in Pieces
    BY <1>4 DEF Pieces
  <2>2. whole = [n \in 1..C |-> whole[n]]
    OBVIOUS
  <2> HIDE DEF whole, C
  <2> QED
    BY <1>1, <2>1, <2>2, IsASeq
<1>7. last \in Seq(Pieces)
  <2> HIDE DEF rest
  <2>1. [text |-> rest, complete |-> FALSE] \in Pieces
    BY <1>5 DEF Pieces
  <2> QED
    BY <2>1
<1> HIDE DEF whole, last
<1> QED
  BY <1>1, <1>6, <1>7, ConcatProperties

\* What an observation holds: a buffered line no longer than the longest kept.
Errors == {"none", "request", "channel"}
Usages == UsageFields
Shapes ==
    [buf : Seq(Part), overflow : BOOLEAN, tail : Seq(Part), first : BOOLEAN, pending : BOOLEAN,
     seen : BOOLEAN, id : BOOLEAN, usage : Usages, final : BOOLEAN, error : Errors, text : Nat]
Observations ==
    {o \in Shapes : Len(o.buf) <= MaxLine /\ Len(o.tail) <= TailSize /\ ~(o.seen /\ o.pending)}

LEMMA UnobservedIs == Unobserved \in Observations
<1>1. <<>> \in Seq(Part) /\ Len(<<>>) = 0 /\ 0 <= MaxLine /\ 0 <= TailSize
  BY ObservationAssumption
<1>2. NoUsage \in Usages
  BY DEF NoUsage, Usages, UsageFields
<1>3. Unobserved \in Shapes
  BY <1>1, <1>2 DEF Unobserved, Shapes, Errors
<1> QED
  BY <1>1, <1>3 DEF Unobserved, Observations

LEMMA NothingIs == Nothing \in LineFacts
<1>1. NoUsage \in UsageFields
  BY DEF NoUsage, UsageFields
<1> QED
  BY <1>1 DEF Nothing, LineFacts

LEMMA ParsedIs == ASSUME NEW text \in Seq(Part) PROVE Parsed(text) \in LineFacts
<1>1. CASE text # <<>>
  <2>1. text[1] \in Part
    <3>1. Len(text) \in Nat /\ Len(text) # 0
      BY <1>1, EmptySeq, LenProperties
    <3>2. 1 \in 1..Len(text)
      BY <3>1
    <3> QED
      BY <3>2, ElementOfSeq
  <2>2. text[1][1] \in DOMAIN Lines
    BY <2>1 DEF Part
  <2>3. Lines[text[1][1]] \in LineFacts
    BY <2>2, ObservationAssumption
  <2> QED
    BY <2>3, NothingIs DEF Parsed
<1>2. CASE text = <<>>
  BY <1>2, NothingIs DEF Parsed
<1> QED
  BY <1>1, <1>2

LEMMA MergeIs == ASSUME NEW u \in Usages, NEW w \in Usages PROVE Merge(u, w) \in Usages
<1> DEFINE F == {"prompt", "input", "output", "cacheRead", "cacheNew", "total"}
<1>1. DOMAIN u = F /\ \A f \in F : u[f] \in Nat /\ w[f] \in Nat
  BY DEF Usages, UsageFields
<1>2. Merge(u, w) = [f \in F |-> IF w[f] = 0 THEN u[f] ELSE w[f]]
  BY <1>1 DEF Merge
<1>3. Merge(u, w) \in [F -> Nat]
  BY <1>1, <1>2
<1> DEFINE m == Merge(u, w)
<1>4. m = [f \in F |-> m[f]] /\ \A f \in F : m[f] \in Nat
  BY <1>3
<1> HIDE DEF m
<1>5. m \in UsageFields
  BY <1>4 DEF UsageFields
<1> QED
  BY <1>5 DEF m, Usages

LEMMA KeptIs ==
    ASSUME NEW text \in Seq(Part)
    PROVE  Kept(text) \in Seq(Part) /\ Len(Kept(text)) <= TailSize
<1> DEFINE n == Len(text)
           m == IF n > TailSize THEN n - TailSize + 1 ELSE 1
<1>1. n \in Nat /\ TailSize \in Nat \ {0}
  BY ObservationAssumption, LenProperties
<1>2. \A i \in 1..n : text[i] \in Part
  BY ElementOfSeq
<1> HIDE DEF n
<1>3. m \in 1..(n + 1) /\ (IF m <= n THEN n - m + 1 ELSE 0) <= TailSize /\ m \in Int /\ n \in Int
  BY <1>1
<1> HIDE DEF m
<1>4. \A i \in m..n : text[i] \in Part
  BY <1>1, <1>2, <1>3
<1>5. SubSeq(text, m, n) \in Seq(Part) /\ Len(SubSeq(text, m, n)) <= TailSize
  BY <1>3, <1>4, SubSeqProperties
<1> QED
  BY <1>5 DEF Kept, m, n

LEMMA TailUsageIs == ASSUME NEW tail \in Seq(Part) PROVE TailUsage(tail) \in Usages
<1>1. NoUsage \in Usages
  BY DEF NoUsage, Usages, UsageFields
<1>2. CASE tail # <<>>
  <2>1. Last(tail) \in Part
    <3>1. Len(tail) \in Nat /\ Len(tail) # 0
      BY <1>2, EmptySeq, LenProperties
    <3>2. Len(tail) \in 1..Len(tail)
      BY <3>1
    <3> QED
      BY <3>2, ElementOfSeq DEF Last
  <2>2. Lines[Last(tail)[1]] \in LineFacts
    BY <2>1, ObservationAssumption DEF Part
  <2>3. Lines[Last(tail)[1]].usage \in Usages
    BY <2>2 DEF LineFacts, Usages
  <2> QED
    BY <1>1, <2>3 DEF TailUsage
<1> QED
  BY <1>1, <1>2 DEF TailUsage

LEMMA BlankIs == ASSUME NEW o \in Observations PROVE ObserveBlank(o) \in Observations
<1>1. o \in Shapes
  BY DEF Observations
<1> DEFINE p == ObserveBlank(o)
<1>2. p \in Shapes
  BY <1>1 DEF ObserveBlank, Shapes
<1>3. p.buf = o.buf /\ p.tail = o.tail /\ p.pending = FALSE
  BY <1>1 DEF ObserveBlank, Shapes
<1> HIDE DEF p
<1>4. p \in Observations
  BY <1>2, <1>3 DEF Observations
<1> QED
  BY <1>4 DEF p

LEMMA LineIs == ASSUME NEW o \in Observations PROVE ObserveLine(o) \in Observations
<1>1. o \in Shapes
  BY DEF Observations
<1>2. CASE o.buf = <<>>
  BY <1>2, BlankIs DEF ObserveLine
<1>3. CASE o.buf # <<>>
  <2> DEFINE line == Parsed(o.buf)
             u == Merge(o.usage, line.usage)
             first == o.first \/ line.visible
             pending == o.pending \/ (line.terminal /\ ~o.seen)
             id == o.id \/ line.id
             final == o.final \/ (line.usage # NoUsage /\ ~line.placeholder)
             text == o.text + line.text
             error == IF o.error = "none" THEN line.error ELSE o.error
             p == [o EXCEPT !.first = first, !.pending = pending, !.id = id, !.usage = u,
                            !.final = final, !.text = text, !.error = error]
  <2>1. ObserveLine(o) = p
    BY <1>1, <1>3 DEF ObserveLine, Shapes
  <2>2. line \in LineFacts
    BY <1>1, ParsedIs DEF Shapes
  <2> HIDE DEF line
  <2>3. u \in Usages
    BY <1>1, <2>2, MergeIs DEF Shapes, LineFacts, Usages
  <2>4. text \in Nat /\ error \in Errors
    BY <1>1, <2>2 DEF Shapes, LineFacts, Errors
  <2>5. first \in BOOLEAN /\ pending \in BOOLEAN /\ id \in BOOLEAN /\ final \in BOOLEAN
    OBVIOUS
  <2>6. ~(o.seen /\ pending)
    BY DEF Observations
  <2> HIDE DEF u, first, pending, id, final, text, error
  <2>7. p \in Shapes /\ p.buf = o.buf /\ p.tail = o.tail /\ p.seen = o.seen /\ p.pending = pending
    BY <1>1, <2>3, <2>4, <2>5 DEF Shapes
  <2> HIDE DEF p
  <2>8. p \in Observations
    BY <2>6, <2>7 DEF Observations
  <2> QED
    BY <2>1, <2>8
<1> QED
  BY <1>2, <1>3

LEMMA OversizedIs == ASSUME NEW o \in Observations PROVE ObserveOversizedTail(o) \in Observations
<1> DEFINE usage == TailUsage(o.tail)
           u == Merge(o.usage, usage)
           final == o.final \/ usage # NoUsage
           p == [o EXCEPT !.usage = u, !.final = final, !.tail = <<>>]
<1>1. o \in Shapes
  BY DEF Observations
<1>2. ObserveOversizedTail(o) = p
  BY <1>1 DEF ObserveOversizedTail, Shapes
<1>3. u \in Usages
  BY <1>1, TailUsageIs, MergeIs DEF Shapes
<1>4. final \in BOOLEAN /\ <<>> \in Seq(Part) /\ Len(<<>>) = 0 /\ 0 <= TailSize
  BY ObservationAssumption
<1> HIDE DEF u, final
<1>5. p \in Shapes /\ p.buf = o.buf /\ p.tail = <<>> /\ p.seen = o.seen /\ p.pending = o.pending
  BY <1>1, <1>3, <1>4 DEF Shapes
<1> HIDE DEF p
<1>6. p \in Observations
  BY <1>4, <1>5 DEF Observations
<1> QED
  BY <1>2, <1>6

LEMMA BufferedIs == ASSUME NEW o \in Observations PROVE ObserveBuffered(o) \in Observations
<1> DEFINE q == IF o.overflow THEN ObserveOversizedTail(o) ELSE ObserveLine(o)
           p == [q EXCEPT !.buf = <<>>, !.overflow = FALSE]
<1>1. q \in Observations
  BY LineIs, OversizedIs
<1>2. ObserveBuffered(o) = p
  BY DEF ObserveBuffered
<1>3. <<>> \in Seq(Part) /\ Len(<<>>) = 0 /\ 0 <= MaxLine
  BY ObservationAssumption
<1> HIDE DEF q
<1>4. p \in Shapes /\ p.buf = <<>> /\ p.tail = q.tail /\ p.seen = q.seen /\ p.pending = q.pending
  BY <1>1, <1>3 DEF Shapes, Observations
<1> HIDE DEF p
<1>5. p \in Observations
  BY <1>1, <1>3, <1>4 DEF Observations
<1> QED
  BY <1>2, <1>5

LEMMA BufferIs ==
    ASSUME NEW o \in Observations, NEW text \in Seq(Part)
    PROVE  Buffer(o, text) \in Observations
<1>1. o \in Shapes /\ o.buf \in Seq(Part) /\ o.tail \in Seq(Part)
  BY DEF Observations, Shapes
<1>2. CASE o.overflow
  <2> DEFINE t == Kept(o.tail \o text)
             p == [o EXCEPT !.tail = t]
  <2>1. t \in Seq(Part) /\ Len(t) <= TailSize
    BY <1>1, ConcatProperties, KeptIs
  <2>2. Buffer(o, text) = p
    BY <1>1, <1>2 DEF Buffer, Shapes
  <2> HIDE DEF t
  <2>3. p \in Shapes /\ p.buf = o.buf /\ p.tail = t /\ p.seen = o.seen /\ p.pending = o.pending
    BY <1>1, <2>1 DEF Shapes
  <2> HIDE DEF p
  <2>4. p \in Observations
    BY <2>1, <2>3 DEF Observations
  <2> QED
    BY <2>2, <2>4
<1>3. CASE ~o.overflow /\ Len(o.buf) + Len(text) <= MaxLine
  <2> DEFINE b == o.buf \o text
             p == [o EXCEPT !.buf = b]
  <2>1. b \in Seq(Part) /\ Len(b) <= MaxLine
    BY <1>1, <1>3, ConcatProperties
  <2>2. Buffer(o, text) = p
    BY <1>1, <1>3 DEF Buffer, Shapes
  <2> HIDE DEF b
  <2>3. p \in Shapes /\ p.buf = b /\ p.tail = o.tail /\ p.seen = o.seen /\ p.pending = o.pending
    BY <1>1, <2>1 DEF Shapes
  <2> HIDE DEF p
  <2>4. p \in Observations
    BY <2>1, <2>3 DEF Observations
  <2> QED
    BY <2>2, <2>4
<1>4. CASE ~o.overflow /\ ~(Len(o.buf) + Len(text) <= MaxLine)
  <2> DEFINE t == Kept(o.buf \o text)
             p == [o EXCEPT !.tail = t, !.buf = <<>>, !.overflow = TRUE]
  <2>1. t \in Seq(Part) /\ Len(t) <= TailSize
    BY <1>1, ConcatProperties, KeptIs
  <2>2. Buffer(o, text) = p
    BY <1>1, <1>4 DEF Buffer, Shapes
  <2>3. <<>> \in Seq(Part) /\ Len(<<>>) = 0 /\ 0 <= MaxLine
    BY ObservationAssumption
  <2> HIDE DEF t
  <2>4. p \in Shapes /\ p.buf = <<>> /\ p.tail = t /\ p.seen = o.seen /\ p.pending = o.pending
    BY <1>1, <2>1, <2>3 DEF Shapes
  <2> HIDE DEF p
  <2>5. p \in Observations
    BY <2>1, <2>3, <2>4 DEF Observations
  <2> QED
    BY <2>2, <2>5
<1> QED
  BY <1>2, <1>3, <1>4

LEMMA SegmentIs ==
    ASSUME NEW o \in Observations, NEW piece \in Pieces
    PROVE  ObserveSegment(o, piece) \in Observations
<1>1. piece.text \in Seq(Part)
  BY DEF Pieces
<1>2. Buffer(o, piece.text) \in Observations
  BY <1>1, BufferIs
<1> QED
  BY <1>2, BufferedIs DEF ObserveSegment

LEMMA FinishIs == ASSUME NEW o \in Observations PROVE FinishObservation(o) \in Observations
  BY BufferedIs, BlankIs DEF FinishObservation

LEMMA LeastOf ==
    ASSUME NEW S \in SUBSET Nat, S # {}
    PROVE  \E n \in S : \A m \in S : n <= m
<1> DEFINE Upto(n) == 1..n
           U == {Upto(n) : n \in S}
<1>1. U \subseteq FiniteSubsetsOf(Nat) /\ U # {}
  <2>1. ASSUME NEW n \in S PROVE Upto(n) \in SUBSET Nat /\ IsFiniteSet(Upto(n))
    <3>1. n \in Int /\ 1 \in Int /\ Upto(n) \subseteq Nat
      OBVIOUS
    <3> QED
      BY <3>1, FS_Interval
  <2> QED
    BY <2>1 DEF FiniteSubsetsOf
<1>2. IsWellFoundedOn(StrictSubsetOrdering(Nat), FiniteSubsetsOf(Nat))
  BY FS_StrictSubsetOrderingWellFounded
<1>3. PICK u \in U : \A w \in U : ~(<<w, u>> \in StrictSubsetOrdering(Nat))
  <2> HIDE DEF U
  <2> QED
    BY <1>1, <1>2, WFMin
<1>4. PICK n \in S : u = Upto(n)
  BY <1>3
<1>5. ASSUME NEW m \in S, m < n PROVE FALSE
  <2>1. Upto(m) \in U
    OBVIOUS
  <2>2. Upto(m) \subseteq Upto(n) /\ n \in Upto(n) /\ n \notin Upto(m) /\ n \in Nat /\ m \in Nat
    BY <1>5
  <2>3. <<Upto(m), Upto(n)>> \in StrictSubsetOrdering(Nat)
    BY <2>2 DEF StrictSubsetOrdering
  <2> QED
    BY <1>3, <1>4, <2>1, <2>3
<1>6. \A m \in S : m \in Int /\ n \in Int
  OBVIOUS
<1> QED
  BY <1>5, <1>6

LEMMA Upwards ==
    ASSUME NEW G \in SUBSET Nat, 0 \in G, \A n \in Nat : n \in G => n + 1 \in G
    PROVE  \A n \in Nat : n \in G
<1> SUFFICES ASSUME NEW k \in Nat, k \notin G PROVE FALSE
  OBVIOUS
<1> DEFINE U == Nat \ G
<1>1. U \in SUBSET Nat /\ U # {}
  OBVIOUS
<1>2. PICK n \in U : \A m \in U : n <= m
  <2> HIDE DEF U
  <2> QED
    BY <1>1, LeastOf
<1>3. n # 0 /\ n - 1 \in Nat /\ n - 1 \notin U /\ (n - 1) + 1 = n
  BY <1>2
<1>4. n - 1 \in G
  BY <1>3
<1> QED
  BY <1>3, <1>4

\* A fold from the left, its steps given by a function.
Steps(step, base, seq, g) ==
    g = [s \in SUBSET DOMAIN seq |->
           IF s = {} THEN base ELSE step[<<g[s \ {Max(s)}], seq[Max(s)]>>]]

LEMMA MaxIs ==
    ASSUME NEW n \in Nat, NEW s \in SUBSET (1..n), s # {}
    PROVE  Max(s) \in s /\ (\A y \in s : Max(s) >= y)
<1> DEFINE U == {n - i : i \in s}
<1>1. U \in SUBSET Nat /\ U # {}
  <2>1. \A i \in s : n - i \in Nat
    OBVIOUS
  <2>2. PICK i \in s : TRUE
    OBVIOUS
  <2> QED
    BY <2>1, <2>2
<1>2. PICK u \in U : \A w \in U : u <= w
  <2> HIDE DEF U
  <2> QED
    BY <1>1, LeastOf
<1>3. PICK x \in s : u = n - x
  BY <1>2
<1>4. \A y \in s : x >= y
  <2> TAKE y \in s
  <2>1. n - x <= n - y
    BY <1>2, <1>3
  <2> QED
    BY <2>1
<1> QED
  BY <1>4 DEF Max

LEMMA StepsExist ==
    ASSUME NEW V, NEW D, NEW step \in [V \X D -> V], NEW base \in V, NEW seq \in Seq(D)
    PROVE  \E g \in [SUBSET DOMAIN seq -> V] : Steps(step, base, seq, g)
<1> DEFINE N == Len(seq)
           Next1(g, s) == IF s = {} THEN base ELSE step[<<g[s \ {Max(s)}], seq[Max(s)]>>]
           Good1(n, g) == \A s \in SUBSET (1..n) : g[s] = Next1(g, s)
           G == {n \in Nat : n <= N => \E g \in [SUBSET (1..n) -> V] : Good1(n, g)}
<1>1. N \in Nat /\ DOMAIN seq = 1..N /\ \A i \in 1..N : seq[i] \in D
  BY LenProperties, ElementOfSeq
<1> HIDE DEF N
<1>2. 0 \in G
  <2> DEFINE g == [s \in SUBSET (1..0) |-> base]
  <2>1. 1..0 = {} /\ g \in [SUBSET (1..0) -> V]
    OBVIOUS
  <2>2. Good1(0, g)
    BY <2>1
  <2> HIDE DEF Good1, g
  <2> QED
    BY <2>1, <2>2
<1>3. ASSUME NEW n \in Nat, n \in G PROVE n + 1 \in G
  <2> SUFFICES ASSUME n + 1 <= N PROVE \E g \in [SUBSET (1..(n + 1)) -> V] : Good1(n + 1, g)
    <3> HIDE DEF Good1
    <3>1. n + 1 \in Nat
      OBVIOUS
    <3> QED
      BY <3>1
  <2> DEFINE m == n + 1
  <2>1. m \in Nat /\ m \in 1..m /\ m \in 1..N /\ n <= N /\ m \notin 1..n /\ 1..n \subseteq 1..m
        /\ \A x \in 1..m : x # m => x \in 1..n
    BY <1>1
  <2>2. PICK h \in [SUBSET (1..n) -> V] : Good1(n, h)
    BY <1>3, <2>1
  <2> HIDE DEF m
  <2> DEFINE g == [s \in SUBSET (1..m) |-> IF m \in s THEN step[<<h[s \ {m}], seq[m]>>] ELSE h[s]]
  <2>3. \A s \in SUBSET (1..m) : s \ {m} \in SUBSET (1..n) /\ (m \notin s => s \in SUBSET (1..n))
    BY <2>1
  <2>4. g \in [SUBSET (1..m) -> V]
    <3> SUFFICES ASSUME NEW s \in SUBSET (1..m)
                 PROVE  (IF m \in s THEN step[<<h[s \ {m}], seq[m]>>] ELSE h[s]) \in V
      OBVIOUS
    <3>1. h[s \ {m}] \in V /\ seq[m] \in D /\ (m \notin s => h[s] \in V)
      BY <1>1, <2>1, <2>3
    <3> QED
      BY <3>1
  <2>5. Good1(m, g)
    <3> SUFFICES ASSUME NEW s \in SUBSET (1..m) PROVE g[s] = Next1(g, s)
      OBVIOUS
    <3>1. CASE m \in s
      <4>1. Max(s) = m
        <5>1. Max(s) \in s /\ \A y \in s : Max(s) >= y
          BY <2>1, <3>1, MaxIs
        <5>2. Max(s) \in 1..m /\ Max(s) >= m
          BY <3>1, <5>1
        <5> QED
          BY <2>1, <5>2
      <4>2. g[s \ {m}] = h[s \ {m}]
        BY <2>3
      <4>3. g[s] = step[<<h[s \ {m}], seq[m]>>]
        BY <3>1
      <4> HIDE DEF g
      <4> QED
        BY <3>1, <4>1, <4>2, <4>3
    <3>2. CASE m \notin s
      <4>1. s \in SUBSET (1..n) /\ s \ {Max(s)} \in SUBSET (1..n) /\ m \notin s \ {Max(s)} /\ s \ {Max(s)} \in SUBSET (1..m)
        BY <2>3, <3>2
      <4>2. g[s] = h[s] /\ g[s \ {Max(s)}] = h[s \ {Max(s)}]
        BY <3>2, <4>1
      <4>3. h[s] = Next1(h, s)
        BY <2>2, <4>1
      <4> HIDE DEF g
      <4> QED
        BY <4>2, <4>3
    <3> QED
      BY <3>1, <3>2
  <2> HIDE DEF Good1, g
  <2> QED
    BY <2>4, <2>5 DEF m
<1> HIDE DEF Good1
<1>4. G \in SUBSET Nat
  OBVIOUS
<1>5. N \in G
  <2> HIDE DEF G
  <2> QED
    BY <1>1, <1>2, <1>3, <1>4, Upwards
<1>6. PICK g \in [SUBSET (1..N) -> V] : Good1(N, g)
  <2>1. N <= N
    BY <1>1
  <2> QED
    BY <1>5, <2>1
<1>7. g = [s \in SUBSET DOMAIN seq |-> Next1(g, s)]
  <2>1. \A s \in SUBSET DOMAIN seq : g[s] = Next1(g, s)
    BY <1>1, <1>6 DEF Good1
  <2>2. g = [s \in SUBSET DOMAIN seq |-> g[s]]
    BY <1>1, <1>6
  <2> QED
    BY <2>1, <2>2
<1>8. Steps(step, base, seq, g)
  BY <1>7 DEF Steps
<1> QED
  BY <1>1, <1>6, <1>8

\* The values a fold goes through.
LEMMA ObserveChunkIs ==
    ASSUME NEW o \in Observations, NEW run \in Seq(Byte)
    PROVE  \E h \in [0..Len(Segments(run)) -> Observations] :
             /\ h[0] = o /\ ObserveChunk(o, run) = h[Len(Segments(run))]
             /\ \A n \in 1..Len(Segments(run)) : h[n] = ObserveSegment(h[n - 1], Segments(run)[n])
<1> DEFINE seq == Segments(run)
           N == Len(seq)
           Eq(g) == g = [s \in SUBSET DOMAIN seq |->
                           IF s = {} THEN o ELSE ObserveSegment(g[s \ {Max(s)}], seq[Max(s)])]
           step == [x \in Observations \X Pieces |-> ObserveSegment(x[1], x[2])]
<1>1. seq \in Seq(Pieces) /\ N \in Nat /\ DOMAIN seq = 1..N /\ \A i \in 1..N : seq[i] \in Pieces
  <2>1. seq \in Seq(Pieces)
    BY SegmentsArePieces
  <2> HIDE DEF seq
  <2> QED
    BY <2>1, LenProperties, ElementOfSeq
<1>2. ObserveChunk(o, run) = (CHOOSE g : Eq(g))[DOMAIN seq]
  BY DEF ObserveChunk, FoldLeft, MapThenFoldSet
<1> HIDE DEF seq, N
<1>3. step \in [Observations \X Pieces -> Observations]
  BY SegmentIs
<1>4. \A p \in Observations, d \in Pieces : step[<<p, d>>] = ObserveSegment(p, d)
  OBVIOUS
<1> HIDE DEF step
<1>5. PICK f \in [SUBSET DOMAIN seq -> Observations] : Steps(step, o, seq, f)
  BY <1>1, <1>3, StepsExist
<1>6. ASSUME NEW s \in SUBSET DOMAIN seq, s # {}
      PROVE  Max(s) \in 1..N /\ s \ {Max(s)} \in SUBSET DOMAIN seq
  <2>1. s \in SUBSET (1..N)
    BY <1>1
  <2>2. Max(s) \in s
    BY <1>1, <1>6, <2>1, MaxIs
  <2> QED
    BY <2>1, <2>2
<1>7. Eq(f)
  <2>1. f = [s \in SUBSET DOMAIN seq |-> IF s = {} THEN o ELSE step[<<f[s \ {Max(s)}], seq[Max(s)]>>]]
    BY <1>5 DEF Steps
  <2>2. ASSUME NEW s \in SUBSET DOMAIN seq
        PROVE  f[s] = IF s = {} THEN o ELSE ObserveSegment(f[s \ {Max(s)}], seq[Max(s)])
    <3>1. f[s] = IF s = {} THEN o ELSE step[<<f[s \ {Max(s)}], seq[Max(s)]>>]
      BY <2>1
    <3>2. CASE s = {}
      BY <3>1, <3>2
    <3>3. CASE s # {}
      <4>1. f[s \ {Max(s)}] \in Observations /\ seq[Max(s)] \in Pieces
        BY <1>1, <1>6, <3>3
      <4>2. step[<<f[s \ {Max(s)}], seq[Max(s)]>>] = ObserveSegment(f[s \ {Max(s)}], seq[Max(s)])
        BY <1>4, <4>1
      <4> QED
        BY <3>1, <3>3, <4>2
    <3> QED
      BY <3>2, <3>3
  <2>3. f = [s \in SUBSET DOMAIN seq |-> f[s]]
    OBVIOUS
  <2> QED
    BY <2>2, <2>3
<1> DEFINE g == CHOOSE e : Eq(e)
<1>8. Eq(g)
  <2> HIDE DEF Eq
  <2> QED
    BY <1>7
<1>9. ASSUME NEW s \in SUBSET DOMAIN seq
      PROVE  g[s] = IF s = {} THEN o ELSE ObserveSegment(g[s \ {Max(s)}], seq[Max(s)])
  <2> HIDE DEF g
  <2>1. g = [t \in SUBSET DOMAIN seq |-> IF t = {} THEN o ELSE ObserveSegment(g[t \ {Max(t)}], seq[Max(t)])]
    BY <1>8
  <2> QED
    BY <2>1
<1>10. ObserveChunk(o, run) = g[DOMAIN seq]
  BY <1>2
<1> HIDE DEF g, Eq
<1> DEFINE h == [n \in 0..N |-> g[1..n]]
<1>11. ASSUME NEW n \in 1..N PROVE g[1..n] = ObserveSegment(g[1..(n - 1)], seq[n])
  <2>0. n \in Nat /\ n \in 1..n /\ \A i \in 1..n : i \in 1..N
    BY <1>1
  <2>1. 1..n \in SUBSET DOMAIN seq /\ 1..n # {} /\ n \in Nat /\ 1..n \in SUBSET (1..n) /\ n \in 1..n
    BY <1>1, <2>0
  <2>2. Max(1..n) \in 1..n /\ Max(1..n) >= n
    BY <2>1, MaxIs
  <2>3. Max(1..n) = n
    BY <2>1, <2>2
  <2>4. (1..n) \ {n} = 1..(n - 1)
    BY <2>1
  <2> QED
    BY <1>9, <2>1, <2>3, <2>4
<1>12. g[1..0] = o
  <2>1. 1..0 = {} /\ {} \in SUBSET DOMAIN seq
    OBVIOUS
  <2> QED
    BY <1>9, <2>1
<1>13. \A n \in 0..N : g[1..n] \in Observations
  <2> DEFINE G == {n \in Nat : n <= N => g[1..n] \in Observations}
  <2>1. 0 \in G
    BY <1>12
  <2>2. ASSUME NEW n \in Nat, n \in G PROVE n + 1 \in G
    <3> SUFFICES ASSUME n + 1 <= N PROVE g[1..(n + 1)] \in Observations
      OBVIOUS
    <3>1. n + 1 \in 1..N /\ (n + 1) - 1 = n /\ n <= N
      BY <1>1
    <3>2. g[1..n] \in Observations /\ seq[n + 1] \in Pieces
      BY <1>1, <2>2, <3>1
    <3> QED
      BY <1>11, <3>1, <3>2, SegmentIs
  <2>3. G \in SUBSET Nat
    OBVIOUS
  <2>4. \A n \in Nat : n \in G
    <3> HIDE DEF G
    <3> QED
      BY <2>1, <2>2, <2>3, Upwards
  <2> QED
    BY <1>1, <2>4
<1>14. h \in [0..N -> Observations]
  BY <1>13
<1>15. h[0] = o /\ h[N] = ObserveChunk(o, run)
  BY <1>1, <1>10, <1>12
<1>16. \A n \in 1..N : h[n] = ObserveSegment(h[n - 1], seq[n])
  <2> TAKE n \in 1..N
  <2>1. n \in 0..N /\ n - 1 \in 0..N
    BY <1>1
  <2> QED
    BY <1>11, <2>1
<1> HIDE DEF h
<1> QED
  BY <1>14, <1>15, <1>16 DEF seq, N

LEMMA ChunkIs ==
    ASSUME NEW o \in Observations, NEW run \in Seq(Byte)
    PROVE  ObserveChunk(o, run) \in Observations
<1>1. PICK h \in [0..Len(Segments(run)) -> Observations] : ObserveChunk(o, run) = h[Len(Segments(run))]
  BY ObserveChunkIs
<1>2. Len(Segments(run)) \in 0..Len(Segments(run))
  BY SegmentsArePieces, LenProperties
<1> QED
  BY <1>1, <1>2

(* The bytes of lines are bytes.                                           *)
LEMMA PartsAre == ASSUME NEW line \in DOMAIN Lines PROVE Parts(line) \in Seq(Part)
<1>1. Lines[line].size \in Nat
  BY ObservationAssumption DEF LineFacts
<1>2. \A k \in 1..Lines[line].size : <<line, k>> \in Part
  BY <1>1 DEF Part
<1> QED
  BY <1>1, <1>2, IsASeq DEF Parts

LEMMA OneIs == ASSUME NEW S, NEW x \in S PROVE <<x>> \in Seq(S)
  OBVIOUS

LEMMA ListIs ==
    ASSUME NEW S, NEW n \in Nat, NEW f, f = [i \in 1..n |-> f[i]], \A i \in 1..n : f[i] \in S
    PROVE  f \in Seq(S) /\ Len(f) = n
<1>1. f \in [1..n -> S]
  OBVIOUS
<1> QED
  BY <1>1

\* Sequences put end to end.
Joins(seq, n, g) == \A i \in 1..n : g[i] = IF i = 1 THEN seq[i] ELSE g[i - 1] \o seq[i]

LEMMA JoinsExist ==
    ASSUME NEW S, NEW seq \in Seq(Seq(S)), NEW n \in Nat, n <= Len(seq)
    PROVE  \E g \in [1..n -> Seq(S)] : Joins(seq, n, g)
<1> DEFINE N == Len(seq)
           G == {k \in Nat : k <= N => \E g \in [1..k -> Seq(S)] : Joins(seq, k, g)}
<1>1. N \in Nat /\ \A i \in 1..N : seq[i] \in Seq(S)
  BY LenProperties, ElementOfSeq
<1> HIDE DEF N
<1>2. 0 \in G
  <2> DEFINE g == [i \in 1..0 |-> <<>>]
  <2>1. 1..0 = {}
    OBVIOUS
  <2>2. g \in [1..0 -> Seq(S)] /\ Joins(seq, 0, g)
    BY <2>1 DEF Joins
  <2> HIDE DEF g
  <2> QED
    BY <2>2
<1>3. ASSUME NEW k \in Nat, k \in G PROVE k + 1 \in G
  <2> DEFINE m == k + 1
  <2>1. m \in Nat /\ m # 0 /\ k = m - 1 /\ (m <= N => k <= N /\ m \in 1..N) /\ (m # 1 => m - 1 \in 1..k) /\ m \in 1..m
    BY <1>1
  <2>2. \A i \in 1..m : /\ i # m => i \in 1..k
                        /\ i # 1 => i - 1 \in 1..m /\ i - 1 # m
    BY <2>1
  <2> HIDE DEF m
  <2> SUFFICES ASSUME m <= N PROVE \E g \in [1..m -> Seq(S)] : Joins(seq, m, g)
    BY <2>1 DEF m
  <2>3. PICK h \in [1..k -> Seq(S)] : Joins(seq, k, h)
    BY <1>3, <2>1
  <2> DEFINE last == IF m = 1 THEN seq[m] ELSE h[m - 1] \o seq[m]
             g == [i \in 1..m |-> IF i = m THEN last ELSE h[i]]
  <2>4. last \in Seq(S)
    <3>1. seq[m] \in Seq(S) /\ (m # 1 => h[m - 1] \in Seq(S))
      BY <1>1, <2>1, <2>3
    <3> QED
      BY <3>1, ConcatProperties
  <2> HIDE DEF last
  <2>5. g \in [1..m -> Seq(S)]
    BY <2>2, <2>4
  <2>6. ASSUME NEW i \in 1..m PROVE g[i] = IF i = 1 THEN seq[i] ELSE g[i - 1] \o seq[i]
    <3>1. i # 1 => g[i - 1] = h[i - 1]
      BY <2>2
    <3>2. CASE i = m
      <4>1. g[i] = last
        BY <3>2
      <4> HIDE DEF g
      <4> QED
        BY <3>1, <3>2, <4>1 DEF last
    <3>3. CASE i # m
      <4>1. g[i] = h[i] /\ i \in 1..k
        BY <2>2, <3>3
      <4>2. h[i] = IF i = 1 THEN seq[i] ELSE h[i - 1] \o seq[i]
        BY <2>3, <4>1 DEF Joins
      <4> HIDE DEF g
      <4> QED
        BY <3>1, <4>1, <4>2
    <3> QED
      BY <3>2, <3>3
  <2> HIDE DEF g
  <2>7. Joins(seq, m, g)
    BY <2>6 DEF Joins
  <2> QED
    BY <2>5, <2>7
<1>4. G \in SUBSET Nat
  OBVIOUS
<1>5. n \in G
  <2> HIDE DEF G
  <2> QED
    BY <1>2, <1>3, <1>4, Upwards
<1> QED
  BY <1>5 DEF N

LEMMA JoinedIs ==
    ASSUME NEW S, NEW seq \in Seq(Seq(S)), NEW n \in Nat, n <= Len(seq), NEW g, Joins(seq, Len(seq), g), n # 0
    PROVE  g[n] \in Seq(S)
<1> DEFINE N == Len(seq)
           H == {k \in Nat : k # 0 /\ k <= N => g[k] \in Seq(S)}
<1>1. N \in Nat /\ \A i \in 1..N : seq[i] \in Seq(S)
  BY LenProperties, ElementOfSeq
<1>2. \A i \in 1..N : g[i] = IF i = 1 THEN seq[i] ELSE g[i - 1] \o seq[i]
  BY DEF Joins
<1>3. n <= N
  OBVIOUS
<1> HIDE DEF N
<1>4. 0 \in H
  OBVIOUS
<1>5. ASSUME NEW k \in Nat, k \in H PROVE k + 1 \in H
  <2> DEFINE m == k + 1
  <2>1. m \in Nat /\ m # 0 /\ k = m - 1 /\ (m <= N => k <= N /\ m \in 1..N) /\ (m # 1 => k # 0)
    BY <1>1
  <2> HIDE DEF m
  <2>2. ASSUME m <= N PROVE g[m] \in Seq(S)
    <3>1. m # 1 => g[m - 1] \in Seq(S)
      BY <1>5, <2>1, <2>2
    <3>2. seq[m] \in Seq(S)
      BY <1>1, <2>1, <2>2
    <3>3. g[m] = IF m = 1 THEN seq[m] ELSE g[m - 1] \o seq[m]
      BY <1>2, <2>1, <2>2
    <3> QED
      BY <3>1, <3>2, <3>3, ConcatProperties
  <2>3. m \in H
    BY <2>1, <2>2
  <2> QED
    BY <2>3 DEF m
<1>6. H \in SUBSET Nat
  OBVIOUS
<1>7. n \in H
  <2> HIDE DEF H
  <2> QED
    BY <1>4, <1>5, <1>6, Upwards
<1> QED
  BY <1>3, <1>7

\* Sequences put end to end are their chain of joins, at its last.
LEMMA FlatJoins ==
    ASSUME NEW S, NEW seq \in Seq(Seq(S)), Len(seq) # 0
    PROVE  \E g : Joins(seq, Len(seq), g) /\ FlattenSeq(seq) = g[Len(seq)]
<1> DEFINE N == Len(seq)
           Flat(e) == e = [i \in 1..N |-> IF i = 1 THEN seq[i] ELSE e[i - 1] \o seq[i]]
           g == CHOOSE e : Flat(e)
<1>1. N \in Nat /\ N <= Len(seq)
  <2>1. Len(seq) \in Nat
    BY LenProperties
  <2> QED
    BY <2>1
<1>2. PICK f \in [1..N -> Seq(S)] : Joins(seq, N, f)
  BY <1>1, JoinsExist
<1>3. Flat(f)
  <2>1. f = [i \in 1..N |-> f[i]]
    BY <1>2
  <2> HIDE DEF N
  <2> QED
    BY <1>2, <2>1 DEF Joins
<1>4. FlattenSeq(seq) = g[N]
  BY DEF FlattenSeq
<1>5. Flat(g)
  <2> HIDE DEF Flat
  <2> QED
    BY <1>3
<1> HIDE DEF g
<1>6. Joins(seq, Len(seq), g)
  BY <1>5 DEF Joins
<1> QED
  BY <1>4, <1>6

LEMMA FlatIs == ASSUME NEW S, NEW seq \in Seq(Seq(S)) PROVE FlattenSeq(seq) \in Seq(S)
<1> DEFINE N == Len(seq)
<1>1. N \in Nat
  BY LenProperties
<1>2. CASE N = 0
  <2>1. FlattenSeq(seq) = seq /\ seq = <<>>
    BY <1>2, EmptySeq DEF FlattenSeq
  <2> QED
    BY <2>1
<1>3. CASE N # 0
  <2>1. PICK g : Joins(seq, Len(seq), g) /\ FlattenSeq(seq) = g[N]
    BY <1>3, FlatJoins
  <2>2. g[N] \in Seq(S)
    <3>1. N <= Len(seq)
      BY <1>1
    <3> QED
      BY <1>1, <1>3, <2>1, <3>1, JoinedIs
  <2> QED
    BY <2>1, <2>2
<1> QED
  BY <1>2, <1>3

LEMMA BytesAre ==
    ASSUME NEW lines \in Seq(DOMAIN Lines \cup {""})
    PROVE  Bytes(lines) \in Seq(Byte)
<1> DEFINE seq == [i \in DOMAIN lines |->
                     IF lines[i] = "" THEN <<LineBreak>> ELSE Append(Parts(lines[i]), LineBreak)]
           N == Len(lines)
<1>1. N \in Nat /\ DOMAIN lines = 1..N
  BY LenProperties
<1>2. LineBreak \in Byte
  BY DEF Byte
<1>3. ASSUME NEW i \in 1..N PROVE seq[i] \in Seq(Byte)
  <2>1. lines[i] \in DOMAIN Lines \cup {""}
    BY ElementOfSeq
  <2>2. seq[i] = IF lines[i] = "" THEN <<LineBreak>> ELSE Append(Parts(lines[i]), LineBreak)
    BY <1>1
  <2>3. <<LineBreak>> \in Seq(Byte)
    BY <1>2, OneIs
  <2>4. CASE lines[i] # ""
    <3>1. Parts(lines[i]) \in Seq(Part)
      BY <2>1, <2>4, PartsAre
    <3>2. Part \subseteq Byte
      BY DEF Byte
    <3>3. Parts(lines[i]) \in Seq(Byte)
      BY <3>1, <3>2, SeqMonotonic
    <3>4. Append(Parts(lines[i]), LineBreak) \in Seq(Byte)
      BY <1>2, <3>3, AppendProperties
    <3> HIDE DEF seq
    <3>5. seq[i] = Append(Parts(lines[i]), LineBreak)
      BY <2>2, <2>4
    <3> QED
      BY <3>4, <3>5
  <2> HIDE DEF seq
  <2> QED
    BY <2>2, <2>3, <2>4
<1>4. seq = [i \in 1..N |-> seq[i]] /\ Bytes(lines) = FlattenSeq(seq)
  BY <1>1 DEF Bytes
<1> HIDE DEF seq, N
<1>5. seq \in Seq(Seq(Byte))
  BY <1>1, <1>3, <1>4, ListIs
<1> QED
  BY <1>4, <1>5, FlatIs

\* What was read of the upstream, and what of it is held or was handed over.
WireInv ==
    /\ bytes \in Seq(Byte) /\ pos \in 0..Len(bytes) /\ upstream \in {"open", "eof", "error"}
    /\ gone \in BOOLEAN /\ expired \in BOOLEAN
    /\ status \in {"ok", "refused", "fault"} /\ relayed \in BOOLEAN /\ (relayed => Good)
HoldInv ==
    /\ held \in Nat /\ handed \in Nat /\ held + handed <= pos
    /\ heldErr \in {"none", "eof", "error"} /\ remembered \in {"no", "yes", "failed"}

\* A stream is relayed until it is closed, anything else is read whole.
Streamed == {"prime", "deliver", "failed", "abandon", "close", "drain", "settle", "drained"}
Whole == {"buffer", "answered"}
ControlInv ==
    /\ pc \in Streamed \cup Whole \cup {"closed"}
    /\ (pc \in Streamed => relayed) /\ (pc \in Whole => ~relayed)
    /\ open = IF relayed /\ pc # "closed" THEN 1 ELSE 0

\* One row, and one score of the channel with it.
NoScore == [charged |-> 0, credited |-> 0]
Scores == {NoScore, [charged |-> 1, credited |-> 0], [charged |-> 0, credited |-> 1]}
LedgerInv ==
    /\ entry \in {"pending", "retried", "none"} /\ health \in Scores
    /\ entry # "none" => rows = <<>>
    /\ entry = "none" => \E row : rows = <<row>>
ScoredInv ==
    /\ entry # "none" /\ pc # "answered" => health = NoScore
    /\ pc \in Whole => entry # "none"
    /\ pc = "closed" => entry = "none"

AnswerInv == WireInv /\ HoldInv /\ obs \in Observations /\ ControlInv /\ LedgerInv /\ ScoredInv

LEMMA AnswerStarts == AnswerInit => AnswerInv
<1> SUFFICES ASSUME AnswerInit PROVE AnswerInv
  OBVIOUS
<1>1. PICK lines \in Answers : bytes = Bytes(lines)
  BY DEF AnswerInit
<1>2. bytes \in Seq(Byte)
  <2>1. lines \in Seq(DOMAIN Lines \cup {""})
    BY AnswerAssumption
  <2> QED
    BY <1>1, <2>1, BytesAre
<1>3. 0 \in 0..Len(bytes)
  BY <1>2, LenProperties
<1>4. /\ pos = 0 /\ upstream = "open" /\ gone = FALSE /\ expired = FALSE /\ obs = Unobserved
      /\ held = 0 /\ heldErr = "none" /\ handed = 0 /\ remembered = "no" /\ entry = "pending" /\ rows = <<>>
      /\ health = NoScore /\ relayed = (pc # "buffer") /\ open = (IF relayed THEN 1 ELSE 0)
      /\ \/ status = "ok" /\ pc \in {"prime", "deliver", "buffer"}
         \/ status \in {"refused", "fault"} /\ pc = "buffer"
  BY DEF AnswerInit, NoScore
<1>5. WireInv
  BY <1>2, <1>3, <1>4 DEF WireInv, Good
<1>6. HoldInv
  BY <1>4 DEF HoldInv
<1>7. ControlInv
  BY <1>4 DEF ControlInv, Streamed, Whole
<1>8. LedgerInv /\ ScoredInv
  BY <1>4 DEF LedgerInv, ScoredInv, Scores, Whole
<1> QED
  BY <1>4, <1>5, <1>6, <1>7, <1>8, UnobservedIs DEF AnswerInv

LEMMA ReadIs ==
    ASSUME WireInv, NEW r \in Reads
    PROVE  /\ r.n \in Nat /\ pos + r.n \in 0..Len(bytes) /\ r.ends \in {"open", "eof", "error"} /\ r.late \in BOOLEAN
           /\ Chunk(r) \in Seq(Byte)
<1>1. /\ r.n \in 0..MaxRead /\ r.ends \in {"open", "eof", "error"} /\ r.late \in BOOLEAN
      /\ pos + r.n <= Len(bytes)
  BY DEF Reads
<1>2. pos \in 0..Len(bytes) /\ Len(bytes) \in Nat /\ \A i \in 1..Len(bytes) : bytes[i] \in Byte
  BY LenProperties, ElementOfSeq DEF WireInv
<1> DEFINE n == r.n
           a == pos + 1
           z == pos + n
<1>3. n \in Nat /\ z \in 0..Len(bytes) /\ a \in Int /\ z \in Int /\ \A i \in a..z : i \in 1..Len(bytes)
  <2>1. n \in Nat
    <3>1. MaxRead \in Nat
      BY AnswerAssumption
    <3> QED
      BY <1>1, <3>1
  <2> DEFINE N == Len(bytes)
  <2>2. N \in Nat /\ pos \in Nat /\ pos + n <= N
    BY <1>1, <1>2
  <2> HIDE DEF N, n
  <2>3. z \in 0..N /\ a \in Int /\ z \in Int /\ \A i \in a..z : i \in 1..N
    BY <2>1, <2>2
  <2> QED
    BY <2>1, <2>3 DEF N
<1> HIDE DEF a, z
<1>4. SubSeq(bytes, a, z) \in Seq(Byte)
  BY <1>2, <1>3, SubSeqProperties
<1> QED
  BY <1>1, <1>3, <1>4 DEF Chunk, a, z

LEMMA ReceiveKeeps == ASSUME WireInv, NEW r \in Reads, Receive(r) PROVE WireInv'
<1>1. r.n \in Nat /\ pos + r.n \in 0..Len(bytes) /\ r.ends \in {"open", "eof", "error"} /\ r.late \in BOOLEAN
  BY ReadIs
<1>2. /\ pos' = pos + r.n /\ upstream' = r.ends /\ expired' = (expired \/ r.late)
      /\ bytes' = bytes /\ gone' = gone /\ status' = status /\ relayed' = relayed
  BY DEF Receive
<1> QED
  BY <1>1, <1>2 DEF WireInv, Good

LEMMA AfterIs ==
    ASSUME WireInv, obs \in Observations, NEW r \in Reads, NEW finishing
    PROVE  After(r, finishing) \in Observations
<1>1. Chunk(r) \in Seq(Byte)
  BY ReadIs
<1>2. ObserveChunk(obs, Chunk(r)) \in Observations
  BY <1>1, ChunkIs
<1> QED
  BY <1>2, FinishIs DEF After

\* The row is written and the score given by whoever comes first.
LEMMA FinishLogKeeps ==
    ASSUME LedgerInv, ScoredInv, pc # "answered", NEW code, NEW o, NEW charged, NEW credited,
           [charged |-> charged, credited |-> credited] \in Scores, FinishLog(code, o, charged, credited)
    PROVE  LedgerInv' /\ entry' = "none"
<1>1. CASE entry = "none"
  BY <1>1 DEF FinishLog, logVars, LedgerInv
<1>2. CASE entry # "none"
  <2>1. /\ rows' = Append(rows, Row(code, o)) /\ entry' = "none"
        /\ health' = [charged |-> health.charged + charged, credited |-> health.credited + credited]
    BY <1>2 DEF FinishLog
  <2>2. rows = <<>> /\ health = NoScore
    BY <1>2 DEF LedgerInv, ScoredInv
  <2>3. rows' = <<Row(code, o)>>
    BY <2>1, <2>2
  <2>4. health' \in Scores
    <3>1. charged \in {0, 1} /\ credited \in {0, 1}
      <4>1. CASE [charged |-> charged, credited |-> credited] = [charged |-> 0, credited |-> 0]
        BY <4>1
      <4>2. CASE [charged |-> charged, credited |-> credited] = [charged |-> 1, credited |-> 0]
        BY <4>2
      <4>3. CASE [charged |-> charged, credited |-> credited] = [charged |-> 0, credited |-> 1]
        BY <4>3
      <4> QED
        BY <4>1, <4>2, <4>3 DEF Scores, NoScore
    <3>2. 0 + charged = charged /\ 0 + credited = credited
      BY <3>1
    <3>3. health' = [charged |-> charged, credited |-> credited]
      BY <2>1, <2>2, <3>2 DEF NoScore
    <3> QED
      BY <3>3
  <2> QED
    BY <2>1, <2>3, <2>4 DEF LedgerInv
<1> QED
  BY <1>1, <1>2

LEMMA FinishesKeep ==
    ASSUME LedgerInv, ScoredInv, pc # "answered", NEW o,
           FinishComplete(o) \/ FinishInterrupted(o)
    PROVE  LedgerInv' /\ entry' = "none"
<1>1. /\ [charged |-> 0, credited |-> 0] \in Scores /\ [charged |-> 1, credited |-> 0] \in Scores
      /\ [charged |-> 0, credited |-> 1] \in Scores
  BY DEF Scores, NoScore
<1>2. CASE FinishComplete(o)
  <2> DEFINE ended == FinishObservation(o)
             c == IF ended.error = "channel" THEN 1 ELSE 0
  <2>1. \/ FinishLog("failed", o, c, 0)
        \/ FinishLog("ok", o, 0, 1)
    BY <1>2 DEF FinishComplete
  <2>2. c \in {0, 1}
    OBVIOUS
  <2> HIDE DEF c
  <2>3. [charged |-> c, credited |-> 0] \in Scores
    BY <1>1, <2>2
  <2> QED
    BY <1>1, <2>1, <2>3, FinishLogKeeps
<1>3. CASE FinishInterrupted(o)
  BY <1>1, <1>3, FinishLogKeeps DEF FinishInterrupted
<1> QED
  BY <1>2, <1>3

LEMMA FinishReadKeeps ==
    ASSUME LedgerInv, ScoredInv, pc # "answered", NEW o, NEW ends \in {"open", "eof", "error"}, FinishRead(o, ends)
    PROVE  LedgerInv' /\ (entry' = "none" \/ (ends = "open" /\ UNCHANGED logVars))
<1>1. CASE ends = "open"
  <2>1. UNCHANGED logVars
    BY <1>1 DEF FinishRead
  <2> QED
    BY <1>1, <2>1 DEF logVars, LedgerInv
<1>2. CASE ends # "open"
  <2>1. FinishComplete(o) \/ FinishInterrupted(o)
    BY <1>2 DEF FinishRead
  <2> QED
    BY <2>1, FinishesKeep
<1> QED
  BY <1>1, <1>2

\* A step of a stream from one place to another.
LEMMA StreamStep ==
    ASSUME AnswerInv, pc \in Streamed, pc' \in Streamed, UNCHANGED <<relayed, open>>,
           LedgerInv', entry' = "none" \/ UNCHANGED logVars
    PROVE  ControlInv' /\ ScoredInv'
<1>1. pc # "closed" /\ pc' # "closed" /\ pc' \notin Whole /\ pc # "answered" /\ pc' # "answered"
  BY DEF Streamed, Whole
<1>2. ControlInv'
  BY <1>1 DEF AnswerInv, ControlInv
<1>3. ScoredInv'
  BY <1>1 DEF AnswerInv, ScoredInv, logVars
<1> QED
  BY <1>2, <1>3

LEMMA PrimeKeeps == ASSUME AnswerInv, Prime PROVE AnswerInv'
<1>1. PICK r \in Reads :
        LET o == After(r, {"eof", "error"})
            ready == o.first \/ (o.error = "none" /\ (o.seen \/ (r.ends = "open" /\ held + r.n > HoldLimit)))
            failed == ~o.first /\ (o.error # "none" \/ (~o.seen /\ r.ends # "open"))
        IN  /\ Receive(r) /\ obs' = o
            /\ \/ /\ RememberFails(o)
                  /\ held' = 0 /\ heldErr' = "error" /\ pc' = "failed"
               \/ /\ Remembers(o)
                  /\ held' = held + r.n
                  /\ heldErr' = IF r.ends = "open" THEN "none" ELSE r.ends
                  /\ pc' = IF ready THEN "deliver" ELSE IF failed THEN "failed" ELSE "prime"
                  /\ UNCHANGED logVars
            /\ UNCHANGED <<handed, open>>
  BY DEF Prime
<1> DEFINE o == After(r, {"eof", "error"})
<1>2. /\ Receive(r) /\ obs' = o /\ UNCHANGED <<handed, open>>
      /\ \/ /\ RememberFails(o) /\ held' = 0 /\ heldErr' = "error" /\ pc' = "failed"
         \/ /\ Remembers(o) /\ held' = held + r.n /\ heldErr' = (IF r.ends = "open" THEN "none" ELSE r.ends)
            /\ pc' \in {"deliver", "failed", "prime"} /\ UNCHANGED logVars
  BY <1>1
<1>3. pc = "prime"
  BY DEF Prime
<1> HIDE DEF o
<1>4. WireInv' /\ obs' \in Observations
  <2>1. o \in Observations
    BY AfterIs DEF AnswerInv, o
  <2> QED
    BY <1>2, <2>1, ReceiveKeeps DEF AnswerInv
<1>5. /\ r.n \in Nat /\ r.ends \in {"open", "eof", "error"} /\ pos' = pos + r.n /\ pos \in Nat /\ relayed' = relayed
  <2>1. r.n \in Nat /\ r.ends \in {"open", "eof", "error"} /\ pos \in Nat
    <3>1. pos \in 0..Len(bytes)
      BY DEF AnswerInv, WireInv
    <3> QED
      BY <3>1, ReadIs DEF AnswerInv
  <2> QED
    BY <1>2, <2>1 DEF Receive
<1>6. HoldInv /\ LedgerInv /\ ScoredInv
  BY DEF AnswerInv
<1>7. HoldInv'
  <2>1. held \in Nat /\ handed \in Nat /\ held + handed <= pos
    BY <1>6 DEF HoldInv
  <2>2. held' \in Nat /\ held' + handed <= pos'
    <3> DEFINE n == r.n
    <3>1. n \in Nat /\ pos' = pos + n /\ (held' = 0 \/ held' = held + n)
      BY <1>2, <1>5
    <3> HIDE DEF n
    <3> QED
      BY <1>5, <2>1, <3>1
  <2>3. heldErr' \in {"none", "eof", "error"} /\ remembered' \in {"no", "yes", "failed"}
    BY <1>2, <1>5, <1>6 DEF HoldInv, RememberFails, Remembers
  <2> QED
    BY <1>2, <2>1, <2>2, <2>3 DEF HoldInv
<1>8. LedgerInv' /\ (entry' = "none" \/ UNCHANGED logVars)
  <2>1. CASE RememberFails(o)
    <3>1. [charged |-> 0, credited |-> 0] \in Scores
      BY DEF Scores, NoScore
    <3>2. FinishLog("unremembered", o, 0, 0)
      BY <2>1 DEF RememberFails
    <3> QED
      BY <1>3, <1>6, <3>1, <3>2, FinishLogKeeps
  <2>2. CASE UNCHANGED logVars
    BY <1>6, <2>2 DEF LedgerInv, logVars
  <2> QED
    BY <1>2, <2>1, <2>2
<1>9. pc \in Streamed /\ pc' \in Streamed
  BY <1>2, <1>3 DEF Streamed
<1>10. ControlInv' /\ ScoredInv'
  BY <1>2, <1>5, <1>8, <1>9, StreamStep
<1> QED
  BY <1>4, <1>7, <1>8, <1>10 DEF AnswerInv

\* A step that reads nothing and moves nothing.
LEMMA StillStep ==
    ASSUME AnswerInv, pc \in Streamed, pc' \in Streamed, UNCHANGED <<wireVars, streamVars, open>>,
           LedgerInv', entry' = "none" \/ UNCHANGED logVars
    PROVE  AnswerInv'
<1>1. /\ bytes' = bytes /\ pos' = pos /\ upstream' = upstream /\ gone' = gone /\ expired' = expired
      /\ status' = status /\ relayed' = relayed /\ open' = open
      /\ obs' = obs /\ held' = held /\ heldErr' = heldErr /\ handed' = handed /\ remembered' = remembered
  BY DEF wireVars, streamVars
<1>2. WireInv' /\ HoldInv' /\ obs' \in Observations
  BY <1>1 DEF AnswerInv, WireInv, HoldInv, Good
<1>3. ControlInv' /\ ScoredInv'
  BY <1>1, StreamStep
<1> QED
  BY <1>2, <1>3 DEF AnswerInv

LEMMA FailedKeeps == ASSUME AnswerInv, DeliverFailed \/ MarkRetried PROVE AnswerInv'
<1>1. CASE DeliverFailed
  <2>1. pc \in Streamed /\ pc' \in Streamed /\ UNCHANGED <<wireVars, streamVars, open>> /\ UNCHANGED logVars
    BY <1>1 DEF DeliverFailed, Streamed
  <2>2. LedgerInv'
    BY <2>1 DEF AnswerInv, LedgerInv, logVars
  <2> QED
    BY <2>1, <2>2, StillStep
<1>2. CASE MarkRetried
  <2>1. /\ pc = "failed" /\ pc' = "abandon" /\ entry' = (IF entry = "none" THEN "none" ELSE "retried")
        /\ UNCHANGED <<wireVars, streamVars, rows, health, open>>
    BY <1>2 DEF MarkRetried
  <2>2. /\ bytes' = bytes /\ pos' = pos /\ upstream' = upstream /\ gone' = gone /\ expired' = expired
        /\ status' = status /\ relayed' = relayed /\ open' = open
        /\ obs' = obs /\ held' = held /\ heldErr' = heldErr /\ handed' = handed /\ remembered' = remembered
    BY <2>1 DEF wireVars, streamVars
  <2>3. WireInv' /\ HoldInv' /\ obs' \in Observations
    BY <2>2 DEF AnswerInv, WireInv, HoldInv, Good
  <2>4. LedgerInv'
    BY <2>1 DEF AnswerInv, LedgerInv
  <2>5. ControlInv'
    BY <2>1, <2>2 DEF AnswerInv, ControlInv, Streamed, Whole
  <2>6. ScoredInv'
    BY <2>1 DEF AnswerInv, ScoredInv, Whole
  <2> QED
    BY <2>3, <2>4, <2>5, <2>6 DEF AnswerInv
<1> QED
  BY <1>1, <1>2

LEMMA AbandonKeeps == ASSUME AnswerInv, Abandon PROVE AnswerInv'
<1>1. pc = "abandon" /\ pc' = "close" /\ UNCHANGED <<wireVars, streamVars, open>>
  BY DEF Abandon
<1>2. LedgerInv /\ ScoredInv /\ pc # "answered"
  BY <1>1 DEF AnswerInv
<1>3. LedgerInv' /\ entry' = "none"
  <2>1. FinishComplete(obs) \/ FinishInterrupted(obs) \/ FinishLog("failed", obs, 1, 0)
    BY DEF Abandon
  <2>2. [charged |-> 1, credited |-> 0] \in Scores
    BY DEF Scores
  <2>3. CASE FinishLog("failed", obs, 1, 0)
    BY <1>2, <2>2, <2>3, FinishLogKeeps
  <2> QED
    BY <1>2, <2>1, <2>3, FinishesKeep
<1>4. pc \in Streamed /\ pc' \in Streamed
  BY <1>1 DEF Streamed
<1> QED
  BY <1>1, <1>3, <1>4, StillStep

LEMMA ReadHeldKeeps == ASSUME AnswerInv, ReadHeld PROVE AnswerInv'
<1>1. PICK n \in 1..held :
        /\ held' = held - n /\ handed' = handed + n
        /\ IF n = held /\ obs.seen THEN FinishComplete(obs) ELSE UNCHANGED logVars
  BY DEF ReadHeld
<1>2. /\ pc = "deliver" /\ pc' = pc
      /\ UNCHANGED <<wireVars, obs, heldErr, remembered, open>>
  BY DEF ReadHeld
<1>3. LedgerInv /\ ScoredInv /\ pc # "answered" /\ HoldInv /\ WireInv
  BY <1>2 DEF AnswerInv
<1>4. LedgerInv' /\ (entry' = "none" \/ UNCHANGED logVars)
  <2>1. CASE FinishComplete(obs)
    BY <1>3, <2>1, FinishesKeep
  <2>2. CASE UNCHANGED logVars
    BY <1>3, <2>2 DEF LedgerInv, logVars
  <2> QED
    BY <1>1, <2>1, <2>2
<1>5. /\ bytes' = bytes /\ pos' = pos /\ upstream' = upstream /\ gone' = gone /\ expired' = expired
      /\ status' = status /\ relayed' = relayed /\ open' = open
      /\ obs' = obs /\ heldErr' = heldErr /\ remembered' = remembered
  BY <1>2 DEF wireVars
<1>6. WireInv' /\ obs' \in Observations
  BY <1>5 DEF AnswerInv, WireInv, Good
<1>7. HoldInv'
  <2>1. held \in Nat /\ handed \in Nat /\ held + handed <= pos /\ pos \in Nat
    <3>1. pos \in 0..Len(bytes)
      BY <1>3 DEF WireInv
    <3> QED
      BY <1>3, <3>1 DEF HoldInv
  <2>2. held' \in Nat /\ handed' \in Nat /\ held' + handed' <= pos
    BY <1>1, <2>1
  <2> QED
    BY <1>3, <1>5, <2>2 DEF HoldInv
<1>8. pc \in Streamed /\ pc' \in Streamed
  BY <1>2 DEF Streamed
<1>9. ControlInv' /\ ScoredInv'
  BY <1>4, <1>5, <1>8, StreamStep
<1> QED
  BY <1>4, <1>6, <1>7, <1>9 DEF AnswerInv

LEMMA ReadHeldErrKeeps == ASSUME AnswerInv, ReadHeldErr PROVE AnswerInv'
<1>1. pc = "deliver" /\ pc' = "close" /\ UNCHANGED <<wireVars, streamVars, open>> /\ FinishRead(obs, heldErr)
  BY DEF ReadHeldErr
<1>2. LedgerInv /\ ScoredInv /\ pc # "answered" /\ heldErr \in {"eof", "error"}
  BY <1>1 DEF AnswerInv, HoldInv, ReadHeldErr
<1>3. LedgerInv' /\ entry' = "none"
  <2>1. heldErr \in {"open", "eof", "error"} /\ heldErr # "open"
    BY <1>2
  <2> QED
    BY <1>1, <1>2, <2>1, FinishReadKeeps
<1>4. pc \in Streamed /\ pc' \in Streamed
  BY <1>1 DEF Streamed
<1> QED
  BY <1>1, <1>3, <1>4, StillStep

LEMMA ReadUpstreamKeeps == ASSUME AnswerInv, ReadUpstream PROVE AnswerInv'
<1>1. PICK r \in Reads :
        LET o == After(r, {"eof"})
        IN  /\ Receive(r) /\ obs' = o
            /\ \/ /\ RememberFails(o)
                  /\ pc' = "close" /\ UNCHANGED handed
               \/ /\ Remembers(o)
                  /\ IF o.seen THEN FinishComplete(o) ELSE FinishRead(o, r.ends)
                  /\ handed' = handed + r.n
                  /\ pc' = IF r.ends = "open" THEN "deliver" ELSE "close"
  BY DEF ReadUpstream
<1> DEFINE o == After(r, {"eof"})
<1>2. /\ Receive(r) /\ obs' = o
      /\ \/ RememberFails(o) /\ pc' = "close" /\ handed' = handed
         \/ /\ Remembers(o) /\ (FinishComplete(o) \/ FinishRead(o, r.ends))
            /\ handed' = handed + r.n /\ pc' \in {"deliver", "close"}
  BY <1>1
<1>3. pc = "deliver" /\ held = 0 /\ UNCHANGED <<held, heldErr, open>>
  BY DEF ReadUpstream
<1> HIDE DEF o
<1>4. WireInv' /\ obs' \in Observations
  <2>1. o \in Observations
    BY AfterIs DEF AnswerInv, o
  <2> QED
    BY <1>2, <2>1, ReceiveKeeps DEF AnswerInv
<1>5. /\ r.n \in Nat /\ r.ends \in {"open", "eof", "error"} /\ pos' = pos + r.n /\ pos \in Nat /\ relayed' = relayed
  <2>1. r.n \in Nat /\ r.ends \in {"open", "eof", "error"} /\ pos \in Nat
    <3>1. pos \in 0..Len(bytes)
      BY DEF AnswerInv, WireInv
    <3> QED
      BY <3>1, ReadIs DEF AnswerInv
  <2> QED
    BY <1>2, <2>1 DEF Receive
<1>6. HoldInv /\ LedgerInv /\ ScoredInv /\ pc # "answered"
  BY <1>3 DEF AnswerInv
<1>7. HoldInv'
  <2>1. held \in Nat /\ handed \in Nat /\ held + handed <= pos
    BY <1>6 DEF HoldInv
  <2>2. handed' \in Nat /\ held + handed' <= pos'
    <3> DEFINE n == r.n
    <3>1. n \in Nat /\ pos' = pos + n /\ (handed' = handed \/ handed' = handed + n)
      BY <1>2, <1>5
    <3> HIDE DEF n
    <3> QED
      BY <1>5, <2>1, <3>1
  <2>3. remembered' \in {"no", "yes", "failed"}
    BY <1>2, <1>6 DEF HoldInv, RememberFails, Remembers
  <2> QED
    BY <1>3, <1>6, <2>1, <2>2, <2>3 DEF HoldInv
<1>8. LedgerInv' /\ (entry' = "none" \/ UNCHANGED logVars)
  <2>1. CASE RememberFails(o)
    <3>1. [charged |-> 0, credited |-> 0] \in Scores
      BY DEF Scores, NoScore
    <3>2. FinishLog("unremembered", o, 0, 0)
      BY <2>1 DEF RememberFails
    <3> QED
      BY <1>6, <3>1, <3>2, FinishLogKeeps
  <2>2. CASE FinishComplete(o)
    BY <1>6, <2>2, FinishesKeep
  <2>3. CASE FinishRead(o, r.ends)
    BY <1>5, <1>6, <2>3, FinishReadKeeps
  <2> QED
    BY <1>2, <2>1, <2>2, <2>3
<1>9. pc \in Streamed /\ pc' \in Streamed
  BY <1>2, <1>3 DEF Streamed
<1>10. ControlInv' /\ ScoredInv'
  BY <1>3, <1>5, <1>8, <1>9, StreamStep
<1> QED
  BY <1>4, <1>7, <1>8, <1>10 DEF AnswerInv

LEMMA EndKeeps == ASSUME AnswerInv, WriteFails \/ Close PROVE AnswerInv'
<1>1. pc \in {"deliver", "close"} /\ pc' \in {"close", "drain", "settle"} /\ UNCHANGED <<wireVars, streamVars, logVars, open>>
  BY DEF WriteFails, Close
<1>2. pc \in Streamed /\ pc' \in Streamed
  BY <1>1 DEF Streamed
<1>3. LedgerInv'
  BY <1>1 DEF AnswerInv, LedgerInv, logVars
<1> QED
  BY <1>1, <1>2, <1>3, StillStep

LEMMA DrainKeeps == ASSUME AnswerInv, Drain PROVE AnswerInv'
<1>1. PICK r \in Reads : Receive(r) /\ obs' = After(r, {}) /\ pc' \in {"drained", "drain"}
  BY DEF Drain
<1>2. pc = "drain" /\ UNCHANGED <<held, heldErr, handed, remembered, logVars, open>>
  BY DEF Drain
<1>3. WireInv' /\ obs' \in Observations
  <2>1. After(r, {}) \in Observations
    BY AfterIs DEF AnswerInv
  <2> QED
    BY <1>1, <2>1, ReceiveKeeps DEF AnswerInv
<1>4. r.n \in Nat /\ pos' = pos + r.n /\ pos \in Nat /\ relayed' = relayed
  <2>1. r.n \in Nat /\ pos \in Nat
    <3>1. pos \in 0..Len(bytes)
      BY DEF AnswerInv, WireInv
    <3> QED
      BY <3>1, ReadIs DEF AnswerInv
  <2> QED
    BY <1>1, <2>1 DEF Receive
<1>5. HoldInv'
  <2>1. held \in Nat /\ handed \in Nat /\ held + handed <= pos
    BY DEF AnswerInv, HoldInv
  <2>2. held + handed <= pos'
    <3> DEFINE n == r.n
    <3>1. n \in Nat /\ pos' = pos + n
      BY <1>4
    <3> HIDE DEF n
    <3> QED
      BY <1>4, <2>1, <3>1
  <2> QED
    BY <1>2, <2>2 DEF AnswerInv, HoldInv
<1>6. LedgerInv'
  BY <1>2 DEF AnswerInv, LedgerInv, logVars
<1>7. pc \in Streamed /\ pc' \in Streamed
  BY <1>1, <1>2 DEF Streamed
<1>8. ControlInv' /\ ScoredInv'
  BY <1>2, <1>4, <1>6, <1>7, StreamStep
<1> QED
  BY <1>3, <1>5, <1>6, <1>8 DEF AnswerInv

LEMMA SettleKeeps == ASSUME AnswerInv, Settle PROVE AnswerInv'
<1>1. /\ pc \in {"settle", "drained"} /\ pc' = "closed" /\ open' = open - 1
      /\ UNCHANGED <<wireVars, held, heldErr, handed, remembered>>
      /\ obs' \in {obs, FinishObservation(obs)}
      /\ FinishComplete(obs) \/ FinishLog("left", obs, 0, 0)
  BY DEF Settle
<1>2. LedgerInv /\ ScoredInv /\ pc # "answered" /\ obs \in Observations
  BY <1>1 DEF AnswerInv
<1>3. LedgerInv' /\ entry' = "none"
  <2>1. [charged |-> 0, credited |-> 0] \in Scores
    BY DEF Scores, NoScore
  <2>2. CASE FinishLog("left", obs, 0, 0)
    BY <1>2, <2>1, <2>2, FinishLogKeeps
  <2> QED
    BY <1>1, <1>2, <2>2, FinishesKeep
<1>4. /\ bytes' = bytes /\ pos' = pos /\ upstream' = upstream /\ gone' = gone /\ expired' = expired
      /\ status' = status /\ relayed' = relayed
      /\ held' = held /\ heldErr' = heldErr /\ handed' = handed /\ remembered' = remembered
  BY <1>1 DEF wireVars
<1>5. WireInv' /\ HoldInv'
  BY <1>4 DEF AnswerInv, WireInv, HoldInv, Good
<1>6. obs' \in Observations
  BY <1>1, <1>2, FinishIs
<1>7. relayed /\ open = 1
  BY <1>1 DEF AnswerInv, ControlInv, Streamed
<1>8. ControlInv'
  BY <1>1, <1>4, <1>7 DEF ControlInv, Streamed, Whole
<1>9. ScoredInv'
  BY <1>1, <1>3 DEF ScoredInv, Whole
<1> QED
  BY <1>3, <1>5, <1>6, <1>8, <1>9 DEF AnswerInv

LEMMA BufferBodyKeeps == ASSUME AnswerInv, BufferBody PROVE AnswerInv'
<1>1. PICK r \in Reads :
        LET o == After(r, {"eof"})
        IN  /\ Receive(r) /\ obs' = o
            /\ CASE r.ends = "open" -> UNCHANGED <<logVars, pc, remembered>>
                 [] r.ends = "error" ->
                      LET left == gone /\ ~expired'
                      IN  /\ NoAnswer(IF left THEN "left" ELSE IF expired' THEN "timeout" ELSE "failed")
                          /\ health' = [health EXCEPT !.charged = IF left THEN 0 ELSE 1]
                          /\ UNCHANGED remembered
                 [] OTHER ->
                      /\ health' = BodyHealth(o)
                      /\ \/ /\ Good /\ ToRemember(o) /\ remembered' = "failed"
                            /\ NoAnswer("unremembered")
                         \/ /\ IF Good THEN Remembers(o) ELSE UNCHANGED remembered
                            /\ pc' = "answered" /\ UNCHANGED <<entry, rows>>
  BY DEF BufferBody
<1> DEFINE o == After(r, {"eof"})
<1>2. pc = "buffer" /\ UNCHANGED <<held, heldErr, handed, open>>
  BY DEF BufferBody
<1>3. Receive(r) /\ obs' = o
  BY <1>1
<1>4. WireInv' /\ obs' \in Observations
  <2>1. o \in Observations
    BY AfterIs DEF AnswerInv
  <2> HIDE DEF o
  <2> QED
    BY <1>3, <2>1, ReceiveKeeps DEF AnswerInv
<1>5. /\ r.n \in Nat /\ r.ends \in {"open", "eof", "error"} /\ pos' = pos + r.n /\ pos \in Nat /\ relayed' = relayed
  <2>1. r.n \in Nat /\ r.ends \in {"open", "eof", "error"} /\ pos \in Nat
    <3>1. pos \in 0..Len(bytes)
      BY DEF AnswerInv, WireInv
    <3> QED
      BY <3>1, ReadIs DEF AnswerInv
  <2> QED
    BY <1>3, <2>1 DEF Receive
<1>6. ~relayed /\ entry # "none" /\ rows = <<>> /\ health = NoScore /\ open = 0 /\ remembered \in {"no", "yes", "failed"}
  BY <1>2 DEF AnswerInv, ControlInv, LedgerInv, ScoredInv, HoldInv, Whole
<1>7. \/ UNCHANGED <<entry, rows, health, pc, remembered>>
      \/ entry' = "none" /\ pc' = "closed" /\ (\E row : rows' = <<row>>) /\ health' \in Scores /\ remembered' \in {"no", "yes", "failed"}
      \/ pc' = "answered" /\ UNCHANGED <<entry, rows>> /\ health' \in Scores /\ remembered' \in {"no", "yes", "failed"}
  <2>1. ASSUME NEW code, NoAnswer(code) PROVE entry' = "none" /\ pc' = "closed" /\ \E row : rows' = <<row>>
    <3>1. PICK retried \in BOOLEAN :
            rows' = Append(rows, [status |-> code, retried |-> retried, read |-> pos', left |-> gone,
                                  usage |-> Counts(NoUsage)])
      BY <2>1 DEF NoAnswer
    <3> DEFINE row == [status |-> code, retried |-> retried, read |-> pos', left |-> gone,
                       usage |-> Counts(NoUsage)]
    <3>2. rows' = Append(<<>>, row)
      BY <1>6, <3>1
    <3> HIDE DEF row
    <3>3. rows' = <<row>>
      BY <3>2
    <3> QED
      BY <2>1, <3>3 DEF NoAnswer
  <2>2. BodyHealth(o) \in Scores
    <3> HIDE DEF o
    <3>1. \/ BodyHealth(o) = [charged |-> 0, credited |-> 0] \/ BodyHealth(o) = [charged |-> 1, credited |-> 0]
          \/ BodyHealth(o) = [charged |-> 0, credited |-> 1]
      <4>1. status # "fault" \/ ~Good
        BY DEF Good
      <4> QED
        BY <4>1 DEF BodyHealth
    <3> QED
      BY <3>1 DEF Scores, NoScore
  <2>3. CASE r.ends = "open"
    <3>1. UNCHANGED <<logVars, pc, remembered>>
      BY <1>1, <2>3
    <3> QED
      BY <3>1 DEF logVars
  <2>4. CASE r.ends = "error"
    <3> DEFINE left == gone /\ ~expired'
               c == IF left THEN 0 ELSE 1
    <3>1. /\ NoAnswer(IF left THEN "left" ELSE IF expired' THEN "timeout" ELSE "failed")
          /\ health' = [health EXCEPT !.charged = c] /\ UNCHANGED remembered
      BY <1>1, <2>4
    <3>2. c \in {0, 1}
      OBVIOUS
    <3> HIDE DEF c
    <3>3. health' = [charged |-> c, credited |-> 0]
      BY <1>6, <3>1 DEF NoScore
    <3>4. health' \in Scores
      BY <3>2, <3>3 DEF Scores, NoScore
    <3> QED
      BY <1>6, <2>1, <3>1, <3>4
  <2>5. CASE r.ends = "eof"
    <3>1. /\ health' = BodyHealth(o)
          /\ \/ /\ Good /\ ToRemember(o) /\ remembered' = "failed"
                /\ NoAnswer("unremembered")
             \/ /\ IF Good THEN Remembers(o) ELSE UNCHANGED remembered
                /\ pc' = "answered" /\ UNCHANGED <<entry, rows>>
      BY <1>1, <2>5
    <3> HIDE DEF o
    <3>2. CASE remembered' = "failed" /\ NoAnswer("unremembered")
      BY <2>1, <2>2, <3>1, <3>2
    <3>3. CASE (IF Good THEN Remembers(o) ELSE UNCHANGED remembered) /\ pc' = "answered" /\ UNCHANGED <<entry, rows>>
      <4>1. remembered' \in {"no", "yes", "failed"}
        BY <1>6, <3>3 DEF Remembers
      <4> QED
        BY <2>2, <3>1, <3>3, <4>1
    <3> QED
      BY <3>1, <3>2, <3>3
  <2> QED
    BY <1>5, <2>3, <2>4, <2>5
<1> HIDE DEF o
<1>8. HoldInv'
  <2>1. held \in Nat /\ handed \in Nat /\ held + handed <= pos
    BY DEF AnswerInv, HoldInv
  <2>2. held + handed <= pos'
    <3> DEFINE n == r.n
    <3>1. n \in Nat /\ pos' = pos + n
      BY <1>5
    <3> HIDE DEF n
    <3> QED
      BY <1>5, <2>1, <3>1
  <2>3. remembered' \in {"no", "yes", "failed"}
    BY <1>6, <1>7
  <2> QED
    BY <1>2, <2>2, <2>3 DEF AnswerInv, HoldInv
<1>9. LedgerInv'
  BY <1>6, <1>7 DEF AnswerInv, LedgerInv
<1>10. ControlInv'
  BY <1>2, <1>5, <1>6, <1>7 DEF ControlInv, Streamed, Whole
<1>11. ScoredInv'
  BY <1>2, <1>6, <1>7 DEF ScoredInv, Whole
<1> QED
  BY <1>4, <1>8, <1>9, <1>10, <1>11 DEF AnswerInv

LEMMA BufferedKeeps == ASSUME AnswerInv, RetryBuffered \/ CloseBuffered PROVE AnswerInv'
<1>1. pc = "answered" /\ UNCHANGED <<wireVars, streamVars, health, open>>
  BY DEF RetryBuffered, CloseBuffered
<1>2. /\ bytes' = bytes /\ pos' = pos /\ upstream' = upstream /\ gone' = gone /\ expired' = expired
      /\ status' = status /\ relayed' = relayed /\ open' = open /\ health' = health
      /\ obs' = obs /\ held' = held /\ heldErr' = heldErr /\ handed' = handed /\ remembered' = remembered
  BY <1>1 DEF wireVars, streamVars
<1>3. WireInv' /\ HoldInv' /\ obs' \in Observations
  BY <1>2 DEF AnswerInv, WireInv, HoldInv, Good
<1>4. ~relayed /\ entry # "none" /\ rows = <<>> /\ open = 0 /\ health \in Scores
  BY <1>1 DEF AnswerInv, ControlInv, LedgerInv, ScoredInv, Whole
<1>5. \/ entry' = "retried" /\ UNCHANGED <<rows, pc>>
      \/ entry' = "none" /\ pc' = "closed" /\ \E row : rows' = <<row>>
  <2>1. CASE RetryBuffered
    BY <2>1 DEF RetryBuffered
  <2>2. CASE CloseBuffered
    <3> DEFINE code == IF Good /\ obs.error # "none" THEN "failed" ELSE status
               row == [status |-> IF entry # "retried" /\ gone THEN "left" ELSE code,
                       retried |-> entry = "retried", read |-> pos, left |-> gone,
                       usage |-> ExtractUsage(Received)]
    <3>1. rows' = Append(rows, row) /\ entry' = "none" /\ pc' = "closed"
      BY <2>2 DEF CloseBuffered
    <3> HIDE DEF row
    <3>2. rows' = <<row>>
      BY <1>4, <3>1
    <3> QED
      BY <3>1, <3>2
  <2> QED
    BY <2>1, <2>2
<1>6. LedgerInv'
  BY <1>2, <1>4, <1>5 DEF LedgerInv
<1>7. ControlInv'
  BY <1>1, <1>2, <1>4, <1>5 DEF ControlInv, Streamed, Whole
<1>8. ScoredInv'
  BY <1>1, <1>5 DEF ScoredInv, Whole
<1> QED
  BY <1>3, <1>6, <1>7, <1>8 DEF AnswerInv

LEMMA LeaveKeeps == ASSUME AnswerInv, Leave PROVE AnswerInv'
<1>1. /\ gone' = TRUE /\ UNCHANGED <<bytes, pos, upstream, expired, status, relayed, pc, open>>
      /\ obs' = obs /\ held' = held /\ heldErr' = heldErr /\ handed' = handed /\ remembered' = remembered
      /\ UNCHANGED logVars
  BY DEF Leave, streamVars
<1>2. WireInv' /\ HoldInv' /\ obs' \in Observations
  BY <1>1 DEF AnswerInv, WireInv, HoldInv, Good
<1>3. LedgerInv' /\ ControlInv' /\ ScoredInv'
  BY <1>1 DEF AnswerInv, LedgerInv, ControlInv, ScoredInv, logVars
<1> QED
  BY <1>2, <1>3 DEF AnswerInv

LEMMA AnswerKeeps == AnswerInv /\ [AnswerNext]_answerVars => AnswerInv'
<1> SUFFICES ASSUME AnswerInv, [AnswerNext]_answerVars PROVE AnswerInv'
  OBVIOUS
<1>1. CASE UNCHANGED answerVars
  <2>1. /\ UNCHANGED <<bytes, pos, upstream, gone, expired, status, relayed, pc, open>>
        /\ obs' = obs /\ held' = held /\ heldErr' = heldErr /\ handed' = handed /\ remembered' = remembered
        /\ UNCHANGED logVars
    BY <1>1 DEF answerVars, wireVars, streamVars
  <2>2. WireInv' /\ HoldInv' /\ obs' \in Observations
    BY <2>1 DEF AnswerInv, WireInv, HoldInv, Good
  <2>3. LedgerInv' /\ ControlInv' /\ ScoredInv'
    BY <2>1 DEF AnswerInv, LedgerInv, ControlInv, ScoredInv, logVars
  <2> QED
    BY <2>2, <2>3 DEF AnswerInv
<1>2. CASE Prime
  BY <1>2, PrimeKeeps
<1>3. CASE DeliverFailed \/ MarkRetried
  BY <1>3, FailedKeeps
<1>4. CASE Abandon
  BY <1>4, AbandonKeeps
<1>5. CASE ReadHeld \/ ReadHeldErr
  BY <1>5, ReadHeldKeeps, ReadHeldErrKeeps
<1>6. CASE ReadUpstream
  BY <1>6, ReadUpstreamKeeps
<1>7. CASE WriteFails \/ Close
  BY <1>7, EndKeeps
<1>8. CASE Drain \/ Settle
  BY <1>8, DrainKeeps, SettleKeeps
<1>9. CASE BufferBody
  BY <1>9, BufferBodyKeeps
<1>10. CASE RetryBuffered \/ CloseBuffered
  BY <1>10, BufferedKeeps
<1>11. CASE Leave
  BY <1>11, LeaveKeeps
<1> QED
  BY <1>1, <1>2, <1>3, <1>4, <1>5, <1>6, <1>7, <1>8, <1>9, <1>10, <1>11 DEF AnswerNext

LEMMA AnswerShape == AnswerInv => AnswerTypeOK
<1> SUFFICES ASSUME AnswerInv PROVE AnswerTypeOK
  OBVIOUS
<1>1. entry = "none" <=> rows # <<>>
  <2>1. ASSUME NEW row, rows = <<row>> PROVE rows # <<>>
    BY <2>1
  <2> QED
    BY <2>1 DEF AnswerInv, LedgerInv
<1>2. entry \in {"pending", "retried", "none"}
  BY DEF AnswerInv, LedgerInv
<1>3. Len(obs.buf) <= MaxLine /\ Len(obs.tail) <= TailSize /\ ~(obs.seen /\ obs.pending)
  BY DEF AnswerInv, Observations
<1>4. /\ pos \in 0..Len(bytes) /\ upstream \in {"open", "eof", "error"}
      /\ status \in {"ok", "refused", "fault"} /\ (relayed => Good)
  BY DEF AnswerInv, WireInv
<1>5. pc \in {"prime", "deliver", "failed", "abandon", "close", "drain", "settle", "drained",
              "buffer", "answered", "closed"}
      /\ open = IF relayed /\ pc # "closed" THEN 1 ELSE 0
  BY DEF AnswerInv, ControlInv, Streamed, Whole
<1>6. held + handed <= pos /\ heldErr \in {"none", "eof", "error"} /\ remembered \in {"no", "yes", "failed"}
  BY DEF AnswerInv, HoldInv
<1> QED
  BY <1>1, <1>2, <1>3, <1>4, <1>5, <1>6 DEF AnswerTypeOK

(* However reads cut what an upstream sends, the observer never keeps a    *)
(* line past the longest it holds, an attempt has its row exactly when it  *)
(* was logged, what is held back and what was handed over was read, and    *)
(* the gauge of open streams counts this one until it is closed            *)
(* (proxy/sse.go:60-330, proxy/ssestream.go:60-460).                       *)
THEOREM AnswerTypesCorrect == AnswerSpec => []AnswerTypeOK
<1>1. AnswerSpec => []AnswerInv
  BY AnswerStarts, AnswerKeeps, PTL DEF AnswerSpec
<1> QED
  BY <1>1, AnswerShape, PTL

(* Whoever comes first of the terminal event, the end, the clock, a lost   *)
(* connection and the client leaving, an answer that is over left one row  *)
(* and scored its channel at most once (proxy/ssestream.go:295-362).       *)
OneAccount == pc = "closed" => Len(rows) = 1 /\ health.charged + health.credited <= 1

THEOREM AccountedOnce == AnswerSpec => []OneAccount
<1>1. AnswerSpec => []AnswerInv
  BY AnswerStarts, AnswerKeeps, PTL DEF AnswerSpec
<1>2. AnswerInv => OneAccount
  <2> SUFFICES ASSUME AnswerInv, pc = "closed" PROVE Len(rows) = 1 /\ health.charged + health.credited <= 1
    BY DEF OneAccount
  <2>1. PICK row : rows = <<row>>
    BY DEF AnswerInv, LedgerInv, ScoredInv
  <2>2. Len(rows) = 1
    BY <2>1
  <2>3. health.charged + health.credited <= 1
    BY DEF AnswerInv, LedgerInv, Scores, NoScore
  <2> QED
    BY <2>2, <2>3
<1> QED
  BY <1>1, <1>2, PTL
-----------------------------------------------------------------------------
(* How reads cut a stream.                                                 *)

\* The lines of a run that are whole, and what is left after the last break.
Text1(run, n) == SubSeq(run, Line1(run, n), Nth(Breaks(run), n) - 1)
Lines1(run) == [n \in 1..Cardinality(Breaks(run)) |-> [text |-> Text1(run, n), complete |-> TRUE]]
RestOf(run) == SubSeq(run, Line1(run, Cardinality(Breaks(run)) + 1), Len(run))

LEMMA SplitIs ==
    ASSUME NEW run \in Seq(Byte)
    PROVE  /\ Cardinality(Breaks(run)) \in Nat /\ Breaks(run) \subseteq 1..Len(run)
           /\ \A n \in 1..Cardinality(Breaks(run)) : Nth(Breaks(run), n) \in 1..Len(run)
           /\ \A n \in 1..(Cardinality(Breaks(run)) + 1) : Line1(run, n) \in 1..(Len(run) + 1)
           /\ Segments(run) = Lines1(run) \o (IF RestOf(run) = <<>> THEN <<>> ELSE <<[text |-> RestOf(run), complete |-> FALSE]>>)
<1>1. Len(run) \in Nat /\ Breaks(run) \subseteq 1..Len(run)
  BY LenProperties DEF Breaks
<1>2. /\ Cardinality(Breaks(run)) \in Nat
      /\ \A n \in 1..Cardinality(Breaks(run)) : Nth(Breaks(run), n) \in 1..Len(run)
  BY SegmentsAre
<1>3. Segments(run) = Lines1(run) \o (IF RestOf(run) = <<>> THEN <<>> ELSE <<[text |-> RestOf(run), complete |-> FALSE]>>)
  BY SegmentsAre DEF Lines1, RestOf, Text1
<1> DEFINE C == Cardinality(Breaks(run))
<1>4. ASSUME NEW n \in 1..(C + 1) PROVE Line1(run, n) \in 1..(Len(run) + 1)
  <2>1. CASE n = 1
    BY <1>1, <2>1 DEF Line1
  <2>2. CASE n # 1
    <3>1. n - 1 \in 1..C
      BY <1>2, <2>2
    <3>2. Nth(Breaks(run), n - 1) \in 1..Len(run) /\ Line1(run, n) = Nth(Breaks(run), n - 1) + 1
      BY <1>2, <2>2, <3>1 DEF Line1
    <3> HIDE DEF C
    <3> QED
      BY <1>1, <3>2
  <2> QED
    BY <2>1, <2>2
<1> QED
  BY <1>1, <1>2, <1>3, <1>4

\* The places of a byte read later do not move those of the ones before it.
LEMMA BreakNext ==
    ASSUME NEW N \in Nat, NEW B, B \subseteq 1..N
    PROVE  LET D == B \cup {N + 1}
           IN  /\ Cardinality(D) = Cardinality(B) + 1
               /\ \A n \in 1..Cardinality(B) : Nth(D, n) = Nth(B, n)
               /\ Nth(D, Cardinality(B) + 1) = N + 1
<1> DEFINE M == N + 1
           D == B \cup {M}
           C == Cardinality(B)
<1>1. IsFiniteSet(B) /\ C \in Nat /\ (\A i \in B : Place(B, i) \in 1..C)
      /\ \A n \in 1..C : Nth(B, n) \in B /\ Place(B, Nth(B, n)) = n
  BY PlacesOf, NthOf
<1>2. M \in Nat /\ D \subseteq 1..M /\ M \notin B /\ \A i \in B : i \in Nat /\ ~(M <= i) /\ i <= M
  OBVIOUS
<1>3. Cardinality(D) = C + 1
  <2> HIDE DEF M
  <2>1. Cardinality(B \cup {M}) = Cardinality(B) + 1
    BY <1>1, <1>2, FS_AddElement
  <2> QED
    BY <2>1
<1>4. \A i \in B : Place(D, i) = Place(B, i)
  <2> TAKE i \in B
  <2>1. {j \in D : j <= i} = {j \in B : j <= i}
    BY <1>2
  <2> QED
    BY <2>1 DEF Place
<1>5. Place(D, M) = C + 1
  <2>1. {j \in D : j <= M} = D
    <3>1. \A j \in D : j <= M
      BY <1>2
    <3> HIDE DEF D, M
    <3> QED
      BY <3>1
  <2> QED
    BY <1>3, <2>1 DEF Place
<1>6. /\ \A i, k \in D : i < k => Place(D, i) < Place(D, k)
      /\ \A i \in D : Place(D, i) \in 1..Cardinality(D)
      /\ \A n \in 1..Cardinality(D) : Nth(D, n) \in D /\ Place(D, Nth(D, n)) = n
  <2> HIDE DEF D
  <2> QED
    BY <1>2, PlacesOf, NthOf
<1> HIDE DEF D, C, M
<1>7. ASSUME NEW i \in D, NEW k \in D, Place(D, i) = Place(D, k) PROVE i = k
  <2>1. i \in Nat /\ k \in Nat /\ Place(D, i) \in Nat
    BY <1>1, <1>2, <1>3, <1>6
  <2>2. ~(i < k) /\ ~(k < i)
    BY <1>6, <1>7, <2>1
  <2> QED
    BY <2>1, <2>2
<1>8. ASSUME NEW n \in 1..C PROVE Nth(D, n) = Nth(B, n)
  <2>1. n \in 1..Cardinality(D) /\ Nth(B, n) \in B
    BY <1>1, <1>3
  <2>2. Nth(B, n) \in D /\ Place(D, Nth(B, n)) = n
    BY <1>1, <1>4, <2>1 DEF D
  <2> QED
    BY <1>6, <1>7, <2>1, <2>2
<1>9. Nth(D, C + 1) = M
  <2>1. C + 1 \in 1..Cardinality(D) /\ M \in D
    BY <1>1, <1>3 DEF D
  <2> QED
    BY <1>5, <1>6, <1>7, <2>1
<1> QED
  BY <1>3, <1>8, <1>9 DEF C, D, M

\* Bytes that were there before one more was read.
LEMMA CutsBefore ==
    ASSUME NEW S, NEW run \in Seq(S), NEW x \in S, NEW a \in 1..(Len(run) + 1), NEW z \in 0..Len(run)
    PROVE  /\ SubSeq(Append(run, x), a, z) = SubSeq(run, a, z)
           /\ SubSeq(Append(run, x), a, Len(run) + 1) = Append(SubSeq(run, a, Len(run)), x)
           /\ SubSeq(run, a, z) \in Seq(S)
<1> DEFINE N == Len(run)
           more == Append(run, x)
<1>1. N \in Nat /\ \A i \in 1..N : run[i] \in S
  BY LenProperties, ElementOfSeq
<1>2. /\ more \in Seq(S) /\ Len(more) = N + 1 /\ \A i \in 1..N : more[i] = run[i]
      /\ more[N + 1] = x
  BY AppendProperties
<1> HIDE DEF N, more
<1>3. a \in 1..(N + 1) /\ z \in 0..N /\ a \in Int /\ z \in Int /\ N \in Int
  BY <1>1 DEF N
<1>4. \A i \in a..z : i \in 1..N
  BY <1>1, <1>3
<1>5. SubSeq(run, a, z) \in Seq(S) /\ Len(SubSeq(run, a, z)) = (IF a <= z THEN z - a + 1 ELSE 0)
      /\ \A i \in 1..(z - a + 1) : SubSeq(run, a, z)[i] = run[a + i - 1]
  BY <1>1, <1>3, <1>4, SubSeqProperties
<1>6. SubSeq(more, a, z) \in Seq(S) /\ Len(SubSeq(more, a, z)) = (IF a <= z THEN z - a + 1 ELSE 0)
      /\ \A i \in 1..(z - a + 1) : SubSeq(more, a, z)[i] = more[a + i - 1]
  <2>1. \A i \in a..z : more[i] \in S
    BY <1>1, <1>2, <1>4
  <2> QED
    BY <1>3, <2>1, SubSeqProperties
<1>7. SubSeq(more, a, z) = SubSeq(run, a, z)
  <2> DEFINE p == SubSeq(more, a, z)
             q == SubSeq(run, a, z)
             n == Len(q)
  <2>1. n \in Nat /\ Len(p) = n
    BY <1>3, <1>5, <1>6
  <2>2. ASSUME NEW i \in 1..n PROVE p[i] = q[i]
    <3>1. i \in 1..(z - a + 1) /\ a + i - 1 \in 1..N
      BY <1>1, <1>3, <1>5
    <3> QED
      BY <1>2, <1>5, <1>6, <3>1
  <2> HIDE DEF p, q
  <2>3. p \in Seq(S) /\ q \in Seq(S)
    BY <1>5, <1>6 DEF p, q
  <2> QED
    BY <2>1, <2>2, <2>3, SeqEqual DEF p, q
<1>8. SubSeq(more, a, N + 1) = Append(SubSeq(run, a, N), x)
  <2> DEFINE p == SubSeq(more, a, N + 1)
             q == SubSeq(run, a, N)
             n == N + 1 - a
  <2>1. \A i \in a..N : run[i] \in S
    BY <1>1, <1>3
  <2>2. q \in Seq(S) /\ Len(q) = n /\ \A i \in 1..n : q[i] = run[a + i - 1]
    <3>1. q \in Seq(S) /\ Len(q) = (IF a <= N THEN N - a + 1 ELSE 0)
          /\ \A i \in 1..(N - a + 1) : q[i] = run[a + i - 1]
      BY <1>3, <2>1, SubSeqProperties
    <3>2. n = (IF a <= N THEN N - a + 1 ELSE 0) /\ N - a + 1 = n
      BY <1>1, <1>3
    <3> HIDE DEF q, n
    <3> QED
      BY <3>1, <3>2
  <2>3. \A i \in a..(N + 1) : more[i] \in S
    <3> TAKE i \in a..(N + 1)
    <3>1. i \in 1..N \/ i = N + 1
      BY <1>1, <1>3
    <3> QED
      BY <1>1, <1>2, <3>1
  <2>4. p \in Seq(S) /\ Len(p) = n + 1 /\ \A i \in 1..(n + 1) : p[i] = more[a + i - 1]
    <3>0. N + 1 \in Int
      BY <1>1
    <3>1. p \in Seq(S) /\ Len(p) = (IF a <= N + 1 THEN N + 1 - a + 1 ELSE 0)
          /\ \A i \in 1..(N + 1 - a + 1) : p[i] = more[a + i - 1]
      BY <1>3, <2>3, <3>0, SubSeqProperties
    <3>2. n + 1 = (IF a <= N + 1 THEN N + 1 - a + 1 ELSE 0) /\ N + 1 - a + 1 = n + 1
      BY <1>1, <1>3
    <3> HIDE DEF p, n
    <3> QED
      BY <3>1, <3>2
  <2>5. n \in Nat /\ (\A i \in 1..n : a + i - 1 \in 1..N) /\ a + (n + 1) - 1 = N + 1
    BY <1>1, <1>3
  <2> HIDE DEF p, q, n
  <2> DEFINE r == Append(q, x)
  <2>6. r \in Seq(S) /\ Len(r) = n + 1 /\ (\A i \in 1..n : r[i] = q[i]) /\ r[n + 1] = x
    BY <2>2, AppendProperties
  <2>7. ASSUME NEW i \in 1..(n + 1) PROVE p[i] = r[i]
    <3>1. CASE i = n + 1
      <4>1. p[i] = more[N + 1]
        BY <2>4, <2>5, <3>1
      <4> QED
        BY <1>2, <2>6, <3>1, <4>1
    <3>2. CASE i # n + 1
      <4>1. i \in 1..n
        BY <2>5, <3>2
      <4> QED
        BY <1>2, <2>2, <2>4, <2>5, <2>6, <4>1
    <3> QED
      BY <3>1, <3>2
  <2> HIDE DEF r
  <2> QED
    BY <2>4, <2>5, <2>6, <2>7, SeqEqual DEF p, q, r
<1> QED
  BY <1>5, <1>7, <1>8 DEF N, more

(* One byte more: a break ends the line, anything else makes it longer.    *)
LEMMA OneMoreByte ==
    ASSUME NEW run \in Seq(Byte), NEW x \in Byte
    PROVE  /\ x = LineBreak => /\ Lines1(Append(run, x)) = Append(Lines1(run), [text |-> RestOf(run), complete |-> TRUE])
                               /\ RestOf(Append(run, x)) = <<>>
           /\ x # LineBreak => /\ Lines1(Append(run, x)) = Lines1(run)
                               /\ RestOf(Append(run, x)) = Append(RestOf(run), x)
<1> DEFINE more == Append(run, x)
           N == Len(run)
           B == Breaks(run)
           C == Cardinality(B)
           L(n) == Line1(run, n)
<1>1. N \in Nat /\ DOMAIN run = 1..N /\ more \in Seq(Byte) /\ Len(more) = N + 1 /\ DOMAIN more = 1..(N + 1)
      /\ (\A i \in 1..N : more[i] = run[i]) /\ more[N + 1] = x
  <2>1. N \in Nat /\ DOMAIN run = 1..N
    BY LenProperties
  <2>2. /\ more \in Seq(Byte) /\ Len(more) = N + 1
        /\ (\A i \in 1..N : more[i] = run[i]) /\ more[N + 1] = x
    BY AppendProperties
  <2>3. DOMAIN more = 1..Len(more)
    <3> HIDE DEF more
    <3> QED
      BY <2>2, LenProperties
  <2> QED
    BY <2>1, <2>2, <2>3
<1>2. C \in Nat /\ B \subseteq 1..N /\ (\A n \in 1..C : Nth(B, n) \in 1..N) /\ \A n \in 1..(C + 1) : L(n) \in 1..(N + 1)
  BY SplitIs
<1>3. \A a \in 1..(N + 1), z \in 0..N : SubSeq(more, a, z) = SubSeq(run, a, z)
  BY CutsBefore
<1>4. \A a \in 1..(N + 1) : SubSeq(more, a, N + 1) = Append(SubSeq(run, a, N), x)
  <2> TAKE a \in 1..(N + 1)
  <2>1. N \in 0..Len(run)
    BY <1>1
  <2> QED
    BY <2>1, CutsBefore
<1>5. Breaks(more) = {i \in 1..(N + 1) : more[i] = LineBreak} /\ B = {i \in 1..N : run[i] = LineBreak}
  BY <1>1 DEF Breaks
<1>6. Lines1(run) = [n \in 1..C |-> [text |-> SubSeq(run, L(n), Nth(B, n) - 1), complete |-> TRUE]]
      /\ RestOf(run) = SubSeq(run, L(C + 1), N)
  BY DEF Lines1, RestOf, Text1
<1>7. Lines1(more) = [n \in 1..Cardinality(Breaks(more)) |->
                        [text |-> SubSeq(more, Line1(more, n), Nth(Breaks(more), n) - 1), complete |-> TRUE]]
      /\ RestOf(more) = SubSeq(more, Line1(more, Cardinality(Breaks(more)) + 1), N + 1)
  BY <1>1 DEF Lines1, RestOf, Text1
<1>8. L(1) = 1 /\ \A n \in 2..(C + 1) : L(n) = Nth(B, n - 1) + 1
  BY DEF Line1
<1>9. Line1(more, 1) = 1 /\ \A n \in 2..(Cardinality(Breaks(more)) + 1) : Line1(more, n) = Nth(Breaks(more), n - 1) + 1
  BY DEF Line1
<1> HIDE DEF more, N, B, L, C
<1>10. CASE x # LineBreak
  <2>1. Breaks(more) = B
    <3>1. ASSUME NEW i \in 1..(N + 1), more[i] = LineBreak PROVE i \in 1..N /\ run[i] = LineBreak
      <4>1. i # N + 1
        BY <1>1, <1>10, <3>1
      <4>2. i \in 1..N
        BY <1>1, <4>1
      <4> QED
        BY <1>1, <3>1, <4>2
    <3>2. ASSUME NEW i \in 1..N, run[i] = LineBreak PROVE i \in 1..(N + 1) /\ more[i] = LineBreak
      BY <1>1, <3>2
    <3> QED
      BY <1>5, <3>1, <3>2
  <2>2. \A n \in 1..(C + 1) : Line1(more, n) = L(n)
    BY <2>1 DEF L, Line1, B
  <2>3. Cardinality(Breaks(more)) = C
    BY <2>1 DEF C
  <2>4. \A n \in 1..C : SubSeq(more, Line1(more, n), Nth(Breaks(more), n) - 1) = SubSeq(run, L(n), Nth(B, n) - 1)
    <3> TAKE n \in 1..C
    <3>1. n \in 1..(C + 1) /\ Nth(B, n) - 1 \in 0..N
      <4>1. Nth(B, n) \in 1..N /\ n \in 1..(C + 1)
        BY <1>2
      <4> QED
        BY <1>1, <4>1
    <3>2. L(n) \in 1..(N + 1)
      BY <1>2, <3>1
    <3> QED
      BY <1>3, <2>1, <2>2, <3>1, <3>2
  <2>5. Lines1(more) = Lines1(run)
    BY <1>6, <1>7, <2>3, <2>4
  <2>6. RestOf(more) = Append(RestOf(run), x)
    <3>1. C + 1 \in 1..(C + 1)
      BY <1>2
    <3>2. L(C + 1) \in 1..(N + 1) /\ Line1(more, C + 1) = L(C + 1)
      BY <1>2, <2>2, <3>1
    <3> QED
      BY <1>4, <1>6, <1>7, <2>3, <3>2
  <2> QED
    BY <1>10, <2>5, <2>6 DEF more
<1>11. CASE x = LineBreak
  <2>1. Breaks(more) = B \cup {N + 1}
    <3>1. ASSUME NEW i \in 1..(N + 1), more[i] = LineBreak PROVE i = N + 1 \/ (i \in 1..N /\ run[i] = LineBreak)
      <4>1. i # N + 1 => i \in 1..N
        BY <1>1
      <4> QED
        BY <1>1, <3>1, <4>1
    <3>2. ASSUME NEW i \in 1..N, run[i] = LineBreak PROVE i \in 1..(N + 1) /\ more[i] = LineBreak
      BY <1>1, <3>2
    <3>3. N + 1 \in 1..(N + 1) /\ more[N + 1] = LineBreak
      BY <1>1, <1>11
    <3> QED
      BY <1>5, <3>1, <3>2, <3>3
  <2>2. /\ Cardinality(Breaks(more)) = C + 1 /\ Nth(Breaks(more), C + 1) = N + 1
        /\ \A n \in 1..C : Nth(Breaks(more), n) = Nth(B, n)
    <3>1. LET D == B \cup {N + 1}
          IN  /\ Cardinality(D) = Cardinality(B) + 1
              /\ \A n \in 1..Cardinality(B) : Nth(D, n) = Nth(B, n)
              /\ Nth(D, Cardinality(B) + 1) = N + 1
      BY <1>1, <1>2, BreakNext
    <3> QED
      BY <2>1, <3>1 DEF C
  <2>3. \A n \in 1..(C + 1) : Line1(more, n) = L(n)
    <3> TAKE n \in 1..(C + 1)
    <3>1. CASE n = 1
      BY <1>8, <1>9, <3>1
    <3>2. CASE n # 1
      <4>1. n - 1 \in 1..C /\ n \in 2..(C + 1) /\ n \in 2..(C + 1 + 1)
        BY <1>2, <3>2
      <4>2. L(n) = Nth(B, n - 1) + 1
        BY <1>8, <4>1
      <4>3. Line1(more, n) = Nth(Breaks(more), n - 1) + 1
        BY <1>9, <2>2, <4>1
      <4>4. Nth(Breaks(more), n - 1) = Nth(B, n - 1)
        BY <2>2, <4>1
      <4> QED
        BY <4>2, <4>3, <4>4
    <3> QED
      BY <3>1, <3>2
  <2>4. Line1(more, C + 2) = N + 2
    <3>1. C + 2 \in 2..(C + 1 + 1) /\ (C + 2) - 1 = C + 1 /\ (N + 1) + 1 = N + 2
      BY <1>1, <1>2
    <3> QED
      BY <1>9, <2>2, <3>1
  <2>5. RestOf(more) = <<>>
    <3>1. (C + 1) + 1 = C + 2 /\ N + 2 \in Int /\ N + 1 \in Int /\ N + 1 < N + 2
      BY <1>1, <1>2
    <3> QED
      BY <1>7, <2>2, <2>4, <3>1, SubSeqEmpty
  <2> DEFINE last == [text |-> RestOf(run), complete |-> TRUE]
             line(n) == [text |-> SubSeq(more, Line1(more, n), Nth(Breaks(more), n) - 1), complete |-> TRUE]
  <2>6. \A n \in 1..C : n \in DOMAIN Lines1(run) /\ line(n) = Lines1(run)[n]
    <3> TAKE n \in 1..C
    <3>1. n \in 1..(C + 1) /\ Nth(B, n) - 1 \in 0..N /\ Nth(Breaks(more), n) = Nth(B, n)
      <4>1. Nth(B, n) \in 1..N /\ n \in 1..(C + 1)
        BY <1>2
      <4> QED
        BY <1>1, <2>2, <4>1
    <3>2. L(n) \in 1..(N + 1) /\ Line1(more, n) = L(n)
      BY <1>2, <2>3, <3>1
    <3>3. SubSeq(more, Line1(more, n), Nth(Breaks(more), n) - 1) = SubSeq(run, L(n), Nth(B, n) - 1)
      BY <1>3, <3>1, <3>2
    <3>4. Lines1(run)[n] = [text |-> SubSeq(run, L(n), Nth(B, n) - 1), complete |-> TRUE] /\ n \in DOMAIN Lines1(run)
      BY <1>6
    <3> QED
      BY <3>3, <3>4
  <2>7. line(C + 1) = last
    <3>1. C + 1 \in 1..(C + 1) /\ (N + 1) - 1 = N /\ N \in 0..N
      BY <1>1, <1>2
    <3>2. L(C + 1) \in 1..(N + 1) /\ Line1(more, C + 1) = L(C + 1)
      BY <1>2, <2>3, <3>1
    <3>3. SubSeq(more, L(C + 1), N) = RestOf(run)
      BY <1>3, <1>6, <3>1, <3>2
    <3> QED
      BY <2>2, <3>1, <3>2, <3>3
  <2>8. Lines1(more) = [n \in 1..(C + 1) |-> line(n)]
    BY <1>7, <2>2
  <2>9. Lines1(run) = [n \in 1..C |-> Lines1(run)[n]]
    BY <1>6
  <2> HIDE DEF line, last
  <2>10. Lines1(more) = Append(Lines1(run), last)
    <3> DEFINE W == Lines1(run)
               V == Lines1(more)
               T == {W[n] : n \in 1..C} \cup {last}
               A == Append(W, last)
    <3>1. W \in Seq(T) /\ Len(W) = C
      <4>1. W = [n \in 1..C |-> W[n]] /\ \A n \in 1..C : W[n] \in T
        BY <2>9
      <4> HIDE DEF W, T
      <4> QED
        BY <1>2, <4>1, ListIs
    <3>2. last \in T
      OBVIOUS
    <3>3. \A n \in 1..(C + 1) : V[n] = IF n = C + 1 THEN last ELSE W[n]
      <4> TAKE n \in 1..(C + 1)
      <4>1. V[n] = line(n)
        BY <2>8
      <4>2. n # C + 1 => n \in 1..C
        BY <1>2
      <4> QED
        BY <2>6, <2>7, <4>1, <4>2
    <3>4. V = [n \in 1..(C + 1) |-> V[n]]
      BY <2>8
    <3>5. ASSUME NEW n \in 1..(C + 1) PROVE V[n] \in T
      <4>1. n # C + 1 => n \in 1..C
        BY <1>2
      <4> QED
        BY <3>3, <4>1
    <3> HIDE DEF W, V, T
    <3>6. V \in Seq(T) /\ Len(V) = C + 1
      <4>1. C + 1 \in Nat
        BY <1>2
      <4> QED
        BY <3>4, <3>5, <4>1, ListIs
    <3>7. A \in Seq(T) /\ Len(A) = C + 1 /\ (\A n \in 1..C : A[n] = W[n]) /\ A[C + 1] = last
      BY <3>1, <3>2, AppendProperties
    <3>8. ASSUME NEW n \in 1..(C + 1) PROVE V[n] = A[n]
      <4>1. n # C + 1 => n \in 1..C
        BY <1>2
      <4> HIDE DEF A
      <4> QED
        BY <3>3, <3>7, <4>1
    <3> HIDE DEF A
    <3>9. V = A
      BY <3>6, <3>7, <3>8, SeqEqual
    <3> QED
      BY <3>9 DEF V, A, W
  <2> QED
    BY <1>11, <2>5, <2>10 DEF more, last
<1> QED
  BY <1>10, <1>11 DEF more

\* What is kept of a line too long is its end, however it was buffered.
LEMMA KeptAll ==
    ASSUME NEW text \in Seq(Part), Len(text) <= TailSize
    PROVE  Kept(text) = text
<1>1. Len(text) \in Nat /\ TailSize \in Nat
  BY ObservationAssumption, LenProperties
<1>2. ~(Len(text) > TailSize)
  BY <1>1
<1>3. SubSeq(text, 1, Len(text)) = text
  BY SubSeqFull
<1> QED
  BY <1>2, <1>3 DEF Kept

KeptLen(n) == IF n > TailSize THEN TailSize ELSE n

LEMMA KeptEnd ==
    ASSUME NEW text \in Seq(Part)
    PROVE  /\ KeptLen(Len(text)) \in 0..Len(text) /\ Kept(text) \in Seq(Part) /\ Len(Kept(text)) = KeptLen(Len(text))
           /\ \A i \in 1..KeptLen(Len(text)) : Kept(text)[i] = text[Len(text) - KeptLen(Len(text)) + i]
<1> DEFINE n == Len(text)
           k == KeptLen(n)
           m == IF n > TailSize THEN n - TailSize + 1 ELSE 1
<1>1. n \in Nat /\ TailSize \in Nat \ {0}
  BY ObservationAssumption, LenProperties
<1>2. \A i \in 1..n : text[i] \in Part
  BY ElementOfSeq
<1> HIDE DEF n
<1>3. /\ m \in 1..(n + 1) /\ m \in Int /\ n \in Int /\ k \in 0..n /\ n - m + 1 = k
      /\ (IF m <= n THEN n - m + 1 ELSE 0) = k
      /\ m = n - k + 1
  BY <1>1 DEF KeptLen
<1> HIDE DEF m, k
<1>4. \A i \in m..n : text[i] \in Part
  BY <1>1, <1>2, <1>3
<1>5. /\ SubSeq(text, m, n) \in Seq(Part) /\ Len(SubSeq(text, m, n)) = (IF m <= n THEN n - m + 1 ELSE 0)
      /\ \A i \in 1..(n - m + 1) : SubSeq(text, m, n)[i] = text[m + i - 1]
  BY <1>3, <1>4, SubSeqProperties
<1>6. Kept(text) = SubSeq(text, m, n)
  BY DEF Kept, m, n
<1>7. \A i \in 1..k : m + i - 1 = n - k + i
  BY <1>1, <1>3
<1>8. \A i \in 1..k : Kept(text)[i] = text[n - k + i]
  BY <1>3, <1>5, <1>6, <1>7
<1> QED
  BY <1>3, <1>5, <1>6, <1>8 DEF n, k

LEMMA KeptTwice ==
    ASSUME NEW a \in Seq(Part), NEW b \in Seq(Part)
    PROVE  Kept(Kept(a) \o b) = Kept(a \o b)
<1> DEFINE n == Len(a)
           m == Len(b)
           k == KeptLen(n)
           c == Kept(a) \o b
           d == a \o b
           lc == k + m
           ld == n + m
           kc == KeptLen(lc)
           kd == KeptLen(ld)
<1>1. n \in Nat /\ m \in Nat /\ TailSize \in Nat
  BY ObservationAssumption, LenProperties
<1>2. k \in 0..n /\ Kept(a) \in Seq(Part) /\ Len(Kept(a)) = k /\ \A i \in 1..k : Kept(a)[i] = a[n - k + i]
  BY KeptEnd
<1>3. c \in Seq(Part) /\ Len(c) = k + m /\ \A i \in 1..(k + m) : c[i] = IF i <= k THEN Kept(a)[i] ELSE b[i - k]
  <2> HIDE DEF k, m
  <2>1. c \in Seq(Part) /\ Len(c) = Len(Kept(a)) + Len(b)
        /\ \A i \in 1..(Len(Kept(a)) + Len(b)) : c[i] = IF i <= Len(Kept(a)) THEN Kept(a)[i] ELSE b[i - Len(Kept(a))]
    BY <1>2, ConcatProperties
  <2> HIDE DEF c
  <2> QED
    BY <1>2, <2>1 DEF m
<1>4. d \in Seq(Part) /\ Len(d) = n + m /\ \A i \in 1..(n + m) : d[i] = IF i <= n THEN a[i] ELSE b[i - n]
  BY ConcatProperties
<1> HIDE DEF c, d, n, m, k, lc, ld
<1>5. Kept(c) \in Seq(Part) /\ Len(Kept(c)) = kc /\ \A i \in 1..kc : Kept(c)[i] = c[lc - kc + i]
  <2>1. /\ Kept(c) \in Seq(Part) /\ Len(Kept(c)) = KeptLen(Len(c))
        /\ \A i \in 1..KeptLen(Len(c)) : Kept(c)[i] = c[Len(c) - KeptLen(Len(c)) + i]
    BY <1>3, KeptEnd
  <2>2. Len(c) = lc /\ kc = KeptLen(lc) /\ lc \in Nat
    BY <1>1, <1>2, <1>3 DEF lc
  <2> HIDE DEF kc
  <2>3. KeptLen(Len(c)) = kc
    BY <2>2
  <2>4. /\ Kept(c) \in Seq(Part) /\ Len(Kept(c)) = kc
        /\ \A i \in 1..kc : Kept(c)[i] = c[lc - kc + i]
    BY <2>1, <2>2, <2>3
  <2> QED
    BY <2>4
<1>6. Kept(d) \in Seq(Part) /\ Len(Kept(d)) = kd /\ \A i \in 1..kd : Kept(d)[i] = d[ld - kd + i]
  <2>1. /\ Kept(d) \in Seq(Part) /\ Len(Kept(d)) = KeptLen(Len(d))
        /\ \A i \in 1..KeptLen(Len(d)) : Kept(d)[i] = d[Len(d) - KeptLen(Len(d)) + i]
    BY <1>4, KeptEnd
  <2>2. Len(d) = ld /\ kd = KeptLen(ld) /\ ld \in Nat
    BY <1>1, <1>2, <1>4 DEF ld
  <2> HIDE DEF kd
  <2>3. KeptLen(Len(d)) = kd
    BY <2>2
  <2>4. /\ Kept(d) \in Seq(Part) /\ Len(Kept(d)) = kd
        /\ \A i \in 1..kd : Kept(d)[i] = d[ld - kd + i]
    BY <2>1, <2>2, <2>3
  <2> QED
    BY <2>4
<1>7. kc = kd /\ kc \in Nat
  BY <1>1 DEF KeptLen, k, lc, ld
<1>8. ASSUME NEW i \in 1..kc PROVE Kept(c)[i] = Kept(d)[i]
  <2> DEFINE x == lc - kc + i
             y == ld - kd + i
  <2>1. /\ x \in 1..(k + m) /\ y \in 1..(n + m) /\ (x <= k <=> y <= n)
        /\ (x <= k => x \in 1..k /\ n - k + x = y) /\ x - k = y - n
    BY <1>1 DEF KeptLen, k, lc, ld
  <2>2. Kept(c)[i] = c[x] /\ Kept(d)[i] = d[y]
    BY <1>5, <1>6, <1>7
  <2> HIDE DEF x, y, kc, kd
  <2>3. c[x] = (IF x <= k THEN Kept(a)[x] ELSE b[x - k]) /\ d[y] = IF y <= n THEN a[y] ELSE b[y - n]
    BY <1>3, <1>4, <2>1
  <2>4. x <= k => Kept(a)[x] = a[n - k + x]
    BY <1>2, <2>1
  <2>5. CASE x <= k
    BY <2>1, <2>2, <2>3, <2>4, <2>5
  <2>6. CASE ~(x <= k)
    BY <2>1, <2>2, <2>3, <2>6
  <2> QED
    BY <2>5, <2>6
<1>9. Kept(c) = Kept(d)
  <2> HIDE DEF kc, kd
  <2> QED
    BY <1>5, <1>6, <1>7, <1>8, SeqEqual
<1> QED
  BY <1>9 DEF c, d

LEMMA BufferNothing == ASSUME NEW o \in Observations PROVE Buffer(o, <<>>) = o
<1>1. o \in Shapes /\ o.buf \in Seq(Part) /\ o.tail \in Seq(Part) /\ Len(o.buf) <= MaxLine /\ Len(o.tail) <= TailSize
  BY DEF Observations, Shapes
<1>2. o.buf \o <<>> = o.buf /\ o.tail \o <<>> = o.tail
  BY <1>1, ConcatEmptySeq
<1>3. Kept(o.tail) = o.tail
  BY <1>1, KeptAll
<1>4. Len(o.buf) + Len(<<>>) <= MaxLine
  <2>1. Len(o.buf) \in Nat /\ Len(<<>>) = 0
    BY <1>1, LenProperties
  <2> QED
    BY <1>1, <2>1
<1>5. [o EXCEPT !.tail = o.tail] = o /\ [o EXCEPT !.buf = o.buf] = o
  BY <1>1 DEF Shapes
<1> QED
  BY <1>1, <1>2, <1>3, <1>4, <1>5 DEF Buffer, Shapes

\* Bytes buffered in two goes are buffered as in one.
LEMMA BufferTwice ==
    ASSUME NEW o \in Observations, NEW a \in Seq(Part), NEW b \in Seq(Part)
    PROVE  Buffer(Buffer(o, a), b) = Buffer(o, a \o b)
<1>1. o \in Shapes /\ o.buf \in Seq(Part) /\ o.tail \in Seq(Part) /\ Len(o.buf) <= MaxLine /\ Len(o.tail) <= TailSize
  BY DEF Observations, Shapes
<1>2. /\ Len(o.buf) \in Nat /\ Len(a) \in Nat /\ Len(b) \in Nat /\ a \o b \in Seq(Part) /\ Len(a \o b) = Len(a) + Len(b)
      /\ o.buf \o a \in Seq(Part) /\ Len(o.buf \o a) = Len(o.buf) + Len(a) /\ MaxLine \in Nat
  BY <1>1, LenProperties, ConcatProperties, ObservationAssumption
<1>3. (o.buf \o a) \o b = o.buf \o (a \o b) /\ (o.tail \o a) \o b = o.tail \o (a \o b)
  <2> DEFINE u == o.buf
             v == o.tail
  <2>1. u \in Seq(Part) /\ v \in Seq(Part)
    BY <1>1
  <2> HIDE DEF u, v
  <2>2. (u \o a) \o b = u \o (a \o b)
    BY <2>1, ConcatAssociative
  <2>3. (v \o a) \o b = v \o (a \o b)
    BY <2>1, ConcatAssociative
  <2> QED
    BY <2>2, <2>3 DEF u, v
<1>4. CASE o.overflow
  <2> DEFINE p == [o EXCEPT !.tail = Kept(o.tail \o a)]
  <2>1. Buffer(o, a) = p /\ Buffer(o, a \o b) = [o EXCEPT !.tail = Kept(o.tail \o (a \o b))]
    BY <1>1, <1>4 DEF Buffer, Shapes
  <2>2. p.overflow = o.overflow /\ p.tail = Kept(o.tail \o a)
        /\ [p EXCEPT !.tail = Kept(Kept(o.tail \o a) \o b)] = [o EXCEPT !.tail = Kept(Kept(o.tail \o a) \o b)]
    BY <1>1 DEF Shapes
  <2> HIDE DEF p
  <2>3. Buffer(p, b) = [p EXCEPT !.tail = Kept(Kept(o.tail \o a) \o b)]
    BY <1>4, <2>2 DEF Buffer
  <2>4. Kept(Kept(o.tail \o a) \o b) = Kept(o.tail \o (a \o b))
    <3>1. o.tail \o a \in Seq(Part)
      BY <1>1, ConcatProperties
    <3>2. Kept(Kept(o.tail \o a) \o b) = Kept((o.tail \o a) \o b)
      BY <3>1, KeptTwice
    <3> QED
      BY <1>3, <3>2
  <2> QED
    BY <2>1, <2>2, <2>3, <2>4
<1>5. CASE ~o.overflow /\ Len(o.buf) + Len(a) <= MaxLine
  <2> DEFINE p == [o EXCEPT !.buf = o.buf \o a]
  <2>1. Buffer(o, a) = p
    BY <1>1, <1>5 DEF Buffer, Shapes
  <2>2. /\ p.overflow = o.overflow /\ p.buf = o.buf \o a
        /\ [p EXCEPT !.buf = p.buf \o b] = [o EXCEPT !.buf = o.buf \o (a \o b)]
        /\ [p EXCEPT !.tail = Kept(p.buf \o b), !.buf = <<>>, !.overflow = TRUE]
             = [o EXCEPT !.tail = Kept(o.buf \o (a \o b)), !.buf = <<>>, !.overflow = TRUE]
    BY <1>1, <1>3 DEF Shapes
  <2> HIDE DEF p
  <2>3. Len(p.buf) + Len(b) <= MaxLine <=> Len(o.buf) + Len(a \o b) <= MaxLine
    <3> DEFINE x == Len(o.buf)
               y == Len(a)
               z == Len(b)
    <3>1. x \in Nat /\ y \in Nat /\ z \in Nat /\ Len(p.buf) = x + y /\ Len(a \o b) = y + z
      BY <1>2, <2>2
    <3> HIDE DEF x, y, z
    <3>2. (x + y) + z = x + (y + z)
      BY <3>1
    <3> QED
      BY <3>1, <3>2 DEF x, z
  <2>4. Buffer(p, b) = IF Len(p.buf) + Len(b) <= MaxLine THEN [p EXCEPT !.buf = p.buf \o b]
                       ELSE [p EXCEPT !.tail = Kept(p.buf \o b), !.buf = <<>>, !.overflow = TRUE]
    <3>1. [p EXCEPT !.buf = @ \o b] = [p EXCEPT !.buf = p.buf \o b]
      BY <1>1, <2>1, BufferIs DEF Observations, Shapes
    <3> QED
      BY <1>5, <2>2, <3>1 DEF Buffer
  <2>5. Buffer(o, a \o b) = IF Len(o.buf) + Len(a \o b) <= MaxLine THEN [o EXCEPT !.buf = o.buf \o (a \o b)]
                            ELSE [o EXCEPT !.tail = Kept(o.buf \o (a \o b)), !.buf = <<>>, !.overflow = TRUE]
    BY <1>1, <1>5 DEF Buffer, Shapes
  <2> QED
    BY <2>1, <2>2, <2>3, <2>4, <2>5
<1>6. CASE ~o.overflow /\ ~(Len(o.buf) + Len(a) <= MaxLine)
  <2> DEFINE t == Kept(o.buf \o a)
             p == [o EXCEPT !.tail = t, !.buf = <<>>, !.overflow = TRUE]
  <2>1. Buffer(o, a) = p
    BY <1>1, <1>6 DEF Buffer, Shapes
  <2>2. /\ p.overflow = TRUE /\ p.tail = t
        /\ [p EXCEPT !.tail = Kept(t \o b)] = [o EXCEPT !.tail = Kept(t \o b), !.buf = <<>>, !.overflow = TRUE]
    BY <1>1 DEF Shapes
  <2>3. ~(Len(o.buf) + Len(a \o b) <= MaxLine)
    <3> DEFINE x == Len(o.buf)
               y == Len(a)
               z == Len(b)
    <3>1. x \in Nat /\ y \in Nat /\ z \in Nat /\ Len(a \o b) = y + z /\ ~(x + y <= MaxLine) /\ MaxLine \in Nat
      BY <1>2, <1>6
    <3> HIDE DEF x, y, z
    <3>2. ~(x + (y + z) <= MaxLine)
      BY <3>1
    <3> QED
      BY <3>1, <3>2 DEF x
  <2>4. Buffer(o, a \o b) = [o EXCEPT !.tail = Kept(o.buf \o (a \o b)), !.buf = <<>>, !.overflow = TRUE]
    BY <1>1, <1>6, <2>3 DEF Buffer, Shapes
  <2>5. Kept(t \o b) = Kept(o.buf \o (a \o b))
    <3>1. Kept(Kept(o.buf \o a) \o b) = Kept((o.buf \o a) \o b)
      BY <1>2, KeptTwice
    <3> QED
      BY <1>3, <3>1
  <2> HIDE DEF p, t
  <2>6. Buffer(p, b) = [p EXCEPT !.tail = Kept(t \o b)]
    BY <2>2 DEF Buffer
  <2> QED
    BY <2>1, <2>2, <2>4, <2>5, <2>6
<1> QED
  BY <1>4, <1>5, <1>6

\* An observation of lines, one after the other.
LineChain(o, W, h) ==
    /\ h \in [0..Len(W) -> Observations] /\ h[0] = o
    /\ \A n \in 1..Len(W) : h[n] = ObserveSegment(h[n - 1], W[n])

LEMMA LinesAre ==
    ASSUME NEW run \in Seq(Byte)
    PROVE  /\ Lines1(run) \in Seq(Pieces) /\ Len(Lines1(run)) \in Nat /\ RestOf(run) \in Seq(Part)
           /\ \A n \in 1..Len(Lines1(run)) : Lines1(run)[n] \in Pieces /\ Lines1(run)[n].complete = TRUE
<1> DEFINE W == Lines1(run)
           C == Cardinality(Breaks(run))
           rest == RestOf(run)
           end == IF rest = <<>> THEN <<>> ELSE <<[text |-> rest, complete |-> FALSE]>>
           all == Segments(run)
<1>1. C \in Nat /\ all = W \o end
  BY SplitIs
<1>2. all \in Seq(Pieces)
  BY SegmentsArePieces
<1>3. rest \in Seq(Byte)
  <2>1. Line1(run, C + 1) \in 1..(Len(run) + 1) /\ Len(run) \in Nat
    <3>1. C + 1 \in 1..(C + 1)
      BY <1>1
    <3> QED
      BY <3>1, SplitIs, LenProperties
  <2> DEFINE a == Line1(run, C + 1)
             z == Len(run)
  <2>2. a \in Int /\ z \in Int /\ \A i \in a..z : i \in 1..z
    <3>1. a \in 1..(z + 1) /\ z \in Nat
      BY <2>1
    <3> HIDE DEF a, z
    <3> QED
      BY <3>1
  <2>3. \A i \in a..z : run[i] \in Byte
    BY <2>2, ElementOfSeq
  <2> HIDE DEF a, z
  <2>4. SubSeq(run, a, z) \in Seq(Byte)
    BY <2>2, <2>3, SubSeqProperties
  <2> QED
    BY <2>4 DEF RestOf, a, z
<1>4. W = [n \in 1..C |-> W[n]] /\ \A n \in 1..C : W[n].complete = TRUE /\ W[n] = [text |-> Text1(run, n), complete |-> TRUE]
  BY DEF Lines1
<1>5. end \in Seq({[text |-> rest, complete |-> FALSE]})
  <2> DEFINE last == [text |-> rest, complete |-> FALSE]
  <2>1. <<last>> \in Seq({last}) /\ <<>> \in Seq({last})
    <3> HIDE DEF last
    <3> QED
      BY OneIs, EmptySeq
  <2> QED
    BY <2>1
<1> DEFINE T == {W[n] : n \in 1..C} \cup {[text |-> rest, complete |-> FALSE]}
<1>6. W \in Seq(T) /\ Len(W) = C
  <2>1. \A n \in 1..C : W[n] \in T
    OBVIOUS
  <2> HIDE DEF W, T
  <2> QED
    BY <1>1, <1>4, <2>1, ListIs
<1>7. end \in Seq(T)
  <2> HIDE DEF end, W, rest
  <2> QED
    BY <1>5, SeqMonotonic
<1>8. Len(all) = C + Len(end) /\ \A i \in 1..(C + Len(end)) : all[i] = IF i <= C THEN W[i] ELSE end[i - C]
  <2> HIDE DEF W, T, end, all, C
  <2> QED
    BY <1>1, <1>6, <1>7, ConcatProperties
<1>9. Len(end) \in Nat
  <2> HIDE DEF end, T
  <2> QED
    BY <1>7, LenProperties
<1>10. \A i \in 1..Len(all) : all[i] \in Pieces
  <2> HIDE DEF all
  <2> QED
    BY <1>2, ElementOfSeq
<1>11. \A n \in 1..C : W[n] \in Pieces
  <2> TAKE n \in 1..C
  <2> HIDE DEF W, all, end, C
  <2>1. n \in 1..(C + Len(end)) /\ n <= C
    BY <1>1, <1>9
  <2>2. all[n] = W[n]
    BY <1>8, <2>1
  <2> QED
    BY <1>8, <1>10, <2>1, <2>2
<1>12. rest \in Seq(Part)
  <2>1. CASE rest = <<>>
    BY <2>1
  <2>2. CASE rest # <<>>
    <3>1. Len(end) = 1 /\ end[1].text = rest
      BY <2>2
    <3>2. C + 1 \in 1..(C + Len(end)) /\ ~(C + 1 <= C) /\ (C + 1) - C = 1
      BY <1>1, <3>1
    <3>3. all[C + 1] = end[1]
      <4> HIDE DEF all, end, W, C
      <4>1. all[C + 1] = end[(C + 1) - C]
        BY <1>8, <3>2
      <4> QED
        BY <3>2, <4>1
    <3>4. end[1] \in Pieces
      BY <1>8, <1>10, <3>2, <3>3
    <3> QED
      BY <3>1, <3>4 DEF Pieces
  <2> QED
    BY <2>1, <2>2
<1>13. W \in Seq(Pieces)
  <2> HIDE DEF W
  <2> QED
    BY <1>1, <1>4, <1>11, ListIs
<1> QED
  BY <1>1, <1>4, <1>6, <1>11, <1>12, <1>13

LEMMA ChainsAgree ==
    ASSUME NEW o, NEW V, NEW W, NEW g, NEW h, LineChain(o, V, g), LineChain(o, W, h), Len(V) \in Nat, Len(W) \in Nat,
           Len(V) <= Len(W), \A n \in 1..Len(V) : V[n] = W[n]
    PROVE  \A n \in 0..Len(V) : g[n] = h[n]
<1> DEFINE N == Len(V)
           G == {n \in Nat : n <= N => g[n] = h[n]}
<1>1. N \in Nat /\ (\A n \in 1..N : g[n] = ObserveSegment(g[n - 1], V[n]) /\ V[n] = W[n]) /\ g[0] = h[0]
  BY DEF LineChain
<1>2. \A n \in 1..N : h[n] = ObserveSegment(h[n - 1], W[n])
  <2>1. \A n \in 1..N : n \in 1..Len(W)
    OBVIOUS
  <2> QED
    BY <2>1 DEF LineChain
<1> HIDE DEF N
<1>3. 0 \in G
  BY <1>1
<1>4. ASSUME NEW n \in Nat, n \in G PROVE n + 1 \in G
  <2> SUFFICES ASSUME n + 1 <= N PROVE g[n + 1] = h[n + 1]
    OBVIOUS
  <2>1. n + 1 \in 1..N /\ (n + 1) - 1 = n /\ n <= N
    BY <1>1
  <2>2. g[n] = h[n]
    BY <1>4, <2>1
  <2> QED
    BY <1>1, <1>2, <2>1, <2>2
<1>5. \A n \in Nat : n \in G
  <2>1. G \in SUBSET Nat
    OBVIOUS
  <2> HIDE DEF G
  <2> QED
    BY <1>3, <1>4, <2>1, Upwards
<1> QED
  BY <1>1, <1>5 DEF N

\* What a run is observed as: its whole lines, and what follows them buffered.
LEMMA ObserveLines ==
    ASSUME NEW o \in Observations, NEW run \in Seq(Byte)
    PROVE  \E h : LineChain(o, Lines1(run), h) /\ ObserveChunk(o, run) = Buffer(h[Len(Lines1(run))], RestOf(run))
<1> DEFINE all == Segments(run)
           W == Lines1(run)
           N == Len(W)
           rest == RestOf(run)
           last == [text |-> rest, complete |-> FALSE]
<1>1. W \in Seq(Pieces) /\ N \in Nat /\ rest \in Seq(Part) /\ last \in Pieces
  BY LinesAre DEF Pieces
<1>2. PICK k \in [0..Len(all) -> Observations] :
        /\ k[0] = o /\ ObserveChunk(o, run) = k[Len(all)]
        /\ \A n \in 1..Len(all) : k[n] = ObserveSegment(k[n - 1], all[n])
  BY ObserveChunkIs
<1>3. all = W \o (IF rest = <<>> THEN <<>> ELSE <<last>>)
  BY SplitIs
<1> DEFINE h == [n \in 0..N |-> k[n]]
<1>4. CASE rest = <<>>
  <2>1. all = W
    <3>1. W \o <<>> = W
      <4> HIDE DEF W
      <4> QED
        BY <1>1, ConcatEmptySeq
    <3> QED
      BY <1>3, <1>4, <3>1
  <2>2. h = k
    BY <1>2, <2>1
  <2>3. LineChain(o, W, h)
    <3> HIDE DEF W, all, h
    <3> QED
      BY <1>2, <2>1, <2>2 DEF LineChain
  <2>4. h[N] \in Observations /\ ObserveChunk(o, run) = h[N]
    <3>1. N \in 0..N
      BY <1>1
    <3> HIDE DEF W, all, h, N
    <3> QED
      BY <1>2, <2>1, <2>2, <3>1 DEF N
  <2>5. Buffer(h[N], rest) = h[N]
    <3> HIDE DEF h, N, rest
    <3> QED
      BY <1>4, <2>4, BufferNothing
  <2> QED
    BY <2>3, <2>4, <2>5
<1>5. CASE rest # <<>>
  <2>1. all = Append(W, last)
    <3>1. Append(W, last) = W \o <<last>>
      <4> HIDE DEF W, last
      <4> QED
        BY <1>1, AppendIsConcat
    <3> QED
      BY <1>3, <1>5, <3>1
  <2>2. Len(all) = N + 1 /\ (\A n \in 1..N : all[n] = W[n]) /\ all[N + 1] = last
    <3> HIDE DEF W, last, all
    <3> QED
      BY <1>1, <2>1, AppendProperties
  <2>3. h \in [0..N -> Observations] /\ \A n \in 0..N : h[n] = k[n]
    <3>1. \A n \in 0..N : n \in 0..Len(all)
      <4> HIDE DEF N, all
      <4> QED
        BY <1>1, <2>2
    <3> QED
      BY <1>2, <3>1
  <2>4. LineChain(o, W, h)
    <3>1. \A n \in 1..N : n \in 0..N /\ n - 1 \in 0..N /\ n \in 1..Len(all)
      <4> HIDE DEF N, all
      <4> QED
        BY <1>1, <2>2
    <3>2. 0 \in 0..N
      BY <1>1
    <3>3. \A n \in 1..N : h[n] = ObserveSegment(h[n - 1], W[n])
      <4> HIDE DEF h, W, N, all
      <4> QED
        BY <1>2, <2>2, <2>3, <3>1
    <3> HIDE DEF h, W
    <3> QED
      BY <1>2, <2>3, <3>2, <3>3 DEF LineChain
  <2>5. ObserveChunk(o, run) = Buffer(h[N], rest)
    <3>1. N + 1 \in 1..Len(all) /\ (N + 1) - 1 = N /\ N \in 0..N
      <4> HIDE DEF N, all
      <4> QED
        BY <1>1, <2>2
    <3>2. ObserveChunk(o, run) = ObserveSegment(h[N], last)
      <4> HIDE DEF h, W, N, all, last
      <4>1. k[N + 1] = ObserveSegment(k[(N + 1) - 1], all[N + 1])
        BY <1>2, <3>1
      <4> QED
        BY <1>2, <2>2, <2>3, <3>1, <4>1
    <3> QED
      BY <3>2 DEF ObserveSegment
  <2> QED
    BY <2>4, <2>5
<1> QED
  BY <1>4, <1>5

\* One byte more of a run.
ObserveByte(o, x) == IF x = LineBreak THEN ObserveBuffered(o) ELSE Buffer(o, <<x>>)

LEMMA ObserveOneMore ==
    ASSUME NEW o \in Observations, NEW run \in Seq(Byte), NEW x \in Byte
    PROVE  ObserveChunk(o, Append(run, x)) = ObserveByte(ObserveChunk(o, run), x)
<1> DEFINE more == Append(run, x)
           W == Lines1(run)
           V == Lines1(more)
           N == Len(W)
           rest == RestOf(run)
           last == [text |-> rest, complete |-> TRUE]
<1>1. more \in Seq(Byte)
  BY AppendProperties
<1>2. W \in Seq(Pieces) /\ N \in Nat /\ rest \in Seq(Part) /\ last \in Pieces
  BY LinesAre DEF Pieces
<1>3. V \in Seq(Pieces) /\ Len(V) \in Nat
  BY <1>1, LinesAre
<1>4. PICK h : LineChain(o, W, h) /\ ObserveChunk(o, run) = Buffer(h[N], rest)
  BY ObserveLines
<1>5. PICK k : LineChain(o, V, k) /\ ObserveChunk(o, more) = Buffer(k[Len(V)], RestOf(more))
  BY <1>1, ObserveLines
<1>6. h[N] \in Observations
  <2>1. N \in 0..N
    BY <1>2
  <2> QED
    BY <1>4, <2>1 DEF LineChain
<1>7. /\ x = LineBreak => V = Append(W, last) /\ RestOf(more) = <<>>
      /\ x # LineBreak => V = W /\ RestOf(more) = Append(rest, x)
  BY OneMoreByte
<1> HIDE DEF more, W, V, rest
<1>8. CASE x = LineBreak
  <2>1. Len(V) = N + 1 /\ (\A n \in 1..N : V[n] = W[n]) /\ V[N + 1] = last
    <3> HIDE DEF last
    <3> QED
      BY <1>2, <1>7, <1>8, AppendProperties
  <2>2. h[N] = k[N]
    <3>1. N <= Len(V) /\ N \in 0..N
      <4> HIDE DEF N
      <4> QED
        BY <1>2, <2>1
    <3>2. \A n \in 0..N : h[n] = k[n]
      <4> HIDE DEF last
      <4> QED
        BY <1>2, <1>3, <1>4, <1>5, <2>1, <3>1, ChainsAgree
    <3> QED
      BY <3>1, <3>2
  <2>3. k[N + 1] = ObserveSegment(k[N], last)
    <3>1. N + 1 \in 1..Len(V) /\ (N + 1) - 1 = N
      <4> HIDE DEF N
      <4> QED
        BY <1>2, <2>1
    <3>2. k[N + 1] = ObserveSegment(k[(N + 1) - 1], V[N + 1])
      BY <1>5, <3>1 DEF LineChain
    <3> HIDE DEF last
    <3> QED
      BY <2>1, <3>1, <3>2
  <2>4. k[N + 1] = ObserveBuffered(ObserveChunk(o, run))
    BY <1>4, <2>2, <2>3 DEF ObserveSegment
  <2>5. k[N + 1] \in Observations
    <3>1. N + 1 \in 0..Len(V)
      <4> HIDE DEF N
      <4> QED
        BY <1>2, <2>1
    <3> QED
      BY <1>5, <3>1 DEF LineChain
  <2>6. ObserveChunk(o, more) = k[N + 1]
    BY <1>5, <1>7, <1>8, <2>1, <2>5, BufferNothing
  <2> QED
    BY <1>8, <2>4, <2>6 DEF ObserveByte, more
<1>9. CASE x # LineBreak
  <2>1. x \in Part /\ <<x>> \in Seq(Part)
    <3>1. x \in Part
      BY <1>9 DEF Byte
    <3> QED
      BY <3>1, OneIs
  <2>2. h[N] = k[N]
    <3>1. N <= Len(V) /\ N \in 0..N /\ \A n \in 1..N : W[n] = V[n]
      BY <1>2, <1>7, <1>9
    <3>2. \A n \in 0..N : h[n] = k[n]
      BY <1>2, <1>3, <1>4, <1>5, <3>1, ChainsAgree
    <3> QED
      BY <3>1, <3>2
  <2>3. ObserveChunk(o, more) = Buffer(h[N], Append(rest, x))
    BY <1>5, <1>7, <1>9, <2>2
  <2>4. Append(rest, x) = rest \o <<x>>
    BY <1>2, <2>1, AppendIsConcat
  <2>5. Buffer(Buffer(h[N], rest), <<x>>) = Buffer(h[N], rest \o <<x>>)
    BY <1>2, <1>6, <2>1, BufferTwice
  <2> QED
    BY <1>4, <1>9, <2>3, <2>4, <2>5 DEF ObserveByte, more
<1> QED
  BY <1>8, <1>9

LEMMA ObserveNone == ASSUME NEW o \in Observations PROVE ObserveChunk(o, <<>>) = o
<1> DEFINE none == <<>>
<1>1. none \in Seq(Byte) /\ Len(none) = 0
  OBVIOUS
<1>2. Breaks(none) = {} /\ Cardinality(Breaks(none)) = 0
  BY FS_EmptySet DEF Breaks
<1>3. PICK h : LineChain(o, Lines1(none), h) /\ ObserveChunk(o, none) = Buffer(h[Len(Lines1(none))], RestOf(none))
  BY <1>1, ObserveLines
<1>4. RestOf(none) = <<>>
  <2>1. Line1(none, Cardinality(Breaks(none)) + 1) = 1
    BY <1>2 DEF Line1
  <2> QED
    BY <1>1, <2>1, SubSeqEmpty DEF RestOf
<1>5. Len(Lines1(none)) = 0
  <2>1. Lines1(none) = <<>>
    BY <1>2 DEF Lines1
  <2> QED
    BY <2>1
<1>6. ObserveChunk(o, none) = Buffer(o, <<>>)
  BY <1>3, <1>4, <1>5 DEF LineChain
<1> QED
  BY <1>6, BufferNothing

(* However reads cut what an upstream sends, what is observed of it is     *)
(* the same: a read that stops inside a line, or inside one too long to    *)
(* keep, leaves what the next one goes on from (proxy/sse.go:205-330).     *)
THEOREM CutsDoNotMatter ==
    ASSUME NEW o \in Observations, NEW a \in Seq(Byte), NEW b \in Seq(Byte)
    PROVE  ObserveChunk(ObserveChunk(o, a), b) = ObserveChunk(o, a \o b)
<1> DEFINE N == Len(b)
           upto(n) == SubSeq(b, 1, n)
           p == ObserveChunk(o, a)
           G == {n \in Nat : n <= N => ObserveChunk(p, upto(n)) = ObserveChunk(o, a \o upto(n))}
<1>1. N \in Nat /\ p \in Observations /\ \A i \in 1..N : b[i] \in Byte
  BY LenProperties, ElementOfSeq, ChunkIs
<1>2. ASSUME NEW n \in 0..N PROVE upto(n) \in Seq(Byte)
  <2>1. 1 \in Int /\ n \in Int /\ \A i \in 1..n : b[i] \in Byte
    BY <1>1
  <2> QED
    BY <2>1, SubSeqProperties
<1>3. upto(0) = <<>> /\ upto(N) = b
  BY SubSeqEmpty, SubSeqFull
<1> HIDE DEF N, p
<1>4. 0 \in G
  <2>1. ObserveChunk(p, <<>>) = p
    BY <1>1, ObserveNone
  <2>2. a \o <<>> = a
    BY ConcatEmptySeq
  <2> HIDE DEF upto
  <2> QED
    BY <1>3, <2>1, <2>2 DEF p
<1>5. ASSUME NEW n \in Nat, n \in G PROVE n + 1 \in G
  <2> DEFINE m == n + 1
  <2> SUFFICES ASSUME m <= N PROVE ObserveChunk(p, upto(m)) = ObserveChunk(o, a \o upto(m))
    <3> HIDE DEF upto
    <3> QED
      OBVIOUS
  <2>1. m \in 1..N /\ n \in 0..N /\ m - 1 = n /\ n <= N
    BY <1>1
  <2>2. upto(m) = upto(n) \o <<b[m]>>
    <3>1. 1 \in 1..N /\ m \in 1..N
      <4> HIDE DEF m
      <4> QED
        BY <1>1, <2>1
    <3>2. SubSeq(b, 1, m) = SubSeq(b, 1, m - 1) \o <<b[m]>>
      <4> HIDE DEF m
      <4> QED
        BY <3>1, SubSeqRecursiveSecond DEF N
    <3> QED
      BY <2>1, <3>2
  <2>3. upto(n) \in Seq(Byte) /\ b[m] \in Byte
    BY <1>1, <1>2, <2>1
  <2>4. ObserveChunk(p, upto(n)) = ObserveChunk(o, a \o upto(n))
    BY <1>5, <2>1
  <2> HIDE DEF upto, m
  <2>5. upto(m) = Append(upto(n), b[m])
    BY <2>2, <2>3, AppendIsConcat
  <2>6. a \o upto(m) = Append(a \o upto(n), b[m]) /\ a \o upto(n) \in Seq(Byte)
    <3>1. a \o upto(n) \in Seq(Byte) /\ <<b[m]>> \in Seq(Byte)
      BY <2>3, ConcatProperties, OneIs
    <3>2. (a \o upto(n)) \o <<b[m]>> = a \o (upto(n) \o <<b[m]>>)
      BY <2>3, <3>1, ConcatAssociative
    <3>3. Append(a \o upto(n), b[m]) = (a \o upto(n)) \o <<b[m]>>
      BY <2>3, <3>1, AppendIsConcat
    <3> QED
      BY <2>2, <3>1, <3>2, <3>3
  <2>7. ObserveChunk(p, Append(upto(n), b[m])) = ObserveByte(ObserveChunk(p, upto(n)), b[m])
    BY <1>1, <2>3, ObserveOneMore
  <2>8. ObserveChunk(o, Append(a \o upto(n), b[m])) = ObserveByte(ObserveChunk(o, a \o upto(n)), b[m])
    BY <2>3, <2>6, ObserveOneMore
  <2> QED
    BY <2>4, <2>5, <2>6, <2>7, <2>8
<1>6. \A n \in Nat : n \in G
  <2>1. G \in SUBSET Nat
    OBVIOUS
  <2> HIDE DEF G
  <2> QED
    BY <1>4, <1>5, <2>1, Upwards
<1>7. N <= N
  BY <1>1
<1>8. ObserveChunk(p, upto(N)) = ObserveChunk(o, a \o upto(N))
  BY <1>1, <1>6, <1>7
<1> HIDE DEF upto
<1> QED
  BY <1>3, <1>8 DEF p
-----------------------------------------------------------------------------
(* What an observation says of the lines it read.                          *)

\* A line read whole by an observer that holds nothing of another.
Clear(o) == o.buf = <<>> /\ o.overflow = FALSE /\ o.tail = <<>>
ReadLine(o, piece) == ObserveBuffered(Buffer(o, piece.text))

LEMMA SaidIs == ASSUME NEW piece \in Pieces PROVE Said(piece) \in LineFacts
<1>1. piece.text \in Seq(Part)
  BY DEF Pieces
<1>2. Parsed(piece.text) \in LineFacts
  BY <1>1, ParsedIs
<1>3. TailUsage(Kept(piece.text)) \in Usages
  BY <1>1, KeptIs, TailUsageIs
<1>4. Nothing \in LineFacts
  BY NothingIs
<1>5. [Nothing EXCEPT !.usage = TailUsage(Kept(piece.text))] \in LineFacts
  BY <1>3, <1>4 DEF LineFacts, Usages
<1> QED
  BY <1>2, <1>5 DEF Said

LEMMA NoMore == ASSUME NEW u \in Usages PROVE Merge(u, NoUsage) = u
<1>1. u \in UsageFields
  BY DEF Usages
<1>2. \A f \in DOMAIN u : NoUsage[f] = 0
  BY <1>1 DEF UsageFields, NoUsage
<1>3. u = [f \in DOMAIN u |-> u[f]]
  BY <1>1 DEF UsageFields
<1> HIDE DEF Usages
<1> QED
  BY <1>2, <1>3 DEF Merge

\* What one line adds to an observation is what it says.
LEMMA LineAdds ==
    ASSUME NEW o \in Observations, Clear(o), NEW piece \in Pieces
    PROVE  LET p == ReadLine(o, piece)
               f == Said(piece)
           IN  /\ p \in Observations /\ Clear(p)
               /\ p.usage = Merge(o.usage, f.usage)
               /\ p.final = (o.final \/ (f.usage # NoUsage /\ ~f.placeholder))
               /\ p.text = o.text + f.text
               /\ p.error = IF o.error = "none" THEN f.error ELSE o.error
               /\ piece.text = <<>> => p.seen = (o.seen \/ o.pending) /\ p.pending = FALSE /\ f.terminal = FALSE
               /\ piece.text # <<>> => p.seen = o.seen /\ p.pending = (o.pending \/ (f.terminal /\ ~o.seen))
<1> DEFINE p == ReadLine(o, piece)
           f == Said(piece)
           t == piece.text
           b == Buffer(o, t)
<1>1. o \in Shapes /\ t \in Seq(Part) /\ o.buf = <<>> /\ o.overflow = FALSE /\ o.tail = <<>>
  BY DEF Observations, Pieces, Clear
<1>2. b \in Observations
  BY <1>1, BufferIs
<1>3. p \in Observations
  BY <1>2, BufferedIs DEF ReadLine
<1>4. Len(o.buf) + Len(t) = Len(t) /\ o.buf \o t = t
  <2>1. Len(t) \in Nat /\ Len(o.buf) = 0 /\ <<>> \o t = t
    BY <1>1, LenProperties, ConcatEmptySeq
  <2> HIDE DEF t
  <2> QED
    BY <1>1, <2>1
<1>5. p = ObserveBuffered(b)
  BY DEF ReadLine
<1>6. f \in LineFacts
  BY SaidIs
<1> HIDE DEF p, b, t, f
<1>7. CASE Len(t) <= MaxLine
  <2>1. b = [o EXCEPT !.buf = t]
    <3>1. [o EXCEPT !.buf = @ \o t] = [o EXCEPT !.buf = t]
      BY <1>4
    <3> QED
      BY <1>1, <1>4, <1>7, <3>1 DEF Buffer, b
  <2>2. f = Parsed(t)
    BY <1>7 DEF f, t, Said
  <2>3. CASE t = <<>>
    <3>1. f = Nothing
      BY <2>2, <2>3 DEF Parsed
    <3>2. b = o
      BY <1>1, <2>1, <2>3 DEF Shapes
    <3>3. p = [o EXCEPT !.seen = @ \/ o.pending, !.pending = FALSE]
      BY <1>1, <1>5, <3>2 DEF ObserveBuffered, ObserveLine, ObserveBlank, Shapes
    <3>4. /\ f.usage = NoUsage /\ f.text = 0 /\ f.error = "none" /\ f.terminal = FALSE
      BY <3>1 DEF Nothing
    <3>5. o.usage \in Usages /\ o.text \in Nat /\ o.text + 0 = o.text
      BY <1>1 DEF Shapes
    <3>6. Merge(o.usage, f.usage) = o.usage
      BY <3>4, <3>5, NoMore
    <3>7. /\ p.usage = o.usage /\ p.final = o.final /\ p.text = o.text /\ p.error = o.error
          /\ p.seen = (o.seen \/ o.pending) /\ p.pending = FALSE
          /\ p.buf = o.buf /\ p.tail = o.tail /\ p.overflow = o.overflow
      BY <1>1, <3>3 DEF Shapes
    <3>8. p.final = (o.final \/ (f.usage # NoUsage /\ ~f.placeholder))
      <4>1. o.final \in BOOLEAN
        BY <1>1 DEF Shapes
      <4> QED
        BY <3>4, <3>7, <4>1
    <3>9. Clear(p) /\ p.text = o.text + f.text
      BY <1>1, <3>4, <3>5, <3>7 DEF Clear
    <3> QED
      BY <1>3, <2>3, <3>4, <3>6, <3>7, <3>8, <3>9 DEF p, f, t
  <2>4. CASE t # <<>>
    <3>1. b.buf = t /\ b.overflow = FALSE /\ b \in Shapes
      BY <1>1, <2>1 DEF Shapes
    <3>2. p = [ObserveLine(b) EXCEPT !.buf = <<>>, !.overflow = FALSE]
      BY <1>5, <3>1 DEF ObserveBuffered
    <3>3. ObserveLine(b) = [b EXCEPT !.first = @ \/ f.visible,
                       !.pending = @ \/ (f.terminal /\ ~b.seen),
                       !.id = @ \/ f.id,
                       !.usage = Merge(@, f.usage),
                       !.final = @ \/ (f.usage # NoUsage /\ ~f.placeholder),
                       !.text = @ + f.text,
                       !.error = IF @ = "none" THEN f.error ELSE @]
      BY <2>2, <2>4, <3>1 DEF ObserveLine
    <3>4. /\ b.usage = o.usage /\ b.final = o.final /\ b.text = o.text /\ b.error = o.error
          /\ b.seen = o.seen /\ b.pending = o.pending /\ b.tail = o.tail
      BY <1>1, <2>1 DEF Shapes
    <3> DEFINE m == ObserveLine(b)
    <3>5. /\ m.usage = Merge(b.usage, f.usage) /\ m.text = b.text + f.text
          /\ m.final = (b.final \/ (f.usage # NoUsage /\ ~f.placeholder))
          /\ m.error = (IF b.error = "none" THEN f.error ELSE b.error)
          /\ m.seen = b.seen /\ m.pending = (b.pending \/ (f.terminal /\ ~b.seen)) /\ m.tail = b.tail
          /\ m = [m EXCEPT !.seen = m.seen] /\ DOMAIN m = DOMAIN b
      BY <3>1, <3>3 DEF Shapes
    <3>6. DOMAIN b = {"buf", "overflow", "tail", "first", "pending", "seen", "id", "usage", "final", "error", "text"}
      BY <3>1 DEF Shapes
    <3> HIDE DEF m
    <3>7. /\ p.usage = m.usage /\ p.text = m.text /\ p.final = m.final /\ p.error = m.error
          /\ p.seen = m.seen /\ p.pending = m.pending /\ p.tail = m.tail /\ p.buf = <<>> /\ p.overflow = FALSE
      BY <3>2, <3>5, <3>6 DEF m
    <3>8. Clear(p)
      BY <1>1, <3>4, <3>5, <3>7 DEF Clear
    <3> QED
      BY <1>3, <2>4, <3>4, <3>5, <3>7, <3>8 DEF p, f, t
  <2> QED
    BY <2>3, <2>4
<1>8. CASE ~(Len(t) <= MaxLine)
  <2> DEFINE k == Kept(t)
             u == TailUsage(k)
  <2>1. b = [o EXCEPT !.tail = k, !.buf = <<>>, !.overflow = TRUE]
    <3>1. b = [o EXCEPT !.tail = Kept(o.buf \o t), !.buf = <<>>, !.overflow = TRUE]
      BY <1>1, <1>4, <1>8 DEF Buffer, b
    <3> QED
      BY <1>4, <3>1
  <2>2. f = [Nothing EXCEPT !.usage = u]
    BY <1>8 DEF f, t, Said
  <2>3. t # <<>>
    <3>1. Len(<<>>) = 0 /\ 0 <= MaxLine
      BY ObservationAssumption
    <3> QED
      BY <1>8, <3>1
  <2> HIDE DEF k, u
  <2>4. b \in Shapes /\ b.overflow = TRUE /\ b.tail = k
    BY <1>1, <1>2, <2>1 DEF Observations, Shapes
  <2>5. /\ b.usage = o.usage /\ b.final = o.final /\ b.text = o.text /\ b.error = o.error
        /\ b.seen = o.seen /\ b.pending = o.pending
    BY <1>1, <2>1 DEF Shapes
  <2>6. /\ f.usage = u /\ f.text = 0 /\ f.error = "none" /\ f.terminal = FALSE /\ f.placeholder = FALSE
    BY <2>2 DEF Nothing
  <2>7. p = [[b EXCEPT !.usage = Merge(@, u), !.final = @ \/ u # NoUsage, !.tail = <<>>]
                EXCEPT !.buf = <<>>, !.overflow = FALSE]
    BY <1>5, <2>4 DEF ObserveBuffered, ObserveOversizedTail, u
  <2>8. /\ p.usage = Merge(b.usage, u) /\ p.final = (b.final \/ u # NoUsage) /\ p.tail = <<>>
        /\ p.buf = <<>> /\ p.overflow = FALSE /\ p.text = b.text /\ p.error = b.error
        /\ p.seen = b.seen /\ p.pending = b.pending
    BY <2>4, <2>7 DEF Shapes
  <2>9. o.text \in Nat /\ o.text + 0 = o.text
    BY <1>1 DEF Shapes
  <2>10. Clear(p) /\ p.text = o.text + f.text
    BY <2>5, <2>6, <2>8, <2>9 DEF Clear
  <2>11. p.error = IF o.error = "none" THEN f.error ELSE o.error
    BY <2>5, <2>6, <2>8
  <2>12. p.final = (o.final \/ (f.usage # NoUsage /\ ~f.placeholder)) /\ p.usage = Merge(o.usage, f.usage)
    BY <2>5, <2>6, <2>8
  <2>13. p.seen = o.seen /\ p.pending = (o.pending \/ (f.terminal /\ ~o.seen))
    <3>1. o.pending \in BOOLEAN
      BY <1>1 DEF Shapes
    <3> QED
      BY <2>5, <2>6, <2>8, <3>1
  <2> QED
    BY <1>3, <2>3, <2>10, <2>11, <2>12, <2>13 DEF p, f, t
<1> QED
  BY <1>7, <1>8

\* What an observer of a run of bytes has seen, and what it says at their end.
Seen(run) == ObserveChunk(Unobserved, run)
Said1(run) == FinishObservation(Seen(run))

\* The observation of a run, line by line; a last line without its end is read too.
Reading(run, k) ==
    /\ k \in [0..Len(Segments(run)) -> Observations] /\ k[0] = Unobserved
    /\ \A n \in 0..Len(Segments(run)) : Clear(k[n])
    /\ \A n \in 1..Len(Segments(run)) : k[n] = ReadLine(k[n - 1], Segments(run)[n])

LEMMA ReadingsAre ==
    ASSUME NEW W \in Seq(Pieces), NEW h, LineChain(Unobserved, W, h), \A n \in 1..Len(W) : W[n].complete = TRUE
    PROVE  /\ \A n \in 1..Len(W) : h[n] = ReadLine(h[n - 1], W[n])
           /\ \A n \in 0..Len(W) : Clear(h[n]) /\ h[n] \in Observations
<1> DEFINE N == Len(W)
           G == {n \in Nat : n <= N => Clear(h[n])}
<1>1. N \in Nat /\ \A n \in 1..N : W[n] \in Pieces
  BY LenProperties, ElementOfSeq
<1>2. /\ \A n \in 0..N : h[n] \in Observations
      /\ h[0] = Unobserved
      /\ \A n \in 1..N : h[n] = ObserveSegment(h[n - 1], W[n])
  BY DEF LineChain
<1>3. \A n \in 1..N : h[n] = ReadLine(h[n - 1], W[n])
  BY <1>2 DEF ObserveSegment, ReadLine
<1> HIDE DEF N
<1>4. 0 \in G
  BY <1>2 DEF Clear, Unobserved
<1>5. ASSUME NEW n \in Nat, n \in G PROVE n + 1 \in G
  <2> SUFFICES ASSUME n + 1 <= N PROVE Clear(h[n + 1])
    OBVIOUS
  <2>1. n + 1 \in 1..N /\ (n + 1) - 1 = n /\ n <= N /\ n \in 0..N
    BY <1>1
  <2>2. Clear(h[n]) /\ h[n] \in Observations /\ W[n + 1] \in Pieces /\ h[n + 1] = ReadLine(h[n], W[n + 1])
    BY <1>1, <1>2, <1>3, <1>5, <2>1
  <2>3. Clear(ReadLine(h[n], W[n + 1]))
    BY <2>2, LineAdds
  <2> QED
    BY <2>2, <2>3
<1>6. \A n \in Nat : n \in G
  <2>1. G \in SUBSET Nat
    OBVIOUS
  <2> HIDE DEF G
  <2> QED
    BY <1>4, <1>5, <2>1, Upwards
<1>7. \A n \in 0..N : Clear(h[n])
  BY <1>1, <1>6
<1> QED
  BY <1>2, <1>3, <1>7 DEF N

LEMMA BlankAdds ==
    ASSUME NEW o \in Observations
    PROVE  LET p == ObserveBlank(o)
           IN  /\ p.usage = o.usage /\ p.final = o.final /\ p.text = o.text /\ p.error = o.error
               /\ p.seen = (o.seen \/ o.pending) /\ p.pending = FALSE
               /\ p.buf = o.buf /\ p.overflow = o.overflow /\ p.tail = o.tail
<1>1. o \in Shapes
  BY DEF Observations
<1> QED
  BY <1>1 DEF ObserveBlank, Shapes

LEMMA LinesRead ==
    ASSUME NEW run \in Seq(Byte)
    PROVE  /\ Segments(run) \in Seq(Pieces) /\ Len(Segments(run)) \in Nat
           /\ \A n \in 1..Len(Segments(run)) : /\ Segments(run)[n] \in Pieces
                                               /\ Segments(run)[n].text = <<>> => Segments(run)[n].complete = TRUE
           /\ \E k : /\ Reading(run, k)
                     /\ Said1(run) = ObserveBlank(k[Len(Segments(run))])
                     /\ Seen(run).seen = k[Len(Segments(run))].seen
<1> DEFINE all == Segments(run)
           W == Lines1(run)
           N == Len(W)
           rest == RestOf(run)
           last == [text |-> rest, complete |-> FALSE]
<1>1. W \in Seq(Pieces) /\ N \in Nat /\ rest \in Seq(Part) /\ last \in Pieces /\ \A n \in 1..N : W[n].complete = TRUE
  BY LinesAre DEF Pieces
<1>2. PICK h : LineChain(Unobserved, W, h) /\ Seen(run) = Buffer(h[N], rest)
  BY UnobservedIs, ObserveLines DEF Seen
<1>3. all = W \o (IF rest = <<>> THEN <<>> ELSE <<last>>) /\ all \in Seq(Pieces)
  BY SplitIs, SegmentsArePieces
<1>4. /\ \A n \in 1..N : h[n] = ReadLine(h[n - 1], W[n])
      /\ \A n \in 0..N : Clear(h[n]) /\ h[n] \in Observations
  <2> HIDE DEF W
  <2> QED
    BY <1>1, <1>2, ReadingsAre
<1>5. N \in 0..N /\ h[0] = Unobserved
  BY <1>1, <1>2 DEF LineChain
<1>6. Clear(h[N]) /\ h[N] \in Observations
  BY <1>4, <1>5
<1>7. h \in [0..N -> Observations]
  BY <1>2 DEF LineChain
<1>8. CASE rest = <<>>
  <2>1. all = W
    <3>1. W \o <<>> = W
      <4> HIDE DEF W
      <4> QED
        BY <1>1, ConcatEmptySeq
    <3> QED
      BY <1>3, <1>8, <3>1
  <2>2. Seen(run) = h[N]
    BY <1>2, <1>6, <1>8, BufferNothing
  <2>3. Said1(run) = ObserveBlank(h[N])
    BY <1>6, <2>2 DEF Said1, FinishObservation, Clear
  <2>4. Reading(run, h)
    <3> HIDE DEF all, W
    <3> QED
      BY <1>4, <1>5, <1>7, <2>1 DEF Reading, all
  <2>5. \A n \in 1..N : W[n] \in Pieces
    BY LinesAre
  <2> HIDE DEF W, last, N
  <2> QED
    BY <1>1, <1>3, <2>1, <2>2, <2>3, <2>4, <2>5 DEF N
<1>9. CASE rest # <<>>
  <2> DEFINE M == N + 1
             k == [n \in 0..M |-> IF n = M THEN ReadLine(h[N], last) ELSE h[n]]
  <2>1. all = Append(W, last)
    <3>1. Append(W, last) = W \o <<last>>
      <4> HIDE DEF W, last
      <4> QED
        BY <1>1, AppendIsConcat
    <3> QED
      BY <1>3, <1>9, <3>1
  <2>2. Len(all) = M /\ (\A n \in 1..N : all[n] = W[n]) /\ all[M] = last
    <3> HIDE DEF W, last, all
    <3> QED
      BY <1>1, <2>1, AppendProperties
  <2>3. M \in Nat /\ M \in 0..M /\ M - 1 = N /\ N # M /\ \A n \in 0..M : n = M \/ n \in 0..N
    <3> HIDE DEF N
    <3> QED
      BY <1>1
  <2>4. \A n \in 0..N : n \in 0..M /\ n # M
    <3> HIDE DEF N
    <3> QED
      BY <1>1
  <2>5. ReadLine(h[N], last) \in Observations /\ Clear(ReadLine(h[N], last)) /\ ReadLine(h[N], last).seen = h[N].seen
    <3>1. last.text # <<>>
      BY <1>9
    <3> HIDE DEF last
    <3> QED
      BY <1>1, <1>6, <3>1, LineAdds
  <2>6. k[M] = ReadLine(h[N], last) /\ \A n \in 0..N : k[n] = h[n]
    <3> HIDE DEF M, N, last
    <3> QED
      BY <2>3, <2>4
  <2>7. k \in [0..M -> Observations]
    <3>1. \A n \in 0..M : (IF n = M THEN ReadLine(h[N], last) ELSE h[n]) \in Observations
      <4> HIDE DEF M, N, last
      <4> QED
        BY <1>4, <2>3, <2>5
    <3> QED
      BY <3>1
  <2>8. \A n \in 0..M : Clear(k[n])
    <3> HIDE DEF M, N, last, k
    <3> QED
      BY <1>4, <2>3, <2>5, <2>6
  <2>9. \A n \in 1..M : k[n] = ReadLine(k[n - 1], all[n])
    <3> TAKE n \in 1..M
    <3>1. CASE n = M
      <4> HIDE DEF M, N, last, k, all
      <4> QED
        BY <1>5, <2>2, <2>3, <2>6, <3>1
    <3>2. CASE n # M
      <4>1. n \in 1..N /\ n \in 0..N /\ n - 1 \in 0..N
        <5> HIDE DEF N
        <5> QED
          BY <1>1, <3>2
      <4> HIDE DEF M, N, last, k, all, W
      <4> QED
        BY <1>4, <2>2, <2>6, <4>1
    <3> QED
      BY <3>1, <3>2
  <2>10. k[0] = Unobserved
    <3>1. 0 \in 0..N
      BY <1>1
    <3> HIDE DEF k
    <3> QED
      BY <1>5, <2>6, <3>1
  <2>11. Reading(run, k)
    <3> HIDE DEF k, M, all
    <3> QED
      BY <2>2, <2>7, <2>8, <2>9, <2>10 DEF Reading, all
  <2>12. Seen(run).overflow \/ Seen(run).buf # <<>>
    <3>1. h[N].buf = <<>> /\ h[N].overflow = FALSE /\ h[N] \in Shapes
      BY <1>6 DEF Clear, Observations
    <3>2. <<>> \o rest = rest
      BY <1>1, ConcatEmptySeq
    <3>3. Buffer(h[N], rest).buf = rest \/ Buffer(h[N], rest).overflow
      <4> DEFINE q == h[N]
      <4> HIDE DEF q, rest
      <4>1. CASE Len(q.buf) + Len(rest) <= MaxLine
        <5>1. Buffer(q, rest) = [q EXCEPT !.buf = q.buf \o rest]
          BY <3>1, <4>1 DEF Buffer, q
        <5>2. [q EXCEPT !.buf = q.buf \o rest].buf = q.buf \o rest
          BY <3>1 DEF q, Shapes
        <5> QED
          BY <3>1, <3>2, <5>1, <5>2 DEF q
      <4>2. CASE ~(Len(q.buf) + Len(rest) <= MaxLine)
        <5>1. Buffer(q, rest) = [q EXCEPT !.tail = Kept(q.buf \o rest), !.buf = <<>>, !.overflow = TRUE]
          BY <3>1, <4>2 DEF Buffer, q
        <5>2. [q EXCEPT !.tail = Kept(q.buf \o rest), !.buf = <<>>, !.overflow = TRUE].overflow = TRUE
          BY <3>1 DEF q, Shapes
        <5> QED
          BY <5>1, <5>2 DEF q
      <4> QED
        BY <4>1, <4>2 DEF q
    <3> QED
      BY <1>2, <1>9, <3>3
  <2>13. Said1(run) = ObserveBlank(k[M])
    <3>1. k[M] = ObserveBuffered(Seen(run))
      BY <1>2, <2>6 DEF ReadLine
    <3> HIDE DEF k, M
    <3> QED
      BY <2>12, <3>1 DEF Said1, FinishObservation
  <2>14. Seen(run).seen = h[N].seen
    <3>1. h[N] \in Shapes
      BY <1>6 DEF Observations
    <3> DEFINE q == h[N]
    <3> HIDE DEF q, rest
    <3>2. Buffer(q, rest).seen = q.seen
      BY <3>1 DEF Buffer, q, Shapes
    <3> QED
      BY <1>2, <3>2 DEF q
  <2>15. \A n \in 1..M : all[n] \in Pieces /\ (all[n].text = <<>> => all[n].complete = TRUE)
    <3> TAKE n \in 1..M
    <3>1. all[n] \in Pieces
      <4> HIDE DEF all, M
      <4> QED
        BY <1>3, <2>2, ElementOfSeq
    <3>2. CASE n = M
      <4>1. all[n] = last
        <5> HIDE DEF all, last, M
        <5> QED
          BY <2>2, <3>2
      <4> QED
        BY <1>9, <3>1, <4>1
    <3>3. CASE n # M
      <4>1. n \in 1..N
        <5> HIDE DEF N
        <5> QED
          BY <1>1, <3>3
      <4>2. all[n].complete = TRUE
        <5> HIDE DEF all, W, N
        <5> QED
          BY <1>1, <2>2, <4>1
      <4> QED
        BY <3>1, <4>2
    <3> QED
      BY <3>2, <3>3
  <2> HIDE DEF k, M, all, W, last
  <2>16. k[M].seen = h[N].seen
    BY <2>5, <2>6
  <2>17. Reading(run, k) /\ Said1(run) = ObserveBlank(k[Len(all)]) /\ Seen(run).seen = k[Len(all)].seen
    BY <2>2, <2>11, <2>13, <2>14, <2>16
  <2>18. Len(all) \in Nat /\ \A n \in 1..Len(all) : all[n] \in Pieces /\ (all[n].text = <<>> => all[n].complete = TRUE)
    BY <2>2, <2>3, <2>15
  <2> QED
    BY <1>3, <2>17, <2>18 DEF all
<1> QED
  BY <1>8, <1>9

(* What the lines read so far say, taken together.                         *)
Given(facts, n, f) == {i \in 1..n : facts[i].usage[f] # 0}
Latest(facts, n) ==
    [f \in DOMAIN NoUsage |-> IF Given(facts, n, f) = {} THEN 0 ELSE facts[Max(Given(facts, n, f))].usage[f]]
Faulty(facts, n) == {i \in 1..n : facts[i].error # "none"}
FirstError(facts, n) == IF Faulty(facts, n) = {} THEN "none" ELSE facts[Min(Faulty(facts, n))].error

LEMMA LatestNext ==
    ASSUME NEW n \in Nat, NEW facts
    PROVE  Latest(facts, n + 1) = Merge(Latest(facts, n), facts[n + 1].usage)
<1> DEFINE m == n + 1
           u == facts[m].usage
           L == Latest(facts, n)
           K(f) == Given(facts, m, f)
           J(f) == Given(facts, n, f)
<1>1. m \in 1..m /\ m \in Nat /\ (\A i \in 1..m : i = m \/ i \in 1..n) /\ (\A i \in 1..n : i \in 1..m /\ i # m)
  OBVIOUS
<1>2. Merge(L, u) = [f \in DOMAIN NoUsage |-> IF u[f] = 0 THEN L[f] ELSE u[f]]
  BY DEF Merge, Latest
<1>3. \A f \in DOMAIN NoUsage : L[f] = IF J(f) = {} THEN 0 ELSE facts[Max(J(f))].usage[f]
  BY DEF Latest
<1> HIDE DEF m, L
<1>4. ASSUME NEW f \in DOMAIN NoUsage
      PROVE  (IF K(f) = {} THEN 0 ELSE facts[Max(K(f))].usage[f]) = IF u[f] = 0 THEN L[f] ELSE u[f]
  <2>1. CASE u[f] = 0
    <3>1. K(f) = J(f)
      BY <1>1, <2>1 DEF Given
    <3> QED
      BY <1>3, <2>1, <3>1
  <2>2. CASE u[f] # 0
    <3>1. m \in K(f) /\ K(f) \in SUBSET (1..m)
      BY <1>1, <2>2 DEF Given
    <3> HIDE DEF K
    <3>2. Max(K(f)) \in K(f) /\ Max(K(f)) >= m
      BY <1>1, <3>1, MaxIs
    <3>3. Max(K(f)) \in 1..m
      BY <3>1, <3>2
    <3>4. Max(K(f)) = m
      BY <1>1, <3>2, <3>3
    <3> QED
      BY <2>2, <3>1, <3>4
  <2> QED
    BY <2>1, <2>2
<1>5. Latest(facts, m) = [f \in DOMAIN NoUsage |-> IF K(f) = {} THEN 0 ELSE facts[Max(K(f))].usage[f]]
  BY DEF Latest
<1> HIDE DEF K, u
<1>6. Latest(facts, m) = Merge(L, u)
  BY <1>2, <1>4, <1>5
<1> QED
  BY <1>6 DEF m, u, L

LEMMA MinIs ==
    ASSUME NEW s \in SUBSET Nat, s # {}
    PROVE  Min(s) \in s /\ (\A y \in s : Min(s) <= y)
<1>1. PICK x \in s : \A y \in s : x <= y
  BY LeastOf
<1> QED
  BY <1>1 DEF Min

LEMMA FirstErrorNext ==
    ASSUME NEW n \in Nat, NEW facts
    PROVE  FirstError(facts, n + 1) = IF FirstError(facts, n) = "none" THEN facts[n + 1].error ELSE FirstError(facts, n)
<1> DEFINE m == n + 1
           K == Faulty(facts, m)
           J == Faulty(facts, n)
           e == facts[m].error
<1>1. m \in 1..m /\ m \in Nat /\ (\A i \in 1..m : i = m \/ i \in 1..n) /\ (\A i \in 1..n : i \in 1..m /\ i # m /\ i < m /\ i \in Nat)
  OBVIOUS
<1>2. K = {i \in 1..m : facts[i].error # "none"} /\ J = {i \in 1..n : facts[i].error # "none"}
  BY DEF Faulty
<1> HIDE DEF m
<1>3. (e = "none" => K = J) /\ (e # "none" => K = J \cup {m})
  BY <1>1, <1>2
<1>4. J \in SUBSET Nat /\ K \in SUBSET Nat /\ \A i \in J : i < m /\ facts[i].error # "none"
  BY <1>1, <1>2
<1>5. /\ FirstError(facts, m) = IF K = {} THEN "none" ELSE facts[Min(K)].error
      /\ FirstError(facts, n) = IF J = {} THEN "none" ELSE facts[Min(J)].error
  BY DEF FirstError
<1> HIDE DEF K, J, e
<1>6. CASE J = {}
  <2>1. CASE e = "none"
    BY <1>3, <1>5, <1>6, <2>1 DEF e, m
  <2>2. CASE e # "none"
    <3>1. K = {m}
      BY <1>3, <1>6, <2>2
    <3>2. Min(K) \in K
      BY <1>4, <3>1, MinIs
    <3>3. Min(K) = m
      BY <3>1, <3>2
    <3> QED
      BY <1>5, <1>6, <3>1, <3>3 DEF m
  <2> QED
    BY <2>1, <2>2
<1>7. CASE J # {}
  <2>1. Min(J) \in J /\ \A y \in J : Min(J) <= y
    BY <1>4, <1>7, MinIs
  <2>2. FirstError(facts, n) # "none"
    BY <1>4, <1>5, <1>7, <2>1
  <2>3. CASE e = "none"
    BY <1>3, <1>5, <2>2, <2>3 DEF m
  <2>4. CASE e # "none"
    <3>1. K = J \cup {m} /\ K # {}
      BY <1>3, <2>4
    <3>2. Min(K) \in K /\ \A y \in K : Min(K) <= y
      BY <1>4, <3>1, MinIs
    <3>3. Min(K) = Min(J)
      <4>1. Min(J) \in Nat /\ Min(K) \in Nat /\ Min(J) < m /\ Min(K) <= Min(J)
        BY <1>4, <2>1, <3>1, <3>2
      <4>2. Min(K) # m
        BY <1>1, <4>1
      <4>3. Min(K) \in J
        BY <3>1, <3>2, <4>2
      <4>4. Min(J) <= Min(K)
        BY <2>1, <4>3
      <4> QED
        BY <4>1, <4>4
    <3> QED
      BY <1>5, <1>7, <2>2, <3>1, <3>3 DEF m
  <2> QED
    BY <2>3, <2>4
<1> QED
  BY <1>6, <1>7 DEF m

\* What an observation tells is what the lines it read said.
Told(run, n, o) ==
    /\ o.usage = Latest(Facts(run), n)
    /\ o.final <=> \E i \in 1..n : Facts(run)[i].usage # NoUsage /\ ~Facts(run)[i].placeholder
    /\ o.error = FirstError(Facts(run), n)
    /\ o.seen <=> \E i, j \in 1..n : i < j /\ Facts(run)[i].terminal /\ Segments(run)[j].text = <<>>
    /\ o.seen \/ o.pending <=> \E i \in 1..n : Facts(run)[i].terminal

LEMMA NothingTold == ASSUME NEW run PROVE Told(run, 0, Unobserved)
<1>1. 1..0 = {}
  OBVIOUS
<1>2. Latest(Facts(run), 0) = NoUsage
  <2>1. \A f : Given(Facts(run), 0, f) = {}
    BY <1>1 DEF Given
  <2>2. Latest(Facts(run), 0) = [f \in DOMAIN NoUsage |-> 0]
    BY <2>1 DEF Latest
  <2>3. [f \in DOMAIN NoUsage |-> 0] = NoUsage
    BY DEF NoUsage
  <2> QED
    BY <2>2, <2>3
<1>3. FirstError(Facts(run), 0) = "none"
  BY <1>1 DEF FirstError, Faulty
<1> QED
  BY <1>1, <1>2, <1>3 DEF Told, Unobserved

LEMMA LineTold ==
    ASSUME NEW run \in Seq(Byte), NEW n \in Nat, n + 1 <= Len(Segments(run)),
           NEW o \in Observations, Clear(o), Told(run, n, o)
    PROVE  Told(run, n + 1, ReadLine(o, Segments(run)[n + 1]))
<1> DEFINE m == n + 1
           piece == Segments(run)[m]
           facts == Facts(run)
           f == facts[m]
           p == ReadLine(o, piece)
           N == Len(Segments(run))
           all == Segments(run)
<1>1. N \in Nat /\ DOMAIN Segments(run) = 1..N /\ \A i \in 1..N : Segments(run)[i] \in Pieces
  BY LinesRead, LenProperties
<1>2. m \in 1..N /\ m \in 1..m /\ m \in Nat /\ (\A i \in 1..m : i = m \/ i \in 1..n)
      /\ (\A i \in 1..n : i \in 1..m /\ i < m) /\ \A i \in 1..m : ~(m < i)
  <2> HIDE DEF N
  <2> QED
    BY <1>1 DEF N
<1>3. f = Said(piece) /\ piece \in Pieces /\ f \in LineFacts
  <2>1. f = Said(piece)
    <3> HIDE DEF m, N
    <3> QED
      BY <1>1, <1>2 DEF Facts
  <2>2. piece \in Pieces
    <3> HIDE DEF m, N
    <3> QED
      BY <1>1, <1>2
  <2> QED
    BY <2>1, <2>2, SaidIs
<1>4. Latest(facts, m) = Merge(Latest(facts, n), f.usage)
  <2> HIDE DEF facts
  <2> QED
    BY LatestNext
<1>5. FirstError(facts, m) = IF FirstError(facts, n) = "none" THEN f.error ELSE FirstError(facts, n)
  <2> HIDE DEF facts
  <2> QED
    BY FirstErrorNext
<1> HIDE DEF m, piece, f, N, p
<1>6. /\ p.usage = Merge(o.usage, f.usage)
      /\ p.final = (o.final \/ (f.usage # NoUsage /\ ~f.placeholder))
      /\ p.error = IF o.error = "none" THEN f.error ELSE o.error
      /\ piece.text = <<>> => p.seen = (o.seen \/ o.pending) /\ p.pending = FALSE /\ f.terminal = FALSE
      /\ piece.text # <<>> => p.seen = o.seen /\ p.pending = (o.pending \/ (f.terminal /\ ~o.seen))
  <2>1. LET q == ReadLine(o, piece)
            g == Said(piece)
        IN  /\ q \in Observations /\ Clear(q)
            /\ q.usage = Merge(o.usage, g.usage)
            /\ q.final = (o.final \/ (g.usage # NoUsage /\ ~g.placeholder))
            /\ q.text = o.text + g.text
            /\ q.error = IF o.error = "none" THEN g.error ELSE o.error
            /\ piece.text = <<>> => q.seen = (o.seen \/ o.pending) /\ q.pending = FALSE /\ g.terminal = FALSE
            /\ piece.text # <<>> => q.seen = o.seen /\ q.pending = (o.pending \/ (g.terminal /\ ~o.seen))
    BY <1>3, LineAdds
  <2>2. p = ReadLine(o, piece)
    BY DEF p
  <2> QED
    BY <1>3, <2>1, <2>2
<1>7. /\ o.usage = Latest(facts, n)
      /\ o.final <=> \E i \in 1..n : facts[i].usage # NoUsage /\ ~facts[i].placeholder
      /\ o.error = FirstError(facts, n)
      /\ o.seen <=> \E i, j \in 1..n : i < j /\ facts[i].terminal /\ all[j].text = <<>>
      /\ o.seen \/ o.pending <=> \E i \in 1..n : facts[i].terminal
  BY DEF Told
<1>8. f = facts[m] /\ piece = all[m]
  BY DEF f, piece
<1>9. o.final \in BOOLEAN /\ o.seen \in BOOLEAN /\ o.pending \in BOOLEAN /\ f.terminal \in BOOLEAN /\ f.placeholder \in BOOLEAN
  BY <1>3 DEF Observations, Shapes, LineFacts
<1> HIDE DEF facts, all
<1>10. p.usage = Latest(facts, m)
  BY <1>4, <1>6, <1>7
<1>11. p.error = FirstError(facts, m)
  BY <1>5, <1>6, <1>7
<1>12. p.final <=> \E i \in 1..m : facts[i].usage # NoUsage /\ ~facts[i].placeholder
  BY <1>2, <1>6, <1>7, <1>8
<1>13. p.seen \/ p.pending <=> \E i \in 1..m : facts[i].terminal
  <2>1. p.seen \/ p.pending <=> (o.seen \/ o.pending \/ f.terminal)
    BY <1>6, <1>9
  <2> QED
    BY <1>2, <1>7, <1>8, <2>1
<1>14. p.seen <=> \E i, j \in 1..m : i < j /\ facts[i].terminal /\ all[j].text = <<>>
  <2>1. CASE piece.text = <<>>
    <3>1. p.seen <=> \E i \in 1..n : facts[i].terminal
      BY <1>6, <1>7, <2>1
    <3>2. ASSUME NEW i \in 1..n, facts[i].terminal PROVE \E h, j \in 1..m : h < j /\ facts[h].terminal /\ all[j].text = <<>>
      BY <1>2, <1>8, <2>1, <3>2
    <3>3. ASSUME NEW i \in 1..m, NEW j \in 1..m, i < j, facts[i].terminal PROVE \E h \in 1..n : facts[h].terminal
      <4>1. i # m
        BY <1>2, <3>3
      <4> QED
        BY <1>2, <3>3, <4>1
    <3> QED
      BY <3>1, <3>2, <3>3
  <2>2. CASE piece.text # <<>>
    <3>1. p.seen = o.seen
      BY <1>6, <2>2
    <3>2. ASSUME NEW i \in 1..m, NEW j \in 1..m, i < j, facts[i].terminal, all[j].text = <<>>
          PROVE  \E h, k \in 1..n : h < k /\ facts[h].terminal /\ all[k].text = <<>>
      <4>1. j # m
        BY <1>8, <2>2, <3>2
      <4>2. j \in 1..n
        BY <1>2, <4>1
      <4>3. i # m
        BY <1>2, <3>2
      <4>4. i \in 1..n
        BY <1>2, <4>3
      <4> QED
        BY <3>2, <4>2, <4>4
    <3>3. ASSUME NEW i \in 1..n, NEW j \in 1..n, i < j, facts[i].terminal, all[j].text = <<>>
          PROVE  \E h, k \in 1..m : h < k /\ facts[h].terminal /\ all[k].text = <<>>
      BY <1>2, <3>3
    <3> QED
      BY <1>7, <3>1, <3>2, <3>3
  <2> QED
    BY <2>1, <2>2
<1> QED
  BY <1>10, <1>11, <1>12, <1>13, <1>14 DEF Told, p, piece, facts, all, m

LEMMA SumIs == ASSUME NEW sum \in Nat, NEW line \in LineFacts PROVE AddText(sum, line) \in Nat
  BY DEF AddText, LineFacts

LEMMA TextIs ==
    ASSUME NEW run \in Seq(Byte)
    PROVE  \E h \in [0..Len(Segments(run)) -> Nat] :
             /\ h[0] = 0 /\ TextOf(run) = h[Len(Segments(run))]
             /\ \A n \in 1..Len(Segments(run)) : h[n] = h[n - 1] + Facts(run)[n].text
<1> DEFINE seq == Facts(run)
           N == Len(Segments(run))
           Eq(g) == g = [s \in SUBSET DOMAIN seq |->
                           IF s = {} THEN 0 ELSE AddText(g[s \ {Max(s)}], seq[Max(s)])]
           step == [x \in Nat \X LineFacts |-> AddText(x[1], x[2])]
<1>1. seq \in Seq(LineFacts) /\ N \in Nat /\ DOMAIN seq = 1..N /\ \A i \in 1..N : seq[i] \in LineFacts
  <2>1. N \in Nat /\ DOMAIN Segments(run) = 1..N /\ \A i \in 1..N : Segments(run)[i] \in Pieces
    BY LinesRead, LenProperties
  <2>2. seq = [i \in 1..N |-> Said(Segments(run)[i])]
    BY <2>1 DEF Facts
  <2>3. \A i \in 1..N : seq[i] \in LineFacts
    BY <2>1, <2>2, SaidIs
  <2> HIDE DEF N
  <2>4. seq = [i \in 1..N |-> seq[i]] /\ DOMAIN seq = 1..N
    BY <2>2
  <2> HIDE DEF seq
  <2> QED
    BY <2>1, <2>3, <2>4, ListIs
<1>2. TextOf(run) = (CHOOSE g : Eq(g))[DOMAIN seq]
  BY DEF TextOf, FoldLeft, MapThenFoldSet
<1> HIDE DEF seq, N
<1>3. step \in [Nat \X LineFacts -> Nat]
  BY SumIs
<1>4. \A p \in Nat, d \in LineFacts : step[<<p, d>>] = AddText(p, d)
  OBVIOUS
<1> HIDE DEF step
<1>5. PICK f \in [SUBSET DOMAIN seq -> Nat] : Steps(step, 0, seq, f)
  BY <1>1, <1>3, StepsExist
<1>6. ASSUME NEW s \in SUBSET DOMAIN seq, s # {}
      PROVE  Max(s) \in 1..N /\ s \ {Max(s)} \in SUBSET DOMAIN seq
  <2>1. s \in SUBSET (1..N)
    BY <1>1
  <2>2. Max(s) \in s
    BY <1>1, <1>6, <2>1, MaxIs
  <2> QED
    BY <2>1, <2>2
<1>7. Eq(f)
  <2>1. f = [s \in SUBSET DOMAIN seq |-> IF s = {} THEN 0 ELSE step[<<f[s \ {Max(s)}], seq[Max(s)]>>]]
    BY <1>5 DEF Steps
  <2>2. ASSUME NEW s \in SUBSET DOMAIN seq
        PROVE  f[s] = IF s = {} THEN 0 ELSE AddText(f[s \ {Max(s)}], seq[Max(s)])
    <3>1. f[s] = IF s = {} THEN 0 ELSE step[<<f[s \ {Max(s)}], seq[Max(s)]>>]
      BY <2>1
    <3>2. CASE s = {}
      BY <3>1, <3>2
    <3>3. CASE s # {}
      <4>1. f[s \ {Max(s)}] \in Nat /\ seq[Max(s)] \in LineFacts
        BY <1>1, <1>6, <3>3
      <4>2. step[<<f[s \ {Max(s)}], seq[Max(s)]>>] = AddText(f[s \ {Max(s)}], seq[Max(s)])
        BY <1>4, <4>1
      <4> QED
        BY <3>1, <3>3, <4>2
    <3> QED
      BY <3>2, <3>3
  <2>3. f = [s \in SUBSET DOMAIN seq |-> f[s]]
    OBVIOUS
  <2> QED
    BY <2>2, <2>3
<1> DEFINE g == CHOOSE e : Eq(e)
<1>8. Eq(g)
  <2> HIDE DEF Eq
  <2> QED
    BY <1>7
<1>9. ASSUME NEW s \in SUBSET DOMAIN seq
      PROVE  g[s] = IF s = {} THEN 0 ELSE AddText(g[s \ {Max(s)}], seq[Max(s)])
  <2> HIDE DEF g
  <2>1. g = [t \in SUBSET DOMAIN seq |-> IF t = {} THEN 0 ELSE AddText(g[t \ {Max(t)}], seq[Max(t)])]
    BY <1>8
  <2> QED
    BY <2>1
<1>10. TextOf(run) = g[DOMAIN seq]
  BY <1>2
<1> HIDE DEF g, Eq
<1> DEFINE h == [n \in 0..N |-> g[1..n]]
<1>11. ASSUME NEW n \in 1..N PROVE g[1..n] = AddText(g[1..(n - 1)], seq[n])
  <2>0. n \in Nat /\ n \in 1..n /\ \A i \in 1..n : i \in 1..N
    BY <1>1
  <2>1. 1..n \in SUBSET DOMAIN seq /\ 1..n # {} /\ n \in Nat /\ 1..n \in SUBSET (1..n) /\ n \in 1..n
    BY <1>1, <2>0
  <2>2. Max(1..n) \in 1..n /\ Max(1..n) >= n
    BY <2>1, MaxIs
  <2>3. Max(1..n) = n
    BY <2>1, <2>2
  <2>4. (1..n) \ {n} = 1..(n - 1)
    BY <2>1
  <2> QED
    BY <1>9, <2>1, <2>3, <2>4
<1>12. g[1..0] = 0
  <2>1. 1..0 = {} /\ {} \in SUBSET DOMAIN seq
    OBVIOUS
  <2> QED
    BY <1>9, <2>1
<1>13. \A n \in 0..N : g[1..n] \in Nat
  <2> DEFINE G == {n \in Nat : n <= N => g[1..n] \in Nat}
  <2>1. 0 \in G
    BY <1>12
  <2>2. ASSUME NEW n \in Nat, n \in G PROVE n + 1 \in G
    <3> SUFFICES ASSUME n + 1 <= N PROVE g[1..(n + 1)] \in Nat
      OBVIOUS
    <3>1. n + 1 \in 1..N /\ (n + 1) - 1 = n /\ n <= N
      BY <1>1
    <3>2. g[1..n] \in Nat /\ seq[n + 1] \in LineFacts
      BY <1>1, <2>2, <3>1
    <3> QED
      BY <1>11, <3>1, <3>2, SumIs
  <2>3. G \in SUBSET Nat
    OBVIOUS
  <2>4. \A n \in Nat : n \in G
    <3> HIDE DEF G
    <3> QED
      BY <2>1, <2>2, <2>3, Upwards
  <2> QED
    BY <1>1, <2>4
<1>14. h \in [0..N -> Nat]
  BY <1>13
<1>15. h[0] = 0 /\ h[N] = TextOf(run)
  BY <1>1, <1>10, <1>12
<1>16. \A n \in 1..N : h[n] = AddText(h[n - 1], seq[n])
  <2> TAKE n \in 1..N
  <2>1. n \in 0..N /\ n - 1 \in 0..N
    BY <1>1
  <2> QED
    BY <1>11, <2>1
<1> HIDE DEF h
<1> QED
  BY <1>14, <1>15, <1>16 DEF seq, N, AddText

LEMMA ToldInAll ==
    ASSUME NEW run \in Seq(Byte), NEW k, Reading(run, k)
    PROVE  Told(run, Len(Segments(run)), k[Len(Segments(run))]) /\ k[Len(Segments(run))].text = TextOf(run)
<1> DEFINE all == Segments(run)
           N == Len(all)
<1>1. N \in Nat /\ \A n \in 1..N : all[n] \in Pieces
  BY LinesRead
<1>2. /\ k[0] = Unobserved
      /\ \A n \in 0..N : Clear(k[n]) /\ k[n] \in Observations
      /\ \A n \in 1..N : k[n] = ReadLine(k[n - 1], all[n])
  BY DEF Reading
<1>3. PICK h \in [0..N -> Nat] : /\ h[0] = 0 /\ TextOf(run) = h[N]
                                 /\ \A n \in 1..N : h[n] = h[n - 1] + Facts(run)[n].text
  BY TextIs
<1> DEFINE G == {n \in Nat : n <= N => Told(run, n, k[n]) /\ k[n].text = h[n]}
<1>4. 0 \in G
  <2>1. Told(run, 0, k[0])
    BY <1>2, NothingTold
  <2>2. k[0].text = 0
    BY <1>2 DEF Unobserved
  <2> QED
    BY <1>3, <2>1, <2>2
<1>5. ASSUME NEW n \in Nat, n \in G PROVE n + 1 \in G
  <2> DEFINE m == n + 1
  <2> SUFFICES ASSUME m <= N PROVE Told(run, m, k[m]) /\ k[m].text = h[m]
    OBVIOUS
  <2> HIDE DEF N, all
  <2>1. m \in 1..N /\ m - 1 = n /\ n <= N /\ n \in 0..N
    BY <1>1
  <2>2. Told(run, n, k[n]) /\ k[n].text = h[n] /\ Clear(k[n]) /\ k[n] \in Observations /\ all[m] \in Pieces
        /\ k[m] = ReadLine(k[n], all[m])
    <3>1. k[m] = ReadLine(k[m - 1], all[m]) /\ all[m] \in Pieces
      BY <1>1, <1>2, <2>1
    <3> HIDE DEF m
    <3> QED
      BY <1>2, <1>5, <2>1, <3>1
  <2>3. Told(run, m, k[m])
    <3>1. n + 1 <= Len(Segments(run))
      BY DEF N, all
    <3>2. Told(run, n + 1, ReadLine(k[n], Segments(run)[n + 1]))
      BY <2>2, <3>1, LineTold
    <3> QED
      BY <2>2, <3>2 DEF all
  <2>4. k[m].text = k[n].text + Said(all[m]).text
    <3>1. LET p == ReadLine(k[n], all[m])
              f == Said(all[m])
          IN  /\ p \in Observations /\ Clear(p)
              /\ p.usage = Merge(k[n].usage, f.usage)
              /\ p.final = (k[n].final \/ (f.usage # NoUsage /\ ~f.placeholder))
              /\ p.text = k[n].text + f.text
              /\ p.error = IF k[n].error = "none" THEN f.error ELSE k[n].error
              /\ all[m].text = <<>> => p.seen = (k[n].seen \/ k[n].pending) /\ p.pending = FALSE /\ f.terminal = FALSE
              /\ all[m].text # <<>> => p.seen = k[n].seen /\ p.pending = (k[n].pending \/ (f.terminal /\ ~k[n].seen))
      <4> HIDE DEF m
      <4> QED
        BY <2>2, LineAdds
    <3> HIDE DEF m
    <3> QED
      BY <2>2, <3>1
  <2>5. Facts(run)[m] = Said(all[m])
    <3>1. DOMAIN all = 1..N
      BY LinesRead, LenProperties DEF N, all
    <3> HIDE DEF m
    <3> QED
      BY <2>1, <3>1 DEF Facts, all
  <2>6. h[m] = h[n] + Facts(run)[m].text
    <3>1. h[m] = h[m - 1] + Facts(run)[m].text
      <4> HIDE DEF m
      <4> QED
        BY <1>3, <2>1
    <3> QED
      BY <2>1, <3>1
  <2> HIDE DEF m
  <2> QED
    BY <2>2, <2>3, <2>4, <2>5, <2>6
<1>6. \A n \in Nat : n \in G
  <2>1. G \in SUBSET Nat
    OBVIOUS
  <2> HIDE DEF G
  <2> QED
    BY <1>4, <1>5, <2>1, Upwards
<1>7. N <= N
  BY <1>1
<1> QED
  BY <1>1, <1>3, <1>6, <1>7

(* What an observation holds at the end of what was read is what the lines *)
(* of it said: each count as the last line that gave it has it, the first  *)
(* error, the text of all, and whether a terminal event came and closed    *)
(* (proxy/sse.go:205-330, 690-710).                                        *)
THEOREM ObservedIsSaid ==
    ASSUME NEW run \in Seq(Byte)
    PROVE  LET said == Said1(run)
           IN  /\ Counts(said.usage) = Reported(run) /\ (said.final <=> FinalReported(run))
               /\ said.text = TextOf(run) /\ said.error = ErrorOf(run)
               /\ (Seen(run).seen <=> EndedInFull(run)) /\ (said.seen <=> Ended(run))
               /\ FinishObservation(said) = said
<1> DEFINE all == Segments(run)
           N == Len(all)
           facts == Facts(run)
           said == Said1(run)
<1>1. N \in Nat /\ DOMAIN all = 1..N /\ \A n \in 1..N : all[n] \in Pieces /\ (all[n].text = <<>> => all[n].complete = TRUE)
  BY LinesRead, LenProperties
<1>2. PICK k : Reading(run, k) /\ said = ObserveBlank(k[N]) /\ Seen(run).seen = k[N].seen
  BY LinesRead
<1> DEFINE p == k[N]
<1>3. Told(run, N, p) /\ p.text = TextOf(run)
  BY <1>2, ToldInAll
<1>4. Clear(p) /\ p \in Observations
  <2>1. N \in 0..N
    BY <1>1
  <2> QED
    BY <1>2, <2>1 DEF Reading
<1>5. DOMAIN facts = 1..N
  <2> HIDE DEF N
  <2> QED
    BY <1>1 DEF Facts
<1> HIDE DEF p, N
<1>6. /\ p.usage = Latest(facts, N)
      /\ p.final <=> \E i \in 1..N : facts[i].usage # NoUsage /\ ~facts[i].placeholder
      /\ p.error = FirstError(facts, N)
      /\ p.seen <=> \E i, j \in 1..N : i < j /\ facts[i].terminal /\ all[j].text = <<>>
      /\ p.seen \/ p.pending <=> \E i \in 1..N : facts[i].terminal
  BY <1>3 DEF Told
<1>7. /\ said.usage = p.usage /\ said.final = p.final /\ said.text = p.text /\ said.error = p.error
      /\ said.seen = (p.seen \/ p.pending) /\ said.pending = FALSE
      /\ said.buf = p.buf /\ said.overflow = p.overflow /\ said.tail = p.tail
  <2>1. LET q == ObserveBlank(p)
        IN  /\ q.usage = p.usage /\ q.final = p.final /\ q.text = p.text /\ q.error = p.error
            /\ q.seen = (p.seen \/ p.pending) /\ q.pending = FALSE
            /\ q.buf = p.buf /\ q.overflow = p.overflow /\ q.tail = p.tail
    BY <1>4, BlankAdds
  <2>2. said = ObserveBlank(p)
    BY <1>2 DEF p
  <2> HIDE DEF said
  <2> QED
    BY <2>1, <2>2
<1>8. Reported(run) = Counts(Latest(facts, N))
  <2> DEFINE given(f) == {i \in DOMAIN facts : facts[i].usage[f] # 0}
             L == [f \in DOMAIN NoUsage |-> IF given(f) = {} THEN 0 ELSE facts[Max(given(f))].usage[f]]
  <2>1. Reported(run) = Counts(L)
    BY DEF Reported
  <2>2. \A f \in DOMAIN NoUsage : given(f) = Given(facts, N, f)
    BY <1>5 DEF Given
  <2> HIDE DEF given
  <2>3. L = Latest(facts, N)
    BY <2>2 DEF Latest
  <2> QED
    BY <2>1, <2>3
<1>9. ErrorOf(run) = FirstError(facts, N)
  BY <1>5 DEF ErrorOf, FirstError, Faulty
<1>10. FinalReported(run) <=> \E i \in 1..N : facts[i].usage # NoUsage /\ ~facts[i].placeholder
  BY <1>5 DEF FinalReported
<1>11. Ended(run) <=> \E i \in 1..N : facts[i].terminal
  BY <1>5 DEF Ended
<1>12. EndedInFull(run) <=> \E i, j \in 1..N : i < j /\ facts[i].terminal /\ all[j].text = <<>>
  <2> DEFINE blank == [text |-> <<>>, complete |-> TRUE]
  <2>1. EndedInFull(run) <=> \E i, j \in 1..N : i < j /\ facts[i].terminal /\ all[j] = blank
    BY <1>1 DEF EndedInFull
  <2>2. \A j \in 1..N : all[j].text = <<>> <=> all[j] = blank
    <3> TAKE j \in 1..N
    <3>1. all[j] \in Pieces /\ (all[j].text = <<>> => all[j].complete = TRUE)
      BY <1>1
    <3> HIDE DEF all
    <3>2. all[j].text = <<>> => all[j] = blank
      BY <3>1 DEF Pieces
    <3> QED
      BY <3>2
  <2> HIDE DEF blank, all, facts
  <2> QED
    BY <2>1, <2>2
<1>13. said \in Observations
  <2>1. ObserveBlank(p) \in Observations /\ said = ObserveBlank(p)
    BY <1>2, <1>4, BlankIs DEF p
  <2> QED
    BY <2>1
<1> HIDE DEF said
<1>14. FinishObservation(said) = said
  <2>1. said.overflow = FALSE /\ said.buf = <<>>
    BY <1>4, <1>7 DEF Clear
  <2>2. FinishObservation(said) = [said EXCEPT !.seen = @ \/ said.pending, !.pending = FALSE]
    BY <2>1 DEF FinishObservation, ObserveBlank
  <2>3. said \in Shapes
    BY <1>13 DEF Observations
  <2>4. (said.seen \/ said.pending) = said.seen /\ FALSE = said.pending
    BY <1>7, <2>3 DEF Shapes
  <2>5. [said EXCEPT !.seen = said.seen, !.pending = said.pending] = said
    BY <2>3 DEF Shapes
  <2> QED
    BY <2>2, <2>4, <2>5
<1>15. said.final <=> FinalReported(run)
  BY <1>6, <1>7, <1>10
<1>16. said.seen <=> Ended(run)
  BY <1>6, <1>7, <1>11
<1>17. Seen(run).seen <=> EndedInFull(run)
  <2>1. Seen(run).seen = p.seen
    BY <1>2 DEF p
  <2> QED
    BY <1>6, <1>12, <2>1
<1>18. Counts(said.usage) = Reported(run) /\ said.text = TextOf(run) /\ said.error = ErrorOf(run)
  BY <1>3, <1>6, <1>7, <1>8, <1>9
<1> QED
  BY <1>14, <1>15, <1>16, <1>17, <1>18 DEF said

(* An observation of more.                                                 *)
LEMMA PrefixIs ==
    ASSUME NEW run \in Seq(Byte), NEW b \in 0..Len(run), NEW a \in 0..b
    PROVE  /\ SubSeq(run, 1, a) \in Seq(Byte) /\ SubSeq(run, a + 1, b) \in Seq(Byte)
           /\ SubSeq(run, 1, b) = SubSeq(run, 1, a) \o SubSeq(run, a + 1, b)
<1>1. Len(run) \in Nat /\ \A i \in 1..Len(run) : run[i] \in Byte
  BY LenProperties, ElementOfSeq
<1> DEFINE N == Len(run)
           z == a + 1
<1> HIDE DEF N
<1>2. N \in Nat /\ b \in 0..N /\ a \in 0..b
  BY <1>1 DEF N
<1>3. 1 \in 1..(N + 1) /\ a \in (1 - 1)..N /\ b \in a..N /\ a \in Int /\ b \in Int /\ z \in Int /\ 1 \in Int
      /\ (\A i \in 1..a : i \in 1..N) /\ \A i \in z..b : i \in 1..N
  BY <1>2
<1>4. (\A i \in 1..a : run[i] \in Byte) /\ \A i \in z..b : run[i] \in Byte
  BY <1>1, <1>3 DEF N
<1>5. SubSeq(run, 1, a) \o SubSeq(run, a + 1, b) = SubSeq(run, 1, b)
  BY <1>3, ConcatAdjacentSubSeq DEF N
<1> HIDE DEF z
<1>6. SubSeq(run, 1, a) \in Seq(Byte) /\ SubSeq(run, z, b) \in Seq(Byte)
  BY <1>3, <1>4, SubSeqProperties
<1> QED
  BY <1>5, <1>6 DEF z

LEMMA SegmentKeepsSeen ==
    ASSUME NEW o \in Observations, NEW piece \in Pieces, o.seen
    PROVE  ObserveSegment(o, piece).seen
<1> DEFINE b == Buffer(o, piece.text)
<1>1. b \in Shapes /\ piece.text \in Seq(Part)
  BY BufferIs DEF Pieces, Observations
<1>2. b.seen
  BY DEF Buffer, Observations, Shapes
<1> HIDE DEF b
<1>3. ObserveBlank(b).seen /\ ObserveBlank(b) \in [DOMAIN b -> {ObserveBlank(b)[f] : f \in DOMAIN b}]
  BY <1>1, <1>2 DEF ObserveBlank, Shapes
<1>4. ObserveLine(b).seen
  BY <1>1, <1>2, <1>3 DEF ObserveLine, Shapes
<1>5. ObserveOversizedTail(b).seen
  BY <1>1, <1>2 DEF ObserveOversizedTail, Shapes
<1>6. ObserveLine(b) \in Shapes /\ ObserveOversizedTail(b) \in Shapes
  <2>1. b \in Observations
    BY <1>1, BufferIs DEF b
  <2> QED
    BY <2>1, LineIs, OversizedIs DEF Observations
<1>7. ObserveBuffered(b).seen
  BY <1>4, <1>5, <1>6 DEF ObserveBuffered, Shapes
<1> QED
  BY <1>2, <1>7 DEF ObserveSegment, b

LEMMA SeenGrows ==
    ASSUME NEW a \in Seq(Byte), NEW b \in Seq(Byte), Seen(a).seen
    PROVE  Seen(a \o b).seen
<1>1. Seen(a) \in Observations
  BY UnobservedIs, ChunkIs DEF Seen
<1>2. Seen(a \o b) = ObserveChunk(Seen(a), b)
  BY UnobservedIs, CutsDoNotMatter DEF Seen
<1>3. PICK h \in [0..Len(Segments(b)) -> Observations] :
        /\ h[0] = Seen(a) /\ ObserveChunk(Seen(a), b) = h[Len(Segments(b))]
        /\ \A n \in 1..Len(Segments(b)) : h[n] = ObserveSegment(h[n - 1], Segments(b)[n])
  BY <1>1, ObserveChunkIs
<1> DEFINE N == Len(Segments(b))
           G == {n \in Nat : n <= N => h[n].seen}
<1>4. N \in Nat /\ \A n \in 1..N : Segments(b)[n] \in Pieces
  BY LinesRead
<1> HIDE DEF N
<1>5. 0 \in G
  BY <1>3
<1>6. ASSUME NEW n \in Nat, n \in G PROVE n + 1 \in G
  <2> SUFFICES ASSUME n + 1 <= N PROVE h[n + 1].seen
    OBVIOUS
  <2>1. n + 1 \in 1..N /\ (n + 1) - 1 = n /\ n <= N /\ n \in 0..N
    BY <1>4
  <2>2. h[n + 1] = ObserveSegment(h[n], Segments(b)[n + 1]) /\ h[n] \in Observations /\ h[n].seen
    BY <1>3, <1>6, <2>1 DEF N
  <2> QED
    BY <1>4, <2>1, <2>2, SegmentKeepsSeen
<1>7. \A n \in Nat : n \in G
  <2>1. G \in SUBSET Nat
    OBVIOUS
  <2> HIDE DEF G
  <2> QED
    BY <1>5, <1>6, <2>1, Upwards
<1>8. h[N].seen
  <2>1. N <= N
    BY <1>4
  <2> QED
    BY <1>4, <1>7, <2>1
<1> QED
  BY <1>2, <1>3, <1>8 DEF N

LEMMA FinishKeepsTelling ==
    ASSUME NEW o \in Observations
    PROVE  /\ o.seen => FinishObservation(o).seen
           /\ o.error # "none" => FinishObservation(o).error = o.error
<1> DEFINE b == ObserveBuffered(o)
<1>0. o \in Shapes
  BY DEF Observations
<1>1. (o.seen => ObserveBlank(o).seen) /\ ObserveBlank(o).error = o.error
  BY BlankAdds
<1>2. (o.seen => ObserveLine(o).seen) /\ (o.error # "none" => ObserveLine(o).error = o.error)
  BY <1>0, <1>1 DEF ObserveLine, Shapes
<1>3. (o.seen => ObserveOversizedTail(o).seen) /\ (o.error # "none" => ObserveOversizedTail(o).error = o.error)
  BY <1>0 DEF ObserveOversizedTail, Shapes
<1>4. ObserveLine(o) \in Shapes /\ ObserveOversizedTail(o) \in Shapes
  BY LineIs, OversizedIs DEF Observations
<1>5. (o.seen => b.seen) /\ (o.error # "none" => b.error = o.error)
  BY <1>2, <1>3, <1>4 DEF ObserveBuffered, Shapes
<1>6. b \in Observations
  BY BufferedIs
<1> HIDE DEF b
<1>7. (b.seen => ObserveBlank(b).seen) /\ ObserveBlank(b).error = b.error
  BY <1>6, BlankAdds
<1>8. FinishObservation(o) = ObserveBlank(o) \/ FinishObservation(o) = ObserveBlank(b)
  BY DEF FinishObservation, b
<1> QED
  BY <1>1, <1>5, <1>7, <1>8

\* The observation of what was read, its last line perhaps already taken as whole.
LEMMA ObservingTells ==
    ASSUME NEW run \in Seq(Byte), NEW o, o = Seen(run) \/ o = Said1(run)
    PROVE  /\ o \in Observations /\ Seen(run) \in Observations /\ Said1(run) \in Observations
           /\ FinishObservation(o) = Said1(run)
           /\ o.seen => Said1(run).seen
           /\ ~o.seen => ~Seen(run).seen
           /\ o.error # "none" => Said1(run).error # "none"
<1>1. Seen(run) \in Observations
  BY UnobservedIs, ChunkIs DEF Seen
<1>2. Said1(run) \in Observations
  BY <1>1, FinishIs DEF Said1
<1>3. FinishObservation(Seen(run)) = Said1(run)
  BY DEF Said1
<1>4. FinishObservation(Said1(run)) = Said1(run)
  BY ObservedIsSaid
<1>5. /\ Seen(run).seen => Said1(run).seen
      /\ Seen(run).error # "none" => Said1(run).error = Seen(run).error
  BY <1>1, <1>3, FinishKeepsTelling
<1>6. CASE o = Seen(run)
  BY <1>1, <1>2, <1>3, <1>5, <1>6
<1>7. CASE o = Said1(run)
  BY <1>1, <1>2, <1>4, <1>5, <1>7
<1> QED
  BY <1>6, <1>7

LEMMA NothingSeen == Seen(<<>>).seen = FALSE /\ Said1(<<>>).seen = FALSE
<1>1. Seen(<<>>) = Unobserved
  BY UnobservedIs, ObserveNone DEF Seen
<1>2. Said1(<<>>) = ObserveBlank(Unobserved)
  <2>1. Unobserved.overflow = FALSE /\ Unobserved.buf = <<>>
    BY DEF Unobserved
  <2> QED
    BY <1>1, <2>1 DEF Said1, FinishObservation
<1>3. ObserveBlank(Unobserved).seen = FALSE
  BY DEF ObserveBlank, Unobserved
<1> QED
  BY <1>1, <1>2, <1>3 DEF Unobserved

-----------------------------------------------------------------------------
(* What the account of an attempt rests on, at every point of its life.    *)

\* What was observed is what was read; once its end came, perhaps with the
\* last line taken as whole.
Observing == obs = Seen(Received) \/ (upstream # "open" /\ obs = Said1(Received))
ObservedInv ==
    pc # "closed" =>
      /\ Observing
      /\ pc = "answered" => upstream = "eof" /\ obs = Said1(Received) /\ health = BodyHealth(obs)

Delivered == SubSeq(bytes, 1, handed)

\* Where a stream whose row is not written yet may be.
UnloggedInv ==
    entry # "none" =>
      /\ heldErr # "none" => upstream = heldErr
      /\ pc \in {"prime", "failed", "abandon"} => held = pos
      /\ pc \in {"failed", "abandon"} => obs.error # "none" \/ (~obs.seen /\ heldErr # "none")
      /\ pc = "abandon" => entry = "retried"
      /\ pc = "deliver" /\ held = 0 => ~obs.seen
      /\ pc \in {"close", "drain", "settle", "drained"} => gone
      /\ pc \in {"drain", "drained"} => ~Seen(Delivered).seen

\* What the row says, as things stood when it was written.
OwnFault(row, said) ==
    \/ status = "fault" \/ said.error = "channel" \/ row.status = "timeout"
    \/ upstream = "error" /\ ~row.left
    \/ upstream = "eof" /\ row.retried
BilledFor(row, said) ==
    IF row.status = "left" /\ ~said.final THEN Estimated(Counts(said.usage), said.text) ELSE Counts(said.usage)
RowIs(row, read) ==
    LET said == Said1(read)
    IN  /\ health.charged = 1 => OwnFault(row, said)
        /\ row.status = "ok" => (said.seen \/ upstream = "eof") /\ said.error = "none" /\ health.credited = 1
        /\ row.status = "left" => row.left
        /\ relayed =>
             /\ row.status = "left" => health = NoScore /\ pc \in {"close", "settle", "closed"} /\ ~Seen(Delivered).seen
             /\ Seen(read).seen /\ said.error = "none" => row.status \notin {"failed", "timeout"}
             /\ row.status = "failed" /\ said.error = "channel" => health.charged = 1
             /\ row.usage = BilledFor(row, said)
RowInv == entry = "none" => rows[1].read \in 0..pos /\ RowIs(rows[1], SubSeq(bytes, 1, rows[1].read))

AccountInv == ObservedInv /\ UnloggedInv /\ RowInv

LEMMA ReceivedIs == ASSUME WireInv PROVE Received \in Seq(Byte) /\ pos \in Nat
<1>1. bytes \in Seq(Byte) /\ pos \in 0..Len(bytes) /\ Len(bytes) \in Nat
  BY LenProperties DEF WireInv
<1>2. 0 \in 0..pos /\ pos \in Nat
  BY <1>1
<1> QED
  BY <1>1, <1>2, PrefixIs DEF Received

LEMMA ReadObserves ==
    ASSUME WireInv, Observing, NEW r \in Reads, Receive(r), NEW finishing \in SUBSET {"eof", "error"}
    PROVE  LET o == After(r, finishing)
           IN  /\ Received' \in Seq(Byte) /\ bytes' = bytes
               /\ o = Seen(Received') \/ (upstream' # "open" /\ o = Said1(Received'))
               /\ r.ends \in finishing => o = Said1(Received')
               /\ upstream' = r.ends /\ (upstream # "open" => upstream' = upstream)
<1> DEFINE p == ObserveChunk(obs, Chunk(r))
           o == After(r, finishing)
           more == Chunk(r)
           before == Received
           after == SubSeq(bytes, 1, pos + r.n)
<1>1. pos' = pos + r.n /\ upstream' = r.ends /\ bytes' = bytes
  BY DEF Receive
<1>2. Received' = after
  BY <1>1 DEF Received
<1>3. r.n \in Nat /\ pos + r.n \in 0..Len(bytes) /\ more \in Seq(Byte) /\ bytes \in Seq(Byte) /\ pos \in Nat
  BY ReadIs, ReceivedIs DEF WireInv
<1>4. after \in Seq(Byte) /\ before \in Seq(Byte) /\ after = before \o more
  <2> DEFINE n == r.n
             q == pos + n
  <2>1. n \in Nat /\ pos \in Nat /\ q \in 0..Len(bytes)
    BY <1>3
  <2>2. pos \in 0..q /\ 0 \in 0..q /\ q \in 0..q
    <3> HIDE DEF n
    <3> QED
      BY <2>1
  <2> HIDE DEF q
  <2>3. SubSeq(bytes, 1, q) \in Seq(Byte) /\ SubSeq(bytes, 1, pos) \in Seq(Byte)
        /\ SubSeq(bytes, 1, q) = SubSeq(bytes, 1, pos) \o SubSeq(bytes, pos + 1, q)
    BY <1>3, <2>1, <2>2, PrefixIs
  <2> QED
    BY <2>3 DEF q, Received, Chunk
<1>5. upstream # "open" => r.n = 0 /\ r.ends = upstream
  BY DEF Reads
<1>6. obs = Seen(before) => p = Seen(after)
  BY <1>3, <1>4, UnobservedIs, CutsDoNotMatter DEF Seen
<1>7. upstream # "open" /\ obs = Said1(before) => p = Said1(after)
  <2> SUFFICES ASSUME upstream # "open", obs = Said1(before) PROVE p = Said1(after)
    OBVIOUS
  <2>1. pos + r.n = pos /\ pos + r.n < pos + 1
    BY <1>3, <1>5
  <2>2. more = <<>> /\ after = before
    <3>1. pos + 1 \in Int /\ pos + r.n \in Int
      BY <1>3
    <3> QED
      BY <2>1, <3>1, SubSeqEmpty DEF Chunk, Received
  <2>3. obs \in Observations
    BY <1>4, ObservingTells
  <2> QED
    BY <2>2, <2>3, ObserveNone
<1>8. p = Seen(after) \/ (upstream # "open" /\ p = Said1(after))
  BY <1>6, <1>7 DEF Observing
<1>9. FinishObservation(p) = Said1(after)
  BY <1>4, <1>8, ObservingTells
<1>10. o = IF r.ends \in finishing THEN FinishObservation(p) ELSE p
  BY DEF After
<1> HIDE DEF p, o, before, after, more
<1>11. r.ends \in finishing => r.ends # "open"
  OBVIOUS
<1>12. o = Seen(after) \/ (upstream' # "open" /\ o = Said1(after))
  BY <1>1, <1>5, <1>8, <1>9, <1>10, <1>11
<1>13. r.ends \in finishing => o = Said1(after)
  BY <1>9, <1>10
<1> QED
  BY <1>1, <1>2, <1>4, <1>5, <1>12, <1>13 DEF o

\* A row, as it is written.
LEMMA RowWritten ==
    ASSUME AnswerInv, entry # "none", pc # "answered", relayed, UNCHANGED <<bytes, status, relayed>>, pos' \in Nat,
           NEW code, NEW o, NEW charged \in {0, 1}, NEW credited \in {0, 1}, FinishLog(code, o, charged, credited),
           FinishObservation(o) = Said1(Received'),
           charged = 1 => \/ Said1(Received').error = "channel" \/ code = "timeout"
                          \/ upstream' = "error" /\ ~gone
                          \/ upstream' = "eof" /\ entry = "retried",
           code = "ok" => (Said1(Received').seen \/ upstream' = "eof") /\ Said1(Received').error = "none" /\ credited = 1,
           code = "left" => /\ gone /\ charged = 0 /\ credited = 0
                            /\ pc' \in {"close", "settle", "closed"} /\ ~Seen(Delivered').seen,
           code \in {"failed", "timeout"} => ~(Seen(Received').seen /\ Said1(Received').error = "none"),
           code = "failed" /\ Said1(Received').error = "channel" => charged = 1
    PROVE  entry' = "none" /\ RowInv'
<1> PICK row : row = Row(code, o)
  OBVIOUS
<1> PICK run : run = Received'
  OBVIOUS
<1>1. rows = <<>> /\ health = NoScore
  BY DEF AnswerInv, LedgerInv, ScoredInv
<1>2. rows' = Append(rows, row) /\ entry' = "none"
      /\ health' = [charged |-> health.charged + charged, credited |-> health.credited + credited]
  BY DEF FinishLog
<1>3. rows'[1] = row
  BY <1>1, <1>2
<1>4. health' = [charged |-> charged, credited |-> credited]
  <2>1. 0 + charged = charged /\ 0 + credited = credited
    OBVIOUS
  <2>2. health.charged = 0 /\ health.credited = 0
    BY <1>1 DEF NoScore
  <2> QED
    BY <1>2, <2>1, <2>2
<1> DEFINE said == Said1(run)
<1>5. /\ row.status = code /\ row.read = pos' /\ row.left = gone /\ row.retried = (entry = "retried")
      /\ row.usage = IF code = "left" /\ ~said.final THEN Estimated(Counts(said.usage), said.text) ELSE Counts(said.usage)
  BY DEF Row
<1>6. SubSeq(bytes', 1, rows'[1].read) = run /\ rows'[1].read \in 0..pos'
  <2>1. pos' \in 0..pos'
    OBVIOUS
  <2> QED
    BY <1>3, <1>5, <2>1 DEF Received
<1>7. health'.charged = charged /\ health'.credited = credited
      /\ (charged = 0 /\ credited = 0 => health' = NoScore)
  BY <1>4 DEF NoScore
<1> HIDE DEF said
<1>9. health'.charged = 1 => OwnFault(row, said)'
  BY <1>5, <1>7 DEF OwnFault, said
<1>10. row.status = "ok" => (said.seen \/ upstream' = "eof") /\ said.error = "none" /\ health'.credited = 1
  BY <1>5, <1>7 DEF said
<1>11. row.status = "left" => row.left
  BY <1>5
<1>12. row.status = "left" => health' = NoScore /\ pc' \in {"close", "settle", "closed"} /\ ~Seen(Delivered').seen
  BY <1>5, <1>7
<1>13. Seen(run).seen /\ said.error = "none" => row.status \notin {"failed", "timeout"}
  BY <1>5 DEF said
<1>14. row.status = "failed" /\ said.error = "channel" => health'.charged = 1
  BY <1>5, <1>7 DEF said
<1>15. row.usage = BilledFor(row, said)
  BY <1>5 DEF BilledFor
<1>16. RowIs(row, run)'
  BY <1>9, <1>10, <1>11, <1>12, <1>13, <1>14, <1>15 DEF RowIs, said
<1> QED
  BY <1>2, <1>3, <1>6, <1>16 DEF RowInv

\* Nothing that happens after the row was written makes it untrue.
LEMMA RowStays ==
    ASSUME AnswerInv, RowInv, entry = "none", UNCHANGED <<bytes, status, relayed, logVars>>,
           pos' \in Nat, pos <= pos', upstream' = upstream \/ upstream = "open",
           pc \in {"close", "settle", "closed"} => pc' \in {"close", "settle", "closed"} /\ handed' = handed
    PROVE  RowInv'
<1> PICK row : row = rows[1]
  OBVIOUS
<1> PICK run : run = SubSeq(bytes, 1, row.read)
  OBVIOUS
<1>1. rows' = rows /\ health' = health /\ entry' = "none"
  BY DEF logVars
<1>2. row.read \in 0..pos /\ RowIs(row, run)
  BY DEF RowInv
<1>3. row.read \in 0..pos' /\ rows'[1] = row /\ SubSeq(bytes', 1, row.read) = run
  <2>1. pos \in Nat
    BY ReceivedIs DEF AnswerInv
  <2>2. row.read \in 0..pos'
    BY <1>2, <2>1
  <2> QED
    BY <1>1, <2>2
<1> DEFINE said == Said1(run)
<1>4. /\ health.charged = 1 => OwnFault(row, said)
      /\ row.status = "ok" => (said.seen \/ upstream = "eof") /\ said.error = "none" /\ health.credited = 1
      /\ row.status = "left" => row.left
      /\ relayed =>
           /\ row.status = "left" => health = NoScore /\ pc \in {"close", "settle", "closed"} /\ ~Seen(Delivered).seen
           /\ Seen(run).seen /\ said.error = "none" => row.status \notin {"failed", "timeout"}
           /\ row.status = "failed" /\ said.error = "channel" => health.charged = 1
           /\ row.usage = BilledFor(row, said)
  BY <1>2 DEF RowIs
<1> HIDE DEF said
<1>5. health'.charged = 1 => OwnFault(row, said)'
  <2>1. OwnFault(row, said) => OwnFault(row, said)'
    BY DEF OwnFault
  <2> QED
    BY <1>1, <1>4, <2>1
<1>6. row.status = "ok" => (said.seen \/ upstream' = "eof") /\ said.error = "none" /\ health'.credited = 1
  BY <1>1, <1>4
<1>7. relayed /\ row.status = "left" => health' = NoScore /\ pc' \in {"close", "settle", "closed"} /\ ~Seen(Delivered').seen
  BY <1>1, <1>4 DEF Delivered
<1>8. RowIs(row, run)'
  BY <1>1, <1>4, <1>5, <1>6, <1>7 DEF RowIs, said
<1> QED
  BY <1>3, <1>8 DEF RowInv

\* What the client was handed is no more than what was read.
LEMMA HandedIs ==
    ASSUME NEW run \in Seq(Byte), NEW b \in 0..Len(run), NEW a \in 0..b, ~Seen(SubSeq(run, 1, b)).seen
    PROVE  ~Seen(SubSeq(run, 1, a)).seen
<1>1. SubSeq(run, 1, a) \in Seq(Byte) /\ SubSeq(run, a + 1, b) \in Seq(Byte)
      /\ SubSeq(run, 1, b) = SubSeq(run, 1, a) \o SubSeq(run, a + 1, b)
  BY PrefixIs
<1> QED
  BY <1>1, SeenGrows

LEMMA HandedNow == ASSUME AnswerInv, ~Seen(Received).seen PROVE ~Seen(Delivered).seen
<1>1. bytes \in Seq(Byte) /\ pos \in 0..Len(bytes)
  BY DEF AnswerInv, WireInv
<1>2. handed \in 0..pos
  <2>1. held \in Nat /\ handed \in Nat /\ held + handed <= pos /\ pos \in Nat
    BY ReceivedIs DEF AnswerInv, HoldInv
  <2> QED
    BY <2>1
<1> QED
  BY <1>1, <1>2, HandedIs DEF Received, Delivered

LEMMA Within == ASSUME NEW h \in Nat, NEW d \in Nat, NEW p \in Nat, h + d <= p PROVE d \in 0..p
  OBVIOUS

LEMMA HandedNext == ASSUME AnswerInv', ~Seen(Received').seen PROVE ~Seen(Delivered').seen
<1>1. bytes' \in Seq(Byte) /\ pos' \in 0..Len(bytes') /\ Len(bytes') \in Nat
  BY LenProperties DEF AnswerInv, WireInv
<1>2. handed' \in 0..pos'
  <2>1. HoldInv' /\ pos' \in Nat
    BY <1>1 DEF AnswerInv
  <2>2. held' \in Nat /\ handed' \in Nat /\ held' + handed' <= pos'
    BY <2>1 DEF HoldInv
  <2> QED
    BY <2>1, <2>2, Within
<1> QED
  BY <1>1, <1>2, HandedIs DEF Received, Delivered

\* A step that writes the row of a stream.
Logging ==
    /\ AnswerInv /\ AnswerInv' /\ entry # "none" /\ pc \in Streamed
    /\ UNCHANGED <<bytes, status, relayed>>

LEMMA LoggingIs == ASSUME Logging PROVE relayed /\ pc # "answered" /\ pos' \in Nat /\ Received' \in Seq(Byte)
<1>1. relayed
  BY DEF Logging, AnswerInv, ControlInv
<1>2. pc # "answered"
  BY DEF Logging, Streamed
<1>3. bytes' \in Seq(Byte) /\ pos' \in 0..Len(bytes') /\ Len(bytes') \in Nat
  BY LenProperties DEF Logging, AnswerInv, WireInv
<1>4. 0 \in 0..pos' /\ pos' \in Nat
  BY <1>3
<1> QED
  BY <1>1, <1>2, <1>3, <1>4, PrefixIs DEF Received

LEMMA CompleteWritten ==
    ASSUME Logging, NEW o, FinishComplete(o), FinishObservation(o) = Said1(Received'),
           Said1(Received').error # "none" \/ Said1(Received').seen \/ upstream' = "eof"
    PROVE  entry' = "none" /\ RowInv'
<1> DEFINE said == Said1(Received')
<1>1. AnswerInv /\ entry # "none" /\ UNCHANGED <<bytes, status, relayed>> /\ pc # "answered" /\ relayed /\ pos' \in Nat
  BY LoggingIs DEF Logging
<1>2. said.error # "none" => FinishLog("failed", o, IF said.error = "channel" THEN 1 ELSE 0, 0)
  BY DEF FinishComplete
<1>3. said.error = "none" => FinishLog("ok", o, 0, 1)
  BY DEF FinishComplete
<1>4. CASE said.error = "channel"
  <2>1. FinishLog("failed", o, 1, 0)
    BY <1>2, <1>4
  <2> QED
    BY <1>1, <1>4, <2>1, RowWritten
<1>5. CASE said.error = "none"
  BY <1>1, <1>3, <1>5, RowWritten
<1>6. CASE said.error # "channel" /\ said.error # "none"
  <2>1. FinishLog("failed", o, 0, 0)
    BY <1>2, <1>6
  <2> QED
    BY <1>1, <1>6, <2>1, RowWritten
<1> QED
  BY <1>4, <1>5, <1>6

LEMMA InterruptedWritten ==
    ASSUME Logging, NEW o, FinishInterrupted(o), FinishObservation(o) = Said1(Received'),
           upstream' = "error", ~Seen(Received').seen, pc' = "close"
    PROVE  entry' = "none" /\ RowInv'
<1>1. AnswerInv /\ entry # "none" /\ UNCHANGED <<bytes, status, relayed>> /\ pc # "answered" /\ relayed /\ pos' \in Nat
  BY LoggingIs DEF Logging
<1>2. ~Seen(Delivered').seen
  BY HandedNext DEF Logging
<1>3. CASE expired'
  <2>1. FinishLog("timeout", o, 1, 0)
    BY <1>3 DEF FinishInterrupted
  <2> QED
    BY <1>1, <2>1, RowWritten
<1>4. CASE ~expired' /\ gone
  <2>1. FinishLog("left", o, 0, 0)
    BY <1>4 DEF FinishInterrupted
  <2> QED
    BY <1>1, <1>2, <1>4, <2>1, RowWritten
<1>5. CASE ~expired' /\ ~gone
  <2>1. FinishLog("failed", o, 1, 0)
    BY <1>5 DEF FinishInterrupted
  <2> QED
    BY <1>1, <1>5, <2>1, RowWritten
<1> QED
  BY <1>3, <1>4, <1>5

(* Each step keeps the account true.                                       *)
LEMMA AccountStarts == AnswerInit => AccountInv
<1> SUFFICES ASSUME AnswerInit PROVE AccountInv
  OBVIOUS
<1>1. pos = 0 /\ obs = Unobserved /\ held = 0 /\ heldErr = "none" /\ entry = "pending" /\ pc \in {"prime", "deliver", "buffer"}
  BY DEF AnswerInit
<1>2. Received = <<>>
  BY <1>1, SubSeqEmpty DEF Received
<1>3. Seen(Received) = Unobserved
  BY <1>2, UnobservedIs, ObserveNone DEF Seen
<1>4. Observing /\ obs.seen = FALSE
  BY <1>1, <1>3 DEF Observing, Unobserved
<1>5. ObservedInv
  BY <1>1, <1>4 DEF ObservedInv
<1>6. UnloggedInv
  BY <1>1, <1>4 DEF UnloggedInv
<1> QED
  BY <1>1, <1>5, <1>6 DEF AccountInv, RowInv

\* What the observation of a stream says of what was read of it.
LEMMA ObservingIs ==
    ASSUME AnswerInv, Observing
    PROVE  /\ FinishObservation(obs) = Said1(Received)
           /\ obs.seen => Said1(Received).seen
           /\ ~obs.seen => ~Seen(Received).seen /\ ~Seen(Delivered).seen
           /\ obs.error # "none" => Said1(Received).error # "none"
           /\ pos = 0 => ~obs.seen
<1>1. Received \in Seq(Byte)
  BY ReceivedIs DEF AnswerInv
<1>2. /\ FinishObservation(obs) = Said1(Received) /\ obs \in Observations
      /\ obs.seen => Said1(Received).seen
      /\ ~obs.seen => ~Seen(Received).seen
      /\ obs.error # "none" => Said1(Received).error # "none"
  BY <1>1, ObservingTells DEF Observing
<1>3. pos = 0 => ~obs.seen
  <2> SUFFICES ASSUME pos = 0 PROVE ~obs.seen
    OBVIOUS
  <2>1. Received = <<>>
    BY SubSeqEmpty DEF Received
  <2> QED
    BY <2>1, NothingSeen DEF Observing
<1> QED
  BY <1>2, <1>3, HandedNow

LEMMA ReadGrows == ASSUME AnswerInv, NEW r \in Reads, Receive(r) PROVE pos' \in Nat /\ pos <= pos' /\ (held = pos => held + r.n = pos')
<1>1. r.n \in Nat /\ pos \in Nat
  BY ReadIs, ReceivedIs DEF AnswerInv
<1> DEFINE n == r.n
<1>2. pos' = pos + n /\ n \in Nat
  BY <1>1 DEF Receive
<1> HIDE DEF n
<1>3. pos' \in Nat /\ pos <= pos'
  BY <1>1, <1>2
<1> QED
  BY <1>2, <1>3 DEF n

LEMMA PrimeAccounts == ASSUME AnswerInv, AnswerInv', AccountInv, Prime PROVE AccountInv'
<1> DEFINE ends == {"eof", "error"}
           o(r) == After(r, ends)
           ready(r) == o(r).first \/ (o(r).error = "none" /\ (o(r).seen \/ (r.ends = "open" /\ held + r.n > HoldLimit)))
           failed(r) == ~o(r).first /\ (o(r).error # "none" \/ (~o(r).seen /\ r.ends # "open"))
<1>1. pc = "prime" /\ Observing
  BY DEF Prime, AccountInv, ObservedInv
<1>2. PICK r \in Reads :
        /\ Receive(r) /\ obs' = o(r)
        /\ \/ /\ RememberFails(o(r))
              /\ held' = 0 /\ heldErr' = "error" /\ pc' = "failed"
           \/ /\ Remembers(o(r))
              /\ held' = held + r.n
              /\ heldErr' = IF r.ends = "open" THEN "none" ELSE r.ends
              /\ pc' = IF ready(r) THEN "deliver" ELSE IF failed(r) THEN "failed" ELSE "prime"
              /\ UNCHANGED logVars
        /\ UNCHANGED <<handed, open>>
  BY DEF Prime
<1>3. UNCHANGED <<bytes, gone, status, relayed>>
  BY <1>2 DEF Receive
<1>4. /\ Received' \in Seq(Byte)
      /\ o(r) = Seen(Received') \/ (upstream' # "open" /\ o(r) = Said1(Received'))
      /\ upstream' = r.ends /\ (upstream # "open" => upstream' = upstream)
  BY <1>1, <1>2, ReadObserves DEF AnswerInv
<1>5. pos' \in Nat /\ pos <= pos' /\ (held = pos => held + r.n = pos')
  BY <1>2, ReadGrows
<1> DEFINE seen == obs'
<1>6. ObservedInv'
  <2>1. Observing'
    BY <1>2, <1>4 DEF Observing
  <2>2. pc' # "answered"
    BY <1>1, <1>2
  <2> QED
    BY <2>1, <2>2 DEF ObservedInv
<1>7. FinishObservation(o(r)) = Said1(Received') /\ (~o(r).seen => ~Seen(Received').seen)
  BY <1>4, ObservingTells
<1> HIDE DEF o, ready
<1>8. CASE RememberFails(o(r)) /\ pc' = "failed"
  <2>1. ToRemember(o(r)) /\ FinishLog("unremembered", o(r), 0, 0)
    BY <1>8 DEF RememberFails
  <2>2. CASE entry = "none"
    <3>1. UNCHANGED logVars
      BY <2>1, <2>2 DEF FinishLog
    <3>2. RowInv'
      BY <1>1, <1>3, <1>4, <1>5, <2>2, <3>1, RowStays DEF AccountInv
    <3>3. entry' = "none"
      BY <2>2, <3>1 DEF logVars
    <3> QED
      BY <1>6, <3>2, <3>3 DEF AccountInv, UnloggedInv
  <2>3. CASE entry # "none"
    <3>1. relayed
      BY <1>1 DEF AnswerInv, ControlInv, Streamed
    <3>2. entry' = "none" /\ RowInv'
      BY <1>1, <1>3, <1>5, <1>7, <2>1, <2>3, <3>1, RowWritten
    <3> QED
      BY <1>6, <3>2 DEF AccountInv, UnloggedInv
  <2> QED
    BY <2>2, <2>3
<1>9. CASE /\ held' = held + r.n
           /\ heldErr' = IF r.ends = "open" THEN "none" ELSE r.ends
           /\ pc' = IF ready(r) THEN "deliver" ELSE IF failed(r) THEN "failed" ELSE "prime"
           /\ UNCHANGED logVars
  <2>1. RowInv'
    <3> SUFFICES ASSUME entry' = "none" PROVE RowInv'
      BY DEF RowInv
    <3>1. entry = "none"
      BY <1>9 DEF logVars
    <3> QED
      BY <1>1, <1>3, <1>4, <1>5, <1>9, <3>1, RowStays DEF AccountInv
  <2>2. UnloggedInv'
    <3> SUFFICES ASSUME entry' # "none" PROVE UnloggedInv'
      BY DEF UnloggedInv
    <3>1. entry # "none" /\ held = pos
      BY <1>1, <1>9 DEF logVars, AccountInv, UnloggedInv
    <3>2. held' = pos'
      BY <1>5, <1>9, <3>1
    <3>3. heldErr' # "none" => upstream' = heldErr'
      BY <1>4, <1>9
    <3>4. pc' = "failed" => obs'.error # "none" \/ (~obs'.seen /\ heldErr' # "none")
      <4> SUFFICES ASSUME pc' = "failed" PROVE obs'.error # "none" \/ (~obs'.seen /\ heldErr' # "none")
        OBVIOUS
      <4>1. failed(r)
        BY <1>9
      <4>2. obs' = o(r) /\ (r.ends # "open" => heldErr' # "none")
        <5>1. r.ends \in {"open", "eof", "error"}
          BY ReadIs DEF AnswerInv
        <5> HIDE DEF failed
        <5> QED
          BY <1>2, <1>9, <5>1
      <4> QED
        BY <4>1, <4>2
    <3>5. held' = 0 => ~obs'.seen
      <4> SUFFICES ASSUME held' = 0 PROVE ~obs'.seen
        OBVIOUS
      <4>1. pos' = 0 /\ Observing'
        BY <1>2, <1>4, <3>2 DEF Observing
      <4>2. Received' = <<>>
        BY <4>1, SubSeqEmpty DEF Received
      <4> QED
        BY <4>1, <4>2, NothingSeen DEF Observing
    <3>6. pc' \in {"deliver", "failed", "prime"}
      BY <1>9
    <3> QED
      BY <3>2, <3>3, <3>4, <3>5, <3>6 DEF UnloggedInv
  <2> QED
    BY <1>6, <2>1, <2>2 DEF AccountInv
<1> QED
  BY <1>2, <1>8, <1>9

\* A step that reads nothing.
LEMMA StillObserves ==
    ASSUME AccountInv, pc # "closed", UNCHANGED <<wireVars, obs>>, pc' # "answered"
    PROVE  Observing /\ Observing' /\ ObservedInv' /\ Received' = Received /\ Delivered' = SubSeq(bytes, 1, handed')
           /\ bytes' = bytes /\ pos' = pos /\ upstream' = upstream /\ gone' = gone /\ status' = status /\ relayed' = relayed
<1>1. Observing
  BY DEF AccountInv, ObservedInv
<1>2. Received' = Received /\ upstream' = upstream /\ obs' = obs /\ bytes' = bytes /\ pos' = pos /\ gone' = gone
      /\ status' = status /\ relayed' = relayed
  BY DEF wireVars, Received
<1>3. Observing'
  BY <1>1, <1>2 DEF Observing
<1> QED
  BY <1>1, <1>2, <1>3 DEF ObservedInv, Delivered

LEMMA StillRow ==
    ASSUME AnswerInv, AccountInv, UNCHANGED <<bytes, status, relayed, pos, upstream>>, UNCHANGED logVars,
           pc \in {"close", "settle", "closed"} => pc' \in {"close", "settle", "closed"} /\ handed' = handed
    PROVE  RowInv'
<1> SUFFICES ASSUME entry' = "none" PROVE RowInv'
  BY DEF RowInv
<1>1. entry = "none"
  BY DEF logVars
<1>2. pos' \in Nat /\ pos <= pos'
  BY ReceivedIs DEF AnswerInv
<1> QED
  BY <1>1, <1>2, RowStays DEF AccountInv

LEMMA FailedAccounts == ASSUME AnswerInv, AnswerInv', AccountInv, DeliverFailed \/ MarkRetried PROVE AccountInv'
<1>1. /\ pc = "failed" /\ UNCHANGED <<wireVars, obs>> /\ UNCHANGED <<held, heldErr, handed, rows, health>>
      /\ pc' \in {"deliver", "abandon"}
      /\ pc' = "abandon" => entry' = IF entry = "none" THEN "none" ELSE "retried"
      /\ pc' = "deliver" => entry' = entry
  BY DEF DeliverFailed, MarkRetried, streamVars, logVars
<1>2. Observing /\ ObservedInv' /\ bytes' = bytes /\ pos' = pos /\ upstream' = upstream /\ status' = status
      /\ relayed' = relayed
  BY <1>1, StillObserves
<1>3. entry' = "none" <=> entry = "none"
  BY <1>1
<1>4. RowInv'
  <2> SUFFICES ASSUME entry' = "none" PROVE RowInv'
    BY DEF RowInv
  <2>1. UNCHANGED logVars
    BY <1>1, <1>3 DEF logVars
  <2> QED
    BY <1>1, <1>2, <2>1, StillRow
<1>5. UnloggedInv'
  <2> SUFFICES ASSUME entry' # "none" PROVE UnloggedInv'
    BY DEF UnloggedInv
  <2>1. /\ heldErr # "none" => upstream = heldErr
        /\ held = pos
        /\ obs.error # "none" \/ (~obs.seen /\ heldErr # "none")
    BY <1>1, <1>3 DEF AccountInv, UnloggedInv
  <2>2. held = 0 => ~obs.seen
    BY <1>2, <2>1, ObservingIs
  <2>3. pc' = "abandon" => entry' = "retried"
    BY <1>1, <1>3
  <2>4. obs' = obs
    BY <1>1
  <2> QED
    BY <1>1, <1>2, <2>1, <2>2, <2>3, <2>4 DEF UnloggedInv
<1> QED
  BY <1>2, <1>4, <1>5 DEF AccountInv

\* A row is written, or was.
LEMMA Logged ==
    ASSUME ObservedInv', entry' = "none", RowInv'
    PROVE  AccountInv'
  BY DEF AccountInv, UnloggedInv

LEMMA AbandonAccounts == ASSUME AnswerInv, AnswerInv', AccountInv, Abandon PROVE AccountInv'
<1>1. /\ pc = "abandon" /\ pc' = "close" /\ UNCHANGED <<wireVars, obs>> /\ UNCHANGED <<held, heldErr, handed>>
      /\ IF obs.error # "none" THEN FinishComplete(obs)
         ELSE IF heldErr = "error" THEN FinishInterrupted(obs)
         ELSE FinishLog("failed", obs, 1, 0)
  BY DEF Abandon, streamVars
<1>2. Observing /\ ObservedInv' /\ Received' = Received /\ bytes' = bytes /\ pos' = pos /\ upstream' = upstream
      /\ status' = status /\ relayed' = relayed /\ gone' = gone
  BY <1>1, StillObserves
<1>3. CASE entry = "none"
  <2>1. UNCHANGED logVars
    BY <1>1, <1>3 DEF FinishComplete, FinishInterrupted, FinishLog
  <2>2. RowInv'
    BY <1>1, <1>2, <2>1, StillRow
  <2> QED
    BY <1>2, <1>3, <2>1, <2>2, Logged DEF logVars
<1>4. CASE entry # "none"
  <2>1. Logging
    BY <1>1, <1>2, <1>4 DEF Logging, Streamed
  <2>2. /\ heldErr # "none" => upstream = heldErr
        /\ obs.error # "none" \/ (~obs.seen /\ heldErr # "none")
        /\ entry = "retried"
    BY <1>1, <1>4 DEF AccountInv, UnloggedInv
  <2>3. /\ FinishObservation(obs) = Said1(Received')
        /\ ~obs.seen => ~Seen(Received').seen
        /\ obs.error # "none" => Said1(Received').error # "none"
    BY <1>2, ObservingIs
  <2>4. heldErr \in {"none", "eof", "error"}
    BY DEF AnswerInv, HoldInv
  <2>5. CASE obs.error # "none"
    <3>1. entry' = "none" /\ RowInv'
      BY <1>1, <2>1, <2>3, <2>5, CompleteWritten
    <3> QED
      BY <1>2, <3>1, Logged
  <2>6. CASE obs.error = "none" /\ heldErr = "error"
    <3>1. entry' = "none" /\ RowInv'
      BY <1>1, <1>2, <2>1, <2>2, <2>3, <2>6, InterruptedWritten
    <3> QED
      BY <1>2, <3>1, Logged
  <2>7. CASE obs.error = "none" /\ heldErr = "eof"
    <3>1. FinishLog("failed", obs, 1, 0)
      BY <1>1, <2>7
    <3>2. relayed /\ pc # "answered" /\ pos' \in Nat
      BY <2>1, LoggingIs
    <3>3. upstream' = "eof" /\ ~Seen(Received').seen
      BY <1>2, <2>2, <2>3, <2>7
    <3>4. entry' = "none" /\ RowInv'
      BY <1>2, <1>4, <2>2, <2>3, <3>1, <3>2, <3>3, RowWritten
    <3> QED
      BY <1>2, <3>4, Logged
  <2> QED
    BY <2>2, <2>4, <2>5, <2>6, <2>7
<1> QED
  BY <1>3, <1>4

LEMMA ReadHeldAccounts == ASSUME AnswerInv, AnswerInv', AccountInv, ReadHeld PROVE AccountInv'
<1>1. /\ pc = "deliver" /\ pc' = "deliver" /\ UNCHANGED <<wireVars, obs>> /\ UNCHANGED heldErr
      /\ \E n \in 1..held :
           /\ held' = held - n /\ handed' = handed + n
           /\ IF n = held /\ obs.seen THEN FinishComplete(obs) ELSE UNCHANGED logVars
  BY DEF ReadHeld
<1>2. Observing /\ ObservedInv' /\ Received' = Received /\ bytes' = bytes /\ pos' = pos /\ upstream' = upstream
      /\ status' = status /\ relayed' = relayed /\ gone' = gone
  BY <1>1, StillObserves
<1>3. /\ FinishObservation(obs) = Said1(Received')
      /\ obs.seen => Said1(Received').seen
  BY <1>2, ObservingIs
<1>4. (obs.seen /\ FinishComplete(obs)) \/ UNCHANGED logVars
  BY <1>1
<1>5. CASE entry = "none"
  <2>1. UNCHANGED logVars
    BY <1>4, <1>5 DEF FinishComplete, FinishLog
  <2>2. RowInv'
    BY <1>1, <1>2, <2>1, StillRow
  <2> QED
    BY <1>2, <1>5, <2>1, <2>2, Logged DEF logVars
<1>6. CASE entry # "none" /\ obs.seen /\ FinishComplete(obs)
  <2>1. Logging
    BY <1>1, <1>2, <1>6 DEF Logging, Streamed
  <2>2. entry' = "none" /\ RowInv'
    BY <1>3, <1>6, <2>1, CompleteWritten
  <2> QED
    BY <1>2, <2>2, Logged
<1>7. CASE entry # "none" /\ UNCHANGED logVars
  <2>1. entry' # "none"
    BY <1>7 DEF logVars
  <2>2. heldErr # "none" => upstream = heldErr
    BY <1>7 DEF AccountInv, UnloggedInv
  <2>3. held' = 0 => ~obs.seen
    <3> SUFFICES ASSUME held' = 0, obs.seen PROVE FALSE
      OBVIOUS
    <3>1. PICK n \in 1..held : /\ held' = held - n
                               /\ IF n = held /\ obs.seen THEN FinishComplete(obs) ELSE UNCHANGED logVars
      BY <1>1
    <3>2. n = held
      <4>1. held \in Nat
        BY DEF AnswerInv, HoldInv
      <4> QED
        BY <3>1, <4>1
    <3>3. FinishComplete(obs)
      BY <3>1, <3>2
    <3>4. entry' = "none"
      BY <1>7, <3>3 DEF FinishComplete, FinishLog
    <3> QED
      BY <2>1, <3>4
  <2>4. UnloggedInv'
    BY <1>1, <1>2, <2>2, <2>3 DEF UnloggedInv
  <2> QED
    BY <1>2, <2>1, <2>4 DEF AccountInv, RowInv
<1> QED
  BY <1>4, <1>5, <1>6, <1>7

LEMMA ReadHeldErrAccounts == ASSUME AnswerInv, AnswerInv', AccountInv, ReadHeldErr PROVE AccountInv'
<1>1. /\ pc = "deliver" /\ pc' = "close" /\ UNCHANGED <<wireVars, obs>> /\ UNCHANGED <<held, heldErr, handed>>
      /\ held = 0 /\ heldErr # "none" /\ FinishRead(obs, heldErr)
  BY DEF ReadHeldErr, streamVars
<1>2. Observing /\ ObservedInv' /\ Received' = Received /\ bytes' = bytes /\ pos' = pos /\ upstream' = upstream
      /\ status' = status /\ relayed' = relayed /\ gone' = gone
  BY <1>1, StillObserves
<1>3. heldErr \in {"eof", "error"}
  BY <1>1 DEF AnswerInv, HoldInv
<1>4. (heldErr = "eof" => FinishComplete(obs)) /\ (heldErr = "error" => FinishInterrupted(obs))
  BY <1>1, <1>3 DEF FinishRead
<1>5. CASE entry = "none"
  <2>1. UNCHANGED logVars
    BY <1>3, <1>4, <1>5 DEF FinishComplete, FinishInterrupted, FinishLog
  <2>2. RowInv'
    BY <1>1, <1>2, <2>1, StillRow
  <2> QED
    BY <1>2, <1>5, <2>1, <2>2, Logged DEF logVars
<1>6. CASE entry # "none"
  <2>1. Logging
    BY <1>1, <1>2, <1>6 DEF Logging, Streamed
  <2>2. upstream = heldErr /\ ~obs.seen
    BY <1>1, <1>6 DEF AccountInv, UnloggedInv
  <2>3. FinishObservation(obs) = Said1(Received') /\ ~Seen(Received').seen
    BY <1>2, <2>2, ObservingIs
  <2>4. entry' = "none" /\ RowInv'
    BY <1>1, <1>2, <1>3, <1>4, <2>1, <2>2, <2>3, CompleteWritten, InterruptedWritten
  <2> QED
    BY <1>2, <2>4, Logged
<1> QED
  BY <1>5, <1>6

LEMMA ReadUpstreamAccounts == ASSUME AnswerInv, AnswerInv', AccountInv, ReadUpstream PROVE AccountInv'
<1> DEFINE ends == {"eof"}
           o(r) == After(r, ends)
<1>1. pc = "deliver" /\ held = 0 /\ heldErr = "none" /\ UNCHANGED <<held, heldErr, open>> /\ Observing
  BY DEF ReadUpstream, AccountInv, ObservedInv
<1>2. PICK r \in Reads :
        /\ Receive(r) /\ obs' = o(r)
        /\ \/ /\ RememberFails(o(r))
              /\ pc' = "close" /\ UNCHANGED handed
           \/ /\ Remembers(o(r))
              /\ IF o(r).seen THEN FinishComplete(o(r)) ELSE FinishRead(o(r), r.ends)
              /\ handed' = handed + r.n
              /\ pc' = IF r.ends = "open" THEN "deliver" ELSE "close"
  BY DEF ReadUpstream
<1>3. UNCHANGED <<bytes, gone, status, relayed>>
  BY <1>2 DEF Receive
<1>4. /\ Received' \in Seq(Byte)
      /\ o(r) = Seen(Received') \/ (upstream' # "open" /\ o(r) = Said1(Received'))
      /\ upstream' = r.ends /\ (upstream # "open" => upstream' = upstream)
  BY <1>1, <1>2, ReadObserves DEF AnswerInv
<1>5. pos' \in Nat /\ pos <= pos'
  BY <1>2, ReadGrows
<1>6. ObservedInv'
  <2>1. Observing'
    BY <1>2, <1>4 DEF Observing
  <2>2. pc' # "answered"
    BY <1>2
  <2> QED
    BY <2>1, <2>2 DEF ObservedInv
<1>7. /\ FinishObservation(o(r)) = Said1(Received')
      /\ o(r).seen => Said1(Received').seen
      /\ ~o(r).seen => ~Seen(Received').seen
  BY <1>4, ObservingTells
<1>8. r.ends \in {"open", "eof", "error"}
  BY ReadIs DEF AnswerInv
<1> HIDE DEF o
<1>9. \/ FinishLog("unremembered", o(r), 0, 0)
      \/ o(r).seen /\ FinishComplete(o(r))
      \/ ~o(r).seen /\ r.ends = "eof" /\ FinishComplete(o(r))
      \/ ~o(r).seen /\ r.ends = "error" /\ FinishInterrupted(o(r)) /\ pc' = "close"
      \/ ~o(r).seen /\ r.ends = "open" /\ UNCHANGED logVars /\ pc' = "deliver"
  BY <1>2, <1>8 DEF RememberFails, FinishRead
<1>10. CASE entry = "none"
  <2>1. UNCHANGED logVars
    BY <1>9, <1>10 DEF FinishComplete, FinishInterrupted, FinishLog
  <2>2. RowInv'
    BY <1>1, <1>3, <1>4, <1>5, <1>10, <2>1, RowStays DEF AccountInv
  <2> QED
    BY <1>6, <1>10, <2>1, <2>2, Logged DEF logVars
<1>11. CASE entry # "none"
  <2>1. Logging /\ relayed /\ pc # "answered"
    <3>1. Logging
      BY <1>1, <1>3, <1>11 DEF Logging, Streamed
    <3> QED
      BY <3>1, LoggingIs
  <2>2. CASE FinishLog("unremembered", o(r), 0, 0)
    <3>1. entry' = "none" /\ RowInv'
      BY <1>3, <1>5, <1>7, <1>11, <2>1, <2>2, RowWritten
    <3> QED
      BY <1>6, <3>1, Logged
  <2>3. CASE FinishComplete(o(r)) /\ (o(r).seen \/ r.ends = "eof")
    <3>1. entry' = "none" /\ RowInv'
      BY <1>4, <1>7, <2>1, <2>3, CompleteWritten
    <3> QED
      BY <1>6, <3>1, Logged
  <2>4. CASE ~o(r).seen /\ r.ends = "error" /\ FinishInterrupted(o(r)) /\ pc' = "close"
    <3>1. entry' = "none" /\ RowInv'
      BY <1>4, <1>7, <2>1, <2>4, InterruptedWritten
    <3> QED
      BY <1>6, <3>1, Logged
  <2>5. CASE ~o(r).seen /\ r.ends = "open" /\ UNCHANGED logVars /\ pc' = "deliver"
    <3>1. entry' # "none"
      BY <1>11, <2>5 DEF logVars
    <3>2. obs' = o(r)
      BY <1>2
    <3>3. UnloggedInv'
      BY <1>1, <2>5, <3>2 DEF UnloggedInv
    <3> QED
      BY <1>6, <3>1, <3>3 DEF AccountInv, RowInv
  <2> QED
    BY <1>9, <2>2, <2>3, <2>4, <2>5
<1> QED
  BY <1>10, <1>11

LEMMA EndAccounts == ASSUME AnswerInv, AnswerInv', AccountInv, WriteFails \/ Close PROVE AccountInv'
<1>1. /\ UNCHANGED <<wireVars, obs>> /\ UNCHANGED <<held, heldErr, handed>> /\ UNCHANGED logVars
      /\ \/ pc = "deliver" /\ gone /\ pc' = "close"
         \/ pc = "close" /\ pc' = IF entry # "none" /\ ~obs.seen /\ ~obs.pending THEN "drain" ELSE "settle"
  BY DEF WriteFails, Close, streamVars
<1>2. entry' = entry
  BY <1>1 DEF logVars
<1>3. Observing /\ ObservedInv' /\ bytes' = bytes /\ pos' = pos /\ upstream' = upstream /\ status' = status
      /\ relayed' = relayed /\ gone' = gone /\ Delivered' = Delivered
  <2>1. handed' = handed /\ pc # "closed" /\ pc' # "answered"
    BY <1>1
  <2> QED
    BY <1>1, <2>1, StillObserves DEF Delivered
<1>4. RowInv'
  <2> SUFFICES ASSUME entry' = "none" PROVE RowInv'
    BY DEF RowInv
  <2>1. pc \in {"close", "settle", "closed"} => pc' \in {"close", "settle", "closed"} /\ handed' = handed
    BY <1>1, <1>2
  <2> QED
    BY <1>1, <1>3, <2>1, StillRow
<1>5. UnloggedInv'
  <2> SUFFICES ASSUME entry' # "none" PROVE UnloggedInv'
    BY DEF UnloggedInv
  <2>1. /\ heldErr # "none" => upstream = heldErr
        /\ gone
    BY <1>1, <1>2 DEF AccountInv, UnloggedInv
  <2>2. pc' = "drain" => ~Seen(Delivered).seen
    <3> SUFFICES ASSUME pc' = "drain" PROVE ~Seen(Delivered).seen
      OBVIOUS
    <3>1. ~obs.seen
      BY <1>1
    <3> QED
      BY <1>3, <3>1, ObservingIs
  <2>3. pc' \in {"close", "drain", "settle"}
    BY <1>1
  <2>4. heldErr' = heldErr /\ (pc' = "drain" => ~Seen(Delivered').seen)
    BY <1>1, <1>3, <2>2
  <2> QED
    BY <1>3, <2>1, <2>3, <2>4 DEF UnloggedInv
<1> QED
  BY <1>3, <1>4, <1>5 DEF AccountInv

LEMMA DrainAccounts == ASSUME AnswerInv, AnswerInv', AccountInv, Drain PROVE AccountInv'
<1>1. /\ pc = "drain" /\ UNCHANGED <<held, heldErr, handed>> /\ UNCHANGED logVars /\ Observing
      /\ \E r \in Reads : Receive(r) /\ obs' = After(r, {}) /\ pc' \in {"drained", "drain"}
  BY DEF Drain, AccountInv, ObservedInv
<1>2. PICK r \in Reads : Receive(r) /\ obs' = After(r, {}) /\ pc' \in {"drained", "drain"}
  BY <1>1
<1>3. UNCHANGED <<bytes, gone, status, relayed>>
  BY <1>2 DEF Receive
<1>4. /\ obs' = Seen(Received') \/ (upstream' # "open" /\ obs' = Said1(Received'))
      /\ upstream' = r.ends /\ (upstream # "open" => upstream' = upstream)
  <2> DEFINE none == {}
  <2>1. none \in SUBSET {"eof", "error"}
    OBVIOUS
  <2> HIDE DEF none
  <2>2. LET o == After(r, none)
        IN  /\ Received' \in Seq(Byte) /\ bytes' = bytes
            /\ o = Seen(Received') \/ (upstream' # "open" /\ o = Said1(Received'))
            /\ r.ends \in none => o = Said1(Received')
            /\ upstream' = r.ends /\ (upstream # "open" => upstream' = upstream)
    BY <1>1, <1>2, <2>1, ReadObserves DEF AnswerInv
  <2>3. obs' = After(r, none)
    BY <1>2 DEF none
  <2> QED
    BY <2>2, <2>3
<1>5. pos' \in Nat /\ pos <= pos'
  BY <1>2, ReadGrows
<1>6. ObservedInv'
  BY <1>2, <1>4 DEF ObservedInv, Observing
<1>7. entry' = entry
  BY <1>1 DEF logVars
<1>8. RowInv'
  <2> SUFFICES ASSUME entry' = "none" PROVE RowInv'
    BY DEF RowInv
  <2> QED
    BY <1>1, <1>3, <1>4, <1>5, <1>7, RowStays DEF AccountInv
<1>9. UnloggedInv'
  <2> SUFFICES ASSUME entry' # "none" PROVE UnloggedInv'
    BY DEF UnloggedInv
  <2>1. gone /\ ~Seen(Delivered).seen /\ (heldErr # "none" => upstream = heldErr)
    BY <1>1, <1>7 DEF AccountInv, UnloggedInv
  <2>2. heldErr \in {"none", "eof", "error"}
    BY DEF AnswerInv, HoldInv
  <2>3. heldErr' # "none" => upstream' = heldErr'
    BY <1>1, <1>4, <2>1, <2>2
  <2>4. gone' /\ ~Seen(Delivered').seen
    BY <1>1, <1>3, <2>1 DEF Delivered
  <2> QED
    BY <1>2, <2>3, <2>4 DEF UnloggedInv
<1> QED
  BY <1>6, <1>8, <1>9 DEF AccountInv

LEMMA SettleAccounts == ASSUME AnswerInv, AnswerInv', AccountInv, Settle PROVE AccountInv'
<1>1. /\ pc \in {"settle", "drained"} /\ pc' = "closed" /\ UNCHANGED wireVars /\ UNCHANGED <<held, heldErr, handed>>
      /\ obs' = IF entry = "none" THEN obs ELSE FinishObservation(obs)
      /\ IF pc = "settle" /\ obs'.seen THEN FinishComplete(obs) ELSE FinishLog("left", obs, 0, 0)
  BY DEF Settle
<1>2. Observing
  BY <1>1 DEF AccountInv, ObservedInv
<1>3. Received' = Received /\ bytes' = bytes /\ pos' = pos /\ upstream' = upstream
      /\ status' = status /\ relayed' = relayed /\ gone' = gone /\ Delivered' = Delivered
  BY <1>1 DEF wireVars, Received, Delivered
<1>4. ObservedInv'
  BY <1>1 DEF ObservedInv
<1>5. CASE entry = "none"
  <2>1. UNCHANGED logVars
    BY <1>1, <1>5 DEF FinishComplete, FinishLog
  <2>2. RowInv'
    BY <1>1, <1>3, <2>1, StillRow
  <2> QED
    BY <1>4, <1>5, <2>1, <2>2, Logged DEF logVars
<1>6. CASE entry # "none"
  <2>1. Logging /\ relayed /\ pc # "answered" /\ pos' \in Nat
    <3>1. Logging
      BY <1>1, <1>3, <1>6 DEF Logging, Streamed
    <3> QED
      BY <3>1, LoggingIs
  <2>2. FinishObservation(obs) = Said1(Received') /\ obs' = Said1(Received')
    BY <1>1, <1>2, <1>3, <1>6, ObservingIs
  <2>3. gone /\ (pc = "drained" => ~Seen(Delivered).seen)
    BY <1>1, <1>6 DEF AccountInv, UnloggedInv
  <2>4. CASE pc = "settle" /\ obs'.seen
    <3>1. FinishComplete(obs)
      BY <1>1, <2>4
    <3>2. entry' = "none" /\ RowInv'
      BY <2>1, <2>2, <2>4, <3>1, CompleteWritten
    <3> QED
      BY <1>4, <3>2, Logged
  <2>5. CASE ~(pc = "settle" /\ obs'.seen)
    <3>1. FinishLog("left", obs, 0, 0)
      BY <1>1, <2>5
    <3>2. ~Seen(Delivered').seen
      <4>1. CASE pc = "drained"
        BY <1>3, <2>3, <4>1
      <4>2. CASE pc = "settle"
        <5>1. ~obs.seen
          BY <1>2, <1>3, <2>2, <2>5, <4>2, ObservingIs
        <5> QED
          BY <1>2, <1>3, <5>1, ObservingIs
      <4> QED
        BY <1>1, <4>1, <4>2
    <3>3. entry' = "none" /\ RowInv'
      BY <1>1, <1>3, <1>6, <2>1, <2>2, <2>3, <3>1, <3>2, RowWritten
    <3> QED
      BY <1>4, <3>3, Logged
  <2> QED
    BY <2>4, <2>5
<1> QED
  BY <1>5, <1>6

\* A row written when a body was read whole, or could not be.
LEMMA BodyWritten ==
    ASSUME AnswerInv, AnswerInv', ~relayed, UNCHANGED <<bytes, status, relayed>>, pos' \in Nat, entry' = "none",
           NEW row, rows' = <<row>>, row.read = pos',
           health'.charged = 1 => \/ status = "fault" \/ Said1(Received').error = "channel" \/ row.status = "timeout"
                                  \/ upstream' = "error" /\ ~row.left,
           row.status = "ok" => upstream' = "eof" /\ Said1(Received').error = "none" /\ health'.credited = 1,
           row.status = "left" => row.left
    PROVE  RowInv'
<1> PICK run : run = Received'
  OBVIOUS
<1>1. rows'[1] = row /\ SubSeq(bytes', 1, row.read) = run /\ row.read \in 0..pos'
  <2>1. pos' \in 0..pos'
    OBVIOUS
  <2> QED
    BY <2>1 DEF Received
<1>2. health'.charged = 1 => OwnFault(row, Said1(run))'
  BY DEF OwnFault
<1>3. RowIs(row, run)'
  BY <1>2 DEF RowIs
<1> QED
  BY <1>1, <1>3 DEF RowInv

LEMMA BufferBodyAccounts == ASSUME AnswerInv, AnswerInv', AccountInv, BufferBody PROVE AccountInv'
<1> DEFINE ends == {"eof"}
           o(r) == After(r, ends)
           left == gone /\ ~expired'
           code == IF left THEN "left" ELSE IF expired' THEN "timeout" ELSE "failed"
<1>1. pc = "buffer" /\ UNCHANGED <<held, heldErr, handed, open>> /\ Observing
  BY DEF BufferBody, AccountInv, ObservedInv
<1>2. entry # "none" /\ health = NoScore /\ rows = <<>> /\ ~relayed
  BY <1>1 DEF AnswerInv, ScoredInv, LedgerInv, ControlInv, Whole
<1>3. PICK r \in Reads :
        /\ Receive(r) /\ obs' = o(r)
        /\ CASE r.ends = "open" -> UNCHANGED <<logVars, pc, remembered>>
             [] r.ends = "error" -> /\ NoAnswer(code)
                                    /\ health' = [health EXCEPT !.charged = IF left THEN 0 ELSE 1]
                                    /\ UNCHANGED remembered
             [] OTHER -> /\ health' = BodyHealth(o(r))
                         /\ \/ /\ Good /\ ToRemember(o(r)) /\ remembered' = "failed"
                               /\ NoAnswer("unremembered")
                            \/ /\ IF Good THEN Remembers(o(r)) ELSE UNCHANGED remembered
                               /\ pc' = "answered" /\ UNCHANGED <<entry, rows>>
  BY DEF BufferBody
<1>4. UNCHANGED <<bytes, gone, status, relayed>>
  BY <1>3 DEF Receive
<1>5. /\ o(r) = Seen(Received') \/ (upstream' # "open" /\ o(r) = Said1(Received'))
      /\ r.ends = "eof" => o(r) = Said1(Received')
      /\ upstream' = r.ends /\ (upstream # "open" => upstream' = upstream)
  BY <1>1, <1>3, ReadObserves DEF AnswerInv
<1>6. pos' \in Nat
  BY <1>3, ReadGrows
<1>7. r.ends \in {"open", "eof", "error"}
  BY ReadIs DEF AnswerInv
<1> HIDE DEF o, left, code
<1>8. Observing'
  BY <1>3, <1>5 DEF Observing
<1>9. CASE r.ends = "open"
  <2>1. UNCHANGED <<logVars, pc, remembered>>
    BY <1>3, <1>9
  <2>2. entry' = entry /\ pc' = "buffer"
    BY <1>1, <2>1 DEF logVars
  <2>3. ObservedInv'
    BY <1>8, <2>2 DEF ObservedInv
  <2>4. heldErr' # "none" => upstream' = heldErr'
    <3>1. heldErr # "none" => upstream = heldErr
      BY <1>2 DEF AccountInv, UnloggedInv
    <3>2. heldErr \in {"none", "eof", "error"}
      BY DEF AnswerInv, HoldInv
    <3> QED
      BY <1>1, <1>5, <3>1, <3>2
  <2>5. UnloggedInv'
    BY <2>2, <2>4 DEF UnloggedInv
  <2> QED
    BY <1>2, <2>2, <2>3, <2>5 DEF AccountInv, RowInv
<1>10. CASE r.ends = "error"
  <2>1. NoAnswer(code) /\ health' = [health EXCEPT !.charged = IF left THEN 0 ELSE 1]
    BY <1>3, <1>10
  <2>2. PICK retried \in BOOLEAN :
          rows' = Append(rows, [status |-> code, retried |-> retried, read |-> pos', left |-> gone,
                                usage |-> Counts(NoUsage)])
    BY <2>1 DEF NoAnswer
  <2>3. entry' = "none" /\ pc' = "closed"
    BY <2>1 DEF NoAnswer
  <2> PICK row : row = [status |-> code, retried |-> retried, read |-> pos', left |-> gone, usage |-> Counts(NoUsage)]
    OBVIOUS
  <2>4. rows' = <<row>> /\ row.read = pos' /\ row.left = gone /\ row.status = code
    BY <1>2, <2>2
  <2>5. health'.charged = IF left THEN 0 ELSE 1
    BY <1>2, <2>1 DEF NoScore
  <2>6. code = "left" => gone
    BY DEF code, left
  <2>7. health'.charged = 1 => code = "timeout" \/ ~gone
    BY <2>5 DEF code, left
  <2>8. code # "ok"
    BY DEF code
  <2>9. RowInv'
    BY <1>2, <1>4, <1>5, <1>6, <1>10, <2>3, <2>4, <2>6, <2>7, <2>8, BodyWritten
  <2>10. ObservedInv'
    BY <2>3 DEF ObservedInv
  <2> QED
    BY <2>3, <2>9, <2>10, Logged
<1>11. CASE r.ends = "eof"
  <2>1. /\ health' = BodyHealth(o(r))
        /\ \/ /\ Good /\ ToRemember(o(r)) /\ remembered' = "failed"
              /\ NoAnswer("unremembered")
           \/ /\ IF Good THEN Remembers(o(r)) ELSE UNCHANGED remembered
              /\ pc' = "answered" /\ UNCHANGED <<entry, rows>>
    BY <1>3, <1>11
  <2>2. obs' = o(r) /\ o(r) = Said1(Received') /\ upstream' = "eof"
    BY <1>3, <1>5, <1>11
  <2>3. CASE Good /\ NoAnswer("unremembered")
    <3>1. PICK retried \in BOOLEAN :
            rows' = Append(rows, [status |-> "unremembered", retried |-> retried, read |-> pos', left |-> gone,
                                  usage |-> Counts(NoUsage)])
      BY <2>3 DEF NoAnswer
    <3>2. entry' = "none" /\ pc' = "closed"
      BY <2>3 DEF NoAnswer
    <3> PICK row : row = [status |-> "unremembered", retried |-> retried, read |-> pos', left |-> gone,
                          usage |-> Counts(NoUsage)]
      OBVIOUS
    <3>3. rows' = <<row>> /\ row.read = pos' /\ row.status = "unremembered"
      BY <1>2, <3>1
    <3>4. health'.charged = 1 => Said1(Received').error = "channel"
      <4>1. status # "fault"
        BY <2>3 DEF Good
      <4> QED
        BY <2>1, <2>2, <4>1 DEF BodyHealth
    <3>5. RowInv'
      BY <1>2, <1>4, <1>6, <3>2, <3>3, <3>4, BodyWritten
    <3>6. ObservedInv'
      BY <3>2 DEF ObservedInv
    <3> QED
      BY <3>2, <3>5, <3>6, Logged
  <2>4. CASE pc' = "answered" /\ UNCHANGED <<entry, rows>>
    <3>1. health' = BodyHealth(obs)'
      <4>1. Good' = Good /\ status' = status
        BY <1>4 DEF Good
      <4> QED
        BY <2>1, <2>2, <4>1 DEF BodyHealth
    <3>2. ObservedInv'
      BY <1>8, <2>2, <2>4, <3>1 DEF ObservedInv
    <3>3. heldErr' # "none" => upstream' = heldErr'
      <4>1. heldErr # "none" => upstream = heldErr
        BY <1>2 DEF AccountInv, UnloggedInv
      <4>2. heldErr \in {"none", "eof", "error"}
        BY DEF AnswerInv, HoldInv
      <4> QED
        BY <1>1, <1>5, <4>1, <4>2
    <3>4. UnloggedInv'
      BY <2>4, <3>3 DEF UnloggedInv
    <3> QED
      BY <1>2, <2>4, <3>2, <3>4 DEF AccountInv, RowInv
  <2> QED
    BY <2>1, <2>3, <2>4
<1> QED
  BY <1>7, <1>9, <1>10, <1>11

LEMMA BufferedAccounts == ASSUME AnswerInv, AnswerInv', AccountInv, RetryBuffered \/ CloseBuffered PROVE AccountInv'
<1>1. pc = "answered" /\ UNCHANGED <<wireVars, streamVars, health, open>>
  BY DEF RetryBuffered, CloseBuffered
<1>2. Received' = Received /\ bytes' = bytes /\ pos' = pos /\ upstream' = upstream /\ obs' = obs
      /\ status' = status /\ relayed' = relayed /\ gone' = gone /\ health' = health /\ heldErr' = heldErr
  BY <1>1 DEF wireVars, streamVars, Received
<1>3. entry # "none" /\ rows = <<>> /\ ~relayed
  BY <1>1 DEF AnswerInv, ScoredInv, LedgerInv, ControlInv, Whole
<1>4. Observing /\ upstream = "eof" /\ obs = Said1(Received) /\ health = BodyHealth(obs)
  BY <1>1 DEF AccountInv, ObservedInv
<1>5. CASE RetryBuffered
  <2>1. pc' = "answered" /\ entry' # "none"
    BY <1>1, <1>5 DEF RetryBuffered
  <2>2. Observing'
    BY <1>2, <1>4 DEF Observing
  <2>3. health' = BodyHealth(obs)'
    <3>1. Good' = Good
      BY <1>2 DEF Good
    <3> QED
      BY <1>2, <1>4, <3>1 DEF BodyHealth
  <2>4. ObservedInv'
    BY <1>2, <1>4, <2>1, <2>2, <2>3 DEF ObservedInv
  <2>5. heldErr' # "none" => upstream' = heldErr'
    BY <1>2, <1>3 DEF AccountInv, UnloggedInv
  <2>6. UnloggedInv'
    BY <2>1, <2>5 DEF UnloggedInv
  <2> QED
    BY <2>1, <2>4, <2>6 DEF AccountInv, RowInv
<1>6. CASE CloseBuffered
  <2> DEFINE answered == IF Good /\ obs.error # "none" THEN "failed" ELSE status
             code == IF entry # "retried" /\ gone THEN "left" ELSE answered
  <2>1. rows' = Append(rows, [status |-> code, retried |-> entry = "retried", read |-> pos, left |-> gone,
                              usage |-> ExtractUsage(Received)])
    BY <1>6 DEF CloseBuffered
  <2>2. entry' = "none" /\ pc' = "closed"
    BY <1>6 DEF CloseBuffered
  <2> PICK row : row = [status |-> code, retried |-> entry = "retried", read |-> pos, left |-> gone,
                        usage |-> ExtractUsage(Received)]
    OBVIOUS
  <2>3. rows' = <<row>> /\ row.read = pos' /\ row.status = code /\ row.left = gone
    BY <1>2, <1>3, <2>1
  <2>4. pos' \in Nat
    BY <1>2, ReceivedIs DEF AnswerInv
  <2>5. status \in {"ok", "refused", "fault"}
    BY DEF AnswerInv, WireInv
  <2>6. health'.charged = 1 => status = "fault" \/ Said1(Received').error = "channel"
    BY <1>2, <1>4 DEF BodyHealth
  <2>7. code = "left" => gone
    BY <2>5
  <2>8. code = "ok" => obs.error = "none" /\ Good
    BY <2>5 DEF Good
  <2>9. obs.error = "none" /\ Good => health'.credited = 1
    BY <1>2, <1>4 DEF BodyHealth
  <2> HIDE DEF code
  <2>10. RowInv'
    BY <1>2, <1>3, <1>4, <2>2, <2>3, <2>4, <2>6, <2>7, <2>8, <2>9, BodyWritten
  <2>11. ObservedInv'
    BY <2>2 DEF ObservedInv
  <2> QED
    BY <2>2, <2>10, <2>11, Logged
<1> QED
  BY <1>5, <1>6

LEMMA LeaveAccounts == ASSUME AnswerInv, AnswerInv', AccountInv, Leave \/ UNCHANGED answerVars PROVE AccountInv'
<1>1. /\ UNCHANGED <<bytes, pos, upstream, expired, status, relayed, pc>> /\ UNCHANGED streamVars /\ UNCHANGED logVars
      /\ (gone => gone')
  BY DEF Leave, answerVars, wireVars
<1>2. Received' = Received /\ upstream' = upstream /\ obs' = obs /\ pc' = pc /\ health' = health /\ entry' = entry
      /\ held' = held /\ pos' = pos /\ heldErr' = heldErr /\ Delivered' = Delivered /\ handed' = handed
  BY <1>1 DEF Received, streamVars, logVars, Delivered
<1>3. Observing => Observing'
  BY <1>2 DEF Observing
<1>4. BodyHealth(obs)' = BodyHealth(obs)
  <2>1. Good' = Good /\ status' = status
    BY <1>1 DEF Good
  <2> QED
    BY <1>2, <2>1 DEF BodyHealth
<1>5. ObservedInv'
  BY <1>2, <1>3, <1>4 DEF AccountInv, ObservedInv
<1>6. UnloggedInv'
  BY <1>1, <1>2 DEF AccountInv, UnloggedInv
<1>7. RowInv'
  BY <1>1, <1>2, StillRow
<1> QED
  BY <1>5, <1>6, <1>7 DEF AccountInv

LEMMA AccountKeeps == AnswerInv /\ AccountInv /\ [AnswerNext]_answerVars => AnswerInv' /\ AccountInv'
<1> SUFFICES ASSUME AnswerInv, AccountInv, [AnswerNext]_answerVars PROVE AnswerInv' /\ AccountInv'
  OBVIOUS
<1>1. AnswerInv'
  BY AnswerKeeps
<1>2. CASE Prime
  BY <1>1, <1>2, PrimeAccounts
<1>3. CASE DeliverFailed \/ MarkRetried
  BY <1>1, <1>3, FailedAccounts
<1>4. CASE Abandon
  BY <1>1, <1>4, AbandonAccounts
<1>5. CASE ReadHeld \/ ReadHeldErr
  BY <1>1, <1>5, ReadHeldAccounts, ReadHeldErrAccounts
<1>6. CASE ReadUpstream
  BY <1>1, <1>6, ReadUpstreamAccounts
<1>7. CASE WriteFails \/ Close
  BY <1>1, <1>7, EndAccounts
<1>8. CASE Drain \/ Settle
  BY <1>1, <1>8, DrainAccounts, SettleAccounts
<1>9. CASE BufferBody
  BY <1>1, <1>9, BufferBodyAccounts
<1>10. CASE RetryBuffered \/ CloseBuffered
  BY <1>1, <1>10, BufferedAccounts
<1>11. CASE Leave \/ UNCHANGED answerVars
  BY <1>1, <1>11, LeaveAccounts
<1> QED
  BY <1>1, <1>2, <1>3, <1>4, <1>5, <1>6, <1>7, <1>8, <1>9, <1>10, <1>11 DEF AnswerNext

LEMMA AccountTells == AnswerInv /\ AccountInv => AccountIsTheAnswer
<1> SUFFICES ASSUME AnswerInv, AccountInv PROVE AccountIsTheAnswer
  OBVIOUS
<1>1. pc = "closed" => entry = "none"
  BY DEF AnswerInv, ScoredInv
<1>2. entry # "none" => rows = <<>>
  BY DEF AnswerInv, LedgerInv
<1>3. CASE entry # "none"
  <2>1. EndsAsItWas
    BY <1>1, <1>3 DEF EndsAsItWas
  <2>2. UsageIsWhatWasSaid
    BY <1>2, <1>3 DEF UsageIsWhatWasSaid
  <2> QED
    BY <2>1, <2>2 DEF AccountIsTheAnswer
<1>4. CASE entry = "none"
  <2>1. PICK row : rows = <<row>>
    BY <1>4 DEF AnswerInv, LedgerInv
  <2>2. Len(rows) = 1 /\ rows[1] = row /\ DOMAIN rows = {1}
    BY <2>1
  <2> PICK run : run = SubSeq(bytes, 1, row.read)
    OBVIOUS
  <2>3. row.read \in 0..pos /\ RowIs(row, run)
    BY <1>4, <2>2 DEF AccountInv, RowInv
  <2>4. run \in Seq(Byte)
    <3>1. bytes \in Seq(Byte) /\ pos \in 0..Len(bytes) /\ Len(bytes) \in Nat
      BY LenProperties DEF AnswerInv, WireInv
    <3>2. row.read \in 0..Len(bytes) /\ 0 \in 0..row.read /\ row.read \in 0..row.read
      BY <2>3, <3>1
    <3> QED
      BY <3>1, <3>2, PrefixIs
  <2> DEFINE said == Said1(run)
             whole == SubSeq(bytes, 1, handed)
  <2>5. whole \in Seq(Byte)
    <3>1. bytes \in Seq(Byte) /\ pos \in 0..Len(bytes) /\ Len(bytes) \in Nat
      BY LenProperties DEF AnswerInv, WireInv
    <3>2. held \in Nat /\ handed \in Nat /\ held + handed <= pos
      BY DEF AnswerInv, HoldInv
    <3>3. handed \in 0..Len(bytes) /\ handed \in 0..handed
      BY <3>1, <3>2
    <3> QED
      BY <3>1, <3>3, PrefixIs
  <2>6. /\ Counts(said.usage) = Reported(run) /\ (said.final <=> FinalReported(run))
        /\ said.text = TextOf(run) /\ said.error = ErrorOf(run)
        /\ (Seen(run).seen <=> EndedInFull(run)) /\ (said.seen <=> Ended(run))
    BY <2>4, ObservedIsSaid
  <2>7. Seen(whole).seen <=> EndedInFull(whole)
    BY <2>5, ObservedIsSaid
  <2>8. /\ health.charged = 1 => OwnFault(row, said)
        /\ row.status = "ok" => (said.seen \/ upstream = "eof") /\ said.error = "none" /\ health.credited = 1
        /\ row.status = "left" => row.left
        /\ relayed =>
             /\ row.status = "left" => health = NoScore /\ pc \in {"close", "settle", "closed"} /\ ~Seen(whole).seen
             /\ Seen(run).seen /\ said.error = "none" => row.status \notin {"failed", "timeout"}
             /\ row.status = "failed" /\ said.error = "channel" => health.charged = 1
             /\ row.usage = BilledFor(row, said)
    BY <2>3 DEF RowIs, Delivered
  <2> HIDE DEF said, whole
  <2>9. health.charged + health.credited <= 1 /\ (health = NoScore => health.charged + health.credited = 0)
    BY DEF AnswerInv, LedgerInv, Scores, NoScore
  <2> DEFINE ownFault == \/ status = "fault" \/ ErrorOf(run) = "channel" \/ row.status = "timeout"
                         \/ upstream = "error" /\ ~row.left
                         \/ upstream = "eof" /\ row.retried
  <2>10. health.charged = 1 => ownFault
    BY <2>6, <2>8 DEF OwnFault
  <2>11. row.status = "ok" => (Ended(run) \/ upstream = "eof") /\ ErrorOf(run) = "none" /\ health.credited = 1
    BY <2>6, <2>8
  <2>12. relayed /\ row.status = "left" => health.charged + health.credited = 0 /\ ~EndedInFull(whole)
    BY <2>7, <2>8, <2>9
  <2>13. /\ relayed /\ EndedInFull(run) /\ ErrorOf(run) = "none" => row.status \notin {"failed", "timeout"}
         /\ relayed /\ row.status = "failed" /\ ErrorOf(run) = "channel" => health.charged = 1
    BY <2>6, <2>8
  <2>14. EndsAsItWas
    <3> SUFFICES ASSUME pc = "closed" PROVE EndsAsItWas
      BY DEF EndsAsItWas
    <3> QED
      BY <2>2, <2>8, <2>9, <2>10, <2>11, <2>12, <2>13 DEF EndsAsItWas, whole
  <2>15. UsageIsWhatWasSaid
    <3> SUFFICES ASSUME relayed
                 PROVE  row.usage = IF row.status = "left" /\ ~FinalReported(run)
                                    THEN Estimated(Reported(run), TextOf(run)) ELSE Reported(run)
      BY <2>2 DEF UsageIsWhatWasSaid
    <3> QED
      BY <2>6, <2>8 DEF BilledFor
  <2> QED
    BY <2>14, <2>15 DEF AccountIsTheAnswer
<1> QED
  BY <1>3, <1>4

(* What the account of an attempt says is what its answer was: one row,    *)
(* and one score of the channel with it, whichever comes first of the      *)
(* answer's end, the clock, a lost connection and the client leaving, with *)
(* the usage the upstream told however reads cut it                        *)
(* (proxy/ssestream.go:295-392; proxy/sse.go:205-330).                     *)
THEOREM AccountsAreTrue == AnswerSpec => []AccountIsTheAnswer
<1>1. AnswerInit => AnswerInv /\ AccountInv
  BY AnswerStarts, AccountStarts
<1>2. AnswerInv /\ AccountInv /\ [AnswerNext]_answerVars => AnswerInv' /\ AccountInv'
  BY AccountKeeps
<1>3. AnswerInv /\ AccountInv => AccountIsTheAnswer
  BY AccountTells
<1> QED
  BY <1>1, <1>2, <1>3, PTL DEF AnswerSpec

-----------------------------------------------------------------------------
(* What an upstream sends line by line is read line by line.               *)

LEMMA BytesAssociate ==
    ASSUME NEW a \in Seq(Byte), NEW b \in Seq(Byte), NEW c \in Seq(Byte)
    PROVE  (a \o b) \o c = a \o (b \o c)
  BY ConcatAssociative

LEMMA PartsEndNothing == ASSUME NEW x \in Part PROVE x # LineBreak
<1>1. x[2] # 0
  BY DEF Part
<1>2. LineBreak[2] = 0
  BY DEF LineBreak
<1> QED
  BY <1>1, <1>2

\* Parts read after a run make its last line longer, and end none.
LEMMA PartsExtend ==
    ASSUME NEW run \in Seq(Byte), NEW text \in Seq(Part)
    PROVE  /\ run \o text \in Seq(Byte)
           /\ Lines1(run \o text) = Lines1(run) /\ RestOf(run \o text) = RestOf(run) \o text
<1> DEFINE N == Len(text)
           upto(n) == SubSeq(text, 1, n)
           longer(n) == run \o upto(n)
           G == {n \in Nat : n <= N => /\ longer(n) \in Seq(Byte) /\ Lines1(longer(n)) = Lines1(run)
                                       /\ RestOf(longer(n)) = RestOf(run) \o upto(n)}
<1>1. N \in Nat /\ RestOf(run) \in Seq(Part) /\ \A i \in 1..N : text[i] \in Part
  BY LenProperties, ElementOfSeq, LinesAre
<1>2. ASSUME NEW n \in 0..N PROVE upto(n) \in Seq(Part)
  <2>1. 1 \in Int /\ n \in Int /\ \A i \in 1..n : text[i] \in Part
    BY <1>1
  <2> QED
    BY <2>1, SubSeqProperties
<1>3. upto(0) = <<>> /\ upto(N) = text
  BY SubSeqEmpty, SubSeqFull
<1>4. run \o <<>> = run /\ RestOf(run) \o <<>> = RestOf(run)
  BY <1>1, ConcatEmptySeq
<1> HIDE DEF N, upto
<1>5. 0 \in G
  BY <1>3, <1>4
<1>6. ASSUME NEW n \in Nat, n \in G PROVE n + 1 \in G
  <2> DEFINE m == n + 1
  <2> SUFFICES ASSUME m <= N
               PROVE  /\ longer(m) \in Seq(Byte) /\ Lines1(longer(m)) = Lines1(run)
                      /\ RestOf(longer(m)) = RestOf(run) \o upto(m)
    <3> HIDE DEF longer
    <3> QED
      OBVIOUS
  <2>1. m \in 1..N /\ n \in 0..N /\ m - 1 = n /\ n <= N
    BY <1>1
  <2>2. upto(m) = upto(n) \o <<text[m]>>
    <3>1. 1 \in 1..N /\ m \in 1..N
      <4> HIDE DEF m
      <4> QED
        BY <1>1, <2>1
    <3>2. SubSeq(text, 1, m) = SubSeq(text, 1, m - 1) \o <<text[m]>>
      <4> HIDE DEF m
      <4> QED
        BY <3>1, SubSeqRecursiveSecond DEF N
    <3> QED
      BY <2>1, <3>2 DEF upto
  <2>3. upto(n) \in Seq(Part) /\ text[m] \in Part /\ text[m] \in Byte /\ text[m] # LineBreak
    <3>1. upto(n) \in Seq(Part) /\ text[m] \in Part
      BY <1>1, <1>2, <2>1
    <3> HIDE DEF m
    <3> QED
      BY <3>1, PartsEndNothing DEF Byte
  <2>4. /\ longer(n) \in Seq(Byte) /\ Lines1(longer(n)) = Lines1(run)
        /\ RestOf(longer(n)) = RestOf(run) \o upto(n)
    BY <1>6, <2>1
  <2> HIDE DEF m
  <2>5. <<text[m]>> \in Seq(Part) /\ <<text[m]>> \in Seq(Byte) /\ upto(n) \in Seq(Byte)
    <3>1. Part \subseteq Byte
      BY DEF Byte
    <3> QED
      BY <2>3, <3>1, OneIs, SeqMonotonic
  <2>6. longer(m) = Append(longer(n), text[m])
    <3>1. (run \o upto(n)) \o <<text[m]>> = run \o (upto(n) \o <<text[m]>>)
      BY <2>5, ConcatAssociative
    <3>2. Append(run \o upto(n), text[m]) = (run \o upto(n)) \o <<text[m]>>
      BY <2>3, <2>4, AppendIsConcat
    <3> QED
      BY <2>2, <3>1, <3>2
  <2>7. RestOf(run) \o upto(m) = Append(RestOf(run) \o upto(n), text[m])
    <3>1. (RestOf(run) \o upto(n)) \o <<text[m]>> = RestOf(run) \o (upto(n) \o <<text[m]>>)
      BY <1>1, <2>3, <2>5, ConcatAssociative
    <3>2. RestOf(run) \o upto(n) \in Seq(Part)
      BY <1>1, <2>3, ConcatProperties
    <3>3. Append(RestOf(run) \o upto(n), text[m]) = (RestOf(run) \o upto(n)) \o <<text[m]>>
      BY <2>3, <3>2, AppendIsConcat
    <3> QED
      BY <2>2, <3>1, <3>3
  <2> HIDE DEF longer
  <2>8. Append(longer(n), text[m]) \in Seq(Byte)
    BY <2>3, <2>4, AppendProperties
  <2>9. /\ Lines1(Append(longer(n), text[m])) = Lines1(longer(n))
        /\ RestOf(Append(longer(n), text[m])) = Append(RestOf(longer(n)), text[m])
    BY <2>3, <2>4, OneMoreByte
  <2> QED
    BY <2>4, <2>6, <2>7, <2>8, <2>9
<1>7. \A n \in Nat : n \in G
  <2>1. G \in SUBSET Nat
    OBVIOUS
  <2> HIDE DEF G
  <2> QED
    BY <1>5, <1>6, <2>1, Upwards
<1>8. N <= N
  BY <1>1
<1>9. longer(N) \in Seq(Byte) /\ Lines1(longer(N)) = Lines1(run) /\ RestOf(longer(N)) = RestOf(run) \o upto(N)
  BY <1>1, <1>7, <1>8
<1> QED
  BY <1>3, <1>9

\* What an upstream may send: lines the instance knows, and blank ones.
LineNames == DOMAIN Lines \cup {""}

\* The bytes of a line, and the piece they are cut into.
LineBytes(line) == IF line = "" THEN <<LineBreak>> ELSE Append(Parts(line), LineBreak)
LinePiece(line) == [text |-> IF line = "" THEN <<>> ELSE Parts(line), complete |-> TRUE]

LEMMA OneMoreLine ==
    ASSUME NEW run \in Seq(Byte), RestOf(run) = <<>>, NEW line \in LineNames
    PROVE  LET more == run \o LineBytes(line)
           IN  /\ LineBytes(line) \in Seq(Byte) /\ more \in Seq(Byte)
               /\ Lines1(more) = Append(Lines1(run), LinePiece(line)) /\ RestOf(more) = <<>>
<1> DEFINE text == IF line = "" THEN <<>> ELSE Parts(line)
<1>1. LineBreak \in Byte /\ Part \subseteq Byte
  BY DEF Byte
<1>2. text \in Seq(Part) /\ text \in Seq(Byte)
  <2>1. <<>> \in Seq(Part)
    BY EmptySeq
  <2>2. text \in Seq(Part)
    BY <2>1, PartsAre DEF LineNames
  <2> HIDE DEF text
  <2> QED
    BY <1>1, <2>2, SeqMonotonic
<1>3. LineBytes(line) = text \o <<LineBreak>>
  <2>1. line # "" => Append(Parts(line), LineBreak) = Parts(line) \o <<LineBreak>>
    BY <1>1, <1>2, AppendIsConcat
  <2>2. <<>> \o <<LineBreak>> = <<LineBreak>>
    BY <1>1, OneIs, ConcatEmptySeq
  <2> QED
    BY <2>1, <2>2 DEF LineBytes
<1> HIDE DEF text
<1>4. <<LineBreak>> \in Seq(Byte)
  BY <1>1, OneIs
<1>5. LineBytes(line) \in Seq(Byte) /\ run \o LineBytes(line) \in Seq(Byte)
  BY <1>2, <1>3, <1>4, ConcatProperties
<1>6. run \o text \in Seq(Byte) /\ Lines1(run \o text) = Lines1(run) /\ RestOf(run \o text) = text
  <2>1. <<>> \o text = text
    BY <1>2, ConcatEmptySeq
  <2> QED
    BY <1>2, <2>1, PartsExtend
<1>7. run \o LineBytes(line) = Append(run \o text, LineBreak)
  <2> DEFINE end == <<LineBreak>>
  <2>1. (run \o text) \o end = run \o (text \o end)
    <3> HIDE DEF end
    <3>1. run \in Seq(Byte) /\ text \in Seq(Byte) /\ end \in Seq(Byte)
      BY <1>2, <1>4 DEF end
    <3> QED
      BY <3>1, BytesAssociate, Zenon
  <2>2. Append(run \o text, LineBreak) = (run \o text) \o <<LineBreak>>
    BY <1>1, <1>6, AppendIsConcat
  <2> QED
    BY <1>3, <2>1, <2>2
<1>8. /\ Lines1(Append(run \o text, LineBreak)) = Append(Lines1(run \o text), [text |-> RestOf(run \o text), complete |-> TRUE])
      /\ RestOf(Append(run \o text, LineBreak)) = <<>>
  BY <1>1, <1>6, OneMoreByte
<1>9. LinePiece(line) = [text |-> text, complete |-> TRUE]
  BY DEF LinePiece, text
<1> QED
  BY <1>5, <1>6, <1>7, <1>8, <1>9

\* Nothing is no line and half of none.
LEMMA NothingSplit == Lines1(<<>>) = <<>> /\ RestOf(<<>>) = <<>>
<1> DEFINE none == <<>>
<1>1. none \in Seq(Byte) /\ Len(none) = 0
  OBVIOUS
<1>2. Breaks(none) = {} /\ Cardinality(Breaks(none)) = 0
  BY FS_EmptySet DEF Breaks
<1>3. Line1(none, Cardinality(Breaks(none)) + 1) = 1
  BY <1>2 DEF Line1
<1>4. RestOf(none) = <<>>
  BY <1>1, <1>3, SubSeqEmpty DEF RestOf
<1>5. Lines1(none) = <<>>
  BY <1>2 DEF Lines1
<1> QED
  BY <1>4, <1>5

\* The first lines of a stream, framed.
Framed(run, lines, n) ==
    /\ run \in Seq(Byte) /\ RestOf(run) = <<>>
    /\ Lines1(run) = [i \in 1..n |-> LinePiece(lines[i])]

LEMMA OneMoreAtEnd ==
    ASSUME NEW S, NEW n \in Nat, NEW m \in Nat, m = n + 1,
           NEW b \in Seq(S), Len(b) = n, NEW a \in Seq(S), Len(a) = m, \A i \in 1..n : a[i] = b[i]
    PROVE  Append(b, a[m]) = a
<1> DEFINE c == Append(b, a[m])
<1>1. a[m] \in S
  BY ElementOfSeq
<1>2. c \in Seq(S) /\ Len(c) = m /\ (\A i \in 1..n : c[i] = b[i]) /\ c[m] = a[m]
  BY <1>1, AppendProperties
<1> HIDE DEF c
<1>3. \A i \in 1..m : c[i] = a[i]
  <2> TAKE i \in 1..m
  <2>1. i \in 1..n \/ i = m
    OBVIOUS
  <2> QED
    BY <1>2, <2>1
<1> QED
  BY <1>2, <1>3, SeqEqual DEF c

LEMMA FramedNext ==
    ASSUME NEW lines \in Seq(LineNames), NEW n \in Nat, NEW m \in 1..Len(lines), m = n + 1,
           NEW run, Framed(run, lines, n)
    PROVE  Framed(run \o LineBytes(lines[m]), lines, m)
<1> DEFINE more == run \o LineBytes(lines[m])
           before == [i \in 1..n |-> LinePiece(lines[i])]
           after == [i \in 1..m |-> LinePiece(lines[i])]
           S == {LinePiece(line) : line \in LineNames}
<1>1. m \in Nat /\ \A i \in 1..m : lines[i] \in LineNames
  <2>1. Len(lines) \in Nat /\ \A i \in 1..Len(lines) : lines[i] \in LineNames
    BY LenProperties, ElementOfSeq
  <2> DEFINE N == Len(lines)
  <2>2. N \in Nat /\ m \in 1..N /\ \A i \in 1..N : lines[i] \in LineNames
    BY <2>1
  <2> HIDE DEF N
  <2> QED
    BY <2>2
<1>2. m \in 1..m /\ \A i \in 1..n : i \in 1..m
  BY <1>1
<1>3. run \in Seq(Byte) /\ RestOf(run) = <<>> /\ Lines1(run) = before
  BY DEF Framed
<1>4. more \in Seq(Byte) /\ Lines1(more) = Append(before, LinePiece(lines[m])) /\ RestOf(more) = <<>>
  <2> HIDE DEF before
  <2> QED
    BY <1>1, <1>2, <1>3, OneMoreLine
<1>5. \A i \in 1..m : LinePiece(lines[i]) \in S
  BY <1>1
<1> HIDE DEF S
<1>6. after \in Seq(S) /\ Len(after) = m /\ \A i \in 1..m : after[i] = LinePiece(lines[i])
  <2>1. after = [i \in 1..m |-> after[i]] /\ \A i \in 1..m : after[i] = LinePiece(lines[i])
    OBVIOUS
  <2> HIDE DEF after
  <2> QED
    BY <1>1, <1>5, <2>1, ListIs
<1>7. before \in Seq(S) /\ Len(before) = n /\ \A i \in 1..n : before[i] = LinePiece(lines[i])
  <2>1. before = [i \in 1..n |-> before[i]] /\ \A i \in 1..n : before[i] = LinePiece(lines[i])
    OBVIOUS
  <2> HIDE DEF before
  <2> QED
    BY <1>2, <1>5, <2>1, ListIs
<1> HIDE DEF more, before, after
<1>8. Append(before, after[m]) = after
  BY <1>1, <1>2, <1>6, <1>7, OneMoreAtEnd
<1> QED
  BY <1>2, <1>4, <1>6, <1>8 DEF Framed, more, after

LEMMA LinesAreFramed ==
    ASSUME NEW lines \in Seq(LineNames)
    PROVE  Framed(Bytes(lines), lines, Len(lines))
<1> DEFINE N == Len(lines)
           seq == [i \in DOMAIN lines |->
                     IF lines[i] = "" THEN <<LineBreak>> ELSE Append(Parts(lines[i]), LineBreak)]
<1>1. N \in Nat /\ DOMAIN lines = 1..N /\ \A i \in 1..N : lines[i] \in LineNames
  BY LenProperties, ElementOfSeq
<1>2. seq = [i \in 1..N |-> seq[i]] /\ \A i \in 1..N : seq[i] = LineBytes(lines[i])
  BY <1>1 DEF LineBytes
<1>3. Bytes(lines) = FlattenSeq(seq)
  BY DEF Bytes
<1>4. Framed(<<>>, lines, 0)
  <2>1. [i \in 1..0 |-> LinePiece(lines[i])] = <<>>
    <3>1. 1..0 = {}
      OBVIOUS
    <3> QED
      BY <3>1
  <2>2. <<>> \in Seq(Byte)
    BY EmptySeq
  <2> QED
    BY <2>1, <2>2, NothingSplit DEF Framed
<1> HIDE DEF seq, N
<1>5. seq \in Seq(Seq(Byte)) /\ Len(seq) = N
  <2>1. \A i \in 1..N : seq[i] \in Seq(Byte)
    <3> TAKE i \in 1..N
    <3>1. LineBytes(lines[i]) \in Seq(Byte)
      <4>1. lines[i] \in LineNames
        BY <1>1
      <4> DEFINE line == lines[i]
      <4> HIDE DEF line
      <4>2. LineBytes(line) \in Seq(Byte)
        BY <1>4, <4>1, OneMoreLine DEF line, Framed
      <4> QED
        BY <4>2 DEF line
    <3> QED
      BY <1>2, <3>1
  <2> QED
    BY <1>1, <1>2, <2>1, ListIs
<1>6. CASE N = 0
  <2>1. Bytes(lines) = <<>>
    <3>1. seq = <<>>
      BY <1>5, <1>6, EmptySeq
    <3> QED
      BY <1>3, <1>5, <1>6, <3>1 DEF FlattenSeq
  <2> QED
    BY <1>4, <1>6, <2>1 DEF N
<1>7. CASE N # 0
  <2>1. PICK g : Joins(seq, N, g) /\ FlattenSeq(seq) = g[N]
    BY <1>5, <1>7, FlatJoins
  <2> DEFINE run(n) == IF n = 0 THEN <<>> ELSE g[n]
             F == {n \in Nat : n <= N => Framed(run(n), lines, n)}
  <2>2. 0 \in F
    BY <1>4
  <2>3. ASSUME NEW n \in Nat, n \in F PROVE n + 1 \in F
    <3> DEFINE m == n + 1
    <3>1. m \in Nat /\ (m <= N => n <= N /\ m \in 1..N) /\ m # 0 /\ m - 1 = n /\ (m = 1 <=> n = 0) /\ m = n + 1
      BY <1>1
    <3> HIDE DEF m
    <3> SUFFICES ASSUME m <= N PROVE Framed(run(m), lines, m)
      <4>1. m \in F
        <5> HIDE DEF run
        <5> QED
          BY <3>1
      <4> QED
        BY <4>1 DEF m
    <3>2. Framed(run(n), lines, n)
      BY <2>3, <3>1
    <3>3. run(m) = run(n) \o LineBytes(lines[m])
      <4>1. g[m] = IF m = 1 THEN seq[m] ELSE g[m - 1] \o seq[m]
        BY <2>1, <3>1 DEF Joins
      <4>2. seq[m] = LineBytes(lines[m]) /\ seq[m] \in Seq(Byte)
        BY <1>2, <1>5, <3>1, ElementOfSeq
      <4>3. CASE n = 0
        <5>1. <<>> \o seq[m] = seq[m]
          BY <4>2, ConcatEmptySeq
        <5> QED
          BY <3>1, <4>1, <4>2, <4>3, <5>1
      <4>4. CASE n # 0
        BY <3>1, <4>1, <4>2, <4>4
      <4> QED
        BY <4>3, <4>4
    <3> HIDE DEF run
    <3>4. Framed(run(n) \o LineBytes(lines[m]), lines, m)
      BY <3>1, <3>2, FramedNext DEF N
    <3> QED
      BY <3>3, <3>4
  <2>4. \A n \in Nat : n \in F
    <3>1. F \in SUBSET Nat
      OBVIOUS
    <3> HIDE DEF F
    <3> QED
      BY <2>2, <2>3, <3>1, Upwards
  <2> HIDE DEF run
  <2>5. Framed(run(N), lines, N)
    <3>1. N <= N
      BY <1>1
    <3> QED
      BY <1>1, <2>4, <3>1
  <2> QED
    BY <1>3, <1>7, <2>1, <2>5 DEF N, run
<1> QED
  BY <1>6, <1>7

\* What a line says where it is read: of one too long, the usage at its end
\* if all of it is in what is kept.
Spoken(line) ==
    IF line = "" THEN Nothing
    ELSE IF Lines[line].size <= MaxLine THEN Lines[line]
    ELSE [Nothing EXCEPT !.usage = IF Lines[line].usageAt > Lines[line].size - TailSize
                                   THEN Lines[line].usage ELSE NoUsage]

LEMMA PartsOfLine ==
    ASSUME NEW line \in DOMAIN Lines
    PROVE  /\ Lines[line].size \in Nat \ {0} /\ Len(Parts(line)) = Lines[line].size
           /\ \A k \in 1..Lines[line].size : Parts(line)[k] = <<line, k>>
<1>1. Lines[line].size \in Nat \ {0}
  BY ObservationAssumption DEF LineFacts
<1> DEFINE size == Lines[line].size
           text == [k \in 1..size |-> <<line, k>>]
<1>2. Parts(line) = text
  BY DEF Parts
<1>3. Len(text) = size /\ \A k \in 1..size : text[k] = <<line, k>>
  <2>1. size \in Nat
    BY <1>1
  <2> HIDE DEF size
  <2> QED
    BY <2>1
<1> QED
  BY <1>1, <1>2, <1>3

LEMMA WholeLineParses == ASSUME NEW line \in DOMAIN Lines PROVE Parsed(Parts(line)) = Lines[line]
<1>1. 1 \in 1..Lines[line].size /\ Len(Parts(line)) # 0
  BY PartsOfLine
<1>2. Parts(line)[1] = <<line, 1>> /\ Parts(line) # <<>>
  BY <1>1, PartsOfLine, EmptySeq
<1>3. Parts(line)[1][1] = line
  BY <1>2
<1> DEFINE text == Parts(line)
<1>4. text # <<>> /\ text[1][1] = line /\ text = Parts(line)
  BY <1>2, <1>3
<1> HIDE DEF text
<1>5. text = Parts(text[1][1]) /\ Lines[text[1][1]] = Lines[line]
  BY <1>4
<1>6. Parsed(text) = Lines[line]
  BY <1>4, <1>5, Zenon DEF Parsed
<1> QED
  BY <1>6 DEF text

LEMMA TailIs ==
    ASSUME NEW line \in DOMAIN Lines, ~(Lines[line].size <= MaxLine)
    PROVE  TailUsage(Kept(Parts(line))) = IF Lines[line].usageAt > Lines[line].size - TailSize
                                          THEN Lines[line].usage ELSE NoUsage
<1> DEFINE text == Parts(line)
           size == Lines[line].size
           a == size - TailSize + 1
           tail == SubSeq(text, a, size)
<1>1. size \in Nat /\ Len(text) = size /\ (\A k \in 1..size : text[k] = <<line, k>>) /\ text \in Seq(Part)
  BY PartsOfLine, PartsAre
<1>2. TailSize \in Nat \ {0} /\ TailSize < size
  <2>1. TailSize \in Nat \ {0} /\ TailSize <= MaxLine /\ MaxLine \in Nat /\ ~(size <= MaxLine) /\ size \in Nat
    BY <1>1, ObservationAssumption
  <2> HIDE DEF size
  <2> QED
    BY <2>1
<1>3. Kept(text) = tail
  <2> HIDE DEF text, size
  <2> QED
    BY <1>1, <1>2 DEF Kept
<1> HIDE DEF text, size
<1>4. a \in 1..size /\ size \in 1..size /\ size - a + 1 = TailSize /\ a + TailSize - 1 = size /\ a <= size + 1
  BY <1>1, <1>2
<1>5. tail \in Seq(Part) /\ Len(tail) = TailSize /\ tail[TailSize] = text[size]
  <2>1. \A i \in a..size : text[i] \in Part
    <3>1. \A i \in a..size : i \in 1..size
      BY <1>1, <1>4
    <3> QED
      BY <1>1, <3>1, ElementOfSeq
  <2>2. TailSize \in 1..TailSize /\ a \in Int /\ size \in Int
    BY <1>1, <1>2, <1>4
  <2> HIDE DEF a
  <2> QED
    BY <1>4, <2>1, <2>2, SubSeqProperties
<1> HIDE DEF tail, a
<1>6. tail # <<>> /\ Last(tail) = <<line, size>>
  <2>1. tail # <<>>
    BY <1>2, <1>5, EmptySeq
  <2>2. Last(tail) = tail[TailSize]
    BY <1>5 DEF Last
  <2> QED
    BY <1>1, <1>4, <1>5, <2>1, <2>2
<1>7. Last(tail)[1] = line /\ Last(tail)[2] = size
  BY <1>6
<1> QED
  BY <1>3, <1>5, <1>6, <1>7 DEF TailUsage, text, size

LEMMA PieceSays ==
    ASSUME NEW line \in LineNames
    PROVE  Said(LinePiece(line)) = Spoken(line)
<1> DEFINE blank == line = ""
           long == [Nothing EXCEPT !.usage = IF Lines[line].usageAt > Lines[line].size - TailSize
                                             THEN Lines[line].usage ELSE NoUsage]
<1>1. blank => LinePiece(line) = [text |-> <<>>, complete |-> TRUE] /\ Spoken(line) = Nothing
  BY Zenon DEF LinePiece, Spoken
<1>2. ~blank => /\ LinePiece(line) = [text |-> Parts(line), complete |-> TRUE] /\ line \in DOMAIN Lines
                /\ Spoken(line) = IF Lines[line].size <= MaxLine THEN Lines[line] ELSE long
  BY Zenon DEF LinePiece, Spoken, LineNames
<1> HIDE DEF blank
<1>3. CASE blank
  <2>1. Len(<<>>) <= MaxLine
    BY EmptySeq, ObservationAssumption
  <2>2. LinePiece(line).text = <<>>
    BY <1>1, <1>3
  <2> QED
    BY <1>1, <1>3, <2>1, <2>2 DEF Said, Parsed
<1>4. CASE ~blank
  <2>1. LinePiece(line).text = Parts(line) /\ line \in DOMAIN Lines
    BY <1>2, <1>4
  <2>2. Len(Parts(line)) = Lines[line].size
    BY <2>1, PartsOfLine
  <2>3. CASE Lines[line].size <= MaxLine
    <3>1. Said(LinePiece(line)) = Parsed(LinePiece(line).text)
      BY <2>1, <2>2, <2>3 DEF Said
    <3>2. Parsed(LinePiece(line).text) = Lines[line]
      <4>1. Parsed(Parts(line)) = Lines[line]
        BY <2>1, WholeLineParses
      <4> QED
        BY <2>1, <4>1, Zenon
    <3> QED
      BY <1>2, <1>4, <2>3, <3>1, <3>2
  <2>4. CASE ~(Lines[line].size <= MaxLine)
    <3>1. TailUsage(Kept(Parts(line))) = IF Lines[line].usageAt > Lines[line].size - TailSize
                                         THEN Lines[line].usage ELSE NoUsage
      BY <2>1, <2>4, TailIs
    <3>2. Said(LinePiece(line)) = [Nothing EXCEPT !.usage = TailUsage(Kept(Parts(line)))]
      BY <2>1, <2>2, <2>4 DEF Said
    <3> QED
      BY <1>2, <1>4, <2>4, <3>1, <3>2
  <2> QED
    BY <2>3, <2>4
<1> QED
  BY <1>3, <1>4

(* What an upstream sends line by line is read line by line: none is lost, *)
(* split or joined to the next, a line within the limit says all it says,  *)
(* and of a longer one the usage counts exactly if it starts in the part   *)
(* kept of it (proxy/sse.go:287-330, 620-673).                             *)
THEOREM LinesAreRead ==
    ASSUME NEW lines \in Seq(LineNames)
    PROVE  Facts(Bytes(lines)) = [i \in 1..Len(lines) |-> Spoken(lines[i])]
<1> DEFINE run == Bytes(lines)
           N == Len(lines)
           pieces == [i \in 1..N |-> LinePiece(lines[i])]
<1>1. N \in Nat /\ \A i \in 1..N : lines[i] \in LineNames
  BY LenProperties, ElementOfSeq
<1>2. run \in Seq(Byte) /\ RestOf(run) = <<>> /\ Lines1(run) = pieces
  BY LinesAreFramed DEF Framed
<1> HIDE DEF run
<1>3. Segments(run) = pieces
  <2>1. Lines1(run) \in Seq(Pieces)
    BY <1>2, LinesAre
  <2>2. Lines1(run) \o <<>> = Lines1(run)
    BY <2>1, ConcatEmptySeq
  <2> HIDE DEF pieces
  <2> QED
    BY <1>2, <2>2, SplitIs
<1>4. DOMAIN Segments(run) = 1..N /\ \A i \in 1..N : Segments(run)[i] = LinePiece(lines[i])
  BY <1>3
<1> HIDE DEF N
<1>5. Facts(run) = [i \in 1..N |-> Said(Segments(run)[i])]
  BY <1>4 DEF Facts
<1>6. \A i \in 1..N : Said(Segments(run)[i]) = Spoken(lines[i])
  BY <1>1, <1>4, PieceSays
<1> QED
  BY <1>5, <1>6 DEF run, N
=============================================================================
