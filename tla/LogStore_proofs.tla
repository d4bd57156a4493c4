--------------------------- MODULE LogStore_proofs --------------------------
(***************************************************************************)
(* A stored log reads back what it was committed with, its newest bodies   *)
(* stay, and the hourly totals count each row once: for any rows, any      *)
(* number of logs, chunks and batches, and any crashes.                    *)
(***************************************************************************)
EXTENDS LogStore, FiniteSetTheorems, TLAPS

(* Every set of naturals that has an element has a least one.               *)
LEMMA LeastNatural ==
    ASSUME NEW S \in SUBSET Nat, S # {}
    PROVE  \E n \in S : \A m \in S : n <= m
<1> DEFINE Upto(n) == 1..n
           U == {Upto(n) : n \in S}
<1>1. U \subseteq FiniteSubsetsOf(Nat) /\ U # {}
  <2>1. ASSUME NEW n \in S PROVE Upto(n) \in SUBSET Nat /\ IsFiniteSet(Upto(n))
    <3>1. n \in Int /\ 1 \in Int /\ Upto(n) \subseteq Nat
      OBVIOUS
    <3> QED
      BY <3>1, FS_Interval
  <2> QED
    BY <2>1 DEF FiniteSubsetsOf
<1>2. IsWellFoundedOn(StrictSubsetOrdering(Nat), FiniteSubsetsOf(Nat))
  BY FS_StrictSubsetOrderingWellFounded
<1>3. PICK u \in U : \A v \in U : ~(<<v, u>> \in StrictSubsetOrdering(Nat))
  <2> HIDE DEF U
  <2> QED
    BY <1>1, <1>2, WFMin
<1>4. PICK n \in S : u = Upto(n)
  BY <1>3
<1>5. ASSUME NEW m \in S, m < n PROVE FALSE
  <2>1. Upto(m) \in U
    OBVIOUS
  <2>2. Upto(m) \subseteq Upto(n) /\ n \in Upto(n) /\ n \notin Upto(m) /\ n \in Nat /\ m \in Nat
    BY <1>5
  <2>3. <<Upto(m), Upto(n)>> \in StrictSubsetOrdering(Nat)
    BY <2>2 DEF StrictSubsetOrdering
  <2> QED
    BY <1>3, <1>4, <2>1, <2>3
<1>6. \A m \in S : m \in Int /\ n \in Int
  OBVIOUS
<1> QED
  BY <1>5, <1>6

(* A finite set of naturals that has an element has a greatest one.         *)
LEMMA GreatestNatural ==
    ASSUME NEW S \in SUBSET Nat, IsFiniteSet(S), S # {}
    PROVE  \E n \in S : \A m \in S : m <= n
<1> DEFINE Topped(T) == \E n \in T : \A m \in T : m <= n
           U == {T \in FiniteSubsetsOf(Nat) : T # {} /\ ~Topped(T)}
<1>1. CASE U = {}
  <2>1. S \in FiniteSubsetsOf(Nat)
    BY DEF FiniteSubsetsOf
  <2> QED
    BY <1>1, <2>1
<1>2. CASE U # {}
  <2>1. U \subseteq FiniteSubsetsOf(Nat)
    OBVIOUS
  <2>2. IsWellFoundedOn(StrictSubsetOrdering(Nat), FiniteSubsetsOf(Nat))
    BY FS_StrictSubsetOrderingWellFounded
  <2>3. PICK T \in U : \A V \in U : ~(<<V, T>> \in StrictSubsetOrdering(Nat))
    <3> HIDE DEF U
    <3> QED
      BY <1>2, <2>1, <2>2, WFMin
  <2>4. T \in SUBSET Nat /\ IsFiniteSet(T) /\ T # {} /\ ~Topped(T)
    BY <2>3 DEF FiniteSubsetsOf
  <2>5. PICK x \in T : TRUE
    BY <2>4
  <2> DEFINE V == T \ {x}
  <2>6. V \in SUBSET Nat /\ IsFiniteSet(V) /\ V # T
    BY <2>4, <2>5, FS_Subset
  <2>7. <<V, T>> \in StrictSubsetOrdering(Nat)
    BY <2>4, <2>6 DEF StrictSubsetOrdering
  <2>8. V = {} \/ Topped(V)
    BY <2>3, <2>6, <2>7 DEF FiniteSubsetsOf
  <2>9. CASE V = {}
    <3>1. T = {x} /\ x <= x
      BY <2>4, <2>5, <2>9
    <3> QED
      BY <2>4, <3>1
  <2>10. CASE Topped(V)
    <3>1. PICK y \in V : \A m \in V : m <= y
      BY <2>10
    <3>2. \A m \in T : m = x \/ m \in V
      OBVIOUS
    <3>3. x \in Nat /\ y \in Nat /\ y \in T /\ \A m \in V : m \in Nat
      BY <2>4, <3>1
    <3>4. CASE x <= y
      <4>1. \A m \in T : m <= y
        BY <3>1, <3>2, <3>4
      <4> QED
        BY <2>4, <3>3, <4>1
    <3>5. CASE y <= x
      <4>1. \A m \in T : m <= x
        BY <3>1, <3>2, <3>3, <3>5
      <4> QED
        BY <2>4, <2>5, <4>1
    <3> QED
      BY <3>3, <3>4, <3>5
  <2> QED
    BY <2>8, <2>9, <2>10
<1> QED
    BY <1>1, <1>2

(* What holds of zero and goes on from each number to the next holds of     *)
(* every number.                                                            *)
LEMMA UpFromZero ==
    ASSUME NEW S, 0 \in S, \A n \in Nat : n \in S => n + 1 \in S
    PROVE  Nat \subseteq S
<1> DEFINE U == Nat \ S
<1>1. SUFFICES ASSUME U # {} PROVE FALSE
  OBVIOUS
<1>2. PICK n \in U : \A m \in U : n <= m
  BY <1>1, LeastNatural
<1>3. n \in Nat \ {0} /\ n - 1 \in Nat /\ ~(n <= n - 1) /\ (n - 1) + 1 = n
  BY <1>2
<1>4. n - 1 \in S
  BY <1>2, <1>3
<1> QED
  BY <1>2, <1>3, <1>4
-----------------------------------------------------------------------------
(* Records. Ids written as differences come back.                           *)
LEMMA DifferencesSum ==
    ASSUME NEW c \in Seq(Nat)
    PROVE  RunningSum([j \in DOMAIN c |-> c[j] - IF j = 1 THEN 0 ELSE c[j-1]]) = c
<1> DEFINE d == [j \in DOMAIN c |-> c[j] - IF j = 1 THEN 0 ELSE c[j-1]]
           Sums(g) == g = [j \in 0..Len(d) |-> IF j = 0 THEN 0 ELSE g[j-1] + d[j]]
           sum == CHOOSE g : Sums(g)
           whole == [j \in 0..Len(c) |-> IF j = 0 THEN 0 ELSE c[j]]
<1>1. d \in Seq(Int) /\ Len(d) = Len(c) /\ Len(c) \in Nat /\ DOMAIN c = 1..Len(c)
  OBVIOUS
<1>2. RunningSum(d) = [j \in 1..Len(d) |-> sum[j]]
  BY DEF RunningSum
<1>3. Sums(whole)
  <2>1. ASSUME NEW j \in 0..Len(c)
        PROVE  whole[j] = IF j = 0 THEN 0 ELSE whole[j-1] + d[j]
    <3>1. CASE j = 0
      BY <3>1
    <3>2. CASE j = 1
      BY <1>1, <3>2
    <3>3. CASE j # 0 /\ j # 1
      <4>1. j \in DOMAIN c /\ j - 1 \in DOMAIN c /\ j - 1 \in 0..Len(c) /\ j - 1 # 0
        BY <1>1, <3>3
      <4>2. c[j] \in Nat /\ c[j-1] \in Nat /\ d[j] = c[j] - c[j-1] /\ whole[j] = c[j] /\ whole[j-1] = c[j-1]
        BY <3>3, <4>1
      <4> QED
        BY <3>3, <4>2
    <3> QED
      BY <3>1, <3>2, <3>3
  <2> QED
    BY <1>1, <2>1
<1>4. Sums(sum)
  <2> HIDE DEF whole, Sums
  <2> QED
    BY <1>3
<1>5. ASSUME NEW j \in Nat, j <= Len(c) => sum[j] = whole[j]
      PROVE  j + 1 <= Len(c) => sum[j+1] = whole[j+1]
  <2>1. SUFFICES ASSUME j + 1 <= Len(c) PROVE sum[j+1] = whole[j+1]
    OBVIOUS
  <2>2. j + 1 \in 0..Len(d) /\ j + 1 # 0 /\ (j + 1) - 1 = j /\ j <= Len(c)
    BY <1>1, <2>1
  <2> HIDE DEF sum, whole, d
  <2>3. sum[j+1] = sum[j] + d[j+1]
    BY <1>4, <2>2
  <2>4. whole[j+1] = whole[j] + d[j+1]
    BY <1>3, <2>2
  <2> QED
    BY <1>5, <2>2, <2>3, <2>4
<1>6. \A j \in Nat : j <= Len(c) => sum[j] = whole[j]
  <2> DEFINE S == {j \in Nat : j <= Len(c) => sum[j] = whole[j]}
  <2>1. sum[0] = whole[0]
    <3> HIDE DEF sum, whole, d
    <3>1. 0 \in 0..Len(d)
      BY <1>1
    <3> QED
      BY <1>3, <1>4, <3>1
  <2> HIDE DEF sum, whole, d
  <2>2. 0 \in S /\ \A j \in Nat : j \in S => j + 1 \in S
    BY <1>5, <2>1
  <2>3. Nat \subseteq S
    <3> HIDE DEF S
    <3> QED
      BY <2>2, UpFromZero
  <2> QED
    BY <2>3
<1>7. \A j \in 1..Len(c) : sum[j] = c[j]
  <2> HIDE DEF sum
  <2> QED
    BY <1>1, <1>6
<1> HIDE DEF sum
<1> QED
    BY <1>1, <1>2, <1>7

\* A record's slots: only a text lists chunks.
Records == {r \in [Slots -> [kind : {"none", "omitted", "text"}, chunks : Seq(Nat)]] :
              \A i \in Slots : r[i].kind = "text" \/ r[i].chunks = <<>>}

(* A record decodes to what was encoded: the slot that shares its           *)
(* predecessor's chunks too.                                                *)
LEMMA RecordsDecode ==
    ASSUME NEW r \in Records
    PROVE  DecodeRecord(AppendRecord(r)) = r
<1> DEFINE e == AppendRecord(r)
           Diffs(c) == [j \in DOMAIN c |-> c[j] - IF j = 1 THEN 0 ELSE c[j-1]]
           Slot(g, i) == [kind |-> e[i].kind,
                          chunks |-> IF e[i].same THEN g[i-1].chunks ELSE RunningSum(e[i].deltas)]
           Decoded(g) == g = [i \in Slots |-> Slot(g, i)]
           slot == CHOOSE g : Decoded(g)
<1>1. /\ DOMAIN r = Slots
      /\ \A i \in Slots : /\ r[i] = [kind |-> r[i].kind, chunks |-> r[i].chunks]
                          /\ r[i].chunks \in Seq(Nat)
  BY DEF Records
<1>2. \A i \in Slots : /\ e[i].kind = r[i].kind /\ e[i].same = SameChunks(r, i)
                       /\ ~e[i].same => e[i].deltas = Diffs(r[i].chunks)
  BY DEF AppendRecord
<1>3. \A i \in Slots : ~e[i].same => RunningSum(e[i].deltas) = r[i].chunks
  <2> HIDE DEF e
  <2>1. ASSUME NEW i \in Slots, ~e[i].same PROVE RunningSum(e[i].deltas) = r[i].chunks
    <3>1. RunningSum(Diffs(r[i].chunks)) = r[i].chunks
      BY <1>1, DifferencesSum
    <3>2. e[i].deltas = Diffs(r[i].chunks)
      BY <1>2, <2>1
    <3> QED
      BY <3>1, <3>2
  <2> QED
    BY <2>1
<1>4. \A i \in Slots : e[i].same => i = 2 /\ r[i-1].chunks = r[i].chunks
  <2> HIDE DEF e
  <2>1. ASSUME NEW i \in Slots, SameChunks(r, i) PROVE i = 2 /\ r[i-1].chunks = r[i].chunks
    <3>1. i > 1 /\ r[i].chunks = r[i-1].chunks
      BY <2>1 DEF SameChunks
    <3> QED
      BY <3>1 DEF Slots
  <2> QED
    BY <1>2, <2>1
<1>5. DecodeRecord(e) = slot
  BY DEF DecodeRecord
<1> HIDE DEF e
<1>6. Decoded(r)
  <2>1. ASSUME NEW i \in Slots PROVE r[i] = Slot(r, i)
    <3>1. r[i] = [kind |-> r[i].kind, chunks |-> r[i].chunks] /\ e[i].kind = r[i].kind
      BY <1>1, <1>2
    <3>2. (IF e[i].same THEN r[i-1].chunks ELSE RunningSum(e[i].deltas)) = r[i].chunks
      BY <1>3, <1>4
    <3> QED
      BY <3>1, <3>2
  <2>2. r = [i \in Slots |-> r[i]]
    BY DEF Records
  <2> HIDE DEF Slot
  <2> QED
    BY <2>1, <2>2
<1>7. Decoded(slot)
  <2> HIDE DEF Decoded
  <2> QED
    BY <1>6
<1>8. DOMAIN slot = Slots /\ \A i \in Slots : slot[i] = Slot(slot, i)
  <2> HIDE DEF slot
  <2> QED
    BY <1>7
<1>9. slot[1] = r[1]
  <2> HIDE DEF slot
  <2>1. 1 \in Slots /\ ~e[1].same
    BY <1>4 DEF Slots
  <2>2. slot[1] = [kind |-> r[1].kind, chunks |-> r[1].chunks]
    BY <1>2, <1>3, <1>8, <2>1
  <2> QED
    BY <1>1, <2>1, <2>2
<1>10. slot[2] = r[2]
  <2> HIDE DEF slot
  <2>1. 2 \in Slots
    BY DEF Slots
  <2>2. slot[2] = Slot(slot, 2) /\ e[2].kind = r[2].kind /\ 2 - 1 = 1
    <3>1. slot[2] = Slot(slot, 2)
      <4> HIDE DEF Slot
      <4> QED
        BY <1>8, <2>1
    <3>2. e[2].kind = r[2].kind
      BY <1>2, <2>1
    <3> QED
      BY <3>1, <3>2
  <2>3. (IF e[2].same THEN slot[2-1].chunks ELSE RunningSum(e[2].deltas)) = r[2].chunks
    <3>1. CASE e[2].same
      BY <1>4, <1>9, <2>1, <3>1
    <3>2. CASE ~e[2].same
      BY <1>3, <2>1, <3>2
    <3> QED
      BY <3>1, <3>2
  <2>4. slot[2] = [kind |-> r[2].kind, chunks |-> r[2].chunks]
    BY <2>2, <2>3
  <2> QED
    BY <1>1, <2>1, <2>4
<1> HIDE DEF slot
<1>11. slot = r
  <2>1. \A i \in Slots : slot[i] = r[i]
    BY <1>9, <1>10 DEF Slots
  <2>2. slot = [i \in Slots |-> Slot(slot, i)] /\ r = [i \in Slots |-> r[i]]
    BY <1>1, <1>7 DEF Records
  <2> QED
    BY <1>8, <2>1, <2>2
<1> QED
  BY <1>5, <1>11 DEF e
-----------------------------------------------------------------------------
(* Ids. Of some places one comes first.                                     *)
LEMMA FirstPlace ==
    ASSUME NEW P \in SUBSET (Nat \X Nat \X Nat), P # {}
    PROVE  \E p \in P : \A q \in P : ~Precedes(q, p)
<1> DEFINE A == {p[1] : p \in P}
<1>1. A \in SUBSET Nat /\ A # {}
  OBVIOUS
<1>2. PICK a \in A : \A x \in A : a <= x
  <2> HIDE DEF A
  <2> QED
    BY <1>1, LeastNatural
<1> DEFINE B == {p[2] : p \in {q \in P : q[1] = a}}
<1>3. B \in SUBSET Nat /\ B # {}
  BY <1>2
<1>4. PICK b \in B : \A x \in B : b <= x
  <2> HIDE DEF B
  <2> QED
    BY <1>3, LeastNatural
<1> DEFINE C == {p[3] : p \in {q \in P : q[1] = a /\ q[2] = b}}
<1>5. C \in SUBSET Nat /\ C # {}
  BY <1>4
<1>6. PICK c \in C : \A x \in C : c <= x
  <2> HIDE DEF C
  <2> QED
    BY <1>5, LeastNatural
<1>7. PICK p \in P : p[1] = a /\ p[2] = b /\ p[3] = c
  BY <1>6
<1>8. a \in Nat /\ b \in Nat /\ c \in Nat
  BY <1>1, <1>2, <1>3, <1>4, <1>5, <1>6
<1>9. ASSUME NEW q \in P PROVE ~Precedes(q, p)
  <2>1. q[1] \in Nat /\ q[2] \in Nat /\ q[3] \in Nat
    OBVIOUS
  <2>2. a <= q[1]
    BY <1>2
  <2>3. q[1] = a => b <= q[2]
    BY <1>4
  <2>4. q[1] = a /\ q[2] = b => c <= q[3]
    BY <1>6
  <2>5. ~(q[1] < a) /\ (q[1] = a => ~(q[2] < b)) /\ (q[1] = a /\ q[2] = b => ~(q[3] < c))
    <3> HIDE DEF A, B, C
    <3> QED
      BY <1>8, <2>1, <2>2, <2>3, <2>4
  <2> QED
    BY <1>7, <2>5 DEF Precedes
<1> QED
  BY <1>9

\* A table that grew to new, and its sequence from last to next.
Grown(table, last, new, next, V) ==
    /\ next \in Nat /\ last <= next
    /\ DOMAIN table \subseteq DOMAIN new /\ DOMAIN new \subseteq 1..next
    /\ \A id \in DOMAIN table : new[id] = table[id]
    /\ \A id \in DOMAIN new : new[id] \in V

\* The id of a value leads to it.
Found(table, ids, new, v) == IdOf(table, ids, v) \in DOMAIN new /\ new[IdOf(table, ids, v)] = v

\* The new values have ids of their own, the next ones.
OwnIds(table, last, asked, ids) ==
    /\ DOMAIN ids = (Values(asked) \ Values(table)) \ {NoMeta}
    /\ Cardinality(DOMAIN ids) \in Nat
    /\ \A v \in DOMAIN ids : ids[v] \in last + 1 .. last + Cardinality(DOMAIN ids)
    /\ \A v, w \in DOMAIN ids : ids[v] = ids[w] => v = w

(* No two new values are given one id.                                      *)
LEMMA IdsDiffer ==
    ASSUME NEW table, NEW last \in Nat, NEW asked, DOMAIN asked \subseteq Nat \X Nat \X Nat,
           IsFiniteSet(DOMAIN asked), NEW ids \in Assignments(table, last, asked)
    PROVE  OwnIds(table, last, asked, ids)
<1> DEFINE fresh == (Values(asked) \ Values(table)) \ {NoMeta}
           First(v) == CHOOSE p \in DOMAIN asked :
                         asked[p] = v /\ \A q \in DOMAIN asked : asked[q] = v => ~Precedes(q, p)
<1>1. /\ ids \in [fresh -> last + 1 .. last + Cardinality(fresh)]
      /\ \A v, w \in fresh : v # w => (ids[v] < ids[w] <=> Precedes(First(v), First(w)))
  BY DEF Assignments
<1>2. IsFiniteSet(fresh) /\ Cardinality(fresh) \in Nat
  <2>1. Values(asked) = {asked[p] : p \in DOMAIN asked}
    BY DEF Values
  <2>2. IsFiniteSet(Values(asked))
    <3> DEFINE f == [p \in DOMAIN asked |-> asked[p]]
    <3>1. f \in Surjection(DOMAIN asked, Values(asked))
      BY <2>1 DEF Surjection
    <3> HIDE DEF f
    <3> QED
      BY <3>1, FS_Surjection
  <2> QED
    BY <2>2, FS_Subset, FS_CardinalityType
<1>3. ASSUME NEW v \in fresh
      PROVE  First(v) \in DOMAIN asked /\ asked[First(v)] = v /\ First(v) \in Nat \X Nat \X Nat
  <2> DEFINE P == {p \in DOMAIN asked : asked[p] = v}
  <2>1. P \in SUBSET (Nat \X Nat \X Nat) /\ P # {}
    BY DEF Values
  <2>2. PICK p \in P : \A q \in P : ~Precedes(q, p)
    <3> HIDE DEF P
    <3> QED
      BY <2>1, FirstPlace
  <2> QED
    BY <2>2
<1>4. ASSUME NEW v \in fresh, NEW w \in fresh, ids[v] = ids[w], v # w PROVE FALSE
  <2>1. ids[v] \in Int /\ ids[w] \in Int
    BY <1>1, <1>2
  <2>2. ~Precedes(First(v), First(w)) /\ ~Precedes(First(w), First(v))
    <3> HIDE DEF First, fresh
    <3>1. ~(ids[v] < ids[w]) /\ ~(ids[w] < ids[v])
      BY <1>4, <2>1
    <3> QED
      BY <1>1, <1>4, <3>1
  <2>3. First(v) = First(w)
    <3>1. PICK p \in Nat \X Nat \X Nat : p = First(v)
      BY <1>3
    <3>2. PICK q \in Nat \X Nat \X Nat : q = First(w)
      BY <1>3
    <3> HIDE DEF First
    <3>3. ~Precedes(p, q) /\ ~Precedes(q, p)
      BY <2>2, <3>1, <3>2
    <3>4. p[1] = q[1] /\ p[2] = q[2] /\ p[3] = q[3]
      BY <3>3 DEF Precedes
    <3> QED
      BY <3>1, <3>2, <3>4
  <2>4. asked[First(v)] = v /\ asked[First(w)] = w
    BY <1>3
  <2> HIDE DEF First
  <2> QED
    BY <1>4, <2>3, <2>4
<1>5. DOMAIN ids = fresh
  BY <1>1
<1> HIDE DEF First
<1> QED
  BY <1>1, <1>2, <1>4, <1>5 DEF OwnIds

(* A table grows by what was asked of it, and every value asked has its id. *)
LEMMA TablesGrow ==
    ASSUME NEW table, NEW last \in Nat, NEW asked, DOMAIN asked \subseteq Nat \X Nat \X Nat,
           IsFiniteSet(DOMAIN asked), NEW ids \in Assignments(table, last, asked),
           NEW V, \A id \in DOMAIN table : table[id] \in V, DOMAIN table \subseteq 1..last,
           \A p \in DOMAIN asked : asked[p] \in V \cup {NoMeta}
    PROVE  /\ Grown(table, last, WithNew(table, ids), last + Cardinality(DOMAIN ids), V)
           /\ \A v \in Values(asked) \ {NoMeta} : Found(table, ids, WithNew(table, ids), v)
<1> DEFINE new == WithNew(table, ids)
           next == last + Cardinality(DOMAIN ids)
           Owner(id) == CHOOSE v \in DOMAIN ids : ids[v] = id
<1>1. /\ DOMAIN ids = (Values(asked) \ Values(table)) \ {NoMeta}
      /\ Cardinality(DOMAIN ids) \in Nat
      /\ \A v \in DOMAIN ids : ids[v] \in last + 1 .. last + Cardinality(DOMAIN ids)
      /\ \A v, w \in DOMAIN ids : ids[v] = ids[w] => v = w
  <2>1. OwnIds(table, last, asked, ids)
    BY IdsDiffer
  <2> QED
    BY <2>1 DEF OwnIds
<1>2. next \in Nat /\ last <= next /\ \A k \in last + 1 .. next : k \in 1..next /\ k \notin 1..last
  BY <1>1
<1>3. Values(ids) = {ids[v] : v \in DOMAIN ids}
  BY DEF Values
<1>4. /\ DOMAIN new = DOMAIN table \cup Values(ids)
      /\ \A id \in DOMAIN new : new[id] = IF id \in DOMAIN table THEN table[id] ELSE Owner(id)
  BY DEF WithNew
<1>5. \A v \in DOMAIN ids : ids[v] \notin DOMAIN table /\ Owner(ids[v]) = v
  BY <1>1, <1>2
<1> HIDE DEF new, next, Owner
<1>6. \A v \in DOMAIN ids : ids[v] \in DOMAIN new /\ new[ids[v]] = v
  BY <1>3, <1>4, <1>5
<1>7. \A v \in Values(asked) \ {NoMeta} : v \in V
  BY DEF Values
<1>8. ASSUME NEW v \in Values(asked) \ {NoMeta} PROVE Found(table, ids, new, v)
  <2>1. CASE v \in DOMAIN ids
    BY <1>6, <2>1 DEF Found, IdOf
  <2>2. CASE v \notin DOMAIN ids
    <3>1. v \in Values(table)
      BY <1>1, <2>2
    <3>2. \E id \in DOMAIN table : table[id] = v
      BY <3>1 DEF Values
    <3>3. IdOf(table, ids, v) \in DOMAIN table /\ table[IdOf(table, ids, v)] = v
      BY <2>2, <3>2 DEF IdOf
    <3> QED
      BY <1>4, <3>3 DEF Found
  <2> QED
    BY <2>1, <2>2
<1>9. /\ DOMAIN table \subseteq DOMAIN new
      /\ \A id \in DOMAIN table : new[id] = table[id]
  BY <1>4
<1>10. DOMAIN new \subseteq 1..next
  <2>1. \A id \in DOMAIN table : id \in 1..next
    <3>1. \A k \in 1..last : k \in 1..next
      BY <1>2
    <3> QED
      BY <3>1
  <2>2. \A id \in Values(ids) : id \in 1..next
    BY <1>1, <1>2, <1>3 DEF next
  <2> QED
    BY <1>4, <2>1, <2>2
<1>11. \A id \in DOMAIN new : new[id] \in V
  <2>1. ASSUME NEW id \in Values(ids) PROVE new[id] \in V
    <3>1. PICK v \in DOMAIN ids : id = ids[v]
      BY <1>3
    <3> QED
      BY <1>1, <1>6, <1>7, <3>1
  <2> QED
    BY <1>4, <1>9, <2>1
<1>12. Grown(table, last, new, next, V)
  BY <1>2, <1>9, <1>10, <1>11 DEF Grown
<1> QED
  BY <1>8, <1>12 DEF new, next
-----------------------------------------------------------------------------
(* The store. A slot's metadata and its pieces are where they are said to   *)
(* be.                                                                      *)
MetasHold(snapshot, row, table) ==
    /\ snapshot.metas \in [Slots -> Nat] /\ snapshot.cleared \in BOOLEAN
    /\ \A s \in Slots :
         IF HasSnapshot(row.slots[s])
         THEN snapshot.metas[s] \in DOMAIN table /\ table[snapshot.metas[s]] = row.slots[s].meta
         ELSE snapshot.metas[s] = 0

Lists(record, row, table) ==
    /\ record \in Records
    /\ \A s \in Slots :
         /\ record[s].kind = row.slots[s].kind
         /\ Len(record[s].chunks) = Len(row.slots[s].pieces)
         /\ \A j \in 1..Len(row.slots[s].pieces) :
              record[s].chunks[j] \in DOMAIN table /\ table[record[s].chunks[j]] = row.slots[s].pieces[j]

Bodiless(row) == \A s \in Slots : row.slots[s].kind = "none"

BodyHolds(l, snapshot, row, records, table) ==
    IF snapshot.cleared \/ Bodiless(row) THEN l \notin DOMAIN records
    ELSE l \in DOMAIN records /\ Lists(DecodeRecord(records[l]), row, table)

NumbersInv ==
    /\ now \in HourLength..MaxNow /\ faults \in 0..MaxFaults
    /\ process \in {"down", "usage", "split", "stats", "orphans", "migrate", "up"}
    /\ lastLog \in Nat /\ lastMeta \in Nat /\ lastChunk \in Nat

HistoryInv ==
    /\ logs \subseteq DOMAIN history /\ DOMAIN history \subseteq 1..lastLog
    /\ \A l \in DOMAIN history : history[l].row \in LogRows /\ history[l].at \in HourLength..now

TablesInv ==
    /\ DOMAIN metas \subseteq 1..lastMeta /\ \A id \in DOMAIN metas : metas[id] \in MetaValues
    /\ DOMAIN chunks \subseteq 1..lastChunk /\ \A id \in DOMAIN chunks : chunks[id] \in ChunkValues

\* An old row is what its log was committed with, until it is moved.
LegacyInv ==
    /\ DOMAIN legacy \subseteq 1..lastLog /\ \A l \in DOMAIN legacy : legacy[l] \in LogRows
    /\ \A l \in DOMAIN legacy \cap logs : legacy[l] = history[l].row
    /\ process = "migrate" => DOMAIN legacy \subseteq logs

SnapshotsInv ==
    /\ DOMAIN snapshots \subseteq logs /\ DOMAIN bodies \subseteq DOMAIN snapshots
    /\ \A l \in logs : l \in DOMAIN snapshots <=> HasSnapshots(l) /\ l \notin DOMAIN legacy
    /\ \A l \in DOMAIN snapshots :
         /\ MetasHold(snapshots[l], history[l].row, metas)
         /\ BodyHolds(l, snapshots[l], history[l].row, bodies, chunks)

Passes == [pc : {"idle", "clear", "delete", "metas", "mark", "sweep"},
           retention : BOOLEAN, collect : BOOLEAN,
           marks : SUBSET Nat, seen : Nat, last : Nat, cursor : Nat]

\* While chunks are swept, what the records up to the last one seen list is
\* marked; nothing is swept before a start-up is over.
CleanupInv ==
    /\ process # "up" => cleanup = Idle
    /\ cleanup \in Passes
    /\ cleanup.last \in 0..lastChunk /\ cleanup.seen \in 0..lastLog
    /\ cleanup.cursor \in 0..cleanup.last /\ cleanup.marks \subseteq 1..cleanup.last
    /\ \A l \in DOMAIN bodies : l <= cleanup.seen => Listed(bodies[l]) \cap 1..cleanup.last \subseteq cleanup.marks

WriterInv == writer.rows \in Seq(LogRows)

StoreInv ==
    /\ NumbersInv /\ HistoryInv /\ TablesInv /\ LegacyInv
    /\ SnapshotsInv /\ CleanupInv /\ WriterInv

(* What a slot may be.                                                      *)
LEMMA SlotIs ==
    ASSUME NEW row \in LogRows, NEW s \in Slots
    PROVE  /\ row.slots[s].kind \in {"none", "omitted", "text"}
           /\ row.slots[s].pieces \in Seq(ChunkValues)
           /\ row.slots[s].kind = "text" \/ row.slots[s].pieces = <<>>
           /\ row.slots[s] = [meta |-> row.slots[s].meta, kind |-> row.slots[s].kind, pieces |-> row.slots[s].pieces]
           /\ IF HasSnapshot(row.slots[s]) THEN row.slots[s].meta \in MetaValues ELSE row.slots[s] = NoSnapshot
<1>1. row.slots[s] \in Snapshots \cup {NoSnapshot}
  BY DEF LogRows
<1>2. CASE row.slots[s] = NoSnapshot
  BY <1>2 DEF NoSnapshot, HasSnapshot
<1>3. CASE row.slots[s] \in Snapshots
  BY <1>3, RowAssumption DEF Snapshots, HasSnapshot
<1> QED
  BY <1>1, <1>2, <1>3

(* What a record lists stays where it was while a table keeps it.           *)
LEMMA ListsStays ==
    ASSUME NEW e, NEW row, NEW table, NEW new, Lists(DecodeRecord(e), row, table),
           \A id \in Listed(e) : id \in DOMAIN table => id \in DOMAIN new /\ new[id] = table[id]
    PROVE  Lists(DecodeRecord(e), row, new)
<1> DEFINE record == DecodeRecord(e)
<1>1. \A s \in Slots : record[s].chunks \in Seq(Nat)
  BY DEF Lists, Records
<1>2. ASSUME NEW s \in Slots, NEW j \in 1..Len(record[s].chunks) PROVE record[s].chunks[j] \in Listed(e)
  <2>1. j \in DOMAIN record[s].chunks
    BY <1>1
  <2> QED
    BY <2>1 DEF Listed, Values
<1> HIDE DEF record
<1>3. Lists(record, row, table)
  BY DEF record
<1>4. Lists(record, row, new)
  BY <1>2, <1>3 DEF Lists
<1> QED
  BY <1>4 DEF record

(* And it is in the table.                                                  *)
LEMMA ListedIsStored ==
    ASSUME NEW e, NEW row, NEW table, Lists(DecodeRecord(e), row, table)
    PROVE  Listed(e) \subseteq DOMAIN table
<1> DEFINE record == DecodeRecord(e)
<1>1. ASSUME NEW id \in Listed(e) PROVE id \in DOMAIN table
  <2>1. PICK s \in Slots : id \in Values(record[s].chunks)
    BY DEF Listed
  <2>2. PICK j \in DOMAIN record[s].chunks : id = record[s].chunks[j]
    BY <2>1 DEF Values
  <2>3. j \in 1..Len(record[s].chunks) /\ Len(record[s].chunks) = Len(row.slots[s].pieces)
    BY <2>2 DEF Lists, Records
  <2> QED
    BY <2>2, <2>3 DEF Lists
<1> QED
  BY <1>1

(* Finite sets: numbers up to one, pairs, and images.                       *)
LEMMA UptoIsFinite ==
    ASSUME NEW n \in Nat
    PROVE  IsFiniteSet(1..n)
<1>1. 1 \in Int /\ n \in Int
  OBVIOUS
<1> QED
  BY <1>1, FS_Interval

LEMMA ImageIsFinite ==
    ASSUME NEW f, IsFiniteSet(DOMAIN f)
    PROVE  IsFiniteSet(Values(f))
<1> DEFINE g == [x \in DOMAIN f |-> f[x]]
<1>1. g \in Surjection(DOMAIN f, Values(f))
  BY DEF Surjection, Values
<1> HIDE DEF g
<1> QED
  BY <1>1, FS_Surjection

LEMMA GatheredIsFinite ==
    ASSUME NEW g, IsFiniteSet(DOMAIN g),
           \A l \in DOMAIN g : IsFiniteSet(DOMAIN g[l]) /\ \A s \in DOMAIN g[l] : IsFiniteSet(g[l][s]),
           NEW P, \A p \in P : \E l \in DOMAIN g : \E s \in DOMAIN g[l] : p \in g[l][s]
    PROVE  IsFiniteSet(P)
<1> DEFINE h == [l \in DOMAIN g |-> UNION Values(g[l])]
<1>1. ASSUME NEW l \in DOMAIN g PROVE IsFiniteSet(UNION Values(g[l]))
  <2>1. IsFiniteSet(Values(g[l]))
    BY ImageIsFinite
  <2>2. \A T \in Values(g[l]) : IsFiniteSet(T)
    BY DEF Values
  <2> QED
    BY <2>1, <2>2, FS_UNION
<1>2. DOMAIN h = DOMAIN g /\ \A l \in DOMAIN g : h[l] = UNION Values(g[l])
  OBVIOUS
<1> HIDE DEF h
<1>3. IsFiniteSet(Values(h)) /\ \A T \in Values(h) : IsFiniteSet(T)
  <2>1. IsFiniteSet(Values(h))
    BY <1>2, ImageIsFinite
  <2>2. \A T \in Values(h) : IsFiniteSet(T)
    BY <1>1, <1>2 DEF Values
  <2> QED
    BY <2>1, <2>2
<1>4. IsFiniteSet(UNION Values(h))
  BY <1>3, FS_UNION
<1>5. P \subseteq UNION Values(h)
  <2>1. ASSUME NEW p \in P PROVE p \in UNION Values(h)
    <3>1. PICK l \in DOMAIN g : \E s \in DOMAIN g[l] : p \in g[l][s]
      OBVIOUS
    <3>2. p \in h[l]
      BY <1>2, <3>1 DEF Values
    <3>3. h[l] \in Values(h)
      BY <1>2 DEF Values
    <3> QED
      BY <3>2, <3>3
  <2> QED
    BY <2>1
<1> QED
  BY <1>4, <1>5, FS_Subset

LEMMA SlotsAreFinite == IsFiniteSet(Slots)
<1>1. 2 \in Nat
  OBVIOUS
<1> QED
  BY <1>1, UptoIsFinite DEF Slots

(* Places are places, and there are as many as there must be.               *)
LEMMA PiecesAre ==
    ASSUME NEW rows, DOMAIN rows \subseteq Nat, IsFiniteSet(DOMAIN rows),
           \A l \in DOMAIN rows : rows[l] \in LogRows
    PROVE  /\ DOMAIN Pieces(rows) \subseteq Nat \X Nat \X Nat /\ IsFiniteSet(DOMAIN Pieces(rows))
           /\ \A p \in DOMAIN Pieces(rows) : Pieces(rows)[p] \in ChunkValues
           /\ \A l \in DOMAIN rows, s \in Slots : \A j \in 1..Len(rows[l].slots[s].pieces) :
                rows[l].slots[s].pieces[j] \in Values(Pieces(rows)) \ {NoMeta}
<1> DEFINE Of(l, s) == {<<l, s, j>> : j \in DOMAIN rows[l].slots[s].pieces}
           Places == UNION {Of(l, s) : l \in DOMAIN rows, s \in Slots}
<1>1. \A l \in DOMAIN rows, s \in Slots :
        rows[l].slots[s].pieces \in Seq(ChunkValues)
  BY SlotIs
<1>2. \A l \in DOMAIN rows, s \in Slots :
        DOMAIN rows[l].slots[s].pieces = 1..Len(rows[l].slots[s].pieces) /\ Len(rows[l].slots[s].pieces) \in Nat
  BY <1>1
<1>3. DOMAIN Pieces(rows) = Places /\ \A p \in Places : Pieces(rows)[p] = rows[p[1]].slots[p[2]].pieces[p[3]]
  BY DEF Pieces
<1>4. ASSUME NEW p \in Places
      PROVE  \E l \in DOMAIN rows, s \in Slots : \E j \in 1..Len(rows[l].slots[s].pieces) : p = <<l, s, j>>
  BY <1>2
<1>5. Places \subseteq Nat \X Nat \X Nat
  BY <1>2, <1>4 DEF Slots
<1>6. IsFiniteSet(Places)
  <2>4. ASSUME NEW l \in DOMAIN rows, NEW s \in Slots PROVE IsFiniteSet(Of(l, s))
    <3> DEFINE g == [j \in 1..Len(rows[l].slots[s].pieces) |-> <<l, s, j>>]
    <3>1. IsFiniteSet(1..Len(rows[l].slots[s].pieces))
      BY <1>2, UptoIsFinite
    <3>2. DOMAIN g = 1..Len(rows[l].slots[s].pieces) /\ Values(g) = Of(l, s)
      BY <1>2 DEF Values
    <3> HIDE DEF g, Of
    <3> QED
      BY <3>1, <3>2, ImageIsFinite
  <2> DEFINE f == [l \in DOMAIN rows |-> [s \in Slots |-> Of(l, s)]]
  <2>5. DOMAIN f = DOMAIN rows /\ \A l \in DOMAIN f : DOMAIN f[l] = Slots /\ \A s \in Slots : f[l][s] = Of(l, s)
    BY DEF f
  <2>6. \A p \in Places : \E l \in DOMAIN rows : \E s \in Slots : p \in Of(l, s)
    OBVIOUS
  <2> HIDE DEF f, Of, Places
  <2> QED
    BY <2>4, <2>5, <2>6, SlotsAreFinite, GatheredIsFinite
<1>7. ASSUME NEW l \in DOMAIN rows, NEW s \in Slots, NEW j \in 1..Len(rows[l].slots[s].pieces)
      PROVE  /\ <<l, s, j>> \in Places /\ Pieces(rows)[<<l, s, j>>] = rows[l].slots[s].pieces[j]
             /\ rows[l].slots[s].pieces[j] \in ChunkValues
  <2>1. <<l, s, j>> \in Places
    <3>1. j \in DOMAIN rows[l].slots[s].pieces
      BY <1>2
    <3>2. <<l, s, j>> \in Of(l, s)
      BY <3>1
    <3> HIDE DEF Of
    <3> QED
      BY <3>2
  <2> HIDE DEF Places, Of
  <2> QED
    BY <1>1, <1>3, <2>1
<1> HIDE DEF Places
<1>8. \A p \in DOMAIN Pieces(rows) : Pieces(rows)[p] \in ChunkValues
  BY <1>3, <1>4, <1>7
<1>9. \A l \in DOMAIN rows, s \in Slots : \A j \in 1..Len(rows[l].slots[s].pieces) :
        rows[l].slots[s].pieces[j] \in Values(Pieces(rows)) \ {NoMeta}
  <2>1. ASSUME NEW l \in DOMAIN rows, NEW s \in Slots, NEW j \in 1..Len(rows[l].slots[s].pieces)
        PROVE  rows[l].slots[s].pieces[j] \in Values(Pieces(rows)) \ {NoMeta}
    <3>1. \E p \in DOMAIN Pieces(rows) : Pieces(rows)[p] = rows[l].slots[s].pieces[j]
      BY <1>3, <1>7
    <3>2. rows[l].slots[s].pieces[j] \in Values(Pieces(rows))
      BY <3>1 DEF Values
    <3>3. rows[l].slots[s].pieces[j] # NoMeta
      <4>1. rows[l].slots[s].pieces[j] \in ChunkValues
        BY <1>7
      <4> QED
        BY <4>1, RowAssumption
    <3> QED
      BY <3>2, <3>3
  <2> QED
    BY <2>1
<1> QED
  BY <1>3, <1>5, <1>6, <1>8, <1>9

LEMMA MetadataAre ==
    ASSUME NEW rows, DOMAIN rows \subseteq Nat, IsFiniteSet(DOMAIN rows),
           \A l \in DOMAIN rows : rows[l] \in LogRows
    PROVE  /\ DOMAIN Metadata(rows) \subseteq Nat \X Nat \X Nat /\ IsFiniteSet(DOMAIN Metadata(rows))
           /\ \A p \in DOMAIN Metadata(rows) : Metadata(rows)[p] \in MetaValues \cup {NoMeta}
           /\ \A l \in DOMAIN rows, s \in Slots :
                HasSnapshot(rows[l].slots[s]) => rows[l].slots[s].meta \in Values(Metadata(rows)) \ {NoMeta}
<1> DEFINE Places == {<<l, s, 1>> : l \in DOMAIN rows, s \in Slots}
<1>1. DOMAIN Metadata(rows) = Places /\ \A p \in Places : Metadata(rows)[p] = rows[p[1]].slots[p[2]].meta
  BY DEF Metadata
<1>2. Places \subseteq Nat \X Nat \X Nat
  BY DEF Slots
<1>3. IsFiniteSet(Places)
  <2> DEFINE f == [l \in DOMAIN rows |-> [s \in Slots |-> {<<l, s, 1>>}]]
  <2>1. DOMAIN f = DOMAIN rows /\ \A l \in DOMAIN f : DOMAIN f[l] = Slots /\ \A s \in Slots : f[l][s] = {<<l, s, 1>>}
    BY DEF f
  <2>2. \A p \in Places : \E l \in DOMAIN rows : \E s \in Slots : p \in {<<l, s, 1>>}
    OBVIOUS
  <2>3. \A l \in DOMAIN rows, s \in Slots : IsFiniteSet({<<l, s, 1>>})
    BY FS_Singleton
  <2> HIDE DEF f, Places
  <2> QED
    BY <2>1, <2>2, <2>3, SlotsAreFinite, GatheredIsFinite
<1>4. ASSUME NEW l \in DOMAIN rows, NEW s \in Slots
      PROVE  /\ <<l, s, 1>> \in Places /\ Metadata(rows)[<<l, s, 1>>] = rows[l].slots[s].meta
             /\ rows[l].slots[s].meta \in MetaValues \cup {NoMeta}
  <2>1. <<l, s, 1>> \in Places
    OBVIOUS
  <2>2. rows[l].slots[s].meta \in MetaValues \cup {NoMeta}
    BY SlotIs DEF NoSnapshot, HasSnapshot
  <2> QED
    BY <1>1, <2>1, <2>2
<1>5. \A p \in Places : \E l \in DOMAIN rows, s \in Slots : p = <<l, s, 1>>
  OBVIOUS
<1> HIDE DEF Places
<1>6. \A p \in DOMAIN Metadata(rows) : Metadata(rows)[p] \in MetaValues \cup {NoMeta}
  BY <1>1, <1>4, <1>5
<1>7. ASSUME NEW l \in DOMAIN rows, NEW s \in Slots, HasSnapshot(rows[l].slots[s])
      PROVE  rows[l].slots[s].meta \in Values(Metadata(rows)) \ {NoMeta}
  <2>1. \E p \in DOMAIN Metadata(rows) : Metadata(rows)[p] = rows[l].slots[s].meta
    BY <1>1, <1>4
  <2> QED
    BY <1>7, <2>1 DEF Values, HasSnapshot
<1> QED
  BY <1>1, <1>2, <1>3, <1>6, <1>7

(* What a row is stored as lists its pieces.                                *)
LEMMA RecordLists ==
    ASSUME NEW row \in LogRows, NEW ids, NEW new, DOMAIN new \subseteq Nat,
           \A s \in Slots : \A j \in 1..Len(row.slots[s].pieces) :
             Found(chunks, ids, new, row.slots[s].pieces[j])
    PROVE  /\ Lists(DecodeRecord(AppendRecord(RecordOf(row, ids))), row, new)
           /\ EmptyRecord(RecordOf(row, ids)) <=> Bodiless(row)
<1> DEFINE r == RecordOf(row, ids)
           Ids(s) == [j \in DOMAIN row.slots[s].pieces |-> IdOf(chunks, ids, row.slots[s].pieces[j])]
<1>1. r = [s \in Slots |-> [kind |-> row.slots[s].kind, chunks |-> Ids(s)]]
  BY DEF RecordOf
<1>2. ASSUME NEW s \in Slots
      PROVE  /\ row.slots[s].kind \in {"none", "omitted", "text"}
             /\ DOMAIN row.slots[s].pieces = 1..Len(row.slots[s].pieces)
             /\ Len(row.slots[s].pieces) \in Nat
             /\ row.slots[s].kind = "text" \/ row.slots[s].pieces = <<>>
  <2>1. row.slots[s].pieces \in Seq(ChunkValues)
    BY SlotIs
  <2>2. /\ DOMAIN row.slots[s].pieces = 1..Len(row.slots[s].pieces)
        /\ Len(row.slots[s].pieces) \in Nat
    BY <2>1
  <2>3. /\ row.slots[s].kind \in {"none", "omitted", "text"}
        /\ row.slots[s].kind = "text" \/ row.slots[s].pieces = <<>>
    BY SlotIs
  <2> QED
    BY <2>2, <2>3
<1>3. ASSUME NEW s \in Slots
      PROVE  /\ Ids(s) \in Seq(Nat) /\ Len(Ids(s)) = Len(row.slots[s].pieces)
             /\ \A j \in 1..Len(row.slots[s].pieces) :
                  Ids(s)[j] \in DOMAIN new /\ new[Ids(s)[j]] = row.slots[s].pieces[j]
  <2>1. \A j \in 1..Len(row.slots[s].pieces) :
          /\ Ids(s)[j] = IdOf(chunks, ids, row.slots[s].pieces[j])
          /\ Ids(s)[j] \in DOMAIN new /\ new[Ids(s)[j]] = row.slots[s].pieces[j]
    BY <1>2 DEF Found
  <2>2. Ids(s) \in [1..Len(row.slots[s].pieces) -> Nat]
    BY <1>2, <2>1
  <2> HIDE DEF Ids
  <2>3. Ids(s) \in Seq(Nat) /\ Len(Ids(s)) = Len(row.slots[s].pieces)
    BY <1>2, <2>2
  <2> QED
    BY <2>1, <2>3
<1> HIDE DEF Ids
<1>4. DOMAIN r = Slots /\ \A s \in Slots : r[s].kind = row.slots[s].kind /\ r[s].chunks = Ids(s)
  BY <1>1
<1>5. r \in Records
  <2>1. ASSUME NEW s \in Slots
        PROVE  /\ row.slots[s].kind = "text" \/ Ids(s) = <<>>
               /\ [kind |-> row.slots[s].kind, chunks |-> Ids(s)]
                    \in [kind : {"none", "omitted", "text"}, chunks : Seq(Nat)]
    <3>1. CASE row.slots[s].pieces = <<>>
      <4>1. Ids(s) \in Seq(Nat) /\ Len(Ids(s)) = 0
        BY <1>3, <3>1
      <4> QED
        BY <1>2, <4>1
    <3>2. CASE row.slots[s].kind = "text"
      BY <1>2, <1>3, <3>2
    <3> QED
      BY <1>2, <3>1, <3>2
  <2>2. r \in [Slots -> [kind : {"none", "omitted", "text"}, chunks : Seq(Nat)]]
    BY <1>1, <2>1
  <2>3. \A s \in Slots : r[s].kind = "text" \/ r[s].chunks = <<>>
    BY <1>4, <2>1
  <2> QED
    BY <2>2, <2>3 DEF Records
<1> HIDE DEF r
<1>6. Lists(r, row, new)
  BY <1>3, <1>4, <1>5 DEF Lists
<1>7. EmptyRecord(r) <=> Bodiless(row)
  BY <1>4 DEF EmptyRecord, Bodiless
<1> QED
  BY <1>5, <1>6, <1>7, RecordsDecode DEF r

Present(rows) == {l \in DOMAIN rows : \E s \in Slots : HasSnapshot(rows[l].slots[s])}

\* What a transaction that stores some rows leaves.
Stored(rows, cleared) ==
    /\ Grown(metas, lastMeta, metas', lastMeta', MetaValues)
    /\ Grown(chunks, lastChunk, chunks', lastChunk', ChunkValues)
    /\ DOMAIN snapshots' = DOMAIN snapshots \cup Present(rows)
    /\ DOMAIN bodies' \subseteq DOMAIN bodies \cup Present(rows)
    /\ \A l \in Present(rows) : /\ MetasHold(snapshots'[l], rows[l], metas')
                                /\ BodyHolds(l, snapshots'[l], rows[l], bodies', chunks')
    /\ \A l \in DOMAIN snapshots : /\ snapshots'[l] = snapshots[l]
                                   /\ l \in DOMAIN bodies' <=> l \in DOMAIN bodies
    /\ \A l \in DOMAIN bodies : bodies'[l] = bodies[l]

(* Storing rows that were not stored leaves each of them read back.         *)
LEMMA StoredRowsRead ==
    ASSUME TablesInv, NumbersInv, DOMAIN bodies \subseteq DOMAIN snapshots,
           NEW rows, NEW cleared, DOMAIN rows \subseteq Nat, IsFiniteSet(DOMAIN rows),
           \A l \in DOMAIN rows : rows[l] \in LogRows,
           DOMAIN rows \cap DOMAIN snapshots = {}, StoreRows(rows, cleared)
    PROVE  Stored(rows, cleared)
<1> DEFINE present == Present(rows)
           cut == present \ cleared
<1>1. PICK metaIDs \in Assignments(metas, lastMeta, Metadata(rows)),
           chunkIDs \in Assignments(chunks, lastChunk, Pieces(Keep(rows, cut))) :
        /\ metas' = WithNew(metas, metaIDs)
        /\ lastMeta' = lastMeta + Cardinality(DOMAIN metaIDs)
        /\ chunks' = WithNew(chunks, chunkIDs)
        /\ lastChunk' = lastChunk + Cardinality(DOMAIN chunkIDs)
        /\ bodies' = Extend(bodies,
             [l \in {x \in cut : ~EmptyRecord([y \in cut |-> RecordOf(rows[y], chunkIDs)][x])} |->
                AppendRecord([y \in cut |-> RecordOf(rows[y], chunkIDs)][l])])
        /\ snapshots' = Extend(snapshots, [l \in present |->
             [metas |-> [s \in Slots |->
                IF HasSnapshot(rows[l].slots[s])
                THEN IdOf(metas, metaIDs, rows[l].slots[s].meta) ELSE 0],
              cleared |-> l \in cleared]])
  BY DEF StoreRows, Present
<1> DEFINE kept == Keep(rows, cut)
           stored == {l \in cut : ~EmptyRecord(RecordOf(rows[l], chunkIDs))}
<1>2. /\ DOMAIN kept = cut /\ cut \subseteq present /\ present \subseteq DOMAIN rows
      /\ \A l \in cut : kept[l] = rows[l]
  BY DEF Keep, Present
<1>3. /\ Grown(metas, lastMeta, metas', lastMeta', MetaValues)
      /\ \A v \in Values(Metadata(rows)) \ {NoMeta} : Found(metas, metaIDs, metas', v)
  <2>1. /\ DOMAIN Metadata(rows) \subseteq Nat \X Nat \X Nat /\ IsFiniteSet(DOMAIN Metadata(rows))
        /\ \A p \in DOMAIN Metadata(rows) : Metadata(rows)[p] \in MetaValues \cup {NoMeta}
    BY MetadataAre
  <2>2. lastMeta \in Nat /\ DOMAIN metas \subseteq 1..lastMeta /\ \A id \in DOMAIN metas : metas[id] \in MetaValues
    BY DEF NumbersInv, TablesInv
  <2> QED
    BY <1>1, <2>1, <2>2, TablesGrow
<1>4. DOMAIN kept \subseteq Nat /\ IsFiniteSet(DOMAIN kept) /\ \A l \in DOMAIN kept : kept[l] \in LogRows
  <2>1. DOMAIN kept \subseteq DOMAIN rows
    BY <1>2
  <2>2. IsFiniteSet(DOMAIN kept)
    BY <2>1, FS_Subset
  <2> QED
    BY <1>2, <2>1, <2>2
<1> HIDE DEF kept, cut, present
<1>5. /\ Grown(chunks, lastChunk, chunks', lastChunk', ChunkValues)
      /\ \A v \in Values(Pieces(kept)) \ {NoMeta} : Found(chunks, chunkIDs, chunks', v)
  <2>1. /\ DOMAIN Pieces(kept) \subseteq Nat \X Nat \X Nat /\ IsFiniteSet(DOMAIN Pieces(kept))
        /\ \A p \in DOMAIN Pieces(kept) : Pieces(kept)[p] \in ChunkValues \cup {NoMeta}
    BY <1>4, PiecesAre
  <2>2. lastChunk \in Nat /\ DOMAIN chunks \subseteq 1..lastChunk /\ \A id \in DOMAIN chunks : chunks[id] \in ChunkValues
    BY DEF NumbersInv, TablesInv
  <2>3. chunkIDs \in Assignments(chunks, lastChunk, Pieces(kept))
    BY <1>1 DEF kept
  <2> HIDE DEF kept
  <2> QED
    BY <1>1, <2>1, <2>2, <2>3, TablesGrow
<1>6. ASSUME NEW l \in cut
      PROVE  /\ Lists(DecodeRecord(AppendRecord(RecordOf(rows[l], chunkIDs))), rows[l], chunks')
             /\ EmptyRecord(RecordOf(rows[l], chunkIDs)) <=> Bodiless(rows[l])
  <2>1. \A s \in Slots : \A j \in 1..Len(rows[l].slots[s].pieces) :
          Found(chunks, chunkIDs, chunks', rows[l].slots[s].pieces[j])
    <3>1. \A s \in Slots : \A j \in 1..Len(kept[l].slots[s].pieces) :
            kept[l].slots[s].pieces[j] \in Values(Pieces(kept)) \ {NoMeta}
      BY <1>2, <1>4, PiecesAre
    <3> QED
      BY <1>2, <1>5, <3>1
  <2>2. DOMAIN chunks' \subseteq Nat
    BY <1>5 DEF Grown
  <2>3. rows[l] \in LogRows
    BY <1>2
  <2> QED
    BY <2>1, <2>2, <2>3, RecordLists
<1>7. /\ DOMAIN bodies' = DOMAIN bodies \cup stored
      /\ \A l \in DOMAIN bodies' : bodies'[l] = IF l \in stored THEN AppendRecord(RecordOf(rows[l], chunkIDs)) ELSE bodies[l]
  <2> DEFINE more == [l \in {x \in cut : ~EmptyRecord([y \in cut |-> RecordOf(rows[y], chunkIDs)][x])} |->
                        AppendRecord([y \in cut |-> RecordOf(rows[y], chunkIDs)][l])]
  <2>1. DOMAIN more = stored /\ \A l \in stored : more[l] = AppendRecord(RecordOf(rows[l], chunkIDs))
    OBVIOUS
  <2>2. bodies' = Extend(bodies, more)
    BY <1>1
  <2> HIDE DEF more, stored
  <2> QED
    BY <2>1, <2>2 DEF Extend
<1>8. /\ DOMAIN snapshots' = DOMAIN snapshots \cup present
      /\ \A l \in present : /\ snapshots'[l].cleared = (l \in cleared)
                            /\ snapshots'[l].metas = [s \in Slots |->
                                 IF HasSnapshot(rows[l].slots[s])
                                 THEN IdOf(metas, metaIDs, rows[l].slots[s].meta) ELSE 0]
      /\ \A l \in DOMAIN snapshots \ present : snapshots'[l] = snapshots[l]
  BY <1>1 DEF Extend
<1>14. \A l \in present : snapshots'[l].metas = [s \in Slots |->
         IF HasSnapshot(rows[l].slots[s]) THEN IdOf(metas, metaIDs, rows[l].slots[s].meta) ELSE 0]
  BY <1>8
<1>9. stored \subseteq cut /\ \A l \in cut : l \in stored <=> ~Bodiless(rows[l])
  BY <1>6
<1> HIDE DEF stored
<1>10. ASSUME NEW l \in present
       PROVE  /\ MetasHold(snapshots'[l], rows[l], metas')
              /\ BodyHolds(l, snapshots'[l], rows[l], bodies', chunks')
  <2>0. l \in DOMAIN rows /\ rows[l] \in LogRows /\ l \notin DOMAIN snapshots /\ l \notin DOMAIN bodies
    BY <1>2
  <2>1. ASSUME NEW s \in Slots, HasSnapshot(rows[l].slots[s])
        PROVE  Found(metas, metaIDs, metas', rows[l].slots[s].meta)
    <3>1. rows[l].slots[s].meta \in Values(Metadata(rows)) \ {NoMeta}
      BY <2>0, <2>1, MetadataAre
    <3> QED
      BY <1>3, <3>1
  <2>2. DOMAIN metas' \subseteq Nat
    BY <1>3 DEF Grown
  <2>3. ASSUME NEW s \in Slots
        PROVE  /\ snapshots'[l].metas[s] \in Nat
               /\ IF HasSnapshot(rows[l].slots[s])
                  THEN /\ snapshots'[l].metas[s] \in DOMAIN metas'
                       /\ metas'[snapshots'[l].metas[s]] = rows[l].slots[s].meta
                  ELSE snapshots'[l].metas[s] = 0
    <3>1. snapshots'[l].metas[s] = IF HasSnapshot(rows[l].slots[s])
                                   THEN IdOf(metas, metaIDs, rows[l].slots[s].meta) ELSE 0
      BY <1>14
    <3> QED
      BY <2>1, <2>2, <3>1 DEF Found
  <2>4. snapshots'[l].metas \in [Slots -> Nat]
    <3>1. \A s \in Slots : (IF HasSnapshot(rows[l].slots[s])
                            THEN IdOf(metas, metaIDs, rows[l].slots[s].meta) ELSE 0) \in Nat
      BY <1>14, <2>3
    <3> QED
      BY <1>14, <3>1
  <2>9. snapshots'[l].cleared \in BOOLEAN
    <3>1. snapshots'[l].cleared = (l \in cleared)
      BY <1>8
    <3>2. (l \in cleared) \in BOOLEAN
      OBVIOUS
    <3> HIDE DEF present
    <3> QED
      BY <3>1, <3>2, Zenon
  <2>5. MetasHold(snapshots'[l], rows[l], metas')
    BY <2>3, <2>4, <2>9 DEF MetasHold
  <2>6. snapshots'[l].cleared = (l \in cleared) /\ (l \in cut <=> l \notin cleared)
    BY <1>8 DEF cut
  <2>7. CASE l \in stored
    <3>1. l \in cut /\ ~Bodiless(rows[l]) /\ l \in DOMAIN bodies' /\ bodies'[l] = AppendRecord(RecordOf(rows[l], chunkIDs))
      BY <1>7, <1>9, <2>7
    <3> QED
      BY <1>6, <2>5, <2>6, <3>1 DEF BodyHolds
  <2>8. CASE l \notin stored
    <3>1. l \notin DOMAIN bodies' /\ (l \in cut => Bodiless(rows[l]))
      BY <1>7, <1>9, <2>0, <2>8
    <3> QED
      BY <2>5, <2>6, <3>1 DEF BodyHolds
  <2> QED
    BY <2>7, <2>8
<1>11. ASSUME NEW l \in DOMAIN snapshots
       PROVE  snapshots'[l] = snapshots[l] /\ (l \in DOMAIN bodies' <=> l \in DOMAIN bodies)
  BY <1>2, <1>7, <1>8, <1>9
<1>12. ASSUME NEW l \in DOMAIN bodies PROVE bodies'[l] = bodies[l]
  BY <1>2, <1>7, <1>9
<1>13. DOMAIN bodies' \subseteq DOMAIN bodies \cup present
  BY <1>2, <1>7, <1>9
<1> QED
  BY <1>3, <1>5, <1>8, <1>10, <1>11, <1>12, <1>13 DEF Stored, present

(* Metadata and bodies stay while their tables keep what they point at.     *)
LEMMA MetasStay ==
    ASSUME NEW snapshot, NEW row, NEW table, NEW new, MetasHold(snapshot, row, table),
           \A s \in Slots : snapshot.metas[s] \in DOMAIN table =>
             snapshot.metas[s] \in DOMAIN new /\ new[snapshot.metas[s]] = table[snapshot.metas[s]]
    PROVE  MetasHold(snapshot, row, new)
BY DEF MetasHold

LEMMA BodyStays ==
    ASSUME NEW l, NEW snapshot, NEW row, NEW records, NEW table, NEW others, NEW new,
           BodyHolds(l, snapshot, row, records, table),
           l \in DOMAIN others <=> l \in DOMAIN records,
           l \in DOMAIN records =>
             /\ others[l] = records[l]
             /\ \A id \in Listed(records[l]) : id \in DOMAIN table => id \in DOMAIN new /\ new[id] = table[id]
    PROVE  BodyHolds(l, snapshot, row, others, new)
<1>1. CASE l \notin DOMAIN records
  BY <1>1 DEF BodyHolds
<1>2. CASE l \in DOMAIN records
  <2>1. Lists(DecodeRecord(records[l]), row, table) /\ ~(snapshot.cleared \/ Bodiless(row))
    BY <1>2 DEF BodyHolds
  <2>2. Lists(DecodeRecord(records[l]), row, new)
    BY <1>2, <2>1, ListsStays
  <2> QED
    BY <1>2, <2>1, <2>2 DEF BodyHolds
<1> QED
  BY <1>1, <1>2

(* Rows stored where they were not keep the store right.                    *)
LEMMA StoreGrows ==
    ASSUME StoreInv, NEW rows, NEW cleared, Stored(rows, cleared),
           \A l \in DOMAIN history : l \in DOMAIN history' /\ history'[l] = history[l],
           logs' = logs \cup DOMAIN rows, \A l \in DOMAIN rows : history'[l].row = rows[l],
           DOMAIN rows \cap logs \subseteq DOMAIN legacy,
           DOMAIN legacy' = DOMAIN legacy \ DOMAIN rows
    PROVE  SnapshotsInv' /\ TablesInv'
<1>1. TablesInv'
  BY DEF Stored, Grown, TablesInv
<1>2. SnapshotsInv /\ logs \subseteq DOMAIN history
  BY DEF StoreInv, HistoryInv
<1>3. /\ DOMAIN snapshots' = DOMAIN snapshots \cup Present(rows)
      /\ DOMAIN bodies' \subseteq DOMAIN bodies \cup Present(rows)
      /\ Present(rows) \subseteq DOMAIN rows
  BY DEF Stored, Present
<1>4. ASSUME NEW l \in DOMAIN snapshots
      PROVE  l \in logs /\ l \in DOMAIN history /\ l \notin DOMAIN rows
  BY <1>2 DEF SnapshotsInv
<1>5. ASSUME NEW l \in logs'
      PROVE  l \in DOMAIN snapshots' <=> HasSnapshots(l)' /\ l \notin DOMAIN legacy'
  <2>1. CASE l \in DOMAIN rows
    <3>1. HasSnapshots(l)' <=> l \in Present(rows)
      BY <2>1 DEF HasSnapshots, Present
    <3> QED
      BY <1>3, <1>4, <2>1, <3>1
  <2>2. CASE l \notin DOMAIN rows
    <3>1. l \in logs /\ history'[l] = history[l]
      BY <1>2, <2>2
    <3>2. HasSnapshots(l)' <=> HasSnapshots(l)
      BY <3>1 DEF HasSnapshots
    <3>3. l \in DOMAIN snapshots <=> HasSnapshots(l) /\ l \notin DOMAIN legacy
      BY <1>2, <3>1 DEF SnapshotsInv
    <3> QED
      BY <1>3, <2>2, <3>2, <3>3
  <2> QED
    BY <2>1, <2>2
<1>6. ASSUME NEW l \in DOMAIN snapshots'
      PROVE  /\ MetasHold(snapshots'[l], history'[l].row, metas')
             /\ BodyHolds(l, snapshots'[l], history'[l].row, bodies', chunks')
  <2>1. CASE l \in Present(rows)
    <3>1. history'[l].row = rows[l]
      BY <1>3, <2>1
    <3> QED
      BY <2>1, <3>1 DEF Stored
  <2>2. CASE l \notin Present(rows)
    <3>1. l \in DOMAIN snapshots /\ history'[l] = history[l] /\ snapshots'[l] = snapshots[l]
      BY <1>3, <1>4, <2>2 DEF Stored
    <3>2. /\ l \in DOMAIN bodies' <=> l \in DOMAIN bodies
          /\ l \in DOMAIN bodies => bodies'[l] = bodies[l]
      BY <3>1 DEF Stored
    <3>3. /\ MetasHold(snapshots[l], history[l].row, metas)
          /\ BodyHolds(l, snapshots[l], history[l].row, bodies, chunks)
      BY <1>2, <3>1 DEF SnapshotsInv
    <3>4. /\ \A id \in DOMAIN metas : id \in DOMAIN metas' /\ metas'[id] = metas[id]
          /\ \A id \in DOMAIN chunks : id \in DOMAIN chunks' /\ chunks'[id] = chunks[id]
      BY DEF Stored, Grown
    <3>5. MetasHold(snapshots[l], history[l].row, metas')
      BY <3>3, <3>4, MetasStay
    <3>6. BodyHolds(l, snapshots[l], history[l].row, bodies', chunks')
      BY <3>2, <3>3, <3>4, BodyStays
    <3> QED
      BY <3>1, <3>5, <3>6
  <2> QED
    BY <2>1, <2>2
<1>7. DOMAIN snapshots' \subseteq logs' /\ DOMAIN bodies' \subseteq DOMAIN snapshots'
  BY <1>2, <1>3 DEF SnapshotsInv
<1> QED
  BY <1>1, <1>5, <1>6, <1>7 DEF SnapshotsInv

(* While the log and its store stay, only the numbers and the pass matter.  *)
LEMMA QuietSteps ==
    ASSUME StoreInv, UNCHANGED <<logVars, payloadVars, legacy>>, NumbersInv', now <= now',
           process' = "migrate" => process = "migrate", CleanupInv', WriterInv'
    PROVE  StoreInv'
<1>1. /\ history' = history /\ logs' = logs /\ lastLog' = lastLog /\ snapshots' = snapshots
      /\ bodies' = bodies /\ metas' = metas /\ chunks' = chunks /\ legacy' = legacy
      /\ lastMeta' = lastMeta /\ lastChunk' = lastChunk
  BY DEF logVars, payloadVars
<1>2. TablesInv' /\ SnapshotsInv' /\ LegacyInv'
  <2>1. TablesInv'
    BY <1>1 DEF StoreInv, TablesInv
  <2>2. SnapshotsInv'
    BY <1>1 DEF StoreInv, SnapshotsInv, HasSnapshots
  <2>3. LegacyInv'
    BY <1>1 DEF StoreInv, LegacyInv
  <2> QED
    BY <2>1, <2>2, <2>3
<1>3. HistoryInv'
  <2>1. \A t \in HourLength..now : t \in HourLength..now'
    BY DEF StoreInv, NumbersInv
  <2> QED
    BY <1>1, <2>1 DEF StoreInv, HistoryInv
<1> QED
  BY <1>2, <1>3 DEF StoreInv

LEMMA IdleIsClean ==
    ASSUME cleanup' = Idle, lastLog' \in Nat, lastChunk' \in Nat,
           DOMAIN bodies' \subseteq 1..lastLog'
    PROVE  CleanupInv'
<1>1. 0 \in 0..lastChunk' /\ 0 \in 0..lastLog' /\ 0 \in 0..0 /\ 1..0 = {}
  OBVIOUS
<1>2. \A l \in DOMAIN bodies' : ~(l <= 0)
  OBVIOUS
<1>3. Idle \in Passes
  BY DEF Idle, Passes
<1> QED
  BY <1>1, <1>2, <1>3 DEF CleanupInv, Idle

\* The pass goes on over fewer records.
LEMMA PassGoesOn ==
    ASSUME StoreInv, process' = "up", process = "up", lastLog' = lastLog, lastChunk' = lastChunk,
           DOMAIN bodies' \subseteq DOMAIN bodies, \A l \in DOMAIN bodies' : bodies'[l] = bodies[l],
           NEW pc \in {"idle", "clear", "delete", "metas", "mark", "sweep"}, GoTo(pc)
    PROVE  CleanupInv'
<1>1. CleanupInv /\ lastLog \in Nat /\ lastChunk \in Nat /\ DOMAIN bodies \subseteq 1..lastLog
  BY DEF StoreInv, NumbersInv, SnapshotsInv, HistoryInv
<1>2. CASE pc = "idle"
  <2>1. cleanup' = Idle
    BY <1>2 DEF GoTo
  <2>2. DOMAIN bodies' \subseteq 1..lastLog'
    BY <1>1
  <2> QED
    BY <1>1, <2>1, <2>2, IdleIsClean
<1>3. CASE pc # "idle"
  <2>1. cleanup' = [cleanup EXCEPT !.pc = pc]
    BY <1>3 DEF GoTo
  <2>2. /\ cleanup'.last = cleanup.last /\ cleanup'.seen = cleanup.seen
        /\ cleanup'.cursor = cleanup.cursor /\ cleanup'.marks = cleanup.marks
        /\ cleanup' \in Passes
    BY <1>1, <2>1 DEF CleanupInv, Passes
  <2>3. ASSUME NEW l \in DOMAIN bodies', l <= cleanup.seen
        PROVE  Listed(bodies'[l]) \cap 1..cleanup.last \subseteq cleanup.marks
    BY <1>1, <2>3 DEF CleanupInv
  <2> QED
    BY <1>1, <2>2, <2>3 DEF CleanupInv
<1> QED
  BY <1>2, <1>3

-----------------------------------------------------------------------------
(* The first state: nothing is stored yet.                                  *)
LEMMA StartsStored ==
    ASSUME Init
    PROVE  StoreInv
<1> DEFINE known == {0} \cup DOMAIN OldLogs \cup DOMAIN OldOrphans
<1>1. /\ IsFiniteSet(known) /\ known \in SUBSET Nat /\ known # {}
  <2>1. IsFiniteSet(known)
    BY RowAssumption, FS_Singleton, FS_Union
  <2> QED
    BY <2>1, RowAssumption
<1>2. lastLog \in Nat /\ \A l \in known : l <= lastLog
  <2>1. PICK n \in known : \A m \in known : m <= n
    <3> HIDE DEF known
    <3> QED
      BY <1>1, GreatestNatural
  <2>2. lastLog = CHOOSE x \in known : \A y \in known : x >= y
    BY DEF Init, Max
  <2>3. \A m \in known : n >= m
    BY <1>1, <2>1
  <2> HIDE DEF known
  <2>4. lastLog \in known /\ \A y \in known : lastLog >= y
    BY <2>1, <2>2, <2>3
  <2> QED
    BY <1>1, <2>4
<1>3. \A l \in DOMAIN OldLogs \cup DOMAIN OldOrphans : l \in 1..lastLog
  BY <1>1, <1>2, RowAssumption
<1>4. /\ \A l \in DOMAIN OldLogs : OldLogs[l] \in LogRows
      /\ \A l \in DOMAIN OldOrphans : OldOrphans[l] \in LogRows
      /\ DOMAIN OldLogs \cap DOMAIN OldOrphans = {}
  BY RowAssumption
<1>5. NumbersInv
  BY <1>2, ClockAssumption DEF Init, NumbersInv
<1>6. HistoryInv
  <2>1. /\ DOMAIN history = DOMAIN OldLogs /\ logs = DOMAIN OldLogs /\ now = HourLength
        /\ \A l \in DOMAIN history : history[l].at = HourLength /\ history[l].row = OldLogs[l]
    BY DEF Init
  <2>2. HourLength \in HourLength..HourLength
    BY ClockAssumption
  <2> QED
    BY <1>3, <1>4, <2>1, <2>2 DEF HistoryInv
<1>7. TablesInv
  BY DEF Init, TablesInv
<1>8. /\ DOMAIN legacy = DOMAIN OldLogs \cup DOMAIN OldOrphans
      /\ \A l \in DOMAIN legacy : legacy[l] = IF l \in DOMAIN OldOrphans THEN OldOrphans[l] ELSE OldLogs[l]
  BY DEF Init, Extend
<1>9. LegacyInv
  <2>1. DOMAIN legacy \subseteq 1..lastLog /\ \A l \in DOMAIN legacy : legacy[l] \in LogRows
    BY <1>3, <1>4, <1>8
  <2>2. \A l \in DOMAIN legacy \cap logs : legacy[l] = history[l].row
    BY <1>4, <1>8 DEF Init
  <2>3. process = "down"
    BY DEF Init
  <2> QED
    BY <2>1, <2>2, <2>3 DEF LegacyInv
<1>10. SnapshotsInv
  <2>1. logs \subseteq DOMAIN legacy
    BY <1>8 DEF Init
  <2> QED
    BY <2>1 DEF Init, SnapshotsInv
<1>11. CleanupInv
  <2>1. cleanup = Idle /\ DOMAIN bodies = {} /\ lastLog \in Nat /\ lastChunk = 0
    BY <1>2 DEF Init
  <2>2. Idle \in Passes
    BY DEF Idle, Passes
  <2> QED
    BY <2>1, <2>2 DEF CleanupInv, Idle
<1>12. WriterInv
  BY DEF Init, WriterInv, NoBatch
<1> QED
  BY <1>5, <1>6, <1>7, <1>9, <1>10, <1>11, <1>12 DEF StoreInv

(* A start-up step that moves no row.                                       *)
LEMMA StartStepKeeps ==
    ASSUME StoreInv, Start \/ EnsureUsageHourly \/ SplitCancelled \/ EnsureStatsHourly \/ DropOldTable
    PROVE  StoreInv'
<1>1. /\ process # "up" /\ process' \in {"usage", "split", "stats", "orphans", "up"}
      /\ UNCHANGED <<clockVars, logVars, payloadVars, legacy, writer, cleanup>>
  BY DEF Start, EnsureUsageHourly, SplitCancelled, EnsureStatsHourly, DropOldTable, Step, oldVars
<1>2. NumbersInv'
  BY <1>1 DEF StoreInv, NumbersInv, clockVars, logVars, payloadVars
<1>3. CleanupInv'
  BY <1>1 DEF StoreInv, CleanupInv, logVars, payloadVars
<1>4. WriterInv'
  BY <1>1 DEF StoreInv, WriterInv
<1>5. now' = now /\ now \in Int
  BY <1>1 DEF clockVars, StoreInv, NumbersInv
<1> QED
  BY <1>1, <1>2, <1>3, <1>4, <1>5, QuietSteps

LEMMA DropOrphansKeeps ==
    ASSUME StoreInv, DropOrphans
    PROVE  StoreInv'
<1>1. /\ process # "up" /\ process' \in {"migrate", "up"}
      /\ UNCHANGED <<clockVars, logVars, payloadVars, writer, cleanup>>
      /\ legacy' = (IF oldTable THEN Keep(legacy, logs) ELSE legacy)
      /\ process' = "migrate" <=> oldTable
  BY DEF DropOrphans
<1>2. /\ now' = now /\ faults' = faults /\ history' = history /\ logs' = logs /\ lastLog' = lastLog
      /\ snapshots' = snapshots /\ bodies' = bodies /\ metas' = metas /\ chunks' = chunks
      /\ lastMeta' = lastMeta /\ lastChunk' = lastChunk /\ writer' = writer /\ cleanup' = cleanup
  BY <1>1 DEF clockVars, logVars, payloadVars
<1>3. /\ DOMAIN legacy' = IF oldTable THEN DOMAIN legacy \cap logs ELSE DOMAIN legacy
      /\ \A l \in DOMAIN legacy' : legacy'[l] = legacy[l]
  BY <1>1 DEF Keep
<1>4. NumbersInv' /\ HistoryInv' /\ TablesInv' /\ CleanupInv' /\ WriterInv'
  <2>1. NumbersInv'
    BY <1>1, <1>2 DEF StoreInv, NumbersInv
  <2>2. HistoryInv' /\ TablesInv' /\ WriterInv'
    BY <1>2 DEF StoreInv, HistoryInv, TablesInv, WriterInv
  <2>3. CleanupInv'
    BY <1>1, <1>2 DEF StoreInv, CleanupInv
  <2> QED
    BY <2>1, <2>2, <2>3
<1>5. LegacyInv'
  BY <1>1, <1>2, <1>3 DEF StoreInv, LegacyInv
<1>6. SnapshotsInv'
  <2>1. ASSUME NEW l \in logs PROVE l \in DOMAIN legacy' <=> l \in DOMAIN legacy
    BY <1>3
  <2> QED
    BY <1>2, <2>1 DEF StoreInv, SnapshotsInv, HasSnapshots
<1> QED
  BY <1>4, <1>5, <1>6 DEF StoreInv

\* The snapshots already there are left as they are.
SnapshotsRemain == \A l \in DOMAIN snapshots : snapshots'[l] = snapshots[l]

LEMMA MigrateKeeps ==
    ASSUME StoreInv, MigrateLogPayloads
    PROVE  StoreInv' /\ SnapshotsRemain
<1> DEFINE batch == NextMigrationBatch
           rows == Keep(legacy, batch)
<1>1. /\ process = "migrate" /\ StoreRows(rows, OldCleared)
      /\ legacy' = Keep(legacy, DOMAIN legacy \ batch)
      /\ UNCHANGED <<clockVars, process, logVars, writer, cleanup>>
  BY DEF MigrateLogPayloads
<1>2. /\ now' = now /\ faults' = faults /\ history' = history /\ logs' = logs /\ lastLog' = lastLog
      /\ writer' = writer /\ cleanup' = cleanup /\ process' = process
  BY <1>1 DEF clockVars, logVars
<1>3. batch \subseteq DOMAIN legacy
  BY DEF NextMigrationBatch
<1> HIDE DEF batch
<1>4. /\ DOMAIN rows = batch /\ \A l \in batch : rows[l] = legacy[l]
      /\ DOMAIN legacy' = DOMAIN legacy \ batch /\ \A l \in DOMAIN legacy' : legacy'[l] = legacy[l]
  BY <1>1, <1>3 DEF Keep
<1> HIDE DEF rows
<1>5. /\ DOMAIN legacy \subseteq logs /\ DOMAIN legacy \subseteq 1..lastLog /\ lastLog \in Nat
      /\ \A l \in DOMAIN legacy : legacy[l] \in LogRows /\ legacy[l] = history[l].row
      /\ \A l \in DOMAIN snapshots : l \notin DOMAIN legacy
  BY <1>1 DEF StoreInv, LegacyInv, NumbersInv, SnapshotsInv
<1>6. Stored(rows, OldCleared)
  <2>1. IsFiniteSet(DOMAIN rows) /\ DOMAIN rows \subseteq Nat
    <3>1. DOMAIN rows \subseteq 1..lastLog
      BY <1>3, <1>4, <1>5
    <3>2. IsFiniteSet(1..lastLog)
      BY <1>5, UptoIsFinite
    <3>3. IsFiniteSet(DOMAIN rows)
      BY <3>1, <3>2, FS_Subset
    <3> QED
      BY <3>1, <3>3
  <2>2. DOMAIN rows \cap DOMAIN snapshots = {} /\ \A l \in DOMAIN rows : rows[l] \in LogRows
    BY <1>3, <1>4, <1>5
  <2>3. TablesInv /\ NumbersInv /\ DOMAIN bodies \subseteq DOMAIN snapshots
    BY DEF StoreInv, SnapshotsInv
  <2> QED
    BY <1>1, <2>1, <2>2, <2>3, StoredRowsRead
<1>7. SnapshotsInv' /\ TablesInv'
  <2>1. logs' = logs \cup DOMAIN rows /\ \A l \in DOMAIN rows : history'[l].row = rows[l]
    BY <1>2, <1>3, <1>4, <1>5
  <2>2. DOMAIN rows \cap logs \subseteq DOMAIN legacy /\ DOMAIN legacy' = DOMAIN legacy \ DOMAIN rows
    BY <1>3, <1>4
  <2> QED
    BY <1>2, <1>6, <2>1, <2>2, StoreGrows
<1>8. NumbersInv' /\ HistoryInv' /\ WriterInv'
  <2>1. lastMeta' \in Nat /\ lastChunk' \in Nat
    BY <1>6 DEF Stored, Grown
  <2>2. NumbersInv'
    BY <1>2, <2>1 DEF StoreInv, NumbersInv
  <2>3. HistoryInv' /\ WriterInv'
    BY <1>2 DEF StoreInv, HistoryInv, WriterInv
  <2> QED
    BY <2>2, <2>3
<1>9. LegacyInv'
  BY <1>2, <1>3, <1>4, <1>5 DEF LegacyInv
<1>10. CleanupInv'
  <2>1. cleanup' = Idle
    BY <1>1, <1>2 DEF StoreInv, CleanupInv
  <2>2. DOMAIN bodies' \subseteq 1..lastLog'
    BY <1>7, <1>8 DEF SnapshotsInv, HistoryInv
  <2> QED
    BY <1>8, <2>1, <2>2, IdleIsClean DEF NumbersInv
<1>11. SnapshotsRemain
  BY <1>6 DEF Stored, SnapshotsRemain
<1> QED
  BY <1>7, <1>8, <1>9, <1>10, <1>11 DEF StoreInv

(* The writer.                                                              *)
LEMMA CommitKeeps ==
    ASSUME StoreInv, CommitBatch
    PROVE  StoreInv' /\ SnapshotsRemain
<1> DEFINE n == Len(writer.rows)
           ids == lastLog + 1 .. lastLog + n
           rows == [l \in ids |-> writer.rows[l - lastLog]]
           more == [l \in ids |-> [at |-> now, row |-> rows[l]]]
<1>1. /\ process = "up" /\ history' = Extend(history, more) /\ logs' = logs \cup ids
      /\ lastLog' = lastLog + n /\ StoreRows(rows, {}) /\ writer' = NoBatch
      /\ UNCHANGED <<clockVars, process, oldVars, cleanup>>
  BY DEF CommitBatch
<1>2. /\ now' = now /\ faults' = faults /\ cleanup' = cleanup /\ process' = process /\ legacy' = legacy
  BY <1>1 DEF clockVars, oldVars
<1>3. /\ lastLog \in Nat /\ n \in Nat /\ writer.rows \in Seq(LogRows)
      /\ now \in HourLength..now /\ logs \subseteq 1..lastLog /\ DOMAIN history \subseteq 1..lastLog
      /\ DOMAIN legacy \subseteq 1..lastLog /\ DOMAIN snapshots \subseteq logs
  <2>1. writer.rows \in Seq(LogRows)
    BY DEF StoreInv, WriterInv
  <2>2. now \in HourLength..now
    BY ClockAssumption DEF StoreInv, NumbersInv
  <2> QED
    BY <2>1, <2>2 DEF StoreInv, NumbersInv, HistoryInv, LegacyInv, SnapshotsInv
<1>4. /\ \A l \in ids : l \notin 1..lastLog /\ l \in 1..lastLog + n /\ l \in Nat
      /\ \A l \in 1..lastLog : l \in 1..lastLog + n
  BY <1>3
<1>5. DOMAIN rows = ids /\ \A l \in ids : rows[l] \in LogRows
  <2>1. \A l \in ids : l - lastLog \in 1..n
    BY <1>3
  <2> QED
    BY <1>3, <2>1
<1>6. DOMAIN more = ids /\ \A l \in ids : more[l].at = now /\ more[l].row = rows[l]
  OBVIOUS
<1>13. IsFiniteSet(ids)
  <2>1. lastLog + 1 \in Int /\ lastLog + n \in Int
    BY <1>3
  <2> QED
    BY <2>1, FS_Interval
<1> HIDE DEF ids, rows, more
<1>7. /\ DOMAIN history' = DOMAIN history \cup ids
      /\ \A l \in DOMAIN history : history'[l] = history[l]
      /\ \A l \in ids : history'[l].at = now /\ history'[l].row = rows[l]
  <2>1. \A l \in DOMAIN history : l \notin ids
    BY <1>3, <1>4
  <2> QED
    BY <1>1, <1>6, <2>1 DEF Extend
<1>8. Stored(rows, {})
  <2>1. IsFiniteSet(DOMAIN rows) /\ DOMAIN rows \subseteq Nat /\ \A l \in DOMAIN rows : rows[l] \in LogRows
    BY <1>4, <1>5, <1>13
  <2>2. DOMAIN rows \cap DOMAIN snapshots = {}
    BY <1>3, <1>4, <1>5
  <2>3. TablesInv /\ NumbersInv /\ DOMAIN bodies \subseteq DOMAIN snapshots
    BY DEF StoreInv, SnapshotsInv
  <2> QED
    BY <1>1, <2>1, <2>2, <2>3, StoredRowsRead
<1>9. SnapshotsInv' /\ TablesInv'
  <2>1. logs' = logs \cup DOMAIN rows /\ \A l \in DOMAIN rows : history'[l].row = rows[l]
    BY <1>1, <1>5, <1>7
  <2>2. DOMAIN rows \cap logs \subseteq DOMAIN legacy /\ DOMAIN legacy' = DOMAIN legacy \ DOMAIN rows
    BY <1>2, <1>3, <1>4, <1>5
  <2> QED
    BY <1>7, <1>8, <2>1, <2>2, StoreGrows
<1>10. NumbersInv' /\ HistoryInv' /\ WriterInv' /\ LegacyInv'
  <2>1. lastMeta' \in Nat /\ lastChunk' \in Nat /\ lastLog' \in Nat
    BY <1>1, <1>3, <1>8 DEF Stored, Grown
  <2>2. NumbersInv'
    BY <1>2, <2>1 DEF StoreInv, NumbersInv
  <2>3. HistoryInv'
    <3>1. \A l \in DOMAIN history' : l \in 1..lastLog'
      BY <1>1, <1>3, <1>4, <1>7
    <3>2. logs' \subseteq DOMAIN history'
      BY <1>1, <1>7 DEF StoreInv, HistoryInv
    <3>3. \A l \in DOMAIN history' : history'[l].row \in LogRows /\ history'[l].at \in HourLength..now'
      BY <1>2, <1>3, <1>5, <1>7 DEF StoreInv, HistoryInv
    <3> QED
      BY <3>1, <3>2, <3>3 DEF HistoryInv
  <2>4. WriterInv'
    BY <1>1 DEF WriterInv, NoBatch
  <2>5. LegacyInv'
    <3>1. \A l \in DOMAIN legacy : l \notin ids /\ l \in 1..lastLog'
      BY <1>1, <1>3, <1>4
    <3>2. \A l \in DOMAIN legacy' \cap logs' : legacy'[l] = history'[l].row
      BY <1>1, <1>2, <1>7, <3>1 DEF StoreInv, LegacyInv, HistoryInv
    <3> QED
      BY <1>1, <1>2, <3>1, <3>2 DEF StoreInv, LegacyInv
  <2> QED
    BY <2>2, <2>3, <2>4, <2>5
<1>11. CleanupInv'
  <2>1. /\ CleanupInv /\ lastChunk \in Nat /\ lastChunk' \in Nat /\ lastChunk <= lastChunk'
        /\ lastLog' = lastLog + n
    BY <1>1, <1>8 DEF StoreInv, NumbersInv, Stored, Grown
  <2>2. cleanup.last \in 0..lastChunk' /\ cleanup.seen \in 0..lastLog'
    BY <1>3, <2>1 DEF CleanupInv
  <2>3. ASSUME NEW l \in DOMAIN bodies', l <= cleanup.seen
        PROVE  l \in DOMAIN bodies /\ bodies'[l] = bodies[l]
    <3>1. cleanup.seen \in 0..lastLog
      BY <2>1 DEF CleanupInv
    <3>2. l \notin ids
      <4>1. \A x \in ids : ~(x <= cleanup.seen)
        BY <1>3, <3>1 DEF ids
      <4> QED
        BY <2>3, <4>1
    <3>3. l \notin Present(rows)
      BY <1>5, <3>2 DEF Present
    <3>4. l \in DOMAIN bodies
      BY <1>8, <3>3 DEF Stored
    <3>5. l \in DOMAIN snapshots
      BY <3>4 DEF StoreInv, SnapshotsInv
    <3> QED
      BY <1>8, <3>4, <3>5 DEF Stored
  <2> QED
    BY <1>1, <1>2, <2>1, <2>2, <2>3 DEF CleanupInv
<1>12. SnapshotsRemain
  BY <1>8 DEF Stored, SnapshotsRemain
<1> QED
  BY <1>9, <1>10, <1>11, <1>12 DEF StoreInv

LEMMA WriterSteps ==
    ASSUME StoreInv, PrepareBatch \/ BatchFails
    PROVE  StoreInv'
<1>1. /\ UNCHANGED <<now, process, logVars, payloadVars, oldVars, cleanup>>
      /\ faults' = faults \/ (faults < MaxFaults /\ faults' = faults + 1)
  BY DEF PrepareBatch, BatchFails, clockVars, Fault
<1>2. WriterInv'
  <2>1. CASE PrepareBatch
    BY <2>1, RowAssumption DEF PrepareBatch, WriterInv
  <2>2. CASE BatchFails
    BY <2>2 DEF BatchFails, WriterInv, NoBatch
  <2> QED
    BY <2>1, <2>2
<1>3. NumbersInv'
  <2>1. faults' \in 0..MaxFaults
    BY <1>1, ClockAssumption DEF StoreInv, NumbersInv
  <2> QED
    BY <1>1, <2>1 DEF StoreInv, NumbersInv, logVars, payloadVars
<1>4. CleanupInv'
  BY <1>1 DEF StoreInv, CleanupInv, logVars, payloadVars
<1>5. now' = now /\ now \in Int /\ legacy' = legacy
  BY <1>1 DEF StoreInv, NumbersInv, oldVars
<1> QED
  BY <1>1, <1>2, <1>3, <1>4, <1>5, QuietSteps

LEMMA CrashAndTickKeep ==
    ASSUME StoreInv, Crash \/ Tick
    PROVE  StoreInv'
<1>1. /\ UNCHANGED <<logVars, payloadVars, legacy>>
      /\ lastLog' = lastLog /\ lastChunk' = lastChunk /\ lastMeta' = lastMeta /\ bodies' = bodies
  BY DEF Crash, Tick, logVars, payloadVars, oldVars
<1>2. lastLog \in Nat /\ lastChunk \in Nat /\ lastMeta \in Nat /\ DOMAIN bodies \subseteq 1..lastLog
  BY DEF StoreInv, NumbersInv, SnapshotsInv, HistoryInv
<1>3. CASE Crash
  <2>1. process' = "down" /\ writer' = NoBatch /\ cleanup' = Idle /\ now' = now
        /\ faults < MaxFaults /\ faults' = faults + 1
    BY <1>3 DEF Crash, Fault
  <2>2. NumbersInv' /\ WriterInv'
    <3>1. faults' \in 0..MaxFaults
      BY <2>1, ClockAssumption DEF StoreInv, NumbersInv
    <3> QED
      BY <1>1, <2>1, <3>1 DEF StoreInv, NumbersInv, WriterInv, NoBatch
  <2>3. CleanupInv'
    BY <1>1, <1>2, <2>1, IdleIsClean
  <2>4. now <= now'
    BY <2>1 DEF StoreInv, NumbersInv
  <2> QED
    BY <1>1, <2>1, <2>2, <2>3, <2>4, QuietSteps
<1>4. CASE Tick
  <2>1. /\ now' = now + 1 /\ now < MaxNow /\ process' = process /\ writer' = writer
        /\ cleanup' = cleanup /\ faults' = faults
    BY <1>4 DEF Tick
  <2>2. now <= now' /\ now' \in HourLength..MaxNow
    BY <2>1, ClockAssumption DEF StoreInv, NumbersInv
  <2>3. NumbersInv' /\ WriterInv' /\ CleanupInv'
    BY <1>1, <2>1, <2>2 DEF StoreInv, NumbersInv, WriterInv, CleanupInv
  <2> QED
    BY <1>1, <2>1, <2>2, <2>3, QuietSteps
<1> QED
  BY <1>3, <1>4

(* The cleanup pass.                                                        *)
LEMMA StartPassKeeps ==
    ASSUME StoreInv, NEW retention \in BOOLEAN, NEW collect \in BOOLEAN, StartPass(retention, collect)
    PROVE  StoreInv'
<1>1. /\ process = "up" /\ process' = "up" /\ UNCHANGED <<clockVars, logVars, payloadVars, legacy, writer>>
      /\ cleanup' = [Idle EXCEPT !.pc = "clear", !.retention = retention, !.collect = collect]
  BY DEF StartPass, At, oldVars
<1>2. NumbersInv' /\ WriterInv'
  BY <1>1 DEF StoreInv, NumbersInv, WriterInv, clockVars, logVars, payloadVars
<1>3. lastLog' \in Nat /\ lastChunk' \in Nat /\ DOMAIN bodies' \subseteq 1..lastLog'
  BY <1>1 DEF StoreInv, NumbersInv, SnapshotsInv, HistoryInv, logVars, payloadVars
<1>4. CleanupInv'
  <2>1. /\ cleanup'.pc = "clear" /\ cleanup'.last = 0 /\ cleanup'.seen = 0
        /\ cleanup'.cursor = 0 /\ cleanup'.marks = {} /\ cleanup' \in Passes
    BY <1>1 DEF Idle, Passes
  <2>2. \A l \in DOMAIN bodies' : ~(l <= 0)
    BY <1>3
  <2>3. 0 \in 0..lastChunk' /\ 0 \in 0..lastLog' /\ 0 \in 0..0
    BY <1>3
  <2> QED
    BY <1>1, <2>1, <2>2, <2>3 DEF CleanupInv
<1>5. now' = now /\ now \in Int
  BY <1>1 DEF StoreInv, NumbersInv, clockVars
<1> QED
  BY <1>1, <1>2, <1>4, <1>5, QuietSteps

LEMMA PassFailsKeeps ==
    ASSUME StoreInv, PassFails
    PROVE  StoreInv'
<1> DEFINE pc == CASE cleanup.pc = "clear" -> AfterClear
              [] cleanup.pc = "delete" -> "metas"
              [] cleanup.pc = "metas" -> AfterMetas
              [] OTHER -> "idle"
<1>1. /\ process = "up" /\ process' = "up" /\ GoTo(pc)
      /\ UNCHANGED <<now, logVars, payloadVars, legacy, writer>>
      /\ faults < MaxFaults /\ faults' = faults + 1
  BY DEF PassFails, Fault, oldVars
<1>2. pc \in {"idle", "clear", "delete", "metas", "mark", "sweep"}
  BY DEF AfterClear, AfterMetas
<1> HIDE DEF pc
<1>3. faults' \in 0..MaxFaults
  BY <1>1, ClockAssumption DEF StoreInv, NumbersInv
<1>4. NumbersInv' /\ WriterInv'
  BY <1>1, <1>3 DEF StoreInv, NumbersInv, WriterInv, logVars, payloadVars
<1>5. CleanupInv'
  <2>1. lastLog' = lastLog /\ lastChunk' = lastChunk /\ bodies' = bodies
    BY <1>1 DEF logVars, payloadVars
  <2>2. DOMAIN bodies' \subseteq DOMAIN bodies /\ \A l \in DOMAIN bodies' : bodies'[l] = bodies[l]
    BY <2>1
  <2> QED
    BY <1>1, <1>2, <2>1, <2>2, PassGoesOn
<1>6. now' = now /\ now \in Int
  BY <1>1 DEF StoreInv, NumbersInv
<1> QED
  BY <1>1, <1>4, <1>5, <1>6, QuietSteps

\* What a pass step leaves alone, but for the rows it takes.
PassFrame ==
    /\ process = "up" /\ process' = "up" /\ now' = now /\ faults' = faults
    /\ history' = history /\ lastLog' = lastLog /\ lastMeta' = lastMeta /\ lastChunk' = lastChunk
    /\ legacy' = legacy /\ writer' = writer
    /\ logs' \subseteq logs

LEMMA PassFrameKeeps ==
    ASSUME StoreInv, PassFrame
    PROVE  NumbersInv' /\ HistoryInv' /\ LegacyInv' /\ WriterInv'
<1>1. NumbersInv' /\ WriterInv'
  BY DEF StoreInv, NumbersInv, WriterInv, PassFrame
<1>2. HistoryInv'
  BY DEF StoreInv, HistoryInv, PassFrame
<1>3. LegacyInv'
  BY DEF StoreInv, LegacyInv, PassFrame
<1> QED
  BY <1>1, <1>2, <1>3

LEMMA ClearKeeps ==
    ASSUME StoreInv, ClearOldLogBodies
    PROVE  StoreInv'
<1> DEFINE gone == Oldest(PastKeepCount, ClearBatch)
           pc == IF Cardinality(gone) < ClearBatch THEN AfterClear ELSE "clear"
<1>1. /\ PassFrame /\ logs' = logs /\ metas' = metas /\ chunks' = chunks /\ GoTo(pc)
      /\ bodies' = Keep(bodies, DOMAIN bodies \ gone)
      /\ snapshots' = [l \in DOMAIN snapshots |->
           IF l \in gone THEN [snapshots[l] EXCEPT !.cleared = TRUE] ELSE snapshots[l]]
  BY DEF ClearOldLogBodies, At, PassFrame, clockVars, logVars, oldVars
<1>2. pc \in {"idle", "clear", "delete", "metas", "mark", "sweep"}
  BY DEF AfterClear
<1>3. gone \subseteq DOMAIN snapshots
  BY DEF Oldest, PastKeepCount, WithBodies
<1> HIDE DEF gone, pc
<1>4. /\ DOMAIN bodies' = DOMAIN bodies \ gone /\ \A l \in DOMAIN bodies' : bodies'[l] = bodies[l]
      /\ DOMAIN snapshots' = DOMAIN snapshots
  BY <1>1 DEF Keep
<1>5. SnapshotsInv'
  <2>1. ASSUME NEW l \in DOMAIN snapshots'
        PROVE  /\ MetasHold(snapshots'[l], history'[l].row, metas')
               /\ BodyHolds(l, snapshots'[l], history'[l].row, bodies', chunks')
    <3>1. /\ MetasHold(snapshots[l], history[l].row, metas)
          /\ BodyHolds(l, snapshots[l], history[l].row, bodies, chunks)
          /\ history' = history /\ metas' = metas /\ chunks' = chunks
      BY <1>1, <1>4 DEF StoreInv, SnapshotsInv, PassFrame
    <3>2. CASE l \in gone
      <4>1. snapshots'[l] = [snapshots[l] EXCEPT !.cleared = TRUE] /\ l \notin DOMAIN bodies'
        BY <1>1, <1>3, <1>4, <3>2
      <4>2. snapshots'[l].metas = snapshots[l].metas /\ snapshots'[l].cleared \in BOOLEAN
        BY <4>1
      <4>3. snapshots[l].cleared = TRUE \/ snapshots'[l].cleared
        BY <3>1, <4>1 DEF MetasHold
      <4>4. MetasHold(snapshots'[l], history[l].row, metas)
        BY <3>1, <4>2 DEF MetasHold
      <4>5. BodyHolds(l, snapshots'[l], history[l].row, bodies', chunks)
        BY <3>1, <4>1, <4>3 DEF BodyHolds
      <4> QED
        BY <3>1, <4>4, <4>5
    <3>3. CASE l \notin gone
      <4>1. snapshots'[l] = snapshots[l] /\ (l \in DOMAIN bodies' <=> l \in DOMAIN bodies)
            /\ (l \in DOMAIN bodies => bodies'[l] = bodies[l])
        BY <1>1, <1>4, <3>3
      <4> QED
        BY <3>1, <4>1 DEF BodyHolds
    <3> QED
      BY <3>2, <3>3
  <2>2. /\ DOMAIN snapshots' \subseteq logs' /\ DOMAIN bodies' \subseteq DOMAIN snapshots'
        /\ \A l \in logs' : l \in DOMAIN snapshots' <=> HasSnapshots(l)' /\ l \notin DOMAIN legacy'
    BY <1>1, <1>4 DEF StoreInv, SnapshotsInv, HasSnapshots, PassFrame
  <2> QED
    BY <2>1, <2>2 DEF SnapshotsInv
<1>6. CleanupInv'
  BY <1>1, <1>2, <1>4, PassGoesOn DEF PassFrame
<1>7. TablesInv'
  BY <1>1 DEF StoreInv, TablesInv, PassFrame
<1> QED
  BY <1>1, <1>5, <1>6, <1>7, PassFrameKeeps DEF StoreInv

LEMMA DeleteKeeps ==
    ASSUME StoreInv, DeleteOldLogs
    PROVE  StoreInv'
<1>1. PICK gone :
        /\ PassFrame /\ logs' = logs \ gone /\ metas' = metas /\ chunks' = chunks
        /\ snapshots' = Keep(snapshots, DOMAIN snapshots \ gone)
        /\ bodies' = Keep(bodies, DOMAIN bodies \ gone)
        /\ GoTo(IF Cardinality(gone) < DeleteBatch THEN "metas" ELSE "delete")
  BY DEF DeleteOldLogs, At, PassFrame, clockVars, oldVars
<1>2. /\ DOMAIN bodies' = DOMAIN bodies \ gone /\ \A l \in DOMAIN bodies' : bodies'[l] = bodies[l]
      /\ DOMAIN snapshots' = DOMAIN snapshots \ gone /\ \A l \in DOMAIN snapshots' : snapshots'[l] = snapshots[l]
  BY <1>1 DEF Keep
<1>3. SnapshotsInv'
  <2>1. ASSUME NEW l \in DOMAIN snapshots'
        PROVE  /\ MetasHold(snapshots'[l], history'[l].row, metas')
               /\ BodyHolds(l, snapshots'[l], history'[l].row, bodies', chunks')
    <3>1. /\ MetasHold(snapshots[l], history[l].row, metas)
          /\ BodyHolds(l, snapshots[l], history[l].row, bodies, chunks)
          /\ history' = history /\ metas' = metas /\ chunks' = chunks /\ snapshots'[l] = snapshots[l]
      BY <1>1, <1>2 DEF StoreInv, SnapshotsInv, PassFrame
    <3>2. (l \in DOMAIN bodies' <=> l \in DOMAIN bodies) /\ (l \in DOMAIN bodies => bodies'[l] = bodies[l])
      BY <1>2
    <3> QED
      BY <3>1, <3>2 DEF BodyHolds
  <2>2. /\ DOMAIN snapshots' \subseteq logs' /\ DOMAIN bodies' \subseteq DOMAIN snapshots'
        /\ \A l \in logs' : l \in DOMAIN snapshots' <=> HasSnapshots(l)' /\ l \notin DOMAIN legacy'
    BY <1>1, <1>2 DEF StoreInv, SnapshotsInv, HasSnapshots, PassFrame
  <2> QED
    BY <2>1, <2>2 DEF SnapshotsInv
<1>4. CleanupInv'
  <2>1. (IF Cardinality(gone) < DeleteBatch THEN "metas" ELSE "delete")
          \in {"idle", "clear", "delete", "metas", "mark", "sweep"}
    OBVIOUS
  <2> QED
    BY <1>1, <1>2, <2>1, PassGoesOn DEF PassFrame
<1>5. TablesInv'
  BY <1>1 DEF StoreInv, TablesInv, PassFrame
<1> QED
  BY <1>1, <1>3, <1>4, <1>5, PassFrameKeeps DEF StoreInv

LEMMA CollectMetasKeeps ==
    ASSUME StoreInv, CollectLogMetas
    PROVE  StoreInv'
<1>1. /\ PassFrame /\ logs' = logs /\ snapshots' = snapshots /\ bodies' = bodies /\ chunks' = chunks
      /\ metas' = Keep(metas, UNION {Values(snapshots[l].metas) : l \in DOMAIN snapshots})
      /\ GoTo(AfterMetas)
  BY DEF CollectLogMetas, At, PassFrame, clockVars, logVars, oldVars
<1>2. \A l \in DOMAIN snapshots : \A id \in Values(snapshots[l].metas) :
        id \in DOMAIN metas => id \in DOMAIN metas' /\ metas'[id] = metas[id]
  BY <1>1 DEF Keep
<1>3. DOMAIN metas' \subseteq DOMAIN metas /\ \A id \in DOMAIN metas' : metas'[id] = metas[id]
  BY <1>1 DEF Keep
<1>4. SnapshotsInv'
  <2>1. ASSUME NEW l \in DOMAIN snapshots PROVE MetasHold(snapshots[l], history[l].row, metas')
    <3>1. MetasHold(snapshots[l], history[l].row, metas)
      BY DEF StoreInv, SnapshotsInv
    <3>2. \A s \in Slots : snapshots[l].metas[s] \in Values(snapshots[l].metas)
      BY <3>1 DEF MetasHold, Values
    <3>3. \A s \in Slots : snapshots[l].metas[s] \in DOMAIN metas =>
            /\ snapshots[l].metas[s] \in DOMAIN metas'
            /\ metas'[snapshots[l].metas[s]] = metas[snapshots[l].metas[s]]
      BY <1>2, <3>2
    <3> QED
      BY <3>1, <3>3, MetasStay
  <2> QED
    BY <1>1, <2>1 DEF StoreInv, SnapshotsInv, HasSnapshots, PassFrame
<1>5. CleanupInv'
  <2>1. AfterMetas \in {"idle", "clear", "delete", "metas", "mark", "sweep"}
    BY DEF AfterMetas
  <2>2. DOMAIN bodies' \subseteq DOMAIN bodies /\ \A l \in DOMAIN bodies' : bodies'[l] = bodies[l]
    BY <1>1
  <2> QED
    BY <1>1, <2>1, <2>2, PassGoesOn DEF PassFrame
<1>6. TablesInv'
  BY <1>1, <1>3 DEF StoreInv, TablesInv, PassFrame
<1> QED
  BY <1>1, <1>4, <1>5, <1>6, PassFrameKeeps DEF StoreInv

LEMMA MarkKeeps ==
    ASSUME StoreInv, MarkLogChunks
    PROVE  StoreInv'
<1>1. /\ process = "up" /\ process' = "up" /\ UNCHANGED <<clockVars, logVars, payloadVars, legacy, writer>>
      /\ cleanup' = IF lastChunk = 0 THEN Idle
                    ELSE [cleanup EXCEPT !.pc = "sweep", !.marks = MarksOf(DOMAIN bodies, lastChunk),
                                         !.seen = lastLog, !.last = lastChunk, !.cursor = 0]
  BY DEF MarkLogChunks, At, oldVars
<1>2. NumbersInv' /\ WriterInv'
  BY <1>1 DEF StoreInv, NumbersInv, WriterInv, clockVars, logVars, payloadVars
<1>3. /\ lastLog \in Nat /\ lastChunk \in Nat /\ DOMAIN bodies \subseteq 1..lastLog
      /\ lastLog' = lastLog /\ lastChunk' = lastChunk /\ bodies' = bodies /\ cleanup \in Passes
  BY <1>1 DEF StoreInv, NumbersInv, SnapshotsInv, HistoryInv, CleanupInv, logVars, payloadVars
<1>4. CleanupInv'
  <2>1. CASE lastChunk = 0
    <3>1. cleanup' = Idle /\ DOMAIN bodies' \subseteq 1..lastLog'
      BY <1>1, <1>3, <2>1
    <3> QED
      BY <1>3, <3>1, IdleIsClean
  <2>2. CASE lastChunk # 0
    <3>1. MarksOf(DOMAIN bodies, lastChunk) \subseteq 1..lastChunk
      BY DEF MarksOf
    <3>2. /\ cleanup'.seen = lastLog /\ cleanup'.last = lastChunk
          /\ cleanup'.cursor = 0 /\ cleanup'.marks = MarksOf(DOMAIN bodies, lastChunk)
      BY <1>1, <1>3, <2>2 DEF Passes
    <3>3. cleanup' \in Passes
      <4>1. MarksOf(DOMAIN bodies, lastChunk) \in SUBSET Nat
        BY <3>1
      <4> QED
        BY <1>1, <1>3, <2>2, <4>1 DEF Passes
    <3>4. \A l \in DOMAIN bodies' : Listed(bodies'[l]) \cap 1..lastChunk \subseteq MarksOf(DOMAIN bodies, lastChunk)
      BY <1>3 DEF MarksOf
    <3>5. lastChunk \in 0..lastChunk' /\ lastLog \in 0..lastLog' /\ 0 \in 0..lastChunk
      BY <1>3
    <3> QED
      BY <1>1, <3>1, <3>2, <3>3, <3>4, <3>5 DEF CleanupInv
  <2> QED
    BY <2>1, <2>2
<1>5. now' = now /\ now \in Int
  BY <1>1 DEF StoreInv, NumbersInv, clockVars
<1> QED
  BY <1>1, <1>2, <1>4, <1>5, QuietSteps

\* Where a sweep stops is within the ids it was to look at.
LEMMA SweepStops ==
    ASSUME StoreInv, NEW marks
    PROVE  SweepStop(marks) \in 0..cleanup.last
<1> DEFINE ahead == {id \in DOMAIN chunks : id > cleanup.cursor /\ id <= cleanup.last}
           UpTo(id) == {k \in ahead : k <= id}
           full == {id \in ahead : \/ Cardinality(UpTo(id) \ marks) >= SweepBatch
                                   \/ Cardinality(UpTo(id)) >= ScanFactor * SweepBatch}
<1>1. SweepStop(marks) = IF full = {} THEN cleanup.last ELSE CHOOSE id \in full : \A k \in full : id <= k
  BY DEF SweepStop
<1>2. cleanup.last \in Nat /\ DOMAIN chunks \subseteq 1..lastChunk
  BY DEF StoreInv, CleanupInv, TablesInv, NumbersInv
<1>3. full \in SUBSET Nat /\ \A id \in full : id <= cleanup.last
  BY <1>2
<1> HIDE DEF full
<1>4. CASE full = {}
  BY <1>1, <1>2, <1>4
<1>5. CASE full # {}
  <2>1. \E id \in full : \A k \in full : id <= k
    BY <1>3, <1>5, LeastNatural
  <2>2. PICK k \in full : k = SweepStop(marks)
    BY <1>1, <1>5, <2>1
  <2>3. k \in Nat /\ k <= cleanup.last
    BY <1>3, <2>2
  <2>4. k \in 0..cleanup.last
    BY <1>2, <2>3
  <2> QED
    BY <2>2, <2>4
<1> QED
  BY <1>4, <1>5

(* The sweep takes no chunk that a record lists.                            *)
LEMMA SweepKeeps ==
    ASSUME StoreInv, SweepLogChunks
    PROVE  StoreInv'
<1> DEFINE since == {l \in DOMAIN bodies : l > cleanup.seen}
           marks == cleanup.marks \cup MarksOf(since, cleanup.last)
           stop == SweepStop(marks)
           doomed == {id \in DOMAIN chunks : id > cleanup.cursor /\ id <= stop /\ id \notin marks}
           seen == IF since = {} THEN cleanup.seen ELSE CHOOSE l \in since : \A k \in since : k <= l
<1>1. /\ PassFrame /\ logs' = logs /\ snapshots' = snapshots /\ bodies' = bodies /\ metas' = metas
      /\ chunks' = Keep(chunks, DOMAIN chunks \ doomed)
      /\ cleanup' = IF stop >= cleanup.last THEN Idle
                    ELSE [cleanup EXCEPT !.marks = marks, !.cursor = stop, !.seen = seen]
  BY DEF SweepLogChunks, At, PassFrame, clockVars, logVars, oldVars
<1>2. /\ cleanup \in Passes /\ cleanup.last \in 0..lastChunk /\ cleanup.seen \in 0..lastLog
      /\ cleanup.marks \subseteq 1..cleanup.last
      /\ lastLog \in Nat /\ lastChunk \in Nat /\ DOMAIN bodies \subseteq 1..lastLog
      /\ DOMAIN chunks \subseteq 1..lastChunk
  BY DEF StoreInv, CleanupInv, NumbersInv, SnapshotsInv, HistoryInv, TablesInv
<1>3. stop \in 0..cleanup.last
  BY SweepStops
<1>4. ASSUME NEW l \in DOMAIN bodies PROVE Listed(bodies[l]) \cap 1..cleanup.last \subseteq marks
  <2>1. CASE l <= cleanup.seen
    BY <2>1 DEF StoreInv, CleanupInv
  <2>2. CASE l > cleanup.seen
    <3>1. l \in since
      BY <2>2
    <3> QED
      BY <3>1 DEF MarksOf
  <2>3. l \in Int /\ cleanup.seen \in Int
    BY <1>2
  <2> QED
    BY <2>1, <2>2, <2>3
<1>5. marks \subseteq 1..cleanup.last
  BY <1>2 DEF MarksOf
<1>6. seen \in 0..lastLog /\ \A l \in DOMAIN bodies : l <= lastLog
  <2>1. since \in SUBSET Nat /\ \A l \in since : l \in 0..lastLog
    BY <1>2
  <2>2. IsFiniteSet(since)
    <3>1. IsFiniteSet(1..lastLog) /\ since \subseteq 1..lastLog
      BY <1>2, UptoIsFinite
    <3> HIDE DEF since
    <3> QED
      BY <3>1, FS_Subset
  <2> HIDE DEF since
  <2>3. CASE since = {}
    BY <1>2, <2>3
  <2>4. CASE since # {}
    <3>1. \E l \in since : \A k \in since : k <= l
      BY <2>1, <2>2, <2>4, GreatestNatural
    <3>2. seen \in since
      BY <2>4, <3>1
    <3> HIDE DEF seen
    <3> QED
      BY <1>2, <2>1, <3>2
  <2> QED
    BY <1>2, <2>3, <2>4
<1>7. ASSUME NEW l \in DOMAIN bodies, NEW id \in Listed(bodies[l]), id \in DOMAIN chunks
      PROVE  id \notin doomed
  <2>1. id \in 1..lastChunk
    BY <1>2, <1>7
  <2>2. CASE id \in doomed
    <3>1. id \in 1..cleanup.last
      <4>1. id <= stop
        BY <2>2
      <4> HIDE DEF stop
      <4> QED
        BY <1>2, <1>3, <2>1, <4>1
    <3>2. id \in marks
      BY <1>4, <3>1
    <3> QED
      BY <2>2, <3>2
  <2> QED
    BY <2>2
<1> HIDE DEF doomed, stop, marks, seen, since
<1>8. DOMAIN chunks' = DOMAIN chunks \ doomed /\ \A id \in DOMAIN chunks' : chunks'[id] = chunks[id]
  BY <1>1 DEF Keep
<1>9. SnapshotsInv'
  <2>1. ASSUME NEW l \in DOMAIN snapshots PROVE BodyHolds(l, snapshots[l], history[l].row, bodies, chunks')
    <3>1. BodyHolds(l, snapshots[l], history[l].row, bodies, chunks)
      BY DEF StoreInv, SnapshotsInv
    <3>2. l \in DOMAIN bodies => \A id \in Listed(bodies[l]) : id \in DOMAIN chunks =>
            id \in DOMAIN chunks' /\ chunks'[id] = chunks[id]
      BY <1>7, <1>8
    <3> QED
      BY <3>1, <3>2, BodyStays
  <2> QED
    BY <1>1, <2>1 DEF StoreInv, SnapshotsInv, HasSnapshots, PassFrame
<1>10. CleanupInv'
  <2>1. CASE stop >= cleanup.last
    <3>1. cleanup' = Idle
      BY <1>1, <2>1
    <3> QED
      BY <1>1, <1>2, <3>1, IdleIsClean DEF PassFrame
  <2>2. CASE ~(stop >= cleanup.last)
    <3>1. /\ cleanup'.marks = marks /\ cleanup'.cursor = stop /\ cleanup'.seen = seen
          /\ cleanup'.last = cleanup.last
      BY <1>1, <1>2, <2>2 DEF Passes
    <3>2. cleanup' \in Passes
      <4>1. marks \in SUBSET Nat /\ seen \in Nat /\ stop \in Nat
        BY <1>2, <1>3, <1>5, <1>6
      <4> QED
        BY <1>1, <1>2, <2>2, <4>1 DEF Passes
    <3> QED
      BY <1>1, <1>2, <1>3, <1>4, <1>5, <1>6, <3>1, <3>2 DEF CleanupInv, PassFrame
  <2> QED
    BY <2>1, <2>2
<1>11. TablesInv'
  BY <1>1, <1>8 DEF StoreInv, TablesInv, PassFrame
<1> QED
  BY <1>1, <1>9, <1>10, <1>11, PassFrameKeeps DEF StoreInv

-----------------------------------------------------------------------------
LEMMA StoreStays == Spec => []StoreInv
<1>1. Init => StoreInv
  BY StartsStored
<1>2. StoreInv /\ [Next]_vars => StoreInv'
  <2> SUFFICES ASSUME StoreInv, [Next]_vars
               PROVE  StoreInv'
    OBVIOUS
  <2>1. CASE StartUp
    BY <2>1, StartStepKeeps, DropOrphansKeeps, MigrateKeeps DEF StartUp
  <2>2. CASE PrepareBatch \/ CommitBatch \/ BatchFails
    BY <2>2, WriterSteps, CommitKeeps
  <2>3. CASE \E retention, collect \in BOOLEAN : StartPass(retention, collect)
    BY <2>3, StartPassKeeps
  <2>4. CASE PassStep
    BY <2>4, ClearKeeps, DeleteKeeps, CollectMetasKeeps, MarkKeeps, SweepKeeps DEF PassStep
  <2>5. CASE PassFails
    BY <2>5, PassFailsKeeps
  <2>6. CASE Crash \/ Tick
    BY <2>6, CrashAndTickKeep
  <2>7. CASE UNCHANGED vars
    <3>1. UNCHANGED <<logVars, payloadVars, legacy, cleanup, writer, now, process, faults>>
      BY <2>7 DEF vars, logVars, payloadVars
    <3>2. NumbersInv' /\ CleanupInv' /\ WriterInv'
      BY <3>1 DEF StoreInv, NumbersInv, CleanupInv, WriterInv, logVars, payloadVars
    <3>3. now' = now /\ now \in Int
      BY <3>1 DEF StoreInv, NumbersInv
    <3> QED
      BY <3>1, <3>2, <3>3, QuietSteps
  <2> QED
    BY <2>1, <2>2, <2>3, <2>4, <2>5, <2>6, <2>7 DEF Next
<1> QED
  BY <1>1, <1>2, PTL DEF Spec

(* Every variable keeps its shape, and ids handed out bound the ids in use, *)
(* whatever the batches, the old rows and the faults (db/logbody.go,        *)
(* db/log.go).                                                              *)
THEOREM TypesStay == Spec => []TypeOK
<1>1. StoreInv => TypeOK
  <2> SUFFICES ASSUME StoreInv
               PROVE  TypeOK
    OBVIOUS
  <2>1. /\ now \in Times /\ faults \in 0..MaxFaults
        /\ process \in {"down", "usage", "split", "stats", "orphans", "migrate", "up"}
    BY ClockAssumption DEF StoreInv, NumbersInv, Times
  <2>2. /\ logs \subseteq DOMAIN history /\ DOMAIN history \subseteq 1..lastLog
        /\ DOMAIN snapshots \subseteq logs /\ DOMAIN bodies \subseteq DOMAIN snapshots
        /\ DOMAIN metas \subseteq 1..lastMeta /\ DOMAIN chunks \subseteq 1..lastChunk
    BY DEF StoreInv, HistoryInv, SnapshotsInv, TablesInv
  <2>3. ASSUME NEW l \in DOMAIN snapshots
        PROVE  snapshots[l].cleared \in BOOLEAN /\ snapshots[l].metas \in [Slots -> 0..lastMeta]
    <3>1. MetasHold(snapshots[l], history[l].row, metas)
      BY DEF StoreInv, SnapshotsInv
    <3>2. lastMeta \in Nat /\ \A id \in DOMAIN metas : id \in 0..lastMeta
      BY <2>2 DEF StoreInv, NumbersInv
    <3>3. \A s \in Slots : snapshots[l].metas[s] \in 0..lastMeta
      BY <3>1, <3>2 DEF MetasHold
    <3> QED
      BY <3>1, <3>3 DEF MetasHold
  <2>4. ASSUME NEW l \in DOMAIN bodies
        PROVE  ~snapshots[l].cleared /\ Listed(bodies[l]) \subseteq 1..lastChunk
    <3>1. BodyHolds(l, snapshots[l], history[l].row, bodies, chunks)
      BY <2>2 DEF StoreInv, SnapshotsInv
    <3>2. ~snapshots[l].cleared /\ Lists(DecodeRecord(bodies[l]), history[l].row, chunks)
      BY <3>1 DEF BodyHolds
    <3>3. Listed(bodies[l]) \subseteq DOMAIN chunks
      BY <3>2, ListedIsStored
    <3> QED
      BY <2>2, <3>2, <3>3
  <2>5. /\ cleanup.pc \in {"idle", "clear", "delete", "metas", "mark", "sweep"}
        /\ cleanup.marks \subseteq 1..cleanup.last /\ cleanup.seen \in 0..lastLog
        /\ cleanup.last \in 0..lastChunk /\ cleanup.cursor \in 0..cleanup.last
    BY DEF StoreInv, CleanupInv, Passes
  <2> QED
    BY <2>1, <2>2, <2>3, <2>4, <2>5 DEF TypeOK
<1> QED
  BY <1>1, StoreStays, PTL

(* A log reads back whole what it was committed with while its bodies are   *)
(* kept, and its metadata afterwards, however its chunks are shared,        *)
(* collected and moved (db/logbody.go:437-447, db/logbody_migrate.go:31-33, *)
(* logbody/record.go:55-64).                                                *)
THEOREM CommittedReadsBack == Spec => []ReadsBack
<1>1. StoreInv => ReadsBack
  <2> SUFFICES ASSUME StoreInv, NEW l \in logs
               PROVE  IF HasSnapshots(l) /\ l \notin DOMAIN legacy
                      THEN l \in DOMAIN snapshots /\ LoadLogSnapshots(l) = Captured(l)
                      ELSE LoadLogSnapshots(l) = [s \in Slots |-> NoSnapshot]
    BY DEF ReadsBack
  <2>1. l \in DOMAIN snapshots <=> HasSnapshots(l) /\ l \notin DOMAIN legacy
    BY DEF StoreInv, SnapshotsInv
  <2>2. CASE l \notin DOMAIN snapshots
    BY <2>1, <2>2 DEF LoadLogSnapshots
  <2>3. CASE l \in DOMAIN snapshots
    <3> DEFINE row == history[l].row
               Read(s) == IF l \notin DOMAIN snapshots \/ snapshots[l].metas[s] \notin DOMAIN metas
                          THEN NoSnapshot
                          ELSE IF snapshots[l].cleared THEN ClearedBody(metas[snapshots[l].metas[s]])
                          ELSE IF l \notin DOMAIN bodies
                          THEN [meta |-> metas[snapshots[l].metas[s]], kind |-> "none", pieces |-> <<>>]
                          ELSE AssembleBody(metas[snapshots[l].metas[s]], DecodeRecord(bodies[l])[s])
               Kept(s) == IF HasSnapshot(row.slots[s]) /\ snapshots[l].cleared
                          THEN ClearedBody(row.slots[s].meta) ELSE row.slots[s]
    <3>1. /\ MetasHold(snapshots[l], row, metas) /\ BodyHolds(l, snapshots[l], row, bodies, chunks)
          /\ row \in LogRows /\ 0 \notin DOMAIN metas
      BY <2>3 DEF StoreInv, SnapshotsInv, HistoryInv, TablesInv
    <3>2. LoadLogSnapshots(l) = [s \in Slots |-> Read(s)] /\ Captured(l) = [s \in Slots |-> Kept(s)]
      BY DEF LoadLogSnapshots, Captured
    <3> HIDE DEF row
    <3>3. ASSUME NEW s \in Slots PROVE Read(s) = Kept(s)
      <4> DEFINE slot == row.slots[s]
                 m == snapshots[l].metas[s]
      <4>1. /\ slot.kind \in {"none", "omitted", "text"} /\ slot.pieces \in Seq(ChunkValues)
            /\ slot.kind = "text" \/ slot.pieces = <<>>
            /\ slot = [meta |-> slot.meta, kind |-> slot.kind, pieces |-> slot.pieces]
            /\ ~HasSnapshot(slot) => slot = NoSnapshot
        BY <3>1, SlotIs
      <4>2. CASE ~HasSnapshot(slot)
        <5>1. m \notin DOMAIN metas
          BY <3>1, <4>2 DEF MetasHold
        <5> QED
          BY <4>1, <4>2, <5>1
      <4>3. CASE HasSnapshot(slot)
        <5>1. m \in DOMAIN metas /\ metas[m] = slot.meta
          BY <3>1, <4>3 DEF MetasHold
        <5>2. CASE snapshots[l].cleared
          BY <2>3, <4>3, <5>1, <5>2
        <5>3. CASE ~snapshots[l].cleared /\ l \notin DOMAIN bodies
          <6>1. slot.kind = "none"
            BY <3>1, <5>3 DEF BodyHolds, Bodiless
          <6>2. slot = [meta |-> slot.meta, kind |-> "none", pieces |-> <<>>]
            BY <4>1, <6>1
          <6>3. Read(s) = [meta |-> slot.meta, kind |-> "none", pieces |-> <<>>]
            BY <2>3, <5>1, <5>3
          <6>4. Kept(s) = slot
            BY <5>3
          <6> HIDE DEF Read, Kept, slot
          <6> QED
            BY <6>2, <6>3, <6>4
        <5>4. CASE ~snapshots[l].cleared /\ l \in DOMAIN bodies
          <6> DEFINE r == DecodeRecord(bodies[l])
          <6>1. Lists(r, row, chunks)
            BY <3>1, <5>4 DEF BodyHolds
          <6>2. /\ r[s].kind = slot.kind /\ DOMAIN r[s].chunks = 1..Len(slot.pieces)
                /\ \A j \in 1..Len(slot.pieces) : /\ r[s].chunks[j] \in DOMAIN chunks
                                                  /\ chunks[r[s].chunks[j]] = slot.pieces[j]
            <7> HIDE DEF r, slot
            <7>1. r[s].chunks \in Seq(Nat)
              BY <6>1 DEF Lists, Records
            <7>2. DOMAIN r[s].chunks = 1..Len(r[s].chunks)
              BY <7>1
            <7> QED
              BY <6>1, <7>2 DEF Lists, slot
          <6>3. Read(s) = AssembleBody(slot.meta, r[s])
            BY <2>3, <5>1, <5>4
          <6>4. Kept(s) = slot
            BY <5>4
          <6> HIDE DEF Read, Kept, slot, r
          <6>5. Values(r[s].chunks) \subseteq DOMAIN chunks
            BY <6>2 DEF Values
          <6>6. [j \in DOMAIN r[s].chunks |-> chunks[r[s].chunks[j]]] = slot.pieces
            <7>1. slot.pieces = [j \in 1..Len(slot.pieces) |-> slot.pieces[j]]
              BY <4>1
            <7> QED
              BY <6>2, <7>1
          <6>7. AssembleBody(slot.meta, r[s]) = [meta |-> slot.meta, kind |-> slot.kind, pieces |-> slot.pieces]
            BY <6>2, <6>5, <6>6 DEF AssembleBody
          <6> QED
            BY <4>1, <6>3, <6>4, <6>7
        <5> QED
          BY <5>2, <5>3, <5>4
      <4> QED
        BY <4>2, <4>3
    <3>4. LoadLogSnapshots(l) = Captured(l)
      <4> HIDE DEF Read, Kept
      <4> QED
        BY <3>2, <3>3
    <3> QED
      BY <2>1, <2>3, <3>4
  <2> QED
    BY <2>2, <2>3
<1> QED
  BY <1>1, StoreStays, PTL

-----------------------------------------------------------------------------
(* The greatest n of some numbers.                                          *)
LEMMA GreatestOnes ==
    ASSUME NEW S \in SUBSET Nat, IsFiniteSet(S), NEW n \in Nat, n <= Cardinality(S)
    PROVE  \E T \in SUBSET S : Cardinality(T) = n /\ \A t \in T, s \in S \ T : s < t
<1> DEFINE Top(T, m) == Cardinality(T) = m /\ \A t \in T, s \in S \ T : s < t
           Has == {m \in Nat : m <= Cardinality(S) => \E T \in SUBSET S : Top(T, m)}
<1>1. Cardinality(S) \in Nat
  BY FS_CardinalityType
<1>2. 0 \in Has
  <2>1. Cardinality({}) = 0
    BY FS_EmptySet
  <2>2. {} \in SUBSET S /\ Top({}, 0)
    BY <2>1
  <2> HIDE DEF Top
  <2> QED
    BY <2>2
<1>3. ASSUME NEW m \in Nat, m \in Has PROVE m + 1 \in Has
  <2> SUFFICES ASSUME m + 1 <= Cardinality(S)
               PROVE  \E T \in SUBSET S : Top(T, m + 1)
    OBVIOUS
  <2>1. m <= Cardinality(S)
    BY <1>1
  <2>2. PICK T \in SUBSET S : Top(T, m)
    BY <1>3, <2>1
  <2>3. IsFiniteSet(T) /\ IsFiniteSet(S \ T)
    BY FS_Subset
  <2>4. S \ T # {}
    <3>1. T # S
      <4>1. ~(Cardinality(S) = m)
        BY <1>1
      <4> QED
        BY <2>2, <4>1
    <3> QED
      BY <3>1
  <2>5. PICK x \in S \ T : \A y \in S \ T : y <= x
    <3>1. S \ T \in SUBSET Nat
      OBVIOUS
    <3> QED
      BY <2>3, <2>4, <3>1, GreatestNatural
  <2>6. Cardinality(T \cup {x}) = m + 1
    BY <2>2, <2>3, <2>5, FS_AddElement
  <2>7. ASSUME NEW t \in T \cup {x}, NEW s \in S \ (T \cup {x}) PROVE s < t
    <3>1. CASE t \in T
      BY <2>2, <3>1
    <3>2. CASE t = x
      <4>1. s <= x /\ s # x /\ s \in Nat /\ x \in Nat
        BY <2>5
      <4> QED
        BY <3>2, <4>1
    <3> QED
      BY <3>1, <3>2
  <2>8. T \cup {x} \in SUBSET S /\ Top(T \cup {x}, m + 1)
    BY <2>5, <2>6, <2>7
  <2> HIDE DEF Top
  <2> QED
    BY <2>8
<1> HIDE DEF Has
<1>4. n \in Has
  <2>1. Nat \subseteq Has
    BY <1>2, <1>3, UpFromZero
  <2> QED
    BY <2>1
<1> QED
  BY <1>4 DEF Has

\* A body that is taken leaves the newest ones.
NewestStay(l) ==
    ~snapshots[l].cleared /\ snapshots'[l].cleared =>
      Cardinality({k \in WithBodies' : k > l}) >= KeepCount

LEMMA ClearLeavesTheNewest ==
    ASSUME StoreInv, ClearOldLogBodies, NEW l \in DOMAIN snapshots
    PROVE  NewestStay(l)
<1> DEFINE W == WithBodies
           gone == Oldest(PastKeepCount, ClearBatch)
           Above(k) == {j \in W : j > k}
<1>1. snapshots' = [k \in DOMAIN snapshots |->
        IF k \in gone THEN [snapshots[k] EXCEPT !.cleared = TRUE] ELSE snapshots[k]]
  BY DEF ClearOldLogBodies
<1>2. /\ W = {k \in DOMAIN snapshots : ~snapshots[k].cleared}
      /\ gone \subseteq {k \in W : Cardinality(Above(k)) >= KeepCount}
  BY DEF WithBodies, PastKeepCount, Oldest
<1>3. \A k \in DOMAIN snapshots : snapshots[k].cleared \in BOOLEAN
  BY DEF StoreInv, SnapshotsInv, MetasHold
<1>4. W \in SUBSET Nat /\ IsFiniteSet(W)
  <2>1. W \subseteq 1..lastLog /\ lastLog \in Nat
    BY <1>2 DEF StoreInv, SnapshotsInv, HistoryInv, NumbersInv
  <2>2. IsFiniteSet(1..lastLog)
    BY <2>1, UptoIsFinite
  <2> HIDE DEF W
  <2>3. IsFiniteSet(W)
    BY <2>1, <2>2, FS_Subset
  <2> QED
    BY <2>1, <2>3
<1>5. /\ DOMAIN snapshots' = DOMAIN snapshots
      /\ \A k \in W \ gone : snapshots'[k] = snapshots[k]
      /\ snapshots'[l] # snapshots[l] => l \in gone
  BY <1>1, <1>2
<1>6. W \ gone \subseteq WithBodies'
  BY <1>2, <1>5 DEF WithBodies
<1>13. IsFiniteSet(WithBodies')
  <2>1. WithBodies' \subseteq DOMAIN snapshots
    BY <1>5 DEF WithBodies
  <2>2. DOMAIN snapshots \subseteq 1..lastLog /\ lastLog \in Nat
    BY DEF StoreInv, SnapshotsInv, HistoryInv, NumbersInv
  <2>3. IsFiniteSet(1..lastLog) /\ WithBodies' \subseteq 1..lastLog
    BY <2>1, <2>2, UptoIsFinite
  <2> QED
    BY <2>3, FS_Subset
<1> SUFFICES ASSUME ~snapshots[l].cleared, snapshots'[l].cleared
             PROVE  Cardinality({k \in WithBodies' : k > l}) >= KeepCount
  BY DEF NewestStay
<1>7. l \in gone
  BY <1>5
<1> HIDE DEF W, gone
<1>8. l \in W /\ l \in Nat /\ Above(l) \in SUBSET Nat /\ IsFiniteSet(Above(l)) /\ Cardinality(Above(l)) >= KeepCount
  <2>1. IsFiniteSet(Above(l))
    <3>1. Above(l) \subseteq W
      OBVIOUS
    <3> HIDE DEF Above
    <3> QED
      BY <1>4, <3>1, FS_Subset
  <2> QED
    BY <1>2, <1>4, <1>7, <2>1
<1>9. KeepCount \in Nat /\ KeepCount <= Cardinality(Above(l))
  <2>1. KeepCount \in Nat /\ Cardinality(Above(l)) \in Nat
    BY <1>8, KeepAssumption, FS_CardinalityType
  <2> HIDE DEF Above
  <2> QED
    BY <1>8, <2>1
<1>10. PICK T \in SUBSET Above(l) :
         Cardinality(T) = KeepCount /\ \A t \in T, s \in Above(l) \ T : s < t
  <2> HIDE DEF Above
  <2> QED
    BY <1>8, <1>9, GreatestOnes
<1>11. ASSUME NEW t \in T PROVE t \notin gone /\ t \in W /\ t > l
  <2>1. t \in W /\ t > l /\ t \in Nat
    BY <1>4
  <2>2. Above(t) \subseteq T \ {t}
    <3>1. ASSUME NEW k \in Above(t) PROVE k \in T \ {t}
      <4>1. k \in W /\ k > t /\ k \in Nat
        BY <1>4
      <4>2. k \in Above(l) /\ ~(k < t) /\ k # t
        BY <1>8, <2>1, <4>1
      <4> QED
        BY <1>10, <4>2
    <3> QED
      BY <3>1
  <2>3. IsFiniteSet(T) /\ IsFiniteSet(T \ {t})
    <3> HIDE DEF Above
    <3> QED
      BY <1>8, FS_Subset
  <2>4. Cardinality(T \ {t}) = KeepCount - 1
    BY <1>10, <2>3, FS_RemoveElement
  <2>5. Cardinality(Above(t)) <= KeepCount - 1 /\ Cardinality(Above(t)) \in Nat
    <3> HIDE DEF Above
    <3>1. IsFiniteSet(Above(t))
      BY <2>2, <2>3, FS_Subset
    <3>2. Cardinality(Above(t)) <= Cardinality(T \ {t})
      BY <2>2, <2>3, FS_Subset
    <3> QED
      BY <2>4, <3>1, <3>2, FS_CardinalityType
  <2>6. ~(Cardinality(Above(t)) >= KeepCount)
    <3> HIDE DEF Above
    <3> QED
      BY <1>9, <2>5
  <2> QED
    BY <1>2, <2>1, <2>6
<1>12. T \subseteq {k \in WithBodies' : k > l}
  BY <1>6, <1>11
<1> DEFINE left == {k \in WithBodies' : k > l}
<1>14. IsFiniteSet(left) /\ left \subseteq WithBodies'
  <2>1. left \subseteq WithBodies'
    OBVIOUS
  <2> HIDE DEF left
  <2> QED
    BY <1>13, <2>1, FS_Subset
<1>15. T \subseteq left
  BY <1>12
<1> HIDE DEF left
<1>16. Cardinality(T) <= Cardinality(left) /\ Cardinality(left) \in Nat
  BY <1>14, <1>15, FS_Subset, FS_CardinalityType
<1>17. Cardinality(left) >= KeepCount
  BY <1>9, <1>10, <1>16
<1> QED
  BY <1>17 DEF left

(* The keep-count policy never takes the bodies of one of the newest rows   *)
(* that have them: for any keep-count and any batch size (db/log.go:645-651). *)
THEOREM NewestBodiesStay == Spec => NewestBodiesKept
<1>1. StoreInv /\ [Next]_vars =>
        [\A l \in DOMAIN snapshots \cap DOMAIN snapshots' :
           ~snapshots[l].cleared /\ snapshots'[l].cleared =>
             Cardinality({k \in WithBodies' : k > l}) >= KeepCount]_vars
  <2> SUFFICES ASSUME StoreInv, Next, NEW l \in DOMAIN snapshots \cap DOMAIN snapshots'
               PROVE  NewestStay(l)
    BY DEF NewestStay
  <2>1. CASE ClearOldLogBodies
    BY <2>1, ClearLeavesTheNewest
  <2>2. CASE MigrateLogPayloads \/ CommitBatch
    <3>1. SnapshotsRemain
      BY <2>2, MigrateKeeps, CommitKeeps
    <3> QED
      BY <3>1 DEF SnapshotsRemain, NewestStay
  <2>3. CASE DeleteOldLogs
    <3>1. l \in DOMAIN snapshots' => snapshots'[l] = snapshots[l]
      BY <2>3 DEF DeleteOldLogs, Keep
    <3> QED
      BY <3>1 DEF NewestStay
  <2>4. CASE UNCHANGED snapshots
    BY <2>4 DEF NewestStay
  <2>5. CASE StartUp
    <3>1. CASE Start \/ EnsureUsageHourly \/ SplitCancelled \/ EnsureStatsHourly
      BY <2>4, <3>1 DEF Start, EnsureUsageHourly, SplitCancelled, EnsureStatsHourly, payloadVars
    <3>2. CASE DropOrphans \/ DropOldTable
      BY <2>4, <3>2 DEF DropOrphans, DropOldTable, payloadVars
    <3> QED
      BY <2>2, <2>5, <3>1, <3>2 DEF StartUp
  <2>6. CASE PrepareBatch \/ BatchFails \/ PassFails \/ Crash \/ Tick
    BY <2>4, <2>6 DEF PrepareBatch, BatchFails, PassFails, Crash, Tick, payloadVars
  <2>7. CASE \E retention, collect \in BOOLEAN : StartPass(retention, collect)
    BY <2>4, <2>7 DEF StartPass, payloadVars
  <2>8. CASE PassStep
    <3>1. CASE CollectLogMetas \/ MarkLogChunks \/ SweepLogChunks
      BY <2>4, <3>1 DEF CollectLogMetas, MarkLogChunks, SweepLogChunks, payloadVars
    <3> QED
      BY <2>1, <2>3, <2>8, <3>1 DEF PassStep
  <2> QED
    BY <2>2, <2>5, <2>6, <2>7, <2>8 DEF Next
<1> QED
  BY <1>1, StoreStays, PTL DEF Spec, NewestBodiesKept

-----------------------------------------------------------------------------
(* The hourly totals. Hours.                                                *)
LEMMA DivideBounds ==
    ASSUME NEW a \in Nat, NEW i \in Nat \ {0}
    PROVE  a \div i \in Nat /\ i * (a \div i) <= a /\ a < i * ((a \div i) + 1)
  OBVIOUS

LEMMA ProductsGrow ==
    ASSUME NEW i \in Nat, NEW p \in Nat, NEW q \in Nat, p <= q
    PROVE  i * p <= i * q /\ i * p \in Nat /\ i * q \in Nat
  OBVIOUS

(* A time is in an hour when it has come to its beginning and not its end.  *)
LEMMA HourStarts ==
    ASSUME NEW t \in Nat, NEW h \in Nat
    PROVE  Hour(t) \in Nat /\ (h <= Hour(t) <=> HourLength * h <= t)
<1> DEFINE i == HourLength
           d == t \div i
<1>1. i \in Nat \ {0}
  BY ClockAssumption
<1>2. d \in Nat /\ i * d <= t /\ t < i * (d + 1)
  BY <1>1, DivideBounds
<1>3. Hour(t) = d
  BY DEF Hour
<1> HIDE DEF i, d
<1>4. CASE h <= d
  <2>1. i * h <= i * d /\ i * h \in Nat /\ i * d \in Nat
    BY <1>1, <1>2, <1>4, ProductsGrow
  <2>2. i * h <= t
    BY <1>2, <2>1
  <2> QED
    BY <1>2, <1>3, <1>4, <2>2 DEF i
<1>5. CASE ~(h <= d)
  <2>1. d + 1 <= h /\ d + 1 \in Nat
    BY <1>2, <1>5
  <2>2. i * (d + 1) <= i * h /\ i * (d + 1) \in Nat /\ i * h \in Nat
    BY <1>1, <2>1, ProductsGrow
  <2>3. ~(i * h <= t)
    BY <1>2, <2>2
  <2> QED
    BY <1>2, <1>3, <1>5, <2>3 DEF i
<1> QED
  BY <1>4, <1>5

LEMMA HoursOfTimes ==
    ASSUME NEW t \in Nat, t <= MaxNow
    PROVE  Hour(t) \in Hours
<1>1. Hour(t) \in Nat /\ Hour(MaxNow) \in Nat /\ MaxNow \in Nat
  BY ClockAssumption, HourStarts
<1>2. HourLength * Hour(t) <= t
  BY <1>1, HourStarts
<1>3. HourLength * Hour(t) \in Nat
  BY <1>1, ClockAssumption, ProductsGrow
<1>4. HourLength * Hour(t) <= MaxNow
  BY <1>1, <1>2, <1>3
<1>5. Hour(t) <= Hour(MaxNow)
  BY <1>1, <1>4, HourStarts
<1> QED
  BY <1>1, <1>5 DEF Hours

\* The rows counted as requests, and those that ended in some way.
Asked(rows) == {l \in DOMAIN rows : ~rows[l].retried}
Ended(rows, status) == {l \in Asked(rows) : rows[l].status = status}

LEMMA StatsAre ==
    ASSUME NEW rows
    PROVE  StatsOf(rows) = [requests |-> Cardinality(Asked(rows)),
                            errors |-> Cardinality(Ended(rows, "failed")),
                            cancelled |-> Cardinality(Ended(rows, "cancelled")),
                            attempts |-> Cardinality(DOMAIN rows)]
BY DEF StatsOf, Asked, Ended

LEMMA StatsCount ==
    ASSUME NEW rows, IsFiniteSet(DOMAIN rows)
    PROVE  /\ StatsOf(rows).requests \in Nat /\ StatsOf(rows).errors \in Nat
           /\ StatsOf(rows).cancelled \in Nat /\ StatsOf(rows).attempts \in Nat
<1>1. Asked(rows) \subseteq DOMAIN rows /\ \A status : Ended(rows, status) \subseteq DOMAIN rows
  BY DEF Asked, Ended
<1>2. IsFiniteSet(Asked(rows)) /\ IsFiniteSet(Ended(rows, "failed")) /\ IsFiniteSet(Ended(rows, "cancelled"))
  BY <1>1, FS_Subset
<1> QED
  BY <1>2, StatsAre, FS_CardinalityType

\* Rows in two parts.
Parted(rows, some, others) ==
    /\ DOMAIN rows = DOMAIN some \cup DOMAIN others /\ DOMAIN some \cap DOMAIN others = {}
    /\ \A l \in DOMAIN some : rows[l] = some[l]
    /\ \A l \in DOMAIN others : rows[l] = others[l]

LEMMA CountsAdd ==
    ASSUME NEW A, NEW B, IsFiniteSet(A), IsFiniteSet(B), A \cap B = {}
    PROVE  /\ Cardinality(A \cup B) = Cardinality(A) + Cardinality(B)
           /\ IsFiniteSet(A \cup B)
<1>1. Cardinality(A \cap B) = 0
  BY FS_EmptySet
<1>2. Cardinality(A) \in Nat /\ Cardinality(B) \in Nat
  BY FS_CardinalityType
<1>3. Cardinality(A \cup B) = Cardinality(A) + Cardinality(B) - Cardinality(A \cap B)
  BY FS_Union
<1>4. IsFiniteSet(A \cup B)
  BY FS_Union
<1> QED
  BY <1>1, <1>2, <1>3, <1>4

(* The totals of rows in two parts are the sums of theirs.                  *)
LEMMA StatsAdd ==
    ASSUME NEW rows, NEW some, NEW others, Parted(rows, some, others),
           IsFiniteSet(DOMAIN some), IsFiniteSet(DOMAIN others)
    PROVE  /\ StatsOf(rows) = Plus(StatsOf(some), StatsOf(others))
           /\ UsageOf(rows) = Plus(UsageOf(some), UsageOf(others))
<1>1. \A status :
        /\ Asked(rows) = Asked(some) \cup Asked(others)
        /\ Ended(rows, status) = Ended(some, status) \cup Ended(others, status)
  BY DEF Parted, Asked, Ended
<1>2. \A status :
        /\ Asked(some) \subseteq DOMAIN some /\ Asked(others) \subseteq DOMAIN others
        /\ Ended(some, status) \subseteq DOMAIN some /\ Ended(others, status) \subseteq DOMAIN others
  BY DEF Asked, Ended
<1>3. DOMAIN rows = DOMAIN some \cup DOMAIN others /\ DOMAIN some \cap DOMAIN others = {}
  BY DEF Parted
<1>4. ASSUME NEW A \in SUBSET DOMAIN some, NEW B \in SUBSET DOMAIN others
      PROVE  Cardinality(A \cup B) = Cardinality(A) + Cardinality(B)
  <2>1. IsFiniteSet(A) /\ IsFiniteSet(B)
    BY FS_Subset
  <2>2. A \cap B = {}
    BY <1>3
  <2> QED
    BY <2>1, <2>2, CountsAdd
<1>5. /\ Cardinality(Asked(rows)) = Cardinality(Asked(some)) + Cardinality(Asked(others))
      /\ Cardinality(Ended(rows, "failed")) = Cardinality(Ended(some, "failed")) + Cardinality(Ended(others, "failed"))
      /\ Cardinality(Ended(rows, "cancelled")) = Cardinality(Ended(some, "cancelled")) + Cardinality(Ended(others, "cancelled"))
      /\ Cardinality(DOMAIN rows) = Cardinality(DOMAIN some) + Cardinality(DOMAIN others)
  BY <1>1, <1>2, <1>3, <1>4
<1>6. StatsOf(rows) = Plus(StatsOf(some), StatsOf(others))
  BY <1>5, StatsAre DEF Plus
<1>7. UsageOf(rows) = Plus(UsageOf(some), UsageOf(others))
  BY <1>5, StatsAre DEF Plus, UsageOf
<1> QED
  BY <1>6, <1>7

\* Until a table of totals is there in its last form, no log was deleted.
TotalsInv ==
    /\ stats = [table |-> stats.table, hours |-> stats.hours]
    /\ usage = [table |-> usage.table, hours |-> usage.hours]
    /\ stats.table \in {"absent", "current"} /\ usage.table \in {"absent", "old", "current"}
    /\ stats.table = "absent" => process \in {"down", "usage", "split", "stats"}
    /\ usage.table = "old" => process \in {"down", "usage", "split"}
    /\ usage.table = "absent" => process \in {"down", "usage"}
    /\ stats.table # "current" \/ usage.table # "current" => logs = DOMAIN history
    /\ TotalsCountEachRowOnce

\* The rows of an hour.
RowsOf(past, S, h) == [l \in InHour(past, S, h) |-> past[l].row]

LEMMA FilesAre ==
    ASSUME NEW past, NEW S
    PROVE  /\ FileStats(past, S) = [h \in Hours |-> StatsOf(RowsOf(past, S, h))]
           /\ FileUsage(past, S) = [h \in Hours |-> UsageOf(RowsOf(past, S, h))]
           /\ FileOldUsage(past, S) = [h \in Hours |-> OldUsageOf(RowsOf(past, S, h))]
<1>1. \A h \in Hours : FileRows(past, S)[h] = RowsOf(past, S, h)
  BY DEF FileRows, RowsOf
<1>2. FileStats(past, S) = [h \in Hours |-> StatsOf(RowsOf(past, S, h))]
  BY <1>1 DEF FileStats
<1>3. FileUsage(past, S) = [h \in Hours |-> UsageOf(RowsOf(past, S, h))]
  BY <1>1 DEF FileUsage
<1>4. FileOldUsage(past, S) = [h \in Hours |-> OldUsageOf(RowsOf(past, S, h))]
  BY <1>1 DEF FileOldUsage
<1> QED
  BY <1>2, <1>3, <1>4

LEMMA HistoryIsFinite ==
    ASSUME StoreInv
    PROVE  /\ IsFiniteSet(DOMAIN history)
           /\ \A S \in SUBSET DOMAIN history : IsFiniteSet(S)
<1>1. DOMAIN history \subseteq 1..lastLog /\ IsFiniteSet(1..lastLog)
  BY UptoIsFinite DEF StoreInv, NumbersInv, HistoryInv
<1>2. IsFiniteSet(DOMAIN history)
  BY <1>1, FS_Subset
<1> QED
  BY <1>2, FS_Subset

LEMMA StartsTotalled ==
    ASSUME Init
    PROVE  TotalsInv
<1>1. /\ stats = [table |-> "absent", hours |-> NoHours] /\ logs = DOMAIN history
      /\ \/ usage = [table |-> "absent", hours |-> NoHours]
         \/ usage = [table |-> "old", hours |-> FileOldUsage(history, logs)]
      /\ process = "down"
  BY DEF Init
<1> QED
  BY <1>1 DEF TotalsInv, TotalsCountEachRowOnce

LEMMA EnsureUsageTotals ==
    ASSUME TotalsInv, EnsureUsageHourly
    PROVE  TotalsInv'
<1>1. /\ process = "usage" /\ process' = "split"
      /\ usage' = IF usage.table # "absent" THEN usage
                  ELSE [table |-> "current", hours |-> FileUsage(history, logs)]
      /\ history' = history /\ logs' = logs /\ stats' = stats
  BY DEF EnsureUsageHourly, Step, logVars
<1>2. CASE usage.table # "absent"
  BY <1>1, <1>2 DEF TotalsInv, TotalsCountEachRowOnce
<1>3. CASE usage.table = "absent"
  <2>1. usage' = [table |-> "current", hours |-> FileUsage(history, DOMAIN history)] /\ logs = DOMAIN history
    BY <1>1, <1>3 DEF TotalsInv
  <2> QED
    BY <1>1, <2>1 DEF TotalsInv, TotalsCountEachRowOnce
<1> QED
  BY <1>2, <1>3

LEMMA EnsureStatsTotals ==
    ASSUME TotalsInv, EnsureStatsHourly
    PROVE  TotalsInv'
<1>1. /\ process = "stats" /\ process' = "orphans"
      /\ stats' = IF stats.table # "absent" THEN stats
                  ELSE [table |-> "current", hours |-> FileStats(history, logs)]
      /\ history' = history /\ logs' = logs /\ usage' = usage
  BY DEF EnsureStatsHourly, Step, logVars
<1>2. CASE stats.table # "absent"
  BY <1>1, <1>2 DEF TotalsInv, TotalsCountEachRowOnce
<1>3. CASE stats.table = "absent"
  <2>1. stats' = [table |-> "current", hours |-> FileStats(history, DOMAIN history)] /\ logs = DOMAIN history
    BY <1>1, <1>3 DEF TotalsInv
  <2> QED
    BY <1>1, <2>1 DEF TotalsInv, TotalsCountEachRowOnce
<1> QED
  BY <1>2, <1>3

(* The 499s an older table counted as errors are taken out again.           *)
LEMMA SplitTotals ==
    ASSUME StoreInv, TotalsInv, SplitCancelled
    PROVE  TotalsInv'
<1> DEFINE Of(h) == RowsOf(history, DOMAIN history, h)
           n(h) == UsageOf(Rows(InHour(history, logs, h))).cancelled
           kept(h) == usage.hours[h].errors - n(h)
           Split(h) == [usage.hours[h] EXCEPT !.cancelled = n(h), !.errors = IF kept(h) > 0 THEN kept(h) ELSE 0]
<1>1. /\ process = "split" /\ process' = "stats"
      /\ usage' = IF usage.table # "old" THEN usage
                  ELSE [table |-> "current", hours |-> [h \in Hours |-> Split(h)]]
      /\ history' = history /\ logs' = logs /\ stats' = stats
  BY DEF SplitCancelled, Step, logVars
<1>2. CASE usage.table # "old"
  BY <1>1, <1>2 DEF TotalsInv, TotalsCountEachRowOnce
<1>3. CASE usage.table = "old"
  <2>1. /\ logs = DOMAIN history /\ usage.hours = [h \in Hours |-> OldUsageOf(Of(h))]
    BY <1>3, FilesAre DEF TotalsInv, TotalsCountEachRowOnce
  <2>2. ASSUME NEW h \in Hours PROVE Split(h) = UsageOf(Of(h))
    <3>1. Rows(InHour(history, logs, h)) = Of(h)
      BY <2>1 DEF Rows, RowsOf
    <3>2. IsFiniteSet(DOMAIN Of(h))
      <4>1. DOMAIN Of(h) \in SUBSET DOMAIN history
        BY DEF RowsOf, InHour
      <4> HIDE DEF Of
      <4> QED
        BY <4>1, HistoryIsFinite
    <3> DEFINE a == StatsOf(Of(h))
    <3>3. /\ a.requests \in Nat /\ a.errors \in Nat /\ a.cancelled \in Nat
      BY <3>2, StatsCount
    <3>4. UsageOf(Of(h)) = [requests |-> a.requests, errors |-> a.errors, cancelled |-> a.cancelled, attempts |-> 0]
      <4>1. a = [requests |-> a.requests, errors |-> a.errors, cancelled |-> a.cancelled, attempts |-> a.attempts]
        BY StatsAre
      <4> HIDE DEF Of
      <4>2. UsageOf(Of(h)) = [a EXCEPT !.attempts = 0]
        BY DEF UsageOf
      <4> HIDE DEF a
      <4> QED
        BY <4>1, <4>2
    <3>5. OldUsageOf(Of(h)) = [requests |-> a.requests, errors |-> a.errors + a.cancelled, cancelled |-> 0, attempts |-> 0]
      <4> HIDE DEF Of, a
      <4>1. PICK u : u = UsageOf(Of(h))
        OBVIOUS
      <4>2. OldUsageOf(Of(h)) = [u EXCEPT !.errors = u.errors + u.cancelled, !.cancelled = 0]
        BY <4>1 DEF OldUsageOf
      <4>3. /\ u = [requests |-> a.requests, errors |-> a.errors, cancelled |-> a.cancelled, attempts |-> 0]
            /\ u.errors + u.cancelled = a.errors + a.cancelled
        BY <3>4, <4>1
      <4> QED
        BY <4>2, <4>3
    <3>6. n(h) = a.cancelled /\ usage.hours[h] = OldUsageOf(Of(h))
      <4>1. UsageOf(Of(h)).cancelled = a.cancelled
        <5> HIDE DEF a, Of
        <5> QED
          BY <3>4
      <4>2. n(h) = UsageOf(Of(h)).cancelled
        BY <3>1
      <4> HIDE DEF n, a, Of
      <4> QED
        BY <2>1, <4>1, <4>2
    <3> HIDE DEF a, Of, n
    <3>7. kept(h) = a.errors
      BY <3>3, <3>5, <3>6
    <3>8. (IF kept(h) > 0 THEN kept(h) ELSE 0) = a.errors
      BY <3>3, <3>7
    <3>9. PICK u, c, e : /\ u = usage.hours[h] /\ c = n(h)
                         /\ e = IF kept(h) > 0 THEN kept(h) ELSE 0
      OBVIOUS
    <3>10. Split(h) = [u EXCEPT !.cancelled = c, !.errors = e]
      BY <3>9
    <3> HIDE DEF kept, Split
    <3>11. /\ u = [requests |-> a.requests, errors |-> a.errors + a.cancelled, cancelled |-> 0, attempts |-> 0]
           /\ c = a.cancelled /\ e = a.errors
      BY <3>5, <3>6, <3>8, <3>9
    <3> QED
      BY <3>4, <3>10, <3>11
  <2>3. usage' = [table |-> "current", hours |-> FileUsage(history, DOMAIN history)]
    <3> HIDE DEF Split, Of
    <3>1. [h \in Hours |-> Split(h)] = [h \in Hours |-> UsageOf(Of(h))]
      BY <2>2
    <3>2. FileUsage(history, DOMAIN history) = [h \in Hours |-> UsageOf(Of(h))]
      BY FilesAre DEF Of
    <3> QED
      BY <1>1, <1>3, <3>1, <3>2
  <2>4. logs = DOMAIN history
    BY <2>1
  <2> HIDE DEF Split, Of
  <2> QED
    BY <1>1, <2>3, <2>4 DEF TotalsInv, TotalsCountEachRowOnce
<1> QED
  BY <1>2, <1>3

(* A committed batch is counted in the hour it is written in.               *)
LEMMA CommitTotals ==
    ASSUME StoreInv, TotalsInv, CommitBatch
    PROVE  TotalsInv'
<1> DEFINE n == Len(writer.rows)
           ids == lastLog + 1 .. lastLog + n
           rows == [l \in ids |-> writer.rows[l - lastLog]]
           more == [l \in ids |-> [at |-> now, row |-> rows[l]]]
           Of(h) == RowsOf(history, DOMAIN history, h)
           Now(h) == RowsOf(history', DOMAIN history', h)
<1>1. /\ process = "up" /\ process' = "up" /\ history' = Extend(history, more)
      /\ usage' = [usage EXCEPT !.hours[Hour(now)] = Plus(@, UsageOf(rows))]
      /\ stats' = [stats EXCEPT !.hours[Hour(now)] = Plus(@, StatsOf(rows))]
  BY DEF CommitBatch
<1>2. lastLog \in Nat /\ DOMAIN history \subseteq 1..lastLog /\ now \in Nat /\ now <= MaxNow /\ n \in Nat
  BY ClockAssumption DEF StoreInv, NumbersInv, HistoryInv, WriterInv
<1>3. DOMAIN more = ids /\ DOMAIN rows = ids /\ \A l \in ids : more[l].at = now /\ more[l].row = rows[l]
  OBVIOUS
<1>4. IsFiniteSet(ids) /\ \A l \in ids : l \notin DOMAIN history
  <2>1. lastLog + 1 \in Int /\ lastLog + n \in Int
    BY <1>2
  <2>2. IsFiniteSet(ids)
    BY <2>1, FS_Interval
  <2> QED
    BY <1>2, <2>2
<1> HIDE DEF ids, rows, more
<1>5. /\ DOMAIN history' = DOMAIN history \cup ids
      /\ \A l \in DOMAIN history : history'[l] = history[l]
      /\ \A l \in ids : history'[l].at = now /\ history'[l].row = rows[l]
  BY <1>1, <1>3, <1>4 DEF Extend
<1>6. Hour(now) \in Hours
  BY <1>2, HoursOfTimes
<1>7. ASSUME NEW h \in Hours, h # Hour(now) PROVE Now(h) = Of(h)
  <2>1. InHour(history', DOMAIN history', h) = InHour(history, DOMAIN history, h)
    BY <1>5, <1>7 DEF InHour
  <2>2. \A l \in InHour(history, DOMAIN history, h) : history'[l] = history[l]
    BY <1>5 DEF InHour
  <2> QED
    BY <2>1, <2>2 DEF RowsOf
<1>8. Parted(Now(Hour(now)), Of(Hour(now)), rows) /\ IsFiniteSet(DOMAIN Of(Hour(now)))
  <2> DEFINE h == Hour(now)
  <2>1. InHour(history', DOMAIN history', h) = InHour(history, DOMAIN history, h) \cup ids
    BY <1>5 DEF InHour
  <2>2. InHour(history, DOMAIN history, h) \subseteq DOMAIN history
    BY DEF InHour
  <2>3. /\ DOMAIN Of(h) = InHour(history, DOMAIN history, h)
        /\ \A l \in InHour(history, DOMAIN history, h) : Of(h)[l] = history[l].row
    BY DEF RowsOf
  <2>4. /\ DOMAIN Now(h) = InHour(history', DOMAIN history', h)
        /\ \A l \in InHour(history', DOMAIN history', h) : Now(h)[l] = history'[l].row
    BY DEF RowsOf
  <2> HIDE DEF h, Of, Now
  <2>5. DOMAIN Now(h) = DOMAIN Of(h) \cup DOMAIN rows /\ DOMAIN Of(h) \cap DOMAIN rows = {}
    BY <1>3, <1>4, <2>1, <2>2, <2>3, <2>4
  <2>6. /\ \A l \in DOMAIN Of(h) : Now(h)[l] = Of(h)[l]
        /\ \A l \in DOMAIN rows : Now(h)[l] = rows[l]
    BY <1>3, <1>5, <2>1, <2>2, <2>3, <2>4
  <2>7. IsFiniteSet(DOMAIN Of(h))
    BY <2>2, <2>3, HistoryIsFinite
  <2> QED
    BY <2>5, <2>6, <2>7 DEF Parted, h
<1>9. /\ StatsOf(Now(Hour(now))) = Plus(StatsOf(Of(Hour(now))), StatsOf(rows))
      /\ UsageOf(Now(Hour(now))) = Plus(UsageOf(Of(Hour(now))), UsageOf(rows))
  <2> HIDE DEF Of, Now
  <2> QED
    BY <1>3, <1>4, <1>8, StatsAdd
<1>10. /\ stats = [table |-> "current", hours |-> [h \in Hours |-> StatsOf(Of(h))]]
       /\ usage = [table |-> "current", hours |-> [h \in Hours |-> UsageOf(Of(h))]]
  <2>1. stats.table = "current" /\ usage.table = "current"
    BY <1>1 DEF TotalsInv
  <2>2. stats.hours = FileStats(history, DOMAIN history) /\ usage.hours = FileUsage(history, DOMAIN history)
    BY <2>1 DEF TotalsInv, TotalsCountEachRowOnce
  <2>3. stats = [table |-> "current", hours |-> FileStats(history, DOMAIN history)]
    BY <2>1, <2>2 DEF TotalsInv
  <2>4. usage = [table |-> "current", hours |-> FileUsage(history, DOMAIN history)]
    BY <2>1, <2>2 DEF TotalsInv
  <2> QED
    BY <2>3, <2>4, FilesAre
<1> HIDE DEF Of, Now
<1>11. stats' = [table |-> "current", hours |-> [h \in Hours |-> StatsOf(Now(h))]]
  <2>1. stats' = [table |-> "current",
                  hours |-> [[h \in Hours |-> StatsOf(Of(h))] EXCEPT ![Hour(now)] = Plus(@, StatsOf(rows))]]
    BY <1>1, <1>10
  <2>2. [[h \in Hours |-> StatsOf(Of(h))] EXCEPT ![Hour(now)] = Plus(@, StatsOf(rows))]
          = [h \in Hours |-> StatsOf(Now(h))]
    BY <1>6, <1>7, <1>9
  <2> QED
    BY <2>1, <2>2
<1>12. usage' = [table |-> "current", hours |-> [h \in Hours |-> UsageOf(Now(h))]]
  <2>1. usage' = [table |-> "current",
                  hours |-> [[h \in Hours |-> UsageOf(Of(h))] EXCEPT ![Hour(now)] = Plus(@, UsageOf(rows))]]
    BY <1>1, <1>10
  <2>2. [[h \in Hours |-> UsageOf(Of(h))] EXCEPT ![Hour(now)] = Plus(@, UsageOf(rows))]
          = [h \in Hours |-> UsageOf(Now(h))]
    BY <1>6, <1>7, <1>9
  <2> QED
    BY <2>1, <2>2
<1>13. /\ stats' = [table |-> "current", hours |-> FileStats(history', DOMAIN history')]
       /\ usage' = [table |-> "current", hours |-> FileUsage(history', DOMAIN history')]
  <2>1. /\ FileStats(history', DOMAIN history') = [h \in Hours |-> StatsOf(Now(h))]
        /\ FileUsage(history', DOMAIN history') = [h \in Hours |-> UsageOf(Now(h))]
    BY FilesAre DEF Now
  <2> QED
    BY <1>11, <1>12, <2>1
<1> QED
  BY <1>1, <1>13 DEF TotalsInv, TotalsCountEachRowOnce

\* A step that leaves the totals and the logs alone, or deletes logs of a
\* process that is up.
LEMMA QuietTotals ==
    ASSUME TotalsInv, history' = history, UNCHANGED totalVars,
           logs' = logs \/ (process = "up" /\ process' = "up"),
           \/ process' \in {process, "down"}
           \/ (process = "down" /\ process' = "usage")
           \/ process \in {"orphans", "migrate", "up"}
    PROVE  TotalsInv'
<1>1. stats' = stats /\ usage' = usage
  BY DEF totalVars
<1>2. TotalsCountEachRowOnce'
  BY <1>1 DEF TotalsInv, TotalsCountEachRowOnce
<1>3. /\ stats'.table = "absent" => process' \in {"down", "usage", "split", "stats"}
      /\ usage'.table = "old" => process' \in {"down", "usage", "split"}
      /\ usage'.table = "absent" => process' \in {"down", "usage"}
  BY <1>1 DEF TotalsInv
<1>4. stats'.table # "current" \/ usage'.table # "current" => logs' = DOMAIN history'
  BY <1>1 DEF TotalsInv
<1> QED
  BY <1>1, <1>2, <1>3, <1>4 DEF TotalsInv

LEMMA TotalsStay == Spec => []TotalsInv
<1>1. Init => TotalsInv
  BY StartsTotalled
<1>2. StoreInv /\ TotalsInv /\ [Next]_vars => TotalsInv'
  <2> SUFFICES ASSUME StoreInv, TotalsInv, [Next]_vars
               PROVE  TotalsInv'
    OBVIOUS
  <2>1. CASE StartUp
    <3>1. CASE Start \/ DropOrphans \/ MigrateLogPayloads \/ DropOldTable
      <4>1. /\ history' = history /\ logs' = logs /\ UNCHANGED totalVars
            /\ (process = "down" /\ process' = "usage") \/ process \in {"orphans", "migrate", "up"}
        BY <3>1 DEF Start, DropOrphans, MigrateLogPayloads, DropOldTable, Step, logVars
      <4> QED
        BY <4>1, QuietTotals
    <3> QED
      BY <2>1, <3>1, EnsureUsageTotals, SplitTotals, EnsureStatsTotals DEF StartUp
  <2>2. CASE PrepareBatch \/ BatchFails \/ PassFails \/ Crash \/ Tick
    <3>1. /\ history' = history /\ logs' = logs /\ UNCHANGED totalVars
          /\ process' \in {process, "down"}
      BY <2>2 DEF PrepareBatch, BatchFails, PassFails, Crash, Tick, logVars
    <3> QED
      BY <3>1, QuietTotals
  <2>3. CASE \E retention, collect \in BOOLEAN : StartPass(retention, collect)
    <3>1. history' = history /\ logs' = logs /\ UNCHANGED totalVars /\ process' = process
      BY <2>3 DEF StartPass, logVars
    <3> QED
      BY <3>1, QuietTotals
  <2>4. CASE PassStep
    <3>1. CASE ClearOldLogBodies \/ CollectLogMetas \/ MarkLogChunks \/ SweepLogChunks
      <4>1. history' = history /\ logs' = logs /\ UNCHANGED totalVars /\ process' = process
        BY <3>1 DEF ClearOldLogBodies, CollectLogMetas, MarkLogChunks, SweepLogChunks, logVars
      <4> QED
        BY <4>1, QuietTotals
    <3>2. CASE DeleteOldLogs
      <4>1. history' = history /\ UNCHANGED totalVars /\ process = "up" /\ process' = "up"
        BY <3>2 DEF DeleteOldLogs, At
      <4> QED
        BY <4>1, QuietTotals
    <3> QED
      BY <2>4, <3>1, <3>2 DEF PassStep
  <2>5. CASE CommitBatch
    BY <2>5, CommitTotals
  <2>6. CASE UNCHANGED vars
    <3>1. history' = history /\ logs' = logs /\ UNCHANGED totalVars /\ process' = process
      BY <2>6 DEF vars, totalVars
    <3> QED
      BY <3>1, QuietTotals
  <2> QED
    BY <2>1, <2>2, <2>3, <2>4, <2>5, <2>6 DEF Next
<1> QED
  BY <1>1, <1>2, StoreStays, PTL DEF Spec

-----------------------------------------------------------------------------
(* Windows. Whole hours sum to the rows ever filed in them.                 *)
LEMMA HoursSum ==
    ASSUME StoreInv, stats.hours = FileStats(history, DOMAIN history),
           NEW hours \in SUBSET Hours
    PROVE  MapThenSumSet(LAMBDA h : stats.hours[h].attempts, hours)
             = Cardinality({l \in DOMAIN history : Hour(history[l].at) \in hours})
<1> DEFINE In(s) == {l \in DOMAIN history : Hour(history[l].at) \in s}
           Sum(g, s) == IF s = {} THEN 0
                        ELSE stats.hours[CHOOSE x \in s : TRUE].attempts + g[s \ {CHOOSE x \in s : TRUE}]
           Sums(g) == g = [s \in SUBSET hours |-> Sum(g, s)]
           sum == CHOOSE g : Sums(g)
           counts == [s \in SUBSET hours |-> Cardinality(In(s))]
<1>1. MapThenSumSet(LAMBDA h : stats.hours[h].attempts, hours) = sum[hours]
  BY DEF MapThenSumSet, MapThenFoldSet
<1>2. \A s : IsFiniteSet(In(s))
  <2>1. ASSUME NEW s PROVE IsFiniteSet(In(s))
    <3>1. In(s) \in SUBSET DOMAIN history
      OBVIOUS
    <3> HIDE DEF In
    <3> QED
      BY <3>1, HistoryIsFinite
  <2> QED
    BY <2>1
<1>3. ASSUME NEW x \in Hours PROVE stats.hours[x].attempts = Cardinality(In({x}))
  <2>1. stats.hours[x] = StatsOf(RowsOf(history, DOMAIN history, x))
    BY FilesAre
  <2>2. DOMAIN RowsOf(history, DOMAIN history, x) = In({x})
    BY DEF RowsOf, InHour
  <2>3. \A r : StatsOf(r).attempts = Cardinality(DOMAIN r)
    BY StatsAre
  <2> HIDE DEF In
  <2> QED
    BY <2>1, <2>2, <2>3
<1>4. ASSUME NEW s \in SUBSET hours PROVE Sum(counts, s) = Cardinality(In(s))
  <2>1. CASE s = {}
    <3>1. In(s) = {} /\ Cardinality({}) = 0
      BY <2>1, FS_EmptySet
    <3> HIDE DEF In
    <3> QED
      BY <2>1, <3>1
  <2>2. CASE s # {}
    <3>1. PICK x \in s : x = CHOOSE y \in s : TRUE
      BY <2>2
    <3>2. In(s) = In({x}) \cup In(s \ {x}) /\ In({x}) \cap In(s \ {x}) = {}
      BY <3>1
    <3>3. s \ {x} \in SUBSET hours /\ counts[s \ {x}] = Cardinality(In(s \ {x}))
      OBVIOUS
    <3> HIDE DEF In, counts
    <3>4. Cardinality(In(s)) = Cardinality(In({x})) + Cardinality(In(s \ {x}))
      BY <1>2, <3>2, CountsAdd
    <3>5. stats.hours[x].attempts = Cardinality(In({x}))
      BY <1>3, <3>1
    <3>6. Sum(counts, s) = stats.hours[x].attempts + counts[s \ {x}]
      BY <2>2, <3>1
    <3> QED
      BY <3>3, <3>4, <3>5, <3>6
  <2> QED
    BY <2>1, <2>2
<1>5. Sums(counts)
  <2> HIDE DEF Sum, In
  <2> QED
    BY <1>4
<1>6. Sums(sum)
  <2> HIDE DEF Sums
  <2> QED
    BY <1>5
<1> HIDE DEF sum
<1>7. \A s \in SUBSET hours : sum[s] = Sum(sum, s)
  <2> HIDE DEF Sum
  <2> QED
    BY <1>6
<1> DEFINE U == {s \in SUBSET hours : sum[s] # Cardinality(In(s))}
<1>8. IsFiniteSet(Hours) /\ Hours \in SUBSET Nat
  <2>1. Hour(MaxNow) \in Nat
    BY ClockAssumption, HourStarts
  <2>2. 0 \in Int /\ Hour(MaxNow) \in Int
    BY <2>1
  <2> QED
    BY <2>2, FS_Interval DEF Hours
<1>9. CASE U # {}
  <2>1. U \subseteq FiniteSubsetsOf(Nat)
    <3>1. ASSUME NEW s \in U PROVE s \in SUBSET Nat /\ IsFiniteSet(s)
      <4>1. s \subseteq Hours
        OBVIOUS
      <4> HIDE DEF U
      <4> QED
        BY <1>8, <4>1, FS_Subset
    <3> HIDE DEF U
    <3> QED
      BY <3>1 DEF FiniteSubsetsOf
  <2>2. IsWellFoundedOn(StrictSubsetOrdering(Nat), FiniteSubsetsOf(Nat))
    BY FS_StrictSubsetOrderingWellFounded
  <2>3. PICK s \in U : \A v \in U : ~(<<v, s>> \in StrictSubsetOrdering(Nat))
    <3> HIDE DEF U
    <3> QED
      BY <1>9, <2>1, <2>2, WFMin
  <2>4. s \in SUBSET hours /\ sum[s] # Cardinality(In(s))
    BY <2>3
  <2>5. CASE s = {}
    <3>1. Sum(sum, s) = Sum(counts, s)
      BY <2>5
    <3> HIDE DEF Sum, In
    <3> QED
      BY <1>4, <1>7, <2>4, <3>1
  <2>6. CASE s # {}
    <3>1. PICK x \in s : x = CHOOSE y \in s : TRUE
      BY <2>6
    <3>2. /\ s \ {x} \in SUBSET hours /\ s \ {x} \subseteq s /\ s \ {x} # s
          /\ s \subseteq Nat /\ counts[s \ {x}] = Cardinality(In(s \ {x}))
      BY <1>8, <2>4
    <3>3. <<s \ {x}, s>> \in StrictSubsetOrdering(Nat)
      BY <3>2 DEF StrictSubsetOrdering
    <3>4. s \ {x} \notin U
      BY <2>3, <3>3
    <3>5. sum[s \ {x}] = Cardinality(In(s \ {x}))
      BY <3>2, <3>4
    <3> HIDE DEF In, counts, U
    <3>6. Sum(sum, s) = Sum(counts, s)
      BY <2>6, <3>1, <3>2, <3>5
    <3> HIDE DEF Sum
    <3> QED
      BY <1>4, <1>7, <2>4, <3>6
  <2> QED
    BY <2>5, <2>6
<1>10. CASE U = {}
  BY <1>1, <1>10
<1> QED
  BY <1>9, <1>10

LEMMA ProductsOrder ==
    ASSUME NEW i \in Nat \ {0}, NEW p \in Nat, NEW q \in Nat
    PROVE  i * p <= i * q <=> p <= q
<1>1. CASE p <= q
  BY <1>1, ProductsGrow
<1>2. CASE ~(p <= q)
  <2>1. q + 1 <= p /\ q + 1 \in Nat
    BY <1>2
  <2>2. i * (q + 1) <= i * p /\ i * p \in Nat
    BY <2>1, ProductsGrow
  <2>3. i * (q + 1) = i * q + i /\ i * q \in Nat
    OBVIOUS
  <2>4. ~(i * p <= i * q)
    BY <2>2, <2>3
  <2> QED
    BY <1>2, <2>4
<1> QED
  BY <1>1, <1>2

LEMMA WholeDivides ==
    ASSUME NEW a \in Nat, NEW i \in Nat \ {0}, a % i = 0
    PROVE  a = i * (a \div i)
  OBVIOUS

\* Where the whole hours of a window begin and end.
LEMMA WholeHours ==
    ASSUME NEW start \in Nat, NEW end \in Nat, end = 0 \/ HourLength <= end
    PROVE  /\ \E k \in Nat : WholeFrom(start) = HourLength * k
           /\ \E k \in Nat : WholeTo(end) = HourLength * k
           /\ WholeFrom(start) \in Nat /\ start <= WholeFrom(start)
           /\ WholeTo(end) \in Nat /\ WholeTo(end) <= end
           /\ start = 0 => WholeFrom(start) = 0
           /\ WholeTo(end) = 0 <=> end = 0
<1> DEFINE i == HourLength
           d == start \div i
           e == end \div i
<1>1. i \in Nat \ {0}
  BY ClockAssumption
<1>2. /\ d \in Nat /\ i * d <= start /\ start < i * (d + 1)
      /\ e \in Nat /\ i * e <= end /\ end < i * (e + 1)
  BY <1>1, DivideBounds
<1>3. start % i = 0 => start = i * d
  BY <1>1, WholeDivides
<1>4. WholeFrom(start) = IF start % i # 0 THEN (d + 1) * i ELSE start
  BY DEF WholeFrom
<1>5. WholeTo(end) = e * i
  BY DEF WholeTo
<1>9. start = 0 => start % i = 0
  BY <1>1
<1> HIDE DEF d, e, i
<1>6. /\ (d + 1) * i = i * (d + 1) /\ i * (d + 1) \in Nat /\ d + 1 \in Nat
      /\ e * i = i * e /\ i * e \in Nat
  BY <1>1, <1>2
<1>7. /\ WholeFrom(start) \in Nat /\ start <= WholeFrom(start)
      /\ \E k \in Nat : WholeFrom(start) = i * k
      /\ start = 0 => WholeFrom(start) = 0
  <2>1. CASE start % i = 0
    BY <1>2, <1>3, <1>4, <2>1
  <2>2. CASE start % i # 0
    BY <1>2, <1>4, <1>6, <1>9, <2>2
  <2> QED
    BY <2>1, <2>2
<1>8. /\ WholeTo(end) \in Nat /\ WholeTo(end) <= end
      /\ \E k \in Nat : WholeTo(end) = i * k
      /\ WholeTo(end) = 0 <=> end = 0
  <2>1. CASE end = 0
    BY <1>2, <1>5, <1>6, <2>1
  <2>2. CASE end # 0
    <3>1. i <= end
      BY <2>2 DEF i
    <3>2. e # 0
      <4>1. CASE e = 0
        <5>1. i * (e + 1) = i
          BY <1>1, <4>1
        <5> QED
          BY <1>1, <1>2, <3>1, <5>1
      <4> QED
        BY <4>1
    <3>3. i * 1 <= i * e /\ i * 1 = i
      BY <1>1, <1>2, <3>2, ProductsGrow
    <3> QED
      BY <1>1, <1>2, <1>5, <1>6, <2>2, <3>3
  <2> QED
    BY <2>1, <2>2
<1> QED
  BY <1>7, <1>8 DEF i

(* A window counts every row in it that is left, and no row never in it.    *)
LEMMA WindowCounts ==
    ASSUME StoreInv, stats.hours = FileStats(history, DOMAIN history),
           NEW start \in Nat, NEW end \in Nat, end = 0 \/ (start < end /\ HourLength <= end)
    PROVE  LET In(S) == Cardinality({l \in S : history[l].at >= start /\ (end # 0 => history[l].at < end)})
           IN  WindowTotal(start, end) \in In(logs)..In(DOMAIN history)
<1> DEFINE ever == DOMAIN history
           from == WholeFrom(start)
           to == WholeTo(end)
           hours == {h \in Hours : h * HourLength >= from /\ (to # 0 => h * HourLength < to)}
           Window(S) == {l \in S : history[l].at >= start /\ (end # 0 => history[l].at < end)}
           Raw(a, b) == Cardinality(RawIn(a, b))
           before == IF start # 0 /\ start < from THEN RawIn(start, from) ELSE {}
           after == IF to # 0 /\ to < end THEN RawIn(to, end) ELSE {}
           filed == {l \in ever : Hour(history[l].at) \in hours}
<1>1. /\ from \in Nat /\ start <= from /\ to \in Nat /\ to <= end
      /\ (start = 0 => from = 0) /\ (to = 0 <=> end = 0)
  BY WholeHours
<1>2. PICK k \in Nat : from = HourLength * k
  BY WholeHours
<1>3. PICK m \in Nat : to = HourLength * m
  BY WholeHours
<1>4. /\ logs \subseteq ever
      /\ \A l \in ever : history[l].at \in Nat /\ history[l].at <= MaxNow
  BY ClockAssumption DEF StoreInv, HistoryInv, NumbersInv
<1>5. ASSUME NEW t \in Nat, t <= MaxNow
      PROVE  Hour(t) \in hours <=> from <= t /\ (to # 0 => t < to)
  <2>1. Hour(t) \in Hours /\ Hour(t) \in Nat
    BY <1>5, HoursOfTimes, HourStarts
  <2>2. Hour(t) * HourLength = HourLength * Hour(t) /\ HourLength * Hour(t) \in Nat
    BY <2>1, ClockAssumption
  <2>3. /\ from <= HourLength * Hour(t) <=> k <= Hour(t)
        /\ to <= HourLength * Hour(t) <=> m <= Hour(t)
    BY <1>2, <1>3, <2>1, ClockAssumption, ProductsOrder
  <2>4. /\ k <= Hour(t) <=> from <= t
        /\ m <= Hour(t) <=> to <= t
    BY <1>2, <1>3, HourStarts
  <2> HIDE DEF from, to
  <2>5. /\ Hour(t) * HourLength >= from <=> from <= t
        /\ Hour(t) * HourLength < to <=> t < to
    BY <1>1, <2>2, <2>3, <2>4
  <2> QED
    BY <2>1, <2>5
<1>6. filed = {l \in ever : from <= history[l].at /\ (to # 0 => history[l].at < to)}
  <2> HIDE DEF hours, from, to
  <2> QED
    BY <1>4, <1>5
<1>7. \A a, b : RawIn(a, b) = {l \in logs : history[l].at >= a /\ history[l].at < b}
  BY DEF RawIn
<1>8. \A S \in SUBSET ever : IsFiniteSet(S) /\ Cardinality(S) \in Nat
  BY HistoryIsFinite, FS_CardinalityType
<1>9. /\ Window(logs) \subseteq Window(ever) /\ Window(ever) \subseteq ever
  BY <1>4
<1>10. WindowTotal(start, end)
        = IF to # 0 /\ from >= to THEN Raw(start, end)
          ELSE MapThenSumSet(LAMBDA h : stats.hours[h].attempts, hours)
               + (IF start # 0 /\ start < from THEN Raw(start, from) ELSE 0)
               + (IF to # 0 /\ to < end THEN Raw(to, end) ELSE 0)
  BY DEF WindowTotal
<1>11. MapThenSumSet(LAMBDA h : stats.hours[h].attempts, hours) = Cardinality(filed)
  <2>1. hours \in SUBSET Hours
    OBVIOUS
  <2> HIDE DEF hours
  <2> QED
    BY <2>1, HoursSum
<1> HIDE DEF from, to, hours, filed
<1>12. CASE to # 0 /\ from >= to
  <2>1. WindowTotal(start, end) = Cardinality(RawIn(start, end)) /\ end # 0
    BY <1>1, <1>10, <1>12
  <2>2. RawIn(start, end) = Window(logs)
    BY <1>7, <2>1
  <2>3. Cardinality(Window(logs)) <= Cardinality(Window(ever))
    <3> HIDE DEF Window
    <3> QED
      BY <1>8, <1>9, FS_Subset
  <2>4. Cardinality(Window(logs)) \in Nat /\ Cardinality(Window(ever)) \in Nat
    <3> HIDE DEF Window
    <3> QED
      BY <1>8, <1>9
  <2>5. WindowTotal(start, end) \in Cardinality(Window(logs))..Cardinality(Window(ever))
    <3> HIDE DEF Window
    <3> QED
      BY <2>1, <2>2, <2>3, <2>4
  <2> QED
    BY <2>5
<1>13. CASE ~(to # 0 /\ from >= to)
  <2>1. to = 0 \/ from < to
    BY <1>1, <1>13
  <2>2. /\ before \subseteq logs /\ \A l \in before : start <= history[l].at /\ history[l].at < from
        /\ after \subseteq logs /\ \A l \in after : to # 0 /\ to <= history[l].at /\ history[l].at < end
        /\ filed \subseteq ever
    BY <1>4, <1>6, <1>7, <1>1
  <2>3. filed \cap before = {} /\ (filed \cup before) \cap after = {}
    <3>1. \A l \in filed : from <= history[l].at /\ (to # 0 => history[l].at < to) /\ history[l].at \in Nat
      BY <1>4, <1>6
    <3>2. \A l \in before \cup after : history[l].at \in Nat
      BY <1>4, <2>2
    <3> HIDE DEF before, after
    <3>3. \A l \in before : l \notin filed /\ l \notin after
      BY <1>1, <2>1, <2>2, <3>1, <3>2
    <3>4. \A l \in after : l \notin filed
      BY <1>1, <2>1, <2>2, <3>1, <3>2
    <3> QED
      BY <3>3, <3>4
  <2>4. Cardinality({}) = 0
    BY FS_EmptySet
  <2>5. WindowTotal(start, end) = Cardinality(filed) + Cardinality(before) + Cardinality(after)
    BY <1>10, <1>11, <1>13, <2>4
  <2>6. /\ \A l \in Window(logs) : l \in logs /\ l \in ever /\ start <= history[l].at /\ (end # 0 => history[l].at < end)
        /\ \A l \in ever : start <= history[l].at /\ (end # 0 => history[l].at < end) => l \in Window(ever)
    BY <1>4
  <2>7. Window(logs) \subseteq filed \cup before \cup after
    <3> SUFFICES ASSUME NEW l \in Window(logs), l \notin filed
                 PROVE  l \in before \/ l \in after
      OBVIOUS
    <3>1. l \in logs /\ l \in ever /\ history[l].at \in Nat /\ start <= history[l].at /\ (end # 0 => history[l].at < end)
      BY <1>4
    <3>2. ~(from <= history[l].at) \/ (to # 0 /\ ~(history[l].at < to))
      BY <1>6, <3>1
    <3>3. CASE ~(from <= history[l].at)
      <4>1. history[l].at < from /\ start < from /\ start # 0
        BY <1>1, <3>1, <3>3
      <4>2. l \in RawIn(start, from)
        BY <1>7, <3>1, <4>1
      <4> QED
        BY <4>1, <4>2
    <3>4. CASE to # 0 /\ ~(history[l].at < to)
      <4>1. to <= history[l].at /\ history[l].at < end /\ to < end
        BY <1>1, <3>1, <3>4
      <4>2. l \in RawIn(to, end)
        BY <1>7, <3>1, <4>1
      <4> QED
        BY <3>4, <4>1, <4>2
    <3> QED
      BY <3>2, <3>3, <3>4
  <2> HIDE DEF before, after
  <2>8. filed \cup before \cup after \subseteq Window(ever)
    <3>1. ASSUME NEW l \in filed PROVE l \in Window(ever)
      <4>1. l \in ever /\ history[l].at \in Nat /\ from <= history[l].at /\ (to # 0 => history[l].at < to)
        BY <1>4, <1>6
      <4> QED
        BY <1>1, <2>6, <4>1
    <3>2. ASSUME NEW l \in before PROVE l \in Window(ever)
      <4>1. l \in ever /\ history[l].at \in Nat /\ start <= history[l].at /\ history[l].at < from
        BY <1>4, <2>2
      <4>2. end # 0 => history[l].at < end
        BY <1>1, <2>1, <4>1
      <4> QED
        BY <2>6, <4>1, <4>2
    <3>3. ASSUME NEW l \in after PROVE l \in Window(ever)
      <4>1. l \in ever /\ history[l].at \in Nat /\ to # 0 /\ to <= history[l].at /\ history[l].at < end
        BY <1>4, <2>2
      <4>2. start <= history[l].at
        BY <1>1, <2>1, <4>1
      <4> QED
        BY <2>6, <4>1, <4>2
    <3> QED
      BY <3>1, <3>2, <3>3
  <2> HIDE DEF Window
  <2>9. /\ IsFiniteSet(filed) /\ IsFiniteSet(before) /\ IsFiniteSet(after)
        /\ before \subseteq ever /\ after \subseteq ever
    BY <1>4, <1>8, <2>2
  <2>10. Cardinality(filed \cup before) = Cardinality(filed) + Cardinality(before) /\ IsFiniteSet(filed \cup before)
    BY <2>3, <2>9, CountsAdd
  <2>11. Cardinality((filed \cup before) \cup after) = Cardinality(filed \cup before) + Cardinality(after)
    BY <2>3, <2>9, <2>10, CountsAdd
  <2>12. PICK all \in SUBSET ever : all = (filed \cup before) \cup after
    BY <2>2, <2>9
  <2>13. IsFiniteSet(all) /\ IsFiniteSet(Window(ever)) /\ Window(logs) \subseteq all /\ all \subseteq Window(ever)
    BY <1>8, <1>9, <2>7, <2>8, <2>12
  <2>14. Cardinality(Window(logs)) <= Cardinality(all) /\ Cardinality(all) <= Cardinality(Window(ever))
    BY <2>13, FS_Subset
  <2>15. /\ Cardinality(Window(logs)) \in Nat /\ Cardinality(Window(ever)) \in Nat
         /\ Cardinality(all) \in Nat
    BY <1>8, <1>9
  <2>16. WindowTotal(start, end) = Cardinality(all)
    BY <2>5, <2>10, <2>11, <2>12
  <2>17. WindowTotal(start, end) \in Cardinality(Window(logs))..Cardinality(Window(ever))
    BY <2>14, <2>15, <2>16
  <2> QED
    BY <2>17 DEF Window
<1> QED
  BY <1>12, <1>13

(* The hourly totals count every row ever committed once, and a window read *)
(* from them is exact: for any rows, clock and crashes (db/stats.go:149-151, *)
(* 234-252, db/usage.go:112-115, 149-152).                                  *)
THEOREM TotalsStayExact == Spec => []TotalsAreExact
<1>1. StoreInv /\ TotalsInv => TotalsAreExact
  <2> SUFFICES ASSUME StoreInv, TotalsInv
               PROVE  TotalsAreExact
    OBVIOUS
  <2>1. TotalsCountEachRowOnce
    BY DEF TotalsInv
  <2>2. WindowsAgree
    <3> SUFFICES ASSUME stats.table = "current",
                        NEW start \in {0} \cup HourLength..MaxNow,
                        NEW end \in {0} \cup HourLength..MaxNow+1, end = 0 \/ start < end
                 PROVE  LET In(S) == Cardinality({l \in S : history[l].at >= start /\ (end # 0 => history[l].at < end)})
                        IN  WindowTotal(start, end) \in In(logs)..In(DOMAIN history)
      BY DEF WindowsAgree
    <3>1. start \in Nat /\ end \in Nat /\ (end = 0 \/ (start < end /\ HourLength <= end))
      BY ClockAssumption
    <3>2. stats.hours = FileStats(history, DOMAIN history)
      BY <2>1 DEF TotalsCountEachRowOnce
    <3> QED
      BY <3>1, <3>2, WindowCounts
  <2> QED
    BY <2>1, <2>2 DEF TotalsAreExact
<1> QED
  BY <1>1, StoreStays, TotalsStay, PTL

=============================================================================
