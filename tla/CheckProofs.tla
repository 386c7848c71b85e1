---------------------------- MODULE CheckProofs ----------------------------
(***************************************************************************)
(* Theorems about the worker's and the council's data, for inputs of any   *)
(* size: what a message's package holds, for every ceiling and whatever    *)
(* the stores hold; what the block validator lets pass, for documents of   *)
(* any length and depth; and that an answer is spent before its post.      *)
(* Induction over numbers goes by sets: what holds of 0 and of the next of *)
(* every number it holds of holds of them all.                             *)
(***************************************************************************)
EXTENDS ContextPackage, SiteChecks, Clarification, FunctionTheorems, FiniteSetTheorems, SequenceTheorems, TLAPS

\* Some numbers have a least one.
LEMMA LeastNumber ==
    ASSUME NEW T \in SUBSET Nat, T # {} PROVE \E n \in T : \A m \in T : n <= m
<1> DEFINE below == {ss \in Nat \X Nat : ss[1] < ss[2]}
<1>1. IsWellFoundedOn(below, Nat)
  BY NatLessThanWellFounded, Zenon DEF OpToRel
<1>2. PICK n \in T : \A m \in T : <<m, n>> \notin below
  <2> HIDE DEF below
  <2> QED BY <1>1, WFMin
<1>3. ASSUME NEW m \in T PROVE n <= m
  <2>1. m < n => <<m, n>> \in below
    OBVIOUS
  <2> QED BY <1>2, <2>1
<1> QED BY <1>3

\* What holds of 0, and of the next of each, holds of all of them.
LEMMA UpTo ==
    ASSUME NEW N \in Nat, NEW T, 0 \in T, \A n \in 0..N : n < N /\ n \in T => n + 1 \in T
    PROVE  0..N \subseteq T
<1> DEFINE out == (0..N) \ T
<1> SUFFICES ASSUME out # {} PROVE FALSE
  OBVIOUS
<1>1. out \in SUBSET Nat
  OBVIOUS
<1>2. PICK n \in out : \A m \in out : n <= m
  <2> HIDE DEF out
  <2> QED BY <1>1, LeastNumber
<1>3. n \in Nat /\ n <= N /\ n # 0 /\ n \notin T
  OBVIOUS
<1>4. n - 1 \in 0..N /\ n - 1 < N /\ n - 1 \notin out
  BY <1>2, <1>3
<1>5. n - 1 \in T
  BY <1>4
<1>6. (n - 1) + 1 \in T
  BY <1>4, <1>5
<1> QED BY <1>3, <1>6

\* Some numbers that are not too large have a greatest one.
LEMMA GreatestNumber ==
    ASSUME NEW N \in Nat, NEW T \in SUBSET (0..N), T # {}
    PROVE  Max(T) \in T /\ \A m \in T : m <= Max(T)
<1> DEFINE gaps == {g \in 0..N : N - g \in T}
<1>1. gaps \in SUBSET Nat /\ gaps # {}
  <2>1. PICK n \in T : TRUE
    OBVIOUS
  <2>2. N - n \in 0..N /\ N - (N - n) = n
    OBVIOUS
  <2>3. N - n \in gaps
    BY <2>2
  <2>4. gaps \in SUBSET Nat
    OBVIOUS
  <2> HIDE DEF gaps
  <2> QED BY <2>3, <2>4
<1>2. PICK g \in gaps : \A m \in gaps : g <= m
  <2> HIDE DEF gaps
  <2> QED BY <1>1, LeastNumber
<1>3. g \in 0..N /\ N - g \in T
  OBVIOUS
<1>4. ASSUME NEW m \in T PROVE N - g >= m
  <2>1. m \in 0..N /\ N - m \in 0..N /\ N - (N - m) = m
    OBVIOUS
  <2>2. N - m \in gaps
    BY <2>1
  <2>3. g <= N - m
    BY <1>2, <2>2
  <2> QED BY <1>3, <2>1, <2>3
<1>5. \E x \in T : \A y \in T : x >= y
  BY <1>3, <1>4
<1>6. Max(T) \in T /\ \A y \in T : Max(T) >= y
  BY <1>5, Zenon DEF Max
<1> QED BY <1>6

\* A function that each step takes on from the last one.
Steps(N, V) == [1..N -> [V -> V]]
GoesBy(f, N, V, base, step) ==
    f \in [0..N -> V] /\ f[0] = base /\ \A n \in 1..N : f[n] = step[n][f[n - 1]]

LEMMA StepByStep ==
    ASSUME NEW V, NEW N \in Nat, NEW base \in V, NEW step \in Steps(N, V)
    PROVE  \E f : GoesBy(f, N, V, base, step)
<1> USE DEF Steps, GoesBy
<1> DEFINE T == {n \in 0..N : \E f \in [0..n -> V] : f[0] = base /\ \A k \in 1..n : f[k] = step[k][f[k - 1]]}
<1>1. 0 \in T
  <2> DEFINE f == [k \in 0..0 |-> base]
  <2>1. f \in [0..0 -> V] /\ f[0] = base
    OBVIOUS
  <2>2. \A k \in 1..0 : f[k] = step[k][f[k - 1]]
    OBVIOUS
  <2>3. \E h \in [0..0 -> V] : h[0] = base /\ \A k \in 1..0 : h[k] = step[k][h[k - 1]]
    <3> HIDE DEF f
    <3> QED BY <2>1, <2>2
  <2> QED BY <2>3
<1>2. ASSUME NEW n \in 0..N, n < N, n \in T PROVE n + 1 \in T
  <2>1. PICK f \in [0..n -> V] : f[0] = base /\ \A k \in 1..n : f[k] = step[k][f[k - 1]]
    BY <1>2
  <2>2. n + 1 \in 1..N /\ f[n] \in V /\ step[n + 1] \in [V -> V]
    BY <1>2
  <2>3. step[n + 1][f[n]] \in V
    BY <2>2
  <2> DEFINE g == [k \in 0..(n + 1) |-> IF k = n + 1 THEN step[n + 1][f[n]] ELSE f[k]]
  <2>4. g \in [0..(n + 1) -> V]
    BY <2>3
  <2>5. g[0] = base
    BY <2>1
  <2>6. ASSUME NEW k \in 1..(n + 1) PROVE g[k] = step[k][g[k - 1]]
    <3>1. g[k - 1] = f[k - 1]
      OBVIOUS
    <3>2. CASE k = n + 1
      BY <3>1, <3>2
    <3>3. CASE k # n + 1
      <4>1. k \in 1..n /\ g[k] = f[k]
        BY <3>3
      <4> QED BY <3>1, <4>1, <2>1
    <3> QED BY <3>2, <3>3
  <2> HIDE DEF g
  <2>7. n + 1 \in 0..N
    BY <1>2
  <2> QED BY <2>4, <2>5, <2>6, <2>7
<1>3. N \in T
  <2> HIDE DEF T
  <2>1. 0..N \subseteq T
    BY <1>1, <1>2, UpTo
  <2> QED BY <2>1
<1> QED BY <1>3

-----------------------------------------------------------------------------
(* The operators.                                                          *)

\* What the blocks come to is the last of their sums, however these are given.
Sums(blocks, sum) ==
    /\ sum \in [0..Len(blocks) -> Nat] /\ sum[0] = 0
    /\ \A n \in 1..Len(blocks) : sum[n] = sum[n - 1] + blocks[n].size

LEMMA LengthIsSum ==
    ASSUME NEW V, NEW blocks \in Seq(V), NEW sum, Sums(blocks, sum)
    PROVE  Length(blocks) = sum[Len(blocks)]
<1> DEFINE N == Len(blocks)
           Def(f) == f = [n \in 0..N |-> IF n = 0 THEN 0 ELSE f[n - 1] + blocks[n].size]
           upTo == CHOOSE f : Def(f)
<1>1. N \in Nat
  OBVIOUS
<1>2. Length(blocks) = upTo[N]
  BY Zenon DEF Length
<1>3. Def(sum)
  <2>1. sum \in [0..N -> Nat] /\ sum[0] = 0 /\ \A n \in 1..N : sum[n] = sum[n - 1] + blocks[n].size
    BY DEF Sums
  <2>2. \A n \in 0..N : n # 0 => n \in 1..N
    BY <1>1
  <2> HIDE DEF N
  <2> QED BY <2>1, <2>2
<1>4. Def(upTo)
  <2> HIDE DEF Def
  <2> QED BY <1>3, Zenon
<1> DEFINE T == {n \in 0..N : upTo[n] = sum[n]}
<1>5. 0 \in T
  <2> HIDE DEF N, upTo
  <2> QED BY <1>1, <1>3, <1>4
<1>6. ASSUME NEW n \in 0..N, n < N, n \in T PROVE n + 1 \in T
  <2> HIDE DEF N, upTo
  <2>1. n + 1 \in 0..N /\ n + 1 # 0 /\ (n + 1) - 1 = n
    BY <1>1, <1>6
  <2>2. upTo[n + 1] = upTo[n] + blocks[n + 1].size
    BY <1>4, <2>1
  <2>3. sum[n + 1] = sum[n] + blocks[n + 1].size
    BY <1>3, <2>1
  <2> QED BY <1>6, <2>1, <2>2, <2>3
<1>7. 0..N \subseteq T
  <2> HIDE DEF N, T
  <2> QED BY <1>1, <1>5, <1>6, UpTo
<1>8. upTo[N] = sum[N]
  <2> HIDE DEF N, upTo
  <2> QED BY <1>1, <1>7
<1> QED BY <1>2, <1>8

Sized(V) == \A v \in V : v.size \in Nat

LEMMA SumsExist ==
    ASSUME NEW V, Sized(V), NEW blocks \in Seq(V) PROVE \E sum : Sums(blocks, sum)
<1> DEFINE N == Len(blocks)
           step == [n \in 1..N |-> [m \in Nat |-> m + blocks[n].size]]
<1>1. N \in Nat /\ \A n \in 1..N : blocks[n].size \in Nat
  BY DEF Sized
<1>2. step \in [1..N -> [Nat -> Nat]]
  <2> HIDE DEF N
  <2> QED BY <1>1
<1>3. PICK f \in [0..N -> Nat] : f[0] = 0 /\ \A n \in 1..N : f[n] = step[n][f[n - 1]]
  <2> HIDE DEF N, step
  <2>1. 0 \in Nat /\ N \in Nat /\ step \in Steps(N, Nat)
    BY <1>1, <1>2 DEF Steps
  <2>2. \E f : GoesBy(f, N, Nat, 0, step)
    BY <2>1, StepByStep
  <2> QED BY <2>2 DEF GoesBy
<1>4. ASSUME NEW n \in 1..N PROVE f[n] = f[n - 1] + blocks[n].size
  <2> HIDE DEF N
  <2>1. f[n - 1] \in Nat
    BY <1>1
  <2> QED BY <1>3, <2>1
<1> QED BY <1>3, <1>4 DEF Sums

LEMMA LengthTyped ==
    ASSUME NEW V, Sized(V), NEW blocks \in Seq(V) PROVE Length(blocks) \in Nat
<1>1. PICK sum : Sums(blocks, sum)
  BY SumsExist
<1>2. Length(blocks) = sum[Len(blocks)]
  BY <1>1, LengthIsSum
<1> QED BY <1>1, <1>2 DEF Sums

\* One block more.
LEMMA LengthOfMore ==
    ASSUME NEW V, Sized(V), NEW blocks \in Seq(V), NEW b \in V
    PROVE  Length(Append(blocks, b)) = Length(blocks) + b.size
<1> DEFINE N == Len(blocks)
           more == Append(blocks, b)
<1>1. PICK sum : Sums(blocks, sum)
  BY SumsExist
<1>2. Length(blocks) = sum[N]
  BY <1>1, LengthIsSum
<1>3. /\ N \in Nat /\ b.size \in Nat /\ sum \in [0..N -> Nat] /\ sum[0] = 0
      /\ \A n \in 1..N : sum[n] = sum[n - 1] + blocks[n].size
  BY <1>1 DEF Sums, Sized
<1>4. more \in Seq(V) /\ Len(more) = N + 1 /\ more[N + 1] = b /\ \A n \in 1..N : more[n] = blocks[n]
  OBVIOUS
<1> DEFINE next == [n \in 0..(N + 1) |-> IF n = N + 1 THEN sum[N] + b.size ELSE sum[n]]
<1> HIDE DEF N, more
<1>5. Sums(more, next)
  <2>1. next \in [0..(N + 1) -> Nat] /\ next[0] = 0
    BY <1>3
  <2>2. ASSUME NEW n \in 1..(N + 1) PROVE next[n] = next[n - 1] + more[n].size
    <3>1. CASE n = N + 1
      BY <1>3, <1>4, <3>1
    <3>2. CASE n # N + 1
      <4>1. n \in 1..N
        BY <1>3, <3>2
      <4>2. n - 1 # N + 1 /\ n - 1 \in 0..(N + 1) /\ n \in 0..(N + 1)
        BY <1>3, <4>1
      <4>3. next[n] = sum[n] /\ next[n - 1] = sum[n - 1]
        BY <3>2, <4>2
      <4> QED BY <1>3, <1>4, <4>1, <4>3
    <3> QED BY <3>1, <3>2
  <2> HIDE DEF next
  <2> QED BY <1>4, <2>1, <2>2 DEF Sums
<1>6. Length(more) = next[N + 1]
  BY <1>4, <1>5, LengthIsSum
<1>7. next[N + 1] = sum[N] + b.size
  BY <1>3
<1> QED BY <1>2, <1>6, <1>7 DEF more

\* Turned round they come to the same.
LEMMA Turned ==
    ASSUME NEW V, NEW blocks \in Seq(V)
    PROVE  /\ Reverse(blocks) \in Seq(V) /\ Len(Reverse(blocks)) = Len(blocks)
           /\ \A n \in 1..Len(blocks) : Reverse(blocks)[n] = blocks[(Len(blocks) - n) + 1]
<1>1. Len(blocks) \in Nat /\ \A n \in 1..Len(blocks) : (Len(blocks) - n) + 1 \in 1..Len(blocks)
  OBVIOUS
<1> QED BY <1>1 DEF Reverse

LEMMA LengthOfTurned ==
    ASSUME NEW V, Sized(V), NEW blocks \in Seq(V) PROVE Length(Reverse(blocks)) = Length(blocks)
<1> DEFINE N == Len(blocks)
           turned == Reverse(blocks)
<1>1. PICK sum : Sums(blocks, sum)
  BY SumsExist
<1>2. Length(blocks) = sum[N]
  BY <1>1, LengthIsSum
<1>3. /\ N \in Nat /\ sum \in [0..N -> Nat] /\ sum[0] = 0
      /\ \A n \in 1..N : sum[n] = sum[n - 1] + blocks[n].size
      /\ \A n \in 1..N : blocks[n].size \in Nat
  BY <1>1 DEF Sums, Sized
<1>4. turned \in Seq(V) /\ Len(turned) = N /\ \A n \in 1..N : turned[n] = blocks[(N - n) + 1]
  BY Turned
<1> DEFINE rest == [n \in 0..N |-> sum[N] - sum[N - n]]
           Grown == {n \in 0..N : \A m \in 0..N : m <= n => sum[m] <= sum[n]}
<1> HIDE DEF N, turned
<1>5. 0..N \subseteq Grown
  <2>1. 0 \in Grown
    BY <1>3
  <2>2. ASSUME NEW n \in 0..N, n < N, n \in Grown PROVE n + 1 \in Grown
    <3>1. n + 1 \in 1..N /\ n + 1 \in 0..N /\ (n + 1) - 1 = n
      BY <1>3, <2>2
    <3>2. sum[n] \in Nat /\ sum[n + 1] = sum[n] + blocks[n + 1].size /\ blocks[n + 1].size \in Nat
      BY <1>3, <3>1
    <3>3. ASSUME NEW m \in 0..N, m <= n + 1 PROVE sum[m] <= sum[n + 1]
      <4>1. sum[m] \in Nat
        BY <1>3
      <4>2. CASE m = n + 1
        BY <4>1, <4>2
      <4>3. CASE m # n + 1
        <5>1. m <= n
          BY <3>3, <4>3
        <5>2. sum[m] <= sum[n]
          BY <2>2, <5>1
        <5> QED BY <3>2, <4>1, <5>2
      <4> QED BY <4>2, <4>3
    <3> QED BY <3>1, <3>3
  <2> HIDE DEF Grown
  <2> QED BY <1>3, <2>1, <2>2, UpTo
<1>6. Sums(turned, rest)
  <2>1. N \in 0..N /\ sum[N] \in Nat /\ \A n \in 0..N : N - n \in 0..N
    BY <1>3
  <2>2. ASSUME NEW n \in 0..N PROVE rest[n] \in Nat
    <3>1. N - n \in 0..N /\ N - n <= N
      BY <1>3
    <3>2. sum[N - n] <= sum[N] /\ sum[N - n] \in Nat
      BY <1>3, <1>5, <2>1, <3>1
    <3>3. rest[n] = sum[N] - sum[N - n]
      OBVIOUS
    <3> HIDE DEF rest
    <3> QED BY <1>3, <2>1, <3>2, <3>3
  <2>3. rest \in [0..N -> Nat]
    BY <2>2
  <2>4. rest[0] = 0
    BY <1>3, <2>1
  <2>5. ASSUME NEW n \in 1..N PROVE rest[n] = rest[n - 1] + turned[n].size
    <3>1. /\ n \in 0..N /\ n - 1 \in 0..N /\ (N - n) + 1 \in 1..N /\ N - (n - 1) = (N - n) + 1
          /\ ((N - n) + 1) - 1 = N - n /\ N - n \in 0..N /\ (N - n) + 1 \in 0..N
      BY <1>3
    <3>2. sum[(N - n) + 1] = sum[N - n] + blocks[(N - n) + 1].size
      BY <1>3, <3>1
    <3>3. rest[n] = sum[N] - sum[N - n] /\ rest[n - 1] = sum[N] - sum[(N - n) + 1]
      BY <3>1
    <3>4. sum[N - n] \in Nat /\ sum[(N - n) + 1] \in Nat /\ blocks[(N - n) + 1].size \in Nat
      BY <1>3, <3>1
    <3>5. turned[n].size = blocks[(N - n) + 1].size
      BY <1>4
    <3>6. PICK a \in Nat, b \in Nat, c \in Nat, d \in Nat :
             a = sum[N] /\ b = sum[N - n] /\ c = sum[(N - n) + 1] /\ d = blocks[(N - n) + 1].size
      BY <2>1, <3>4
    <3>7. c = b + d
      BY <3>2, <3>6
    <3>8. a - b = (a - c) + d
      BY <3>7
    <3>9. sum[N] - sum[N - n] = (sum[N] - sum[(N - n) + 1]) + blocks[(N - n) + 1].size
      BY <3>6, <3>8
    <3> HIDE DEF rest
    <3> QED BY <3>3, <3>5, <3>9
  <2> HIDE DEF rest
  <2> QED BY <1>4, <2>3, <2>4, <2>5 DEF Sums
<1>7. Length(turned) = rest[N]
  BY <1>4, <1>6, LengthIsSum
<1>8. rest[N] = sum[N]
  BY <1>3
<1> QED BY <1>2, <1>7, <1>8 DEF turned

\* What is dropped until the rest fits.
LEMMA TrimmedFits ==
    ASSUME NEW V, NEW blocks \in Seq(V), NEW cap \in Nat, NEW emitted \in [1..Len(blocks) -> Nat]
    PROVE  \E M \in 0..Len(blocks) :
               /\ Trimmed(blocks, cap, emitted) = SubSeq(blocks, 1, M)
               /\ M # 0 => emitted[M] <= cap
               /\ M < Len(blocks) => emitted[M + 1] > cap
<1> DEFINE N == Len(blocks)
           T == {n \in 0..N : n = 0 \/ emitted[n] <= cap}
           M == Max(T)
<1>1. N \in Nat
  OBVIOUS
<1>2. T \in SUBSET (0..N) /\ 0 \in T
  <2> HIDE DEF N
  <2> QED BY <1>1
<1>3. M \in T /\ \A m \in T : m <= M
  <2> HIDE DEF N, T
  <2> QED BY <1>1, <1>2, GreatestNumber
<1>4. Trimmed(blocks, cap, emitted) = SubSeq(blocks, 1, M)
  BY Zenon DEF Trimmed
<1> HIDE DEF N, M
<1>5. M \in 0..N /\ (M # 0 => emitted[M] <= cap)
  BY <1>3
<1>6. ASSUME M < N PROVE emitted[M + 1] > cap
  <2>1. M + 1 \in 1..N /\ M + 1 \in 0..N /\ ~(M + 1 <= M)
    BY <1>1, <1>5, <1>6
  <2>2. M + 1 \notin T
    <3> HIDE DEF T
    <3> QED BY <1>3, <2>1
  <2>3. emitted[M + 1] \in Nat
    BY <2>1 DEF N
  <2> QED BY <2>1, <2>2, <2>3
<1> QED BY <1>4, <1>5, <1>6 DEF N

-----------------------------------------------------------------------------
(* The orders.                                                             *)

Orders(above, S) ==
    /\ \A x \in S : <<x, x>> \notin above
    /\ \A x, y \in S : x # y => <<x, y>> \in above \/ <<y, x>> \in above
    /\ \A x, y, z \in S : <<x, y>> \in above /\ <<y, z>> \in above => <<x, z>> \in above

InOrder(s, S, above) ==
    /\ s \in Seq(S) /\ \A x \in S : \E i \in 1..Len(s) : s[i] = x
    /\ \A i, j \in 1..Len(s) : i < j => <<s[i], s[j]>> \in above

LEMMA RankedInOrder ==
    ASSUME NEW S, NEW above, IsFiniteSet(S), Orders(above, S)
    PROVE  InOrder(Ranked(S, above), S, above) /\ Len(Ranked(S, above)) = Cardinality(S)
<1> DEFINE N == Cardinality(S)
           Over(x) == {y \in S : <<y, x>> \in above}
           rank == [x \in S |-> Cardinality(Over(x)) + 1]
           r == Ranked(S, above)
<1>1. N \in Nat
  BY FS_CardinalityType
<1>2. ASSUME NEW x \in S PROVE IsFiniteSet(Over(x)) /\ Cardinality(Over(x)) \in Nat /\ Cardinality(Over(x)) < N
  <2>1. Over(x) \in SUBSET S /\ Over(x) # S
    BY DEF Orders
  <2> HIDE DEF Over
  <2>2. IsFiniteSet(Over(x)) /\ Cardinality(Over(x)) <= N /\ Cardinality(Over(x)) # N
    BY <2>1, FS_Subset
  <2>3. Cardinality(Over(x)) \in Nat
    BY <2>2, FS_CardinalityType
  <2> QED BY <1>1, <2>2, <2>3
<1>3. ASSUME NEW x \in S, NEW y \in S, <<x, y>> \in above
      PROVE  Cardinality(Over(x)) < Cardinality(Over(y))
  <2>1. Over(x) \in SUBSET Over(y) /\ Over(x) # Over(y)
    BY <1>3 DEF Orders
  <2> HIDE DEF Over
  <2>2. Cardinality(Over(x)) <= Cardinality(Over(y)) /\ Cardinality(Over(x)) # Cardinality(Over(y))
    BY <1>2, <2>1, FS_Subset
  <2>3. Cardinality(Over(x)) \in Nat /\ Cardinality(Over(y)) \in Nat
    BY <1>2
  <2> QED BY <2>2, <2>3
<1>4. rank \in [S -> 1..N]
  <2> HIDE DEF Over
  <2> QED BY <1>1, <1>2
<1>5. \A x, y \in S : rank[x] = rank[y] => x = y
  <2> SUFFICES ASSUME NEW x \in S, NEW y \in S, x # y PROVE rank[x] # rank[y]
    OBVIOUS
  <2>1. <<x, y>> \in above \/ <<y, x>> \in above
    BY DEF Orders
  <2> HIDE DEF Over
  <2>2. /\ Cardinality(Over(x)) \in Nat /\ Cardinality(Over(y)) \in Nat
        /\ Cardinality(Over(x)) # Cardinality(Over(y))
    BY <1>2, <1>3, <2>1
  <2> QED BY <2>2
<1>6. rank \in Surjection(S, 1..N)
  <2> HIDE DEF rank, N
  <2>1. rank \in Injection(S, 1..N)
    BY <1>4, <1>5, Fun_IsInj
  <2>2. IsFiniteSet(1..N) /\ Cardinality(1..N) = N
    BY <1>1, FS_Interval
  <2> QED BY <2>1, <2>2, FS_Injection DEF N
<1>7. r = [n \in 1..N |-> CHOOSE x \in S : Cardinality(Over(x)) = n - 1]
  BY DEF Ranked
<1>8. ASSUME NEW n \in 1..N PROVE r[n] \in S /\ rank[r[n]] = n
  <2>1. PICK x \in S : rank[x] = n
    <3> HIDE DEF rank, N
    <3> QED BY <1>6 DEF Surjection
  <2> HIDE DEF Over, r
  <2>2. Cardinality(Over(x)) = n - 1
    BY <1>2, <2>1
  <2>3. r[n] = CHOOSE y \in S : Cardinality(Over(y)) = n - 1
    <3> HIDE DEF N
    <3> QED BY <1>7
  <2>4. r[n] \in S /\ Cardinality(Over(r[n])) = n - 1
    BY <2>2, <2>3
  <2> HIDE DEF N
  <2> QED BY <1>1, <2>4
<1>9. r \in Seq(S) /\ Len(r) = N
  <2> HIDE DEF rank, N, r
  <2>1. r \in [1..N -> S]
    BY <1>7, <1>8
  <2> QED BY <1>1, <2>1
<1>10. ASSUME NEW x \in S PROVE \E i \in 1..N : r[i] = x
  <2> HIDE DEF rank, N, r
  <2>1. rank[x] \in 1..N
    BY <1>4
  <2>2. r[rank[x]] \in S /\ rank[r[rank[x]]] = rank[x]
    BY <1>8, <2>1
  <2> QED BY <1>5, <2>1, <2>2
<1>11. ASSUME NEW i \in 1..N, NEW j \in 1..N, i < j PROVE <<r[i], r[j]>> \in above
  <2>1. r[i] \in S /\ r[j] \in S /\ rank[r[i]] = i /\ rank[r[j]] = j
    BY <1>8
  <2>2. Cardinality(Over(r[i])) = i - 1 /\ Cardinality(Over(r[j])) = j - 1
    <3> HIDE DEF Over, N, r
    <3>1. Cardinality(Over(r[i])) \in Nat /\ Cardinality(Over(r[j])) \in Nat
      BY <1>2, <2>1
    <3> QED BY <2>1, <3>1
  <2>3. i \in Int /\ j \in Int
    BY <1>1
  <2> HIDE DEF Over, rank, N, r
  <2>4. <<r[j], r[i]>> \in above => j - 1 < i - 1
    BY <1>3, <2>1, <2>2
  <2>5. <<r[j], r[i]>> \notin above
    BY <1>11, <2>3, <2>4
  <2>6. r[i] # r[j]
    BY <1>11, <2>1, <2>3
  <2> QED BY <2>1, <2>5, <2>6 DEF Orders
<1> HIDE DEF N, r
<1> QED BY <1>9, <1>10, <1>11 DEF InOrder, N, r

\* The first of an ordered set rank above the rest, the next is the best of the rest.
KeepsBest(kept, M, s, S, above) ==
    LET dropped == S \ Range(kept)
    IN /\ kept \in Seq(S) /\ Len(kept) = M
       /\ \A x \in Range(kept), y \in dropped : <<x, y>> \in above
       /\ dropped # {} => /\ M < Len(s)
                          /\ BestOf(dropped, above) = s[M + 1]
                          /\ Append(kept, s[M + 1]) = SubSeq(s, 1, M + 1)

LEMMA FirstAreBest ==
    ASSUME NEW S, NEW above, Orders(above, S), NEW s, InOrder(s, S, above), NEW M \in 0..Len(s)
    PROVE  KeepsBest(SubSeq(s, 1, M), M, s, S, above)
<1> DEFINE kept == SubSeq(s, 1, M)
           dropped == S \ Range(kept)
<1>1. s \in Seq(S) /\ Len(s) \in Nat /\ M \in Nat /\ M <= Len(s)
  BY DEF InOrder
<1>2. kept \in Seq(S) /\ Len(kept) = M /\ \A i \in 1..M : kept[i] = s[i]
  BY <1>1, SubSeqProperties
<1>3. Range(kept) = {s[i] : i \in 1..M}
  <2>1. Range(kept) = {kept[i] : i \in 1..Len(kept)}
    BY <1>2, RangeEquality
  <2> QED BY <1>2, <2>1
<1>4. ASSUME NEW y \in dropped PROVE \E j \in (M + 1)..Len(s) : y = s[j]
  <2>1. PICK j \in 1..Len(s) : s[j] = y
    BY DEF InOrder
  <2>2. j \notin 1..M
    BY <1>3, <2>1
  <2>3. j \in (M + 1)..Len(s)
    BY <1>1, <2>2
  <2> QED BY <2>1, <2>3
<1>5. ASSUME NEW j \in (M + 1)..Len(s) PROVE s[j] \in dropped
  <2>1. j \in 1..Len(s) /\ s[j] \in S
    BY <1>1
  <2>2. ASSUME NEW i \in 1..M PROVE s[i] # s[j]
    <3>1. i \in 1..Len(s) /\ i < j
      BY <1>1
    <3>2. <<s[i], s[j]>> \in above
      BY <2>1, <3>1 DEF InOrder
    <3> QED BY <2>1, <3>2 DEF Orders
  <2> QED BY <1>3, <2>1, <2>2
<1>6. ASSUME NEW x \in Range(kept), NEW y \in dropped PROVE <<x, y>> \in above
  <2>1. PICK i \in 1..M : x = s[i]
    BY <1>3
  <2>2. PICK j \in (M + 1)..Len(s) : y = s[j]
    BY <1>4
  <2>3. i \in 1..Len(s) /\ j \in 1..Len(s) /\ i < j
    BY <1>1
  <2> QED BY <2>1, <2>2, <2>3 DEF InOrder
<1>7. ASSUME dropped # {}
      PROVE  M < Len(s) /\ BestOf(dropped, above) = s[M + 1] /\ Append(kept, s[M + 1]) = SubSeq(s, 1, M + 1)
  <2>1. M < Len(s) /\ M + 1 \in 1..Len(s) /\ M + 1 \in (M + 1)..Len(s)
    BY <1>1, <1>4, <1>7
  <2>2. s[M + 1] \in dropped /\ s[M + 1] \in S
    BY <1>1, <1>5, <2>1
  <2>3. ASSUME NEW z \in dropped \ {s[M + 1]} PROVE <<s[M + 1], z>> \in above
    <3>1. PICK j \in (M + 1)..Len(s) : z = s[j]
      BY <1>4
    <3>2. j # M + 1
      BY <3>1
    <3>3. j \in 1..Len(s) /\ M + 1 < j
      BY <1>1, <3>2
    <3> QED BY <2>1, <3>1, <3>3 DEF InOrder
  <2>4. ASSUME NEW y \in dropped, \A z \in dropped \ {y} : <<y, z>> \in above PROVE y = s[M + 1]
    <3> SUFFICES ASSUME y # s[M + 1] PROVE FALSE
      OBVIOUS
    <3>1. <<y, s[M + 1]>> \in above /\ <<s[M + 1], y>> \in above /\ y \in S
      BY <2>2, <2>3, <2>4
    <3>2. <<y, y>> \in above
      BY <2>2, <3>1 DEF Orders
    <3> QED BY <3>1, <3>2 DEF Orders
  <2>5. BestOf(dropped, above) = s[M + 1]
    <3>1. \E y \in dropped : \A z \in dropped \ {y} : <<y, z>> \in above
      BY <2>2, <2>3
    <3> DEFINE best == BestOf(dropped, above)
    <3>2. best \in dropped /\ \A z \in dropped \ {best} : <<best, z>> \in above
      BY <3>1, Zenon DEF BestOf
    <3> HIDE DEF best
    <3> QED BY <2>4, <3>2 DEF best
  <2>6. Append(kept, s[M + 1]) = SubSeq(s, 1, M + 1)
    <3>1. /\ Append(kept, s[M + 1]) \in Seq(S) /\ Len(Append(kept, s[M + 1])) = M + 1
          /\ \A i \in 1..M : Append(kept, s[M + 1])[i] = s[i]
          /\ Append(kept, s[M + 1])[M + 1] = s[M + 1]
      BY <1>2, <2>2, AppendProperties
    <3>2. /\ SubSeq(s, 1, M + 1) \in Seq(S) /\ Len(SubSeq(s, 1, M + 1)) = M + 1
          /\ \A i \in 1..(M + 1) : SubSeq(s, 1, M + 1)[i] = s[i]
      <4>1. \A i \in 1..(M + 1) : s[i] \in S
        BY <1>1, <2>1
      <4> QED BY <1>1, <4>1, SubSeqProperties
    <3>3. \A i \in 1..(M + 1) : Append(kept, s[M + 1])[i] = SubSeq(s, 1, M + 1)[i]
      <4>1. \A i \in 1..(M + 1) : i \in 1..M \/ i = M + 1
        BY <1>1
      <4> QED BY <3>1, <3>2, <4>1
    <3> QED BY <3>1, <3>2, <3>3, SeqEqual
  <2> QED BY <2>1, <2>5, <2>6
<1> QED BY <1>2, <1>6, <1>7 DEF KeepsBest

-----------------------------------------------------------------------------
(* The tiers.                                                              *)

LEMMA FittingKeeps ==
    ASSUME NEW V, Sized(V), NEW s \in Seq(V), NEW cap \in Nat
    PROVE  \E M \in 0..Len(s) :
               /\ Fitting(s, cap) = SubSeq(s, 1, M)
               /\ M # 0 => Length(SubSeq(s, 1, M)) <= cap
               /\ M < Len(s) => Length(SubSeq(s, 1, M + 1)) > cap
<1> DEFINE N == Len(s)
           emitted == [n \in 1..N |-> Length(SubSeq(s, 1, n))]
<1>1. N \in Nat
  OBVIOUS
<1>2. emitted \in [1..N -> Nat]
  <2>1. ASSUME NEW n \in 1..N PROVE Length(SubSeq(s, 1, n)) \in Nat
    <3>1. SubSeq(s, 1, n) \in Seq(V)
      OBVIOUS
    <3> QED BY <3>1, LengthTyped
  <2> QED BY <2>1
<1>3. Fitting(s, cap) = Trimmed(s, cap, emitted)
  BY DEF Fitting
<1> HIDE DEF emitted
<1>4. PICK M \in 0..N : /\ Trimmed(s, cap, emitted) = SubSeq(s, 1, M)
                        /\ M # 0 => emitted[M] <= cap
                        /\ M < N => emitted[M + 1] > cap
  BY <1>2, TrimmedFits
<1>5. \A n \in 1..N : emitted[n] = Length(SubSeq(s, 1, n))
  BY DEF emitted
<1>6. (M # 0 => M \in 1..N) /\ (M < N => M + 1 \in 1..N)
  BY <1>1
<1> QED BY <1>3, <1>4, <1>5, <1>6

LEMMA OrderedFits ==
    ASSUME NEW S, Sized(S), NEW above, Orders(above, S), NEW s, InOrder(s, S, above), NEW cap \in Nat, NEW most
    PROVE  FitsBest(Fitting(s, cap), S, above, cap, Length, most)
<1> DEFINE kept == Fitting(s, cap)
           dropped == S \ Range(kept)
<1>1. s \in Seq(S)
  BY DEF InOrder
<1>2. PICK M \in 0..Len(s) : /\ kept = SubSeq(s, 1, M)
                             /\ M # 0 => Length(SubSeq(s, 1, M)) <= cap
                             /\ M < Len(s) => Length(SubSeq(s, 1, M + 1)) > cap
  BY <1>1, FittingKeeps
<1> HIDE DEF kept
<1>3. /\ kept \in Seq(S) /\ Len(kept) = M
      /\ \A x \in Range(kept), y \in dropped : <<x, y>> \in above
      /\ dropped # {} => /\ M < Len(s) /\ BestOf(dropped, above) = s[M + 1]
                         /\ Append(kept, s[M + 1]) = SubSeq(s, 1, M + 1)
  <2>1. KeepsBest(SubSeq(s, 1, M), M, s, S, above)
    BY FirstAreBest
  <2> QED BY <1>2, <2>1 DEF KeepsBest
<1>4. kept = <<>> \/ Length(kept) <= cap
  BY <1>2, <1>3
<1>5. dropped # {} => Length(Append(kept, BestOf(dropped, above))) > cap
  BY <1>2, <1>3
<1> QED BY <1>3, <1>4, <1>5 DEF FitsBest, kept

\* Tier 1: the turns are numbered in their order; the newest stay.
LEMMA TurnsFit ==
    ASSUME NEW w \in Worlds, PackageAssumption
    PROVE  FitsBest(tier1(w.turns), Range(w.turns), Newer(w.turns), TIER1_CHAR_CAP, Length, Len(w.turns))
<1> DEFINE V == [n : Nat, size : Nat]
           turns == w.turns
           S == Range(turns)
           above == Newer(turns)
           r == Reverse(turns)
           N == Len(turns)
           cap == TIER1_CHAR_CAP
<1>1. /\ turns \in Seq(V) /\ \A i, j \in DOMAIN turns : i < j => turns[i].n < turns[j].n
      /\ cap \in Nat
  BY DEF PackageAssumption, IsWorld
<1> HIDE DEF turns, V
<1>2. /\ S = {turns[i] : i \in 1..N} /\ S \in SUBSET V /\ N \in Nat /\ turns \in Seq(S)
      /\ DOMAIN turns = 1..N /\ \A i \in 1..N : turns[i] \in V
  BY <1>1, RangeEquality, RangeOfSeq, SeqOfRange
<1>3. Sized(V) /\ Sized(S)
  BY <1>2 DEF Sized, V
<1>4. ASSUME NEW i \in 1..N, NEW j \in 1..N, i < j PROVE turns[i].n < turns[j].n
  BY <1>1, <1>2, <1>4
<1>5. \A x, y \in S : x.n = y.n => x = y
  <2> SUFFICES ASSUME NEW i \in 1..N, NEW j \in 1..N, turns[i].n = turns[j].n PROVE turns[i] = turns[j]
    BY <1>2
  <2>1. i \in Nat /\ j \in Nat /\ turns[i].n \in Nat /\ turns[j].n \in Nat
    BY <1>2 DEF V
  <2>2. ~(i < j) /\ ~(j < i)
    BY <1>4, <2>1
  <2> QED BY <2>1, <2>2
<1>6. \A x, y \in S : <<x, y>> \in above <=> x.n > y.n
  BY DEF Newer
<1>7. Orders(above, S)
  <2> HIDE DEF above, S
  <2>1. \A x \in S : x.n \in Nat
    BY <1>2 DEF V
  <2> QED BY <1>5, <1>6, <2>1 DEF Orders
<1>8. r \in Seq(S) /\ Len(r) = N /\ \A n \in 1..N : r[n] = turns[(N - n) + 1]
  BY <1>2, Turned
<1>9. InOrder(r, S, above)
  <2> HIDE DEF turns, S, above, r, N
  <2>1. ASSUME NEW x \in S PROVE \E i \in 1..N : r[i] = x
    <3>1. PICK i \in 1..N : x = turns[i]
      BY <1>2
    <3>2. (N - i) + 1 \in 1..N /\ (N - ((N - i) + 1)) + 1 = i
      BY <1>2
    <3>3. r[(N - i) + 1] = x
      BY <1>8, <3>1, <3>2
    <3> QED BY <3>2, <3>3
  <2>2. ASSUME NEW i \in 1..N, NEW j \in 1..N, i < j PROVE <<r[i], r[j]>> \in above
    <3>1. (N - i) + 1 \in 1..N /\ (N - j) + 1 \in 1..N /\ (N - j) + 1 < (N - i) + 1
      BY <1>2, <2>2
    <3>2. turns[(N - j) + 1].n < turns[(N - i) + 1].n
      BY <1>4, <3>1
    <3>3. r[j].n < r[i].n /\ r[i] \in S /\ r[j] \in S
      BY <1>8, <3>2
    <3>4. r[i].n \in Nat /\ r[j].n \in Nat
      BY <1>2, <3>3 DEF V
    <3> QED BY <1>6, <3>3, <3>4
  <2> QED BY <1>8, <2>1, <2>2 DEF InOrder
<1> HIDE DEF turns, S, above, r, N, cap, V
<1>10. PICK M \in 0..N : /\ Fitting(r, cap) = SubSeq(r, 1, M)
                         /\ M # 0 => Length(SubSeq(r, 1, M)) <= cap
                         /\ M < N => Length(SubSeq(r, 1, M + 1)) > cap
  BY <1>1, <1>3, <1>8, FittingKeeps
<1> DEFINE k == SubSeq(r, 1, M)
           kept == Reverse(k)
           dropped == S \ Range(k)
<1>11. /\ k \in Seq(S) /\ Len(k) = M
       /\ \A x \in Range(k), y \in dropped : <<x, y>> \in above
       /\ dropped # {} => /\ M < N /\ BestOf(dropped, above) = r[M + 1]
                          /\ Append(k, r[M + 1]) = SubSeq(r, 1, M + 1)
  <2>1. M \in 0..Len(r)
    BY <1>8
  <2>2. KeepsBest(SubSeq(r, 1, M), M, r, S, above)
    BY <1>7, <1>9, <2>1, FirstAreBest
  <2> QED BY <1>8, <2>2 DEF KeepsBest
<1> HIDE DEF k
<1>12. kept \in Seq(S) /\ Len(kept) = M /\ Length(kept) = Length(k)
  BY <1>3, <1>11, Turned, LengthOfTurned
<1>13. Range(kept) = Range(k)
  <2>1. M \in Nat /\ \A n \in 1..M : kept[n] = k[(M - n) + 1]
    BY <1>11, Turned
  <2>2. Range(kept) = {kept[n] : n \in 1..M} /\ Range(k) = {k[n] : n \in 1..M}
    BY <1>11, <1>12, RangeEquality
  <2> HIDE DEF kept
  <2>3. ASSUME NEW n \in 1..M PROVE (M - n) + 1 \in 1..M /\ kept[(M - n) + 1] = k[n]
    <3>1. (M - n) + 1 \in 1..M /\ (M - ((M - n) + 1)) + 1 = n
      BY <2>1
    <3> QED BY <2>1, <3>1
  <2> QED BY <2>1, <2>2, <2>3
<1> HIDE DEF kept
<1>14. kept = <<>> \/ Length(kept) <= cap
  BY <1>10, <1>12 DEF k
<1>15. dropped # {} => Length(Append(kept, BestOf(dropped, above))) > cap
  <2> SUFFICES ASSUME dropped # {} PROVE Length(Append(kept, r[M + 1])) > cap
    BY <1>11
  <2>1. M < N /\ M + 1 \in 1..N /\ Append(k, r[M + 1]) = SubSeq(r, 1, M + 1)
    BY <1>2, <1>11
  <2>2. r[M + 1] \in S
    BY <1>8, <2>1
  <2>3. /\ Length(Append(kept, r[M + 1])) = Length(kept) + r[M + 1].size
        /\ Length(Append(k, r[M + 1])) = Length(k) + r[M + 1].size
    BY <1>3, <1>11, <1>12, <2>2, LengthOfMore
  <2> QED BY <1>10, <1>12, <2>1, <2>3
<1>16. tier1(turns) = kept
  BY <1>10 DEF tier1, kept, k, r, cap
<1>17. FitsBest(kept, S, above, cap, Length, N)
  BY <1>11, <1>13, <1>14, <1>15 DEF FitsBest
<1> QED BY <1>16, <1>17 DEF turns, S, above, N, cap

\* What the searches and the registry return.
LEMMA FiniteHits ==
    ASSUME NEW w \in Worlds, PackageAssumption
    PROVE  /\ IsFiniteSet(w.hits) /\ IsFiniteSet(w.facts)
           /\ \A h \in w.hits : h.id \in Nat /\ h.score \in Int /\ h.clean \in BOOLEAN /\ h.size \in Nat
           /\ \A f \in w.facts : f.id \in Nat /\ f.relevance \in Nat /\ f.size \in Nat
           /\ \A x, y \in w.hits : x.id = y.id => x = y
           /\ \A x, y \in w.facts : x.id = y.id => x = y
<1>1. /\ w.hits \subseteq [id : Nat, score : Int, clean : BOOLEAN, size : Nat] /\ Numbered(w.hits)
      /\ w.facts \subseteq [id : Nat, relevance : Nat, project : STRING, size : Nat] /\ Numbered(w.facts)
  BY DEF PackageAssumption, IsWorld
<1> DEFINE hits == w.hits
           facts == w.facts
<1> HIDE DEF hits, facts
<1>2. /\ hits \subseteq [id : Nat, score : Int, clean : BOOLEAN, size : Nat] /\ Numbered(hits)
      /\ facts \subseteq [id : Nat, relevance : Nat, project : STRING, size : Nat] /\ Numbered(facts)
  BY <1>1 DEF hits, facts
<1>3. \A h \in hits : h.id \in Nat /\ h.score \in Int /\ h.clean \in BOOLEAN /\ h.size \in Nat
  BY <1>2
<1>4. \A f \in facts : f.id \in Nat /\ f.relevance \in Nat /\ f.size \in Nat
  BY <1>2
<1> QED BY <1>2, <1>3, <1>4 DEF Numbered, hits, facts

\* Tier 4.
LEMMA FactsFit ==
    ASSUME NEW w \in Worlds, PackageAssumption
    PROVE  FitsBest(_tier4_facts(w), facts_for(w), RanksAbove(w.facts), TIER4_CHAR_CAP, Length, Cardinality(w.facts))
<1> DEFINE facts == w.facts
           S == facts_for(w)
           above == RanksAbove(facts)
<1>1. /\ IsFiniteSet(facts) /\ TIER4_CHAR_CAP \in Nat /\ \A x, y \in facts : x.id = y.id => x = y
      /\ \A f \in facts : f.id \in Nat /\ f.relevance \in Nat /\ f.size \in Nat
  BY FiniteHits DEF PackageAssumption
<1>2. S \in SUBSET facts
  BY DEF facts_for
<1> HIDE DEF facts, S
<1>3. \A x, y \in facts : <<x, y>> \in above <=>
                           \/ x.relevance > y.relevance
                           \/ x.relevance = y.relevance /\ x.id < y.id
  BY DEF RanksAbove
<1> HIDE DEF above
<1>4. Orders(above, S)
  <2>1. \A x \in S : x \in facts /\ x.id \in Nat /\ x.relevance \in Nat
    BY <1>1, <1>2
  <2>2. ASSUME NEW x \in S PROVE <<x, x>> \notin above
    BY <1>3, <2>1
  <2>3. ASSUME NEW x \in S, NEW y \in S, x # y PROVE <<x, y>> \in above \/ <<y, x>> \in above
    <3>1. x.id # y.id
      BY <1>1, <2>1, <2>3
    <3> QED BY <1>3, <2>1, <3>1
  <2>4. ASSUME NEW x \in S, NEW y \in S, NEW z \in S, <<x, y>> \in above, <<y, z>> \in above
        PROVE  <<x, z>> \in above
    BY <1>3, <2>1, <2>4
  <2> QED BY <2>2, <2>3, <2>4 DEF Orders
<1>5. IsFiniteSet(S)
  BY <1>1, <1>2, FS_Subset
<1>6. InOrder(Ranked(S, above), S, above)
  BY <1>4, <1>5, RankedInOrder
<1>7. Sized(S)
  BY <1>1, <1>2 DEF Sized
<1>8. FitsBest(Fitting(Ranked(S, above), TIER4_CHAR_CAP), S, above, TIER4_CHAR_CAP, Length, Cardinality(facts))
  BY <1>1, <1>4, <1>6, <1>7, OrderedFits
<1> QED BY <1>8 DEF _tier4_facts, S, above, facts

\* Tier 3: what is emitted is counted with the rubrics, and no more than TIER3_TOP_K are looked at.
LEMMA RenderTyped ==
    ASSUME NEW V, Sized(V), \A v \in V : v.clean \in BOOLEAN, NEW hits \in Seq(V), RubricSize \in Nat
    PROVE  _render(hits) \in Nat
<1>1. Length(hits) \in Nat
  BY LengthTyped
<1>2. IsFiniteSet(BOOLEAN)
  <2>1. BOOLEAN = {TRUE} \cup {FALSE}
    OBVIOUS
  <2>2. IsFiniteSet({TRUE}) /\ IsFiniteSet({FALSE})
    BY FS_Singleton
  <2> QED BY <2>1, <2>2, FS_Union
<1> DEFINE kinds == {hits[i].clean : i \in DOMAIN hits}
<1>3. kinds \in SUBSET BOOLEAN
  OBVIOUS
<1> HIDE DEF kinds
<1>4. Cardinality(kinds) \in Nat
  BY <1>2, <1>3, FS_Subset, FS_CardinalityType
<1>5. _render(hits) = Length(hits) + RubricSize * Cardinality(kinds)
  BY DEF _render, kinds
<1> QED BY <1>1, <1>4, <1>5

LEMMA HitsFit ==
    ASSUME NEW w \in Worlds, PackageAssumption, w.advisor = "kai", w.store = "up"
    PROVE  FitsBest(_tier3_recall(w), {h \in w.hits : h.score >= TIER3_SCORE_THRESHOLD}, Nearer(w.hits),
                    TIER3_CHAR_CAP, _render, TIER3_TOP_K)
<1> DEFINE hits == w.hits
           S == {h \in hits : h.score >= TIER3_SCORE_THRESHOLD}
           above == Nearer(hits)
           r == Ranked(S, above)
           K == IF Len(r) < TIER3_TOP_K THEN Len(r) ELSE TIER3_TOP_K
           near == SubSeq(r, 1, K)
           cap == TIER3_CHAR_CAP
<1>1. /\ IsFiniteSet(hits) /\ cap \in Nat /\ TIER3_TOP_K \in Nat /\ RubricSize \in Nat
      /\ \A x, y \in hits : x.id = y.id => x = y
      /\ \A h \in hits : h.id \in Nat /\ h.score \in Int /\ h.clean \in BOOLEAN /\ h.size \in Nat
  BY FiniteHits DEF PackageAssumption
<1>2. Gated(hits) = near
  BY DEF Gated
<1>3. _tier3_recall(w) = Trimmed(near, cap, [n \in 1..Len(near) |-> _render(SubSeq(near, 1, n))])
  BY <1>2 DEF _tier3_recall
<1> HIDE DEF hits, cap
<1>4. S \in SUBSET hits
  OBVIOUS
<1> HIDE DEF S
<1>5. \A x, y \in hits : <<x, y>> \in above <=> x.score > y.score \/ (x.score = y.score /\ x.id < y.id)
  BY DEF Nearer
<1> HIDE DEF above
<1>6. Orders(above, S)
  <2>1. \A x \in S : x \in hits /\ x.id \in Nat /\ x.score \in Int
    BY <1>1, <1>4
  <2>2. ASSUME NEW x \in S PROVE <<x, x>> \notin above
    BY <1>5, <2>1
  <2>3. ASSUME NEW x \in S, NEW y \in S, x # y PROVE <<x, y>> \in above \/ <<y, x>> \in above
    <3>1. x.id # y.id
      BY <1>1, <2>1, <2>3
    <3> QED BY <1>5, <2>1, <3>1
  <2>4. ASSUME NEW x \in S, NEW y \in S, NEW z \in S, <<x, y>> \in above, <<y, z>> \in above
        PROVE  <<x, z>> \in above
    BY <1>5, <2>1, <2>4
  <2> QED BY <2>2, <2>3, <2>4 DEF Orders
<1>7. InOrder(r, S, above)
  BY <1>1, <1>4, <1>6, RankedInOrder, FS_Subset
<1> HIDE DEF r
<1>8. r \in Seq(S) /\ K \in 0..Len(r) /\ K <= TIER3_TOP_K /\ (K < Len(r) => K = TIER3_TOP_K)
  BY <1>1, <1>7 DEF InOrder
<1> HIDE DEF K
<1>9. near \in Seq(S) /\ Len(near) = K /\ \A n \in 0..K : SubSeq(near, 1, n) = SubSeq(r, 1, n)
  <2>1. near \in Seq(S) /\ Len(near) = K /\ \A i \in 1..K : near[i] = r[i]
    BY <1>8
  <2>2. ASSUME NEW n \in 0..K PROVE SubSeq(near, 1, n) = SubSeq(r, 1, n)
    <3> HIDE DEF near
    <3>1. /\ SubSeq(near, 1, n) \in Seq(S) /\ Len(SubSeq(near, 1, n)) = n
          /\ \A i \in 1..n : SubSeq(near, 1, n)[i] = near[i]
      BY <1>8, <2>1
    <3>2. /\ SubSeq(r, 1, n) \in Seq(S) /\ Len(SubSeq(r, 1, n)) = n
          /\ \A i \in 1..n : SubSeq(r, 1, n)[i] = r[i]
      BY <1>8
    <3>3. \A i \in 1..n : i \in 1..K
      BY <1>8
    <3> QED BY <2>1, <3>1, <3>2, <3>3, SeqEqual
  <2> QED BY <2>1, <2>2
<1>10. Sized(S) /\ \A v \in S : v.clean \in BOOLEAN
  BY <1>1, <1>4 DEF Sized
<1> HIDE DEF near
<1> DEFINE emitted == [n \in 1..Len(near) |-> _render(SubSeq(near, 1, n))]
<1>11. ASSUME NEW n \in 1..K PROVE SubSeq(r, 1, n) \in Seq(S) /\ _render(SubSeq(r, 1, n)) \in Nat
  <2>1. SubSeq(r, 1, n) \in Seq(S)
    BY <1>8
  <2> QED BY <1>1, <1>10, <2>1, RenderTyped
<1>12. emitted \in [1..Len(near) -> Nat] /\ \A n \in 1..K : emitted[n] = _render(SubSeq(r, 1, n))
  <2>1. \A n \in 1..K : n \in 0..K
    OBVIOUS
  <2> QED BY <1>9, <1>11, <2>1
<1> HIDE DEF emitted
<1>13. PICK M \in 0..Len(near) : /\ Trimmed(near, cap, emitted) = SubSeq(near, 1, M)
                                 /\ M # 0 => emitted[M] <= cap
                                 /\ M < Len(near) => emitted[M + 1] > cap
  BY <1>1, <1>9, <1>12, TrimmedFits
<1> DEFINE kept == SubSeq(r, 1, M)
           dropped == S \ Range(kept)
<1>14. /\ M \in 0..K /\ M \in 0..Len(r) /\ kept = Trimmed(near, cap, emitted)
       /\ M # 0 => _render(SubSeq(r, 1, M)) <= cap
       /\ M < K => _render(SubSeq(r, 1, M + 1)) > cap
  <2>1. M \in 0..K /\ K \in Nat /\ M \in 0..Len(r)
    BY <1>8, <1>9, <1>13
  <2>2. (M # 0 => M \in 1..K) /\ (M < K => M + 1 \in 1..K)
    BY <2>1
  <2> QED BY <1>9, <1>12, <1>13, <2>1, <2>2
<1>15. KeepsBest(kept, M, r, S, above)
  BY <1>6, <1>7, <1>14, FirstAreBest
<1> HIDE DEF kept
<1>16. /\ kept \in Seq(S) /\ Len(kept) = M
       /\ \A x \in Range(kept), y \in dropped : <<x, y>> \in above
       /\ dropped # {} => /\ M < Len(r) /\ BestOf(dropped, above) = r[M + 1]
                          /\ Append(kept, r[M + 1]) = SubSeq(r, 1, M + 1)
  BY <1>15 DEF KeepsBest
<1>17. kept = <<>> \/ _render(kept) <= cap
  BY <1>14, <1>16 DEF kept
<1>18. dropped # {} /\ Len(kept) < TIER3_TOP_K => _render(Append(kept, BestOf(dropped, above))) > cap
  <2> SUFFICES ASSUME dropped # {}, M < TIER3_TOP_K PROVE _render(Append(kept, BestOf(dropped, above))) > cap
    BY <1>16
  <2>1. M < K
    BY <1>1, <1>8, <1>14, <1>16
  <2> QED BY <1>14, <1>16, <2>1
<1>19. FitsBest(kept, S, above, cap, _render, TIER3_TOP_K)
  BY <1>16, <1>17, <1>18 DEF FitsBest
<1>20. kept = _tier3_recall(w)
  BY <1>3, <1>14 DEF emitted
<1> QED BY <1>19, <1>20 DEF S, above, hits, cap

\* Tier 5: each text once, those that are there in the order of the list.
LEMMA BlocksFit ==
    ASSUME NEW w \in Worlds, PackageAssumption, NEW names \in Seq(Names), NEW cap \in Nat,
           \A i, j \in 1..Len(names) : names[i] = names[j] => i = j
    PROVE  FitsBest(Fitting(_register_block(w, names), cap), Blocks(w, names), Earlier(w, names), cap, Length, Len(names))
<1> DEFINE N == Len(names)
           I == {i \in DOMAIN names : There(w, names[i])}
           B == [i \in 1..N |-> Block(w, names[i])]
           there == Ranked(I, Before)
           b == _register_block(w, names)
           S == Blocks(w, names)
           above == Earlier(w, names)
<1>1. N \in Nat /\ DOMAIN names = 1..N /\ \A i \in 1..N : names[i] \in Names
  OBVIOUS
<1>2. w.size \in [Names -> Nat]
  BY DEF PackageAssumption, IsWorld
<1>3. \A i \in 1..N : B[i] = Block(w, names[i]) /\ B[i].name = names[i] /\ B[i].size \in Nat
  <2>1. ASSUME NEW i \in 1..N PROVE B[i] = Block(w, names[i]) /\ B[i].name = names[i] /\ B[i].size \in Nat
    <3>1. B[i] = [name |-> names[i], size |-> w.size[names[i]]]
      BY DEF Block
    <3>2. w.size[names[i]] \in Nat
      BY <1>1, <1>2
    <3> QED BY <3>1, <3>2 DEF Block
  <2> HIDE DEF B
  <2> QED BY <2>1
<1>4. I \in SUBSET (1..N)
  BY <1>1
<1>5. S = {B[i] : i \in I}
  BY <1>1, <1>4 DEF Blocks
<1>6. \A p : p \in above <=> /\ p \in S \X S
                            /\ \E i, j \in 1..N : i < j /\ names[i] = p[1].name /\ names[j] = p[2].name
  BY <1>1 DEF Earlier
<1>7. b = [i \in DOMAIN there |-> Block(w, names[there[i]])]
  BY DEF _register_block
<1> HIDE DEF B, N, I, S, above, b
<1>8. \A i, j \in 1..N : B[i] = B[j] => i = j
  BY <1>3 DEF N
<1>9. ASSUME NEW i \in I, NEW j \in I PROVE <<B[i], B[j]>> \in above <=> i < j
  <2>1. i \in 1..N /\ j \in 1..N /\ B[i] \in S /\ B[j] \in S /\ B[i].name = names[i] /\ B[j].name = names[j]
    BY <1>3, <1>4, <1>5
  <2> DEFINE p == <<B[i], B[j]>>
  <2>2. p[1].name = names[i] /\ p[2].name = names[j] /\ p \in S \X S
    BY <2>1
  <2> HIDE DEF p
  <2>3. \A k, l \in 1..N : names[k] = names[i] /\ names[l] = names[j] => k = i /\ l = j
    BY <2>1 DEF N
  <2>4. p \in above <=> i < j
    BY <1>6, <2>1, <2>2, <2>3
  <2> QED BY <2>4 DEF p
<1>10. IsFiniteSet(I) /\ \A i \in I : i \in Nat
  <2>1. IsFiniteSet(1..N)
    BY <1>1, FS_Interval
  <2>2. I \in SUBSET (1..N) /\ \A i \in I : i \in Nat
    BY <1>1, <1>4
  <2>3. IsFiniteSet(I)
    BY <2>1, <2>2, FS_Subset
  <2> QED BY <2>2, <2>3
<1>11. Orders(Before, I)
  <2>1. \A i, j \in I : <<i, j>> \in Before <=> i < j
    BY <1>10 DEF Before
  <2> QED BY <1>10, <2>1 DEF Orders
<1>12. InOrder(there, I, Before)
  BY <1>10, <1>11, RankedInOrder
<1> HIDE DEF there
<1>13. /\ there \in Seq(I) /\ Len(there) \in Nat /\ DOMAIN there = 1..Len(there)
       /\ \A i \in I : \E k \in 1..Len(there) : there[k] = i
       /\ \A k, l \in 1..Len(there) : k < l => there[k] < there[l]
  <2>1. there \in Seq(I) /\ \A i \in I : \E k \in 1..Len(there) : there[k] = i
    BY <1>12 DEF InOrder
  <2>2. Len(there) \in Nat /\ DOMAIN there = 1..Len(there)
    BY <2>1, LenProperties
  <2>3. ASSUME NEW k \in 1..Len(there), NEW l \in 1..Len(there), k < l PROVE there[k] < there[l]
    <3> DEFINE p == <<there[k], there[l]>>
    <3>1. p \in Before
      BY <1>12, <2>3 DEF InOrder
    <3> HIDE DEF p
    <3>2. p[1] < p[2]
      BY <3>1 DEF Before
    <3> QED BY <3>2 DEF p
  <2> QED BY <2>1, <2>2, <2>3
<1>14. ASSUME NEW k \in 1..Len(there) PROVE there[k] \in I /\ there[k] \in 1..N /\ B[there[k]] \in S
  <2>1. there[k] \in I
    BY <1>13, ElementOfSeq
  <2> QED BY <1>4, <1>5, <2>1
<1>15. b = [k \in 1..Len(there) |-> B[there[k]]]
  BY <1>3, <1>7, <1>13, <1>14
<1>16. b \in Seq(S) /\ Len(b) = Len(there)
  BY <1>13, <1>14, <1>15
<1>17. InOrder(b, S, above)
  <2>1. ASSUME NEW x \in S PROVE \E k \in 1..Len(b) : b[k] = x
    <3>1. PICK i \in I : x = B[i]
      BY <1>5
    <3>2. PICK k \in 1..Len(there) : there[k] = i
      BY <1>13
    <3> QED BY <1>15, <1>16, <3>1, <3>2
  <2>2. ASSUME NEW k \in 1..Len(b), NEW l \in 1..Len(b), k < l PROVE <<b[k], b[l]>> \in above
    <3>1. there[k] \in I /\ there[l] \in I /\ there[k] < there[l]
      BY <1>13, <1>14, <1>16, <2>2
    <3>2. b[k] = B[there[k]] /\ b[l] = B[there[l]]
      BY <1>15, <1>16
    <3> QED BY <1>9, <3>1, <3>2
  <2> QED BY <1>16, <2>1, <2>2 DEF InOrder
<1>18. Orders(above, S)
  <2>1. ASSUME NEW x \in S PROVE <<x, x>> \notin above
    <3>1. PICK i \in I : x = B[i]
      BY <1>5
    <3>2. ~(i < i)
      BY <1>10
    <3>3. <<B[i], B[i]>> \in above <=> i < i
      BY <1>9
    <3> QED BY <3>1, <3>2, <3>3
  <2>2. ASSUME NEW x \in S, NEW y \in S, x # y PROVE <<x, y>> \in above \/ <<y, x>> \in above
    <3>1. PICK i \in I : x = B[i]
      BY <1>5
    <3>2. PICK j \in I : y = B[j]
      BY <1>5
    <3>3. i < j \/ j < i
      BY <1>10, <2>2, <3>1, <3>2
    <3> QED BY <1>9, <3>1, <3>2, <3>3
  <2>3. ASSUME NEW x \in S, NEW y \in S, NEW z \in S, <<x, y>> \in above, <<y, z>> \in above
        PROVE  <<x, z>> \in above
    <3>1. PICK i \in I : x = B[i]
      BY <1>5
    <3>2. PICK j \in I : y = B[j]
      BY <1>5
    <3>3. PICK k \in I : z = B[k]
      BY <1>5
    <3>4. i < j /\ j < k
      BY <1>9, <2>3, <3>1, <3>2, <3>3
    <3>5. i < k
      BY <1>10, <3>4
    <3> QED BY <1>9, <3>1, <3>3, <3>5
  <2> QED BY <2>1, <2>2, <2>3 DEF Orders
<1>19. Sized(S)
  BY <1>3, <1>4, <1>5 DEF Sized
<1>20. FitsBest(Fitting(b, cap), S, above, cap, Length, N)
  BY <1>17, <1>18, <1>19, OrderedFits
<1> QED BY <1>20 DEF b, S, above, N

LEMMA NamesOnce ==
    /\ StableBlocks \in Seq(Names) /\ \A i, j \in 1..Len(StableBlocks) : StableBlocks[i] = StableBlocks[j] => i = j
    /\ VolatileBlocks \in Seq(Names) /\ \A i, j \in 1..Len(VolatileBlocks) : VolatileBlocks[i] = VolatileBlocks[j] => i = j
<1>1. Len(StableBlocks) = 8 /\ DOMAIN StableBlocks = 1..8
  BY DEF StableBlocks
<1>2. Len(VolatileBlocks) = 5 /\ DOMAIN VolatileBlocks = 1..5
  BY DEF VolatileBlocks
<1>3. /\ StableBlocks = [i \in 1..8 |-> StableBlocks[i]]
      /\ VolatileBlocks = [i \in 1..5 |-> VolatileBlocks[i]]
  BY DEF StableBlocks, VolatileBlocks
<1>4. StableBlocks \in Seq(Names) /\ VolatileBlocks \in Seq(Names)
  <2>1. (\A i \in 1..8 : StableBlocks[i] \in Names) /\ \A i \in 1..5 : VolatileBlocks[i] \in Names
    BY <1>1, <1>2 DEF Names, Range
  <2>2. StableBlocks \in [1..8 -> Names] /\ VolatileBlocks \in [1..5 -> Names]
    BY <1>3, <2>1
  <2>3. PICK n, m : n \in Nat /\ m \in Nat /\ n = 8 /\ m = 5
    OBVIOUS
  <2>4. StableBlocks \in [1..n -> Names] /\ VolatileBlocks \in [1..m -> Names]
    BY <2>2, <2>3, Zenon
  <2>5. \A k \in Nat : \A s \in [1..k -> Names] : s \in Seq(Names)
    OBVIOUS
  <2> QED BY <2>3, <2>4, <2>5, Zenon
<1>5. \A i, j \in 1..8 : StableBlocks[i] = StableBlocks[j] => i = j
  BY DEF StableBlocks
<1>6. \A i, j \in 1..5 : VolatileBlocks[i] = VolatileBlocks[j] => i = j
  BY DEF VolatileBlocks
<1> QED BY <1>1, <1>2, <1>4, <1>5, <1>6

-----------------------------------------------------------------------------
(* The package is put together from the world it is asked in.              *)

PackageInv == world \in Worlds /\ package \in {NoPackage, assemble(world)}

LEMMA AssembledFits ==
    ASSUME PackageAssumption, PackageInv PROVE PackageFits
<1> SUFFICES ASSUME package # NoPackage PROVE PackageFits
  BY DEF PackageFits
<1> DEFINE w == world
<1>1. w \in Worlds /\ package = assemble(w) /\ "persona" \notin w.missing
  BY DEF PackageInv, assemble
<1>2. /\ package.turns = tier1(w.turns) /\ package.hits = _tier3_recall(w) /\ package.facts = _tier4_facts(w)
      /\ package.stable = Fitting(_register_block(w, StableBlocks), TIER5_STABLE_CHAR_CAP)
      /\ package.volatile = Fitting(_register_block(w, VolatileBlocks), TIER5_VOLATILE_CHAR_CAP)
      /\ package.alarms = Alarms(w, tier1(w.turns), _tier3_recall(w))
  BY <1>1 DEF assemble, tier5_standing_context
<1>3. TIER5_STABLE_CHAR_CAP \in Nat /\ TIER5_VOLATILE_CHAR_CAP \in Nat
  BY DEF PackageAssumption
<1>4. FitsBest(package.turns, Range(w.turns), Newer(w.turns), TIER1_CHAR_CAP, Length, Len(w.turns))
  BY <1>1, <1>2, TurnsFit
<1>5. w.advisor = "kai" /\ w.store = "up" =>
          FitsBest(package.hits, {h \in w.hits : h.score >= TIER3_SCORE_THRESHOLD}, Nearer(w.hits),
                   TIER3_CHAR_CAP, _render, TIER3_TOP_K)
  BY <1>1, <1>2, HitsFit
<1>6. FitsBest(package.facts, facts_for(w), RanksAbove(w.facts), TIER4_CHAR_CAP, Length, Cardinality(w.facts))
  BY <1>1, <1>2, FactsFit
<1>7. FitsInOrder(package.stable, StableBlocks, TIER5_STABLE_CHAR_CAP)
  BY <1>1, <1>2, <1>3, NamesOnce, BlocksFit DEF FitsInOrder
<1>8. FitsInOrder(package.volatile, VolatileBlocks, TIER5_VOLATILE_CHAR_CAP)
  BY <1>1, <1>2, <1>3, NamesOnce, BlocksFit DEF FitsInOrder
<1>9. w.advisor = "kai" /\ w.missing \cap KaiOnly # {} => "inv_context_t5" \in package.alarms
  BY <1>2 DEF Alarms, Warnings
<1> QED BY <1>4, <1>5, <1>6, <1>7, <1>8, <1>9 DEF PackageFits

\* Whatever the stores hold and however large the ceilings are, each tier of a package keeps
\* the best of what there is, up to its ceiling and no further (assemble and its tiers).
THEOREM PackageAlwaysFits == PKSpec => []PackageFits
<1>1. PKInit => PackageInv
  BY DEF PKInit, PackageInv
<1>2. PackageInv /\ [PKNext]_pkVars => PackageInv'
  BY DEF PackageInv, PKNext, pkVars, assemble, NoPackage
<1>3. PackageInv => PackageFits
  BY PackageAssumption, AssembledFits
<1> QED BY <1>1, <1>2, <1>3, PTL DEF PKSpec

-----------------------------------------------------------------------------
(* The validator of documents.                                             *)

BlockState == [stack : Seq(BlockNames), fine : BOOLEAN]

LEMMA Advances ==
    ASSUME NEW st \in BlockState, NEW d \in Delimiters
    PROVE  LET next == Advance(st, d) IN
           /\ next \in BlockState
           /\ next.fine => st.fine
           /\ next.fine /\ d.kind # "close" => d.name \in ALLOWED_BLOCKS /\ d.attrs = "json"
           /\ d.kind = "open" => next.stack = <<d.name>> \o st.stack
           /\ d.kind = "void" => next.stack = st.stack
           /\ d.kind = "close" /\ next.fine => st.stack # <<>> /\ Head(st.stack) = d.name /\ next.stack = Tail(st.stack)
<1> DEFINE next == Advance(st, d)
<1>1. /\ d.kind \in {"open", "void", "close"} /\ d.name \in BlockNames
      /\ st.stack \in Seq(BlockNames) /\ st.fine \in BOOLEAN /\ st = [stack |-> st.stack, fine |-> st.fine]
  BY DEF Delimiters, BlockState
<1>2. CASE d.kind = "close"
  <2>1. CASE st.stack # <<>> /\ Head(st.stack) = d.name
    <3>1. next = [stack |-> Tail(st.stack), fine |-> st.fine]
      BY <1>1, <1>2, <2>1 DEF Advance, Close
    <3>2. Tail(st.stack) \in Seq(BlockNames)
      BY <1>1, <2>1
    <3> QED BY <1>1, <1>2, <2>1, <3>1, <3>2 DEF BlockState
  <2>2. CASE ~(st.stack # <<>> /\ Head(st.stack) = d.name)
    <3>1. next = [stack |-> st.stack, fine |-> FALSE]
      BY <1>1, <1>2, <2>2 DEF Advance, Close
    <3> QED BY <1>1, <1>2, <3>1 DEF BlockState
  <2> QED BY <2>1, <2>2
<1>3. CASE d.kind # "close"
  <2>1. next = [stack |-> IF d.kind = "void" THEN st.stack ELSE <<d.name>> \o st.stack,
                fine |-> st.fine /\ d.name \in ALLOWED_BLOCKS /\ d.attrs = "json"]
    BY <1>3 DEF Advance, OpenBlock
  <2>2. <<d.name>> \o st.stack \in Seq(BlockNames)
    BY <1>1
  <2>3. next.stack = (IF d.kind = "void" THEN st.stack ELSE <<d.name>> \o st.stack)
    BY <2>1
  <2>4. next.fine = (st.fine /\ d.name \in ALLOWED_BLOCKS /\ d.attrs = "json")
    BY <2>1
  <2>5. next \in BlockState
    BY <1>1, <2>1, <2>2 DEF BlockState
  <2> QED BY <1>1, <1>3, <2>3, <2>4, <2>5
<1> QED BY <1>2, <1>3

\* The states the validator goes through.
Reads(doc, after) ==
    /\ after \in [0..Len(doc) -> BlockState] /\ after[0] = [stack |-> <<>>, fine |-> TRUE]
    /\ \A n \in 1..Len(doc) : after[n] = Advance(after[n - 1], doc[n])

LEMMA ValidReads ==
    ASSUME NEW doc \in Seq(Delimiters), NEW text, validate(doc, text)
    PROVE  \E after : Reads(doc, after) /\ after[Len(doc)].fine /\ after[Len(doc)].stack = <<>>
<1> DEFINE N == Len(doc)
           start == [stack |-> <<>>, fine |-> TRUE]
           Def(f) == f = [n \in 0..N |-> IF n = 0 THEN start ELSE Advance(f[n - 1], doc[n])]
           after == CHOOSE f : Def(f)
           step == [n \in 1..N |-> [st \in BlockState |-> Advance(st, doc[n])]]
<1>1. N \in Nat /\ \A n \in 1..N : doc[n] \in Delimiters
  OBVIOUS
<1>2. after[N].fine /\ after[N].stack = <<>>
  BY Zenon DEF validate
<1> HIDE DEF N
<1>3. step \in Steps(N, BlockState) /\ start \in BlockState
  <2>1. ASSUME NEW n \in 1..N, NEW st \in BlockState PROVE Advance(st, doc[n]) \in BlockState
    <3>1. doc[n] \in Delimiters
      BY <1>1
    <3> QED BY <3>1, Advances
  <2>2. \A n \in 1..N : [st \in BlockState |-> Advance(st, doc[n])] \in [BlockState -> BlockState]
    BY <2>1
  <2>3. start \in BlockState
    BY DEF BlockState
  <2> QED BY <2>2, <2>3 DEF Steps
<1> HIDE DEF start
<1>4. PICK f : GoesBy(f, N, BlockState, start, step)
  <2> HIDE DEF step
  <2> QED BY <1>1, <1>3, StepByStep
<1>5. f \in [0..N -> BlockState] /\ f[0] = start /\ \A n \in 1..N : f[n] = Advance(f[n - 1], doc[n])
  <2>1. \A n \in 1..N : f[n - 1] \in BlockState /\ f[n] = step[n][f[n - 1]]
    BY <1>1, <1>4 DEF GoesBy
  <2> QED BY <1>4, <2>1 DEF GoesBy
<1>6. Def(f)
  <2>1. \A n \in 0..N : n # 0 => n \in 1..N
    BY <1>1
  <2> QED BY <1>5, <2>1
<1>7. Def(after)
  <2> HIDE DEF Def
  <2> QED BY <1>6, Zenon
<1> HIDE DEF after
<1>8. after[0] = start /\ \A n \in 1..N : after[n] = Advance(after[n - 1], doc[n])
  <2>1. 0 \in 0..N /\ \A n \in 1..N : n \in 0..N /\ n # 0
    BY <1>1
  <2> QED BY <1>7, <2>1
<1> DEFINE T == {n \in 0..N : after[n] \in BlockState}
<1>9. 0..N \subseteq T
  <2>1. 0 \in T
    BY <1>1, <1>3, <1>8
  <2>2. ASSUME NEW n \in 0..N, n < N, n \in T PROVE n + 1 \in T
    <3>1. n + 1 \in 1..N /\ n + 1 \in 0..N /\ (n + 1) - 1 = n /\ after[n] \in BlockState
      BY <1>1, <2>2
    <3>2. after[n + 1] = Advance(after[n], doc[n + 1])
      BY <1>8, <3>1
    <3>3. after[n + 1] \in BlockState
      BY <1>1, <3>1, <3>2, Advances
    <3> QED BY <3>1, <3>3
  <2> HIDE DEF T
  <2> QED BY <1>1, <2>1, <2>2, UpTo
<1>10. after \in [0..N -> BlockState]
  <2>1. \A n \in 0..N : after[n] \in BlockState
    BY <1>9
  <2>2. after = [n \in 0..N |-> after[n]]
    BY <1>7
  <2> QED BY <2>1, <2>2
<1> QED BY <1>2, <1>8, <1>10 DEF Reads, N, start

\* What a valid document is to its reader: how deep each place is, and which names are open
\* there, the outermost first.
Nested(doc, depth, open) ==
    /\ depth \in [0..Len(doc) -> Nat] /\ depth[0] = 0 /\ depth[Len(doc)] = 0
    /\ \A n \in 1..Len(doc) :
          /\ doc[n].kind = "open" =>
                 /\ depth[n] = depth[n - 1] + 1 /\ open[n][depth[n]] = doc[n].name
                 /\ doc[n].name \in ALLOWED_BLOCKS /\ doc[n].attrs = "json"
          /\ doc[n].kind = "void" =>
                 depth[n] = depth[n - 1] /\ doc[n].name \in ALLOWED_BLOCKS /\ doc[n].attrs = "json"
          /\ doc[n].kind = "close" => depth[n] = depth[n - 1] - 1 /\ open[n - 1][depth[n - 1]] = doc[n].name
          /\ \A l \in 1..depth[n] : l <= depth[n - 1] => open[n][l] = open[n - 1][l]

LEMMA ValidNested ==
    ASSUME NEW doc \in Seq(Delimiters), NEW text, validate(doc, text)
    PROVE  \E depth, open : Nested(doc, depth, open)
<1> DEFINE N == Len(doc)
<1>1. PICK after : Reads(doc, after) /\ after[N].fine /\ after[N].stack = <<>>
  BY ValidReads
<1>2. /\ N \in Nat /\ after \in [0..N -> BlockState] /\ after[0] = [stack |-> <<>>, fine |-> TRUE]
      /\ \A n \in 1..N : doc[n] \in Delimiters /\ after[n - 1] \in BlockState /\ after[n] = Advance(after[n - 1], doc[n])
  BY <1>1 DEF Reads
<1> HIDE DEF N
<1> DEFINE T == {n \in 0..N : after[N - n].fine}
<1>3. 0..N \subseteq T
  <2>1. 0 \in T
    BY <1>1, <1>2
  <2>2. ASSUME NEW n \in 0..N, n < N, n \in T PROVE n + 1 \in T
    <3>1. N - n \in 1..N /\ (N - n) - 1 = N - (n + 1) /\ n + 1 \in 0..N
      BY <1>2, <2>2
    <3>2. after[N - n] = Advance(after[N - (n + 1)], doc[N - n]) /\ after[N - (n + 1)] \in BlockState
      BY <1>2, <3>1
    <3>3. after[N - n].fine /\ doc[N - n] \in Delimiters
      BY <1>2, <2>2, <3>1
    <3>4. Advance(after[N - (n + 1)], doc[N - n]).fine => after[N - (n + 1)].fine
      BY <3>2, <3>3, Advances, Zenon
    <3>5. after[N - (n + 1)].fine
      BY <3>2, <3>3, <3>4
    <3> QED BY <3>1, <3>5
  <2> HIDE DEF T
  <2> QED BY <1>2, <2>1, <2>2, UpTo
<1>4. \A n \in 0..N : after[n].fine
  <2> SUFFICES ASSUME NEW n \in 0..N PROVE after[n].fine
    OBVIOUS
  <2>1. N - n \in 0..N /\ N - (N - n) = n
    BY <1>2
  <2> QED BY <1>3, <2>1
<1> DEFINE depth == [n \in 0..N |-> Len(after[n].stack)]
           open == [n \in 0..N |-> [l \in 1..depth[n] |-> after[n].stack[(depth[n] - l) + 1]]]
<1>5. \A n \in 0..N : after[n].stack \in Seq(BlockNames) /\ depth[n] = Len(after[n].stack) /\ depth[n] \in Nat
  <2>1. \A n \in 0..N : after[n].stack \in Seq(BlockNames)
    BY <1>2 DEF BlockState
  <2> QED BY <2>1
<1>6. depth \in [0..N -> Nat] /\ depth[0] = 0 /\ depth[N] = 0
  <2>1. 0 \in 0..N /\ N \in 0..N /\ Len(<<>>) = 0
    BY <1>2
  <2>2. after[0].stack = <<>>
    BY <1>2
  <2>3. depth[0] = Len(after[0].stack) /\ depth[N] = Len(after[N].stack)
    BY <2>1
  <2>4. depth \in [0..N -> Nat]
    BY <1>5
  <2> QED BY <1>1, <2>1, <2>2, <2>3, <2>4
<1>7. \A n \in 0..N : \A l \in 1..depth[n] : open[n][l] = after[n].stack[(depth[n] - l) + 1]
  <2> HIDE DEF depth
  <2> QED OBVIOUS
<1> HIDE DEF depth, open
<1>8. ASSUME NEW n \in 1..N
      PROVE  /\ doc[n].kind = "open" =>
                 /\ depth[n] = depth[n - 1] + 1 /\ open[n][depth[n]] = doc[n].name
                 /\ doc[n].name \in ALLOWED_BLOCKS /\ doc[n].attrs = "json"
             /\ doc[n].kind = "void" =>
                 depth[n] = depth[n - 1] /\ doc[n].name \in ALLOWED_BLOCKS /\ doc[n].attrs = "json"
             /\ doc[n].kind = "close" => depth[n] = depth[n - 1] - 1 /\ open[n - 1][depth[n - 1]] = doc[n].name
             /\ \A l \in 1..depth[n] : l <= depth[n - 1] => open[n][l] = open[n - 1][l]
  <2> DEFINE was == after[n - 1]
             now == after[n]
             d == doc[n]
  <2>1. /\ was \in BlockState /\ d \in Delimiters /\ now = Advance(was, d) /\ now.fine
        /\ n \in 0..N /\ n - 1 \in 0..N
    BY <1>2, <1>4
  <2>2. d.kind \in {"open", "void", "close"} /\ d.name \in BlockNames
    BY <2>1 DEF Delimiters
  <2>3. /\ d.kind # "close" => d.name \in ALLOWED_BLOCKS /\ d.attrs = "json"
        /\ d.kind = "open" => now.stack = <<d.name>> \o was.stack
        /\ d.kind = "void" => now.stack = was.stack
        /\ d.kind = "close" => was.stack # <<>> /\ Head(was.stack) = d.name /\ now.stack = Tail(was.stack)
    <3> HIDE DEF was, now, d
    <3>1. /\ Advance(was, d).fine /\ d.kind # "close" => d.name \in ALLOWED_BLOCKS /\ d.attrs = "json"
          /\ d.kind = "open" => Advance(was, d).stack = <<d.name>> \o was.stack
          /\ d.kind = "void" => Advance(was, d).stack = was.stack
          /\ d.kind = "close" /\ Advance(was, d).fine =>
                 was.stack # <<>> /\ Head(was.stack) = d.name /\ Advance(was, d).stack = Tail(was.stack)
      BY <2>1, Advances, Zenon
    <3> QED BY <2>1, <3>1
  <2>4. /\ was.stack \in Seq(BlockNames) /\ depth[n - 1] = Len(was.stack) /\ depth[n - 1] \in Nat
        /\ now.stack \in Seq(BlockNames) /\ depth[n] = Len(now.stack) /\ depth[n] \in Nat
    BY <1>5, <2>1
  <2>5. /\ \A l \in 1..depth[n] : open[n][l] = now.stack[(depth[n] - l) + 1]
        /\ \A l \in 1..depth[n - 1] : open[n - 1][l] = was.stack[(depth[n - 1] - l) + 1]
    BY <1>7, <2>1
  <2> DEFINE a == was.stack
             b == now.stack
  <2> HIDE DEF was, now, d, a, b
  <2>6. CASE d.kind = "open"
    <3>1. b = <<d.name>> \o a /\ a \in Seq(BlockNames) /\ d.name \in BlockNames
      BY <2>2, <2>3, <2>4, <2>6 DEF a, b
    <3>2. Len(b) = Len(a) + 1 /\ b[1] = d.name /\ \A i \in 1..Len(a) : b[i + 1] = a[i]
      BY <3>1
    <3>3. depth[n] = depth[n - 1] + 1 /\ depth[n] \in 1..depth[n] /\ (depth[n] - depth[n]) + 1 = 1
      BY <2>4, <3>2 DEF a, b
    <3>4. open[n][depth[n]] = d.name
      BY <2>5, <3>2, <3>3 DEF b
    <3>5. ASSUME NEW l \in 1..depth[n], l <= depth[n - 1] PROVE open[n][l] = open[n - 1][l]
      <4>1. l \in 1..depth[n - 1] /\ (depth[n - 1] - l) + 1 \in 1..Len(a)
            /\ (depth[n] - l) + 1 = ((depth[n - 1] - l) + 1) + 1
        BY <2>4, <3>3, <3>5 DEF a
      <4>2. open[n][l] = b[(depth[n] - l) + 1] /\ open[n - 1][l] = a[(depth[n - 1] - l) + 1]
        BY <2>5, <4>1 DEF a, b
      <4> QED BY <3>2, <4>1, <4>2
    <3> QED BY <2>3, <2>6, <3>3, <3>4, <3>5 DEF d
  <2>7. CASE d.kind = "void"
    BY <2>3, <2>4, <2>5, <2>7 DEF d
  <2>8. CASE d.kind = "close"
    <3>1. b = Tail(a) /\ a \in Seq(BlockNames) /\ a # <<>> /\ Head(a) = d.name
      BY <2>3, <2>4, <2>8 DEF a, b
    <3>2. Len(b) = Len(a) - 1 /\ a[1] = d.name /\ Len(a) \in Nat /\ Len(a) >= 1 /\ \A i \in 1..Len(b) : b[i] = a[i + 1]
      BY <3>1
    <3>3. depth[n] = depth[n - 1] - 1 /\ depth[n - 1] \in 1..depth[n - 1] /\ (depth[n - 1] - depth[n - 1]) + 1 = 1
      BY <2>4, <3>2 DEF a, b
    <3>4. open[n - 1][depth[n - 1]] = d.name
      BY <2>5, <3>2, <3>3 DEF a
    <3>5. ASSUME NEW l \in 1..depth[n] PROVE open[n][l] = open[n - 1][l]
      <4>1. l \in 1..depth[n - 1] /\ (depth[n] - l) + 1 \in 1..Len(b)
            /\ (depth[n - 1] - l) + 1 = ((depth[n] - l) + 1) + 1
        BY <2>4, <3>3 DEF b
      <4>2. open[n][l] = b[(depth[n] - l) + 1] /\ open[n - 1][l] = a[(depth[n - 1] - l) + 1]
        BY <2>5, <4>1 DEF a, b
      <4> QED BY <3>2, <4>1, <4>2
    <3> QED BY <2>3, <2>8, <3>3, <3>4, <3>5 DEF d
  <2> QED BY <2>2, <2>6, <2>7, <2>8
<1>9. Nested(doc, depth, open)
  BY <1>6, <1>8 DEF Nested, N
<1> QED BY <1>9

LEMMA CountNext ==
    ASSUME NEW P, NEW j \in Nat, NEW i \in Nat, j <= i + 1
    PROVE  /\ Cardinality((j..i) \cap P) \in Nat
           /\ Cardinality((j..(i + 1)) \cap P) = Cardinality((j..i) \cap P) + (IF i + 1 \in P THEN 1 ELSE 0)
<1> DEFINE S == (j..i) \cap P
<1>1. IsFiniteSet(S)
  <2>1. IsFiniteSet(j..i)
    BY FS_Interval
  <2>2. S \in SUBSET (j..i)
    OBVIOUS
  <2> QED BY <2>1, <2>2, FS_Subset
<1>2. i + 1 \notin S
  OBVIOUS
<1>3. (j..(i + 1)) \cap P = IF i + 1 \in P THEN S \cup {i + 1} ELSE S
  <2>1. j..(i + 1) = (j..i) \cup {i + 1}
    OBVIOUS
  <2> QED BY <2>1
<1> HIDE DEF S
<1>4. Cardinality(S) \in Nat /\ Cardinality(S \cup {i + 1}) = Cardinality(S) + 1
  BY <1>1, <1>2, FS_CardinalityType, FS_AddElement
<1>5. Cardinality((j..(i + 1)) \cap P) = Cardinality(S) + (IF i + 1 \in P THEN 1 ELSE 0)
  BY <1>3, <1>4
<1> QED BY <1>4, <1>5 DEF S

LEMMA Balance ==
    ASSUME NEW doc \in Seq(Delimiters), NEW depth, NEW open, Nested(doc, depth, open), NEW j \in 1..Len(doc)
    PROVE  \A i \in j..Len(doc) : Opens(doc, j, i) = Closes(doc, j, i) <=> depth[i] = depth[j - 1]
<1> DEFINE N == Len(doc)
           P == {k \in 1..N : doc[k].kind = "open"}
           Q == {k \in 1..N : doc[k].kind = "close"}
           o(i) == Cardinality((j..i) \cap P)
           c(i) == Cardinality((j..i) \cap Q)
<1>1. /\ N \in Nat /\ j \in Nat /\ j >= 1 /\ depth \in [0..N -> Nat]
      /\ \A n \in 1..N : /\ doc[n].kind \in {"open", "void", "close"}
                         /\ doc[n].kind = "open" => depth[n] = depth[n - 1] + 1
                         /\ doc[n].kind = "void" => depth[n] = depth[n - 1]
                         /\ doc[n].kind = "close" => depth[n] = depth[n - 1] - 1
  <2>1. \A n \in 1..N : doc[n] \in Delimiters
    OBVIOUS
  <2>2. \A n \in 1..N : doc[n].kind \in {"open", "void", "close"}
    BY <2>1 DEF Delimiters
  <2> QED BY <2>2 DEF Nested
<1>2. \A i \in j..N : Opens(doc, j, i) = o(i) /\ Closes(doc, j, i) = c(i)
  <2> SUFFICES ASSUME NEW i \in j..N PROVE Opens(doc, j, i) = o(i) /\ Closes(doc, j, i) = c(i)
    OBVIOUS
  <2>1. {k \in j..i : doc[k].kind = "open"} = (j..i) \cap P /\ {k \in j..i : doc[k].kind = "close"} = (j..i) \cap Q
    BY <1>1
  <2> QED BY <2>1 DEF Opens, Closes
<1> HIDE DEF N
<1> DEFINE T == {m \in 0..((N - j) + 1) :
                    /\ o((j - 1) + m) \in Nat /\ c((j - 1) + m) \in Nat
                    /\ o((j - 1) + m) - c((j - 1) + m) = depth[(j - 1) + m] - depth[j - 1]}
<1>3. (N - j) + 1 \in Nat
  BY <1>1 DEF N
<1>4. 0 \in T
  <2>1. j..((j - 1) + 0) = {} /\ (j - 1) + 0 = j - 1 /\ j - 1 \in 0..N
    BY <1>1 DEF N
  <2>2. o((j - 1) + 0) = 0 /\ c((j - 1) + 0) = 0
    <3>1. (j..((j - 1) + 0)) \cap P = {} /\ (j..((j - 1) + 0)) \cap Q = {}
      BY <2>1
    <3> HIDE DEF P, Q
    <3> QED BY <3>1, FS_EmptySet
  <2>3. depth[j - 1] \in Nat
    BY <1>1, <2>1
  <2> HIDE DEF o, c
  <2> QED BY <1>3, <2>1, <2>2, <2>3
<1>5. ASSUME NEW m \in 0..((N - j) + 1), m < (N - j) + 1, m \in T PROVE m + 1 \in T
  <2> DEFINE i == (j - 1) + m
  <2>1. /\ i \in Nat /\ i + 1 \in 1..N /\ j <= i + 1 /\ (j - 1) + (m + 1) = i + 1 /\ i \in 0..N /\ i + 1 \in 0..N
        /\ m + 1 \in 0..((N - j) + 1) /\ (i + 1) - 1 = i /\ j - 1 \in 0..N
    BY <1>1, <1>3, <1>5
  <2>2. o(i) \in Nat /\ c(i) \in Nat /\ o(i) - c(i) = depth[i] - depth[j - 1]
    BY <1>5
  <2> HIDE DEF i
  <2>3. o(i + 1) = o(i) + (IF i + 1 \in P THEN 1 ELSE 0) /\ c(i + 1) = c(i) + (IF i + 1 \in Q THEN 1 ELSE 0)
    <3>1. j \in Nat /\ i \in Nat /\ j <= i + 1
      BY <1>1, <2>1
    <3> HIDE DEF P, Q
    <3>2. Cardinality((j..(i + 1)) \cap P) = Cardinality((j..i) \cap P) + (IF i + 1 \in P THEN 1 ELSE 0)
      BY <3>1, CountNext, Zenon
    <3>3. Cardinality((j..(i + 1)) \cap Q) = Cardinality((j..i) \cap Q) + (IF i + 1 \in Q THEN 1 ELSE 0)
      BY <3>1, CountNext, Zenon
    <3> QED BY <3>2, <3>3
  <2>4. depth[i] \in Nat /\ depth[i + 1] \in Nat /\ depth[j - 1] \in Nat
    BY <1>1, <2>1
  <2>5. \/ i + 1 \in P /\ i + 1 \notin Q /\ depth[i + 1] = depth[i] + 1
        \/ i + 1 \notin P /\ i + 1 \notin Q /\ depth[i + 1] = depth[i]
        \/ i + 1 \notin P /\ i + 1 \in Q /\ depth[i + 1] = depth[i] - 1
    BY <1>1, <2>1
  <2> HIDE DEF o, c, P, Q
  <2>6. o(i + 1) \in Nat /\ c(i + 1) \in Nat /\ o(i + 1) - c(i + 1) = depth[i + 1] - depth[j - 1]
    <3>1. PICK a \in Nat, b \in Nat : a = o(i) /\ b = c(i)
      BY <2>2
    <3>2. PICK x \in Nat, y \in Nat, z \in Nat : x = depth[i] /\ y = depth[i + 1] /\ z = depth[j - 1]
      BY <2>4
    <3>3. a - b = x - z
      BY <2>2, <3>1, <3>2
    <3>4. (y = x + 1 => (a + 1) - b = y - z) /\ (y = x => a - b = y - z) /\ (y = x - 1 => a - (b + 1) = y - z)
      BY <3>3
    <3>5. /\ depth[i + 1] = depth[i] + 1 => (o(i) + 1) - c(i) = depth[i + 1] - depth[j - 1]
          /\ depth[i + 1] = depth[i] => o(i) - c(i) = depth[i + 1] - depth[j - 1]
          /\ depth[i + 1] = depth[i] - 1 => o(i) - (c(i) + 1) = depth[i + 1] - depth[j - 1]
      BY <3>1, <3>2, <3>4
    <3>6. CASE i + 1 \in P /\ i + 1 \notin Q /\ depth[i + 1] = depth[i] + 1
      <4>1. o(i + 1) = o(i) + 1 /\ c(i + 1) = c(i)
        BY <2>2, <2>3, <3>6
      <4> QED BY <2>2, <3>6, <3>5, <4>1
    <3>7. CASE i + 1 \notin P /\ i + 1 \notin Q /\ depth[i + 1] = depth[i]
      <4>1. o(i + 1) = o(i) /\ c(i + 1) = c(i)
        BY <2>2, <2>3, <3>7
      <4> QED BY <2>2, <3>7, <3>5, <4>1
    <3>8. CASE i + 1 \notin P /\ i + 1 \in Q /\ depth[i + 1] = depth[i] - 1
      <4>1. o(i + 1) = o(i) /\ c(i + 1) = c(i) + 1
        BY <2>2, <2>3, <3>8
      <4> QED BY <2>2, <3>8, <3>5, <4>1
    <3> QED BY <2>5, <3>6, <3>7, <3>8
  <2> QED BY <2>1, <2>6
<1>6. 0..((N - j) + 1) \subseteq T
  <2> HIDE DEF T
  <2> QED BY <1>3, <1>4, <1>5, UpTo
<1>7. ASSUME NEW i \in j..N PROVE o(i) = c(i) <=> depth[i] = depth[j - 1]
  <2>1. (i - j) + 1 \in 0..((N - j) + 1) /\ (j - 1) + ((i - j) + 1) = i /\ i \in 0..N /\ j - 1 \in 0..N
    BY <1>1
  <2> HIDE DEF o, c
  <2>2. o(i) \in Nat /\ c(i) \in Nat /\ o(i) - c(i) = depth[i] - depth[j - 1]
    BY <1>6, <2>1
  <2>3. depth[i] \in Nat /\ depth[j - 1] \in Nat
    BY <1>1, <2>1
  <2> QED BY <2>2, <2>3
<1> HIDE DEF o, c
<1> QED BY <1>2, <1>7 DEF N

\* A delimiter is closed by the next one at which it is as deep as before it.
Matches(doc, depth, j, i) ==
    /\ j \in 1..Len(doc) /\ i \in (j + 1)..Len(doc) /\ doc[j].kind = "open"
    /\ depth[i] = depth[j - 1] /\ \A k \in j..(i - 1) : depth[k] >= depth[j]

LEMMA Matched ==
    ASSUME NEW doc \in Seq(Delimiters), NEW depth, NEW open, Nested(doc, depth, open), NEW j, NEW i,
           Matches(doc, depth, j, i)
    PROVE  doc[i].kind = "close" /\ doc[i].name = doc[j].name /\ Closer(doc, j) = {i}
<1> DEFINE N == Len(doc)
<1>1. /\ N \in Nat /\ depth \in [0..N -> Nat]
      /\ \A n \in 1..N : /\ doc[n].kind \in {"open", "void", "close"}
                         /\ doc[n].kind = "open" => depth[n] = depth[n - 1] + 1 /\ open[n][depth[n]] = doc[n].name
                         /\ doc[n].kind = "void" => depth[n] = depth[n - 1]
                         /\ doc[n].kind = "close" => depth[n] = depth[n - 1] - 1 /\ open[n - 1][depth[n - 1]] = doc[n].name
                         /\ \A l \in 1..depth[n] : l <= depth[n - 1] => open[n][l] = open[n - 1][l]
  <2>1. \A n \in 1..N : doc[n] \in Delimiters
    OBVIOUS
  <2>2. \A n \in 1..N : doc[n].kind \in {"open", "void", "close"}
    BY <2>1 DEF Delimiters
  <2> QED BY <2>2 DEF Nested
<1>2. /\ j \in 1..N /\ i \in (j + 1)..N /\ doc[j].kind = "open"
      /\ depth[i] = depth[j - 1] /\ \A k \in j..(i - 1) : depth[k] >= depth[j]
  BY DEF Matches
<1>3. \A n \in j..N : Opens(doc, j, n) = Closes(doc, j, n) <=> depth[n] = depth[j - 1]
  BY <1>2, Balance
<1> HIDE DEF N
<1>4. /\ i \in 1..N /\ i - 1 \in j..(i - 1) /\ i \in 0..N /\ i - 1 \in 0..N /\ j \in 0..N /\ j - 1 \in 0..N
      /\ j \in Nat /\ i \in Nat /\ i > j
  BY <1>1, <1>2
<1>5. /\ depth[i] \in Nat /\ depth[i - 1] \in Nat /\ depth[j] \in Nat /\ depth[j - 1] \in Nat
      /\ depth[j] = depth[j - 1] + 1 /\ open[j][depth[j]] = doc[j].name
  BY <1>1, <1>2, <1>4
<1>6. doc[i].kind = "close" /\ depth[i - 1] = depth[j]
  <2>1. depth[i - 1] >= depth[j]
    BY <1>2, <1>4
  <2>2. /\ doc[i].kind \in {"open", "void", "close"}
        /\ doc[i].kind = "open" => depth[i] = depth[i - 1] + 1
        /\ doc[i].kind = "void" => depth[i] = depth[i - 1]
        /\ doc[i].kind = "close" => depth[i] = depth[i - 1] - 1
    BY <1>1, <1>4
  <2>3. depth[i] = depth[j - 1]
    BY <1>2
  <2>4. \A a, b, x, y \in Nat : a = b + 1 /\ y = b /\ x >= a => y # x + 1 /\ y # x /\ (y = x - 1 => x = a)
    OBVIOUS
  <2>5. depth[i] # depth[i - 1] + 1 /\ depth[i] # depth[i - 1] /\ (depth[i] = depth[i - 1] - 1 => depth[i - 1] = depth[j])
    BY <1>5, <2>1, <2>3, <2>4
  <2> QED BY <2>2, <2>5
<1> DEFINE T == {m \in 0..((i - 1) - j) : open[j + m][depth[j]] = doc[j].name}
<1>7. (i - 1) - j \in Nat
  BY <1>4
<1>8. 0 \in T
  <2>1. j + 0 = j
    BY <1>4
  <2> QED BY <1>5, <1>7, <2>1
<1>9. ASSUME NEW m \in 0..((i - 1) - j), m < (i - 1) - j, m \in T PROVE m + 1 \in T
  <2> DEFINE k == j + m
  <2>1. /\ j + (m + 1) = k + 1 /\ k + 1 \in 1..N /\ (k + 1) - 1 = k /\ k \in j..(i - 1) /\ k + 1 \in j..(i - 1)
        /\ m + 1 \in 0..((i - 1) - j) /\ k \in 0..N /\ k + 1 \in 0..N
    <3>1. N \in Nat /\ i \in Nat /\ j \in Nat /\ j >= 1 /\ i <= N /\ m \in Nat /\ m < (i - 1) - j
      BY <1>1, <1>2, <1>4, <1>7, <1>9
    <3> QED BY <3>1
  <2> HIDE DEF k
  <2>2. depth[k] >= depth[j] /\ depth[k + 1] >= depth[j] /\ depth[k] \in Nat /\ depth[k + 1] \in Nat
    BY <1>1, <1>2, <2>1
  <2>3. depth[j] \in 1..depth[k + 1] /\ depth[j] <= depth[k]
    BY <1>5, <2>2
  <2>4. open[k + 1][depth[j]] = open[k][depth[j]]
    BY <1>1, <2>1, <2>3
  <2>5. open[k][depth[j]] = doc[j].name
    BY <1>9 DEF k
  <2> QED BY <2>1, <2>4, <2>5
<1>10. 0..((i - 1) - j) \subseteq T
  <2> HIDE DEF T
  <2> QED BY <1>7, <1>8, <1>9, UpTo
<1>11. open[i - 1][depth[j]] = doc[j].name
  <2>1. (i - 1) - j \in 0..((i - 1) - j) /\ j + ((i - 1) - j) = i - 1
    BY <1>4, <1>7
  <2> QED BY <1>10, <2>1
<1>12. doc[i].name = doc[j].name
  BY <1>1, <1>4, <1>6, <1>11
<1> DEFINE level == {n \in (j + 1)..N : Opens(doc, j, n) = Closes(doc, j, n)}
<1>13. i \in level /\ \A n \in level : n \in (j + 1)..N /\ depth[n] = depth[j - 1]
  <2>1. \A n \in (j + 1)..N : n \in j..N
    BY <1>4
  <2> QED BY <1>2, <1>3, <2>1
<1>14. ASSUME NEW n \in level PROVE i <= n
  <2> SUFFICES ASSUME n < i PROVE FALSE
    BY <1>4, <1>13
  <2>1. n \in j..(i - 1)
    BY <1>4, <1>13
  <2>2. depth[n] >= depth[j] /\ depth[n] = depth[j - 1]
    BY <1>2, <1>13, <2>1
  <2> QED BY <1>5, <2>2
<1>15. Closer(doc, j) = {n \in level : \A k \in level : n <= k}
  BY DEF Closer, N
<1>16. \A n \in level : n \in Nat
  BY <1>4, <1>13
<1> HIDE DEF level
<1>17. \A n \in level : (\A k \in level : n <= k) <=> n = i
  BY <1>4, <1>13, <1>14, <1>16
<1>18. Closer(doc, j) = {i}
  BY <1>13, <1>15, <1>17
<1> QED BY <1>6, <1>12, <1>18

LEMMA OpenedIsMatched ==
    ASSUME NEW doc \in Seq(Delimiters), NEW depth, NEW open, Nested(doc, depth, open),
           NEW j \in 1..Len(doc), doc[j].kind = "open"
    PROVE  \E i : Matches(doc, depth, j, i)
<1> DEFINE N == Len(doc)
           S == {i \in j..N : depth[i] <= depth[j - 1]}
<1>1. /\ N \in Nat /\ depth \in [0..N -> Nat] /\ depth[N] = 0 /\ depth[j] = depth[j - 1] + 1
      /\ \A n \in 1..N : depth[n] >= depth[n - 1] - 1
  <2>1. N \in Nat /\ \A n \in 1..N : doc[n] \in Delimiters
    OBVIOUS
  <2>2. \A n \in 1..N : doc[n].kind \in {"open", "void", "close"}
    BY <2>1 DEF Delimiters
  <2>3. \A n \in 1..N : n \in 0..N /\ n - 1 \in 0..N
    BY <2>1
  <2>4. depth \in [0..N -> Nat] /\ depth[N] = 0 /\ depth[j] = depth[j - 1] + 1
    BY DEF Nested
  <2>5. ASSUME NEW n \in 1..N PROVE depth[n] >= depth[n - 1] - 1
    <3>1. depth[n] \in Nat /\ depth[n - 1] \in Nat
      BY <2>3, <2>4
    <3>2. depth[n] = depth[n - 1] + 1 \/ depth[n] = depth[n - 1] \/ depth[n] = depth[n - 1] - 1
      BY <2>2 DEF Nested
    <3> QED BY <3>1, <3>2
  <2> QED BY <2>1, <2>4, <2>5
<1> HIDE DEF N
<1>2. j \in 1..N /\ j \in Nat /\ j - 1 \in 0..N /\ j \in 0..N /\ depth[j - 1] \in Nat /\ depth[j] \in Nat
  BY <1>1 DEF N
<1>3. S \in SUBSET Nat /\ S # {}
  <2>1. N \in S
    BY <1>1, <1>2
  <2>2. S \in SUBSET Nat
    BY <1>1, <1>2
  <2> QED BY <2>1, <2>2
<1>4. PICK i \in S : \A m \in S : i <= m
  <2> HIDE DEF S
  <2> QED BY <1>3, LeastNumber
<1>5. i \in j..N /\ depth[i] <= depth[j - 1] /\ i \in 0..N /\ depth[i] \in Nat
  BY <1>1, <1>2
<1>6. i # j
  BY <1>1, <1>2, <1>5
<1>7. ASSUME NEW k \in j..(i - 1) PROVE depth[k] >= depth[j]
  <2>1. k \in j..N /\ ~(i <= k) /\ k \in 0..N
    BY <1>1, <1>2, <1>5
  <2>2. k \notin S
    BY <1>4, <2>1
  <2>3. ~(depth[k] <= depth[j - 1]) /\ depth[k] \in Nat
    BY <1>1, <2>1, <2>2
  <2> QED BY <1>1, <1>2, <2>3
<1>8. i \in (j + 1)..N /\ i \in 1..N /\ i - 1 \in j..(i - 1) /\ i - 1 \in 0..N
  BY <1>1, <1>2, <1>5, <1>6
<1>9. depth[i] = depth[j - 1]
  <2>1. depth[i - 1] >= depth[j] /\ depth[i - 1] \in Nat /\ depth[i] >= depth[i - 1] - 1
    BY <1>1, <1>7, <1>8
  <2>2. depth[j] = depth[j - 1] + 1
    BY <1>1
  <2>3. \A a, b, x, y \in Nat : a = b + 1 /\ x >= a /\ y >= x - 1 /\ y <= b => y = b
    OBVIOUS
  <2> QED BY <1>2, <1>5, <2>1, <2>2, <2>3
<1> QED BY <1>2, <1>7, <1>8, <1>9 DEF Matches, N

LEMMA ClosedIsMatched ==
    ASSUME NEW doc \in Seq(Delimiters), NEW depth, NEW open, Nested(doc, depth, open),
           NEW i \in 1..Len(doc), doc[i].kind = "close"
    PROVE  \E j : Matches(doc, depth, j, i)
<1> DEFINE N == Len(doc)
           S == {m \in 0..(i - 1) : depth[m] <= depth[i]}
<1>1. /\ N \in Nat /\ depth \in [0..N -> Nat] /\ depth[0] = 0 /\ depth[i] = depth[i - 1] - 1
      /\ \A n \in 1..N : depth[n] > depth[n - 1] => doc[n].kind = "open" /\ depth[n] = depth[n - 1] + 1
  <2>1. N \in Nat /\ \A n \in 1..N : doc[n] \in Delimiters
    OBVIOUS
  <2>2. \A n \in 1..N : doc[n].kind \in {"open", "void", "close"}
    BY <2>1 DEF Delimiters
  <2>3. \A n \in 1..N : n \in 0..N /\ n - 1 \in 0..N
    BY <2>1
  <2>4. depth \in [0..N -> Nat] /\ depth[0] = 0 /\ depth[i] = depth[i - 1] - 1
    BY DEF Nested
  <2>5. ASSUME NEW n \in 1..N, depth[n] > depth[n - 1] PROVE doc[n].kind = "open" /\ depth[n] = depth[n - 1] + 1
    <3>1. depth[n] \in Nat /\ depth[n - 1] \in Nat
      BY <2>3, <2>4
    <3>2. /\ doc[n].kind = "open" => depth[n] = depth[n - 1] + 1
          /\ doc[n].kind = "void" => depth[n] = depth[n - 1]
          /\ doc[n].kind = "close" => depth[n] = depth[n - 1] - 1
      BY DEF Nested
    <3> QED BY <2>2, <2>5, <3>1, <3>2
  <2> QED BY <2>1, <2>4, <2>5
<1> HIDE DEF N
<1>2. i \in 1..N /\ i \in Nat /\ i \in 0..N /\ i - 1 \in 0..N /\ i - 1 \in Nat /\ depth[i] \in Nat /\ depth[i - 1] \in Nat
  BY <1>1 DEF N
<1>3. S \in SUBSET (0..(i - 1)) /\ S # {}
  <2>1. 0 \in S
    BY <1>1, <1>2
  <2> QED BY <2>1
<1> DEFINE m == Max(S)
<1>4. m \in S /\ \A n \in S : n <= m
  <2> HIDE DEF S
  <2> QED BY <1>2, <1>3, GreatestNumber
<1> HIDE DEF m
<1>5. m \in 0..(i - 1) /\ depth[m] <= depth[i] /\ m \in 0..N /\ depth[m] \in Nat
  BY <1>1, <1>2, <1>4
<1>6. m # i - 1
  <2> SUFFICES ASSUME m = i - 1 PROVE FALSE
    OBVIOUS
  <2>1. depth[i - 1] <= depth[i] /\ depth[i] = depth[i - 1] - 1
    BY <1>1, <1>5
  <2> QED BY <1>2, <2>1
<1> DEFINE j == m + 1
<1>7. j \in 1..N /\ j \in 0..(i - 1) /\ j - 1 = m /\ i \in (j + 1)..N /\ j \in 0..N
  BY <1>1, <1>2, <1>5, <1>6
<1>8. ASSUME NEW k \in j..(i - 1) PROVE depth[k] >= depth[i] + 1
  <2>1. k \in 0..(i - 1) /\ ~(k <= m) /\ k \in 0..N
    BY <1>1, <1>2, <1>5
  <2>2. k \notin S
    BY <1>4, <2>1
  <2>3. ~(depth[k] <= depth[i]) /\ depth[k] \in Nat
    BY <1>1, <2>1, <2>2
  <2> QED BY <1>2, <2>3
<1> HIDE DEF j
<1>9. depth[j] \in Nat /\ depth[j] >= depth[i] + 1
  <2>1. j \in j..(i - 1)
    BY <1>2, <1>7
  <2> QED BY <1>1, <1>7, <1>8, <2>1
<1>10. doc[j].kind = "open" /\ depth[j] = depth[j - 1] + 1 /\ depth[j - 1] = depth[i]
  <2>1. depth[j] > depth[j - 1]
    BY <1>2, <1>5, <1>7, <1>9
  <2>2. doc[j].kind = "open" /\ depth[j] = depth[j - 1] + 1
    BY <1>1, <1>7, <2>1
  <2> QED BY <1>2, <1>5, <1>7, <1>9, <2>2
<1>11. \A k \in j..(i - 1) : depth[k] >= depth[j]
  BY <1>8, <1>10
<1>12. Matches(doc, depth, j, i)
  BY <1>7, <1>10, <1>11 DEF Matches, N
<1> QED BY <1>12

\* What validate lets pass is well formed, however long the document is and however deep its
\* blocks are nested (gutenberg.py: the gate before every write).
THEOREM ValidDocuments ==
    ASSUME NEW doc \in Seq(Delimiters), NEW text, validate(doc, text) PROVE WellFormed(doc)
<1> DEFINE N == Len(doc)
           opened == {j \in DOMAIN doc : doc[j].kind = "open"}
<1>1. PICK depth, open : Nested(doc, depth, open)
  BY ValidNested
<1>2. /\ N \in Nat /\ DOMAIN doc = 1..N /\ \A n \in 1..N : doc[n] \in Delimiters
      /\ \A n \in 1..N : /\ doc[n].kind \in {"open", "void", "close"}
                         /\ doc[n].kind = "close" => doc[n].attrs = "json"
  <2>1. N \in Nat /\ DOMAIN doc = 1..N /\ \A n \in 1..N : doc[n] \in Delimiters
    OBVIOUS
  <2> QED BY <2>1 DEF Delimiters
<1>3. \A n \in 1..N : doc[n].kind # "close" => doc[n].name \in ALLOWED_BLOCKS /\ doc[n].attrs = "json"
  BY <1>1, <1>2 DEF Nested
<1>4. ASSUME NEW j \in opened
      PROVE  \E i \in 1..N : Closer(doc, j) = {i} /\ doc[i].name = doc[j].name /\ doc[i].kind = "close"
  <2>1. PICK i : Matches(doc, depth, j, i)
    BY <1>1, <1>2, OpenedIsMatched
  <2>2. i \in 1..N
    BY <1>2, <2>1 DEF Matches
  <2> QED BY <1>1, <2>1, <2>2, Matched
<1>5. ASSUME NEW i \in 1..N, doc[i].kind = "close"
      PROVE  \E j \in opened : Closer(doc, j) = {i} /\ doc[i].name = doc[j].name
  <2>1. PICK j : Matches(doc, depth, j, i)
    BY <1>1, <1>5, ClosedIsMatched
  <2>2. j \in opened
    BY <1>2, <2>1 DEF Matches
  <2> QED BY <1>1, <2>1, <2>2, Matched
<1> HIDE DEF N
<1>6. ASSUME NEW n \in DOMAIN doc PROVE doc[n].name \in ALLOWED_BLOCKS /\ doc[n].attrs = "json"
  <2>1. CASE doc[n].kind # "close"
    BY <1>2, <1>3, <2>1
  <2>2. CASE doc[n].kind = "close"
    <3>1. PICK j \in opened : doc[n].name = doc[j].name
      BY <1>2, <1>5, <2>2
    <3> QED BY <1>2, <1>3, <2>2, <3>1
  <2> QED BY <2>1, <2>2
<1>7. ASSUME NEW j \in opened PROVE \E i \in Closer(doc, j) : doc[i].name = doc[j].name
  BY <1>4
<1>8. {i \in DOMAIN doc : doc[i].kind = "close"} = UNION {Closer(doc, j) : j \in opened}
  <2>1. ASSUME NEW i \in DOMAIN doc, doc[i].kind = "close" PROVE i \in UNION {Closer(doc, j) : j \in opened}
    <3>1. PICK j \in opened : Closer(doc, j) = {i}
      BY <1>2, <1>5, <2>1
    <3> QED BY <3>1
  <2>2. ASSUME NEW j \in opened, NEW i \in Closer(doc, j) PROVE i \in DOMAIN doc /\ doc[i].kind = "close"
    BY <1>2, <1>4
  <2> HIDE DEF opened
  <2> QED BY <2>1, <2>2
<1> QED BY <1>6, <1>7, <1>8 DEF WellFormed

-----------------------------------------------------------------------------
(* Clarifications: an answer is spent before its post is dispatched.       *)

IsJob(w) == w = [at |-> w.at, item |-> w.item, copy |-> w.copy, site |-> w.site] /\ w.item \in Items

\* Only the event loop answers and dispatches, one entry at a time: while it is about to
\* dispatch, the answer it wrote is one more than the dispatches there were.
ClarifyInv ==
    /\ DOMAIN work = Actors /\ work = [a \in Actors |-> work[a]]
    /\ \A a \in Actors : work[a] = Free \/ IsJob(work[a])
    /\ \A a \in Actors : work[a].at \in {"resolve", "council", "post"} => a = "loop"
    /\ resolved \in [Items -> Nat] /\ dispatched \in [Items -> Nat]
    /\ work["loop"].at = "council" => dispatched[work["loop"].item] < resolved[work["loop"].item]
    /\ ResolvedFirst

\* Whoever takes up a job that is not to dispatch leaves the rest of the invariant alone.
LEMMA TakesUp ==
    ASSUME ClarifyInv, NEW a \in Actors, NEW w, Do(a, w), UNCHANGED <<resolved, dispatched>>,
           w = Free \/ IsJob(w), w.at # "council", w.at \in {"resolve", "post"} => a = "loop"
    PROVE  ClarifyInv'
<1>1. work' = [b \in Actors |-> IF b = a THEN w ELSE work[b]]
  BY DEF Do, ClarifyInv
<1>2. \A b \in Actors : work'[b] = IF b = a THEN w ELSE work[b]
  BY <1>1
<1>3. DOMAIN work' = Actors /\ work' = [b \in Actors |-> work'[b]]
  BY <1>1
<1>4. "loop" \in Actors
  BY DEF Actors
<1>5. ASSUME NEW b \in Actors
      PROVE  /\ work'[b] = Free \/ IsJob(work'[b])
             /\ work'[b].at \in {"resolve", "council", "post"} => b = "loop"
  <2>1. CASE b = a
    BY <1>2, <2>1
  <2>2. CASE b # a
    BY <1>2, <2>2 DEF ClarifyInv
  <2> QED BY <2>1, <2>2
<1>6. work'["loop"].at = "council" => work'["loop"] = work["loop"]
  BY <1>2, <1>4
<1>7. (\A b \in Actors : work[b] = Free \/ IsJob(work[b]))'
  BY <1>5 DEF IsJob, Items
<1> QED BY <1>3, <1>5, <1>6, <1>7 DEF ClarifyInv, ResolvedFirst

\* What an actor sets out to do.
Task(op, i, s) == [at |-> op, item |-> i, copy |-> <<>>, site |-> s]

LEMMA Tasks ==
    ASSUME NEW op, NEW i, NEW s
    PROVE  /\ [Step(op, i) EXCEPT !.site = s] = Task(op, i, s) /\ Step(op, i) = Task(op, i, Bogus)
           /\ Task(op, i, s).at = op /\ Task(op, i, s).item = i
           /\ i \in Items => IsJob(Task(op, i, s))
BY DEF Step, IsJob, Task

LEMMA SetsOut ==
    ASSUME ClarifyInv, NEW a \in Actors, NEW op, NEW i \in Items, NEW s, Do(a, Task(op, i, s)),
           UNCHANGED <<resolved, dispatched>>, op # "council", op \in {"resolve", "post"} => a = "loop"
    PROVE  ClarifyInv'
<1>1. IsJob(Task(op, i, s)) /\ Task(op, i, s).at = op
  BY Tasks
<1> QED BY <1>1, TakesUp

LEMMA Jobs ==
    ASSUME ClarifyInv, NEW a \in Actors, work[a].at # "free"
    PROVE  IsJob(work[a])
BY DEF ClarifyInv, Free

LEMMA ClarifySteps == ClarifyInv /\ [ClarifyNext]_clarifyVars => ClarifyInv'
<1> SUFFICES ASSUME ClarifyInv, ClarifyNext PROVE ClarifyInv'
  BY DEF clarifyVars, ClarifyInv, ResolvedFirst, IsJob
<1>1. "loop" \in Actors /\ Threads \subseteq Actors /\ Free.at = "free"
  BY DEF Actors, Free
<1>2. ASSUME NEW a \in Actors, Load(a) PROVE ClarifyInv'
  <2>1. work[a].at \in {"create", "mark", "resolve", "bump", "fail", "expire"}
    BY <1>2 DEF Load
  <2>2. IsJob(work[a])
    BY <2>1, Jobs
  <2>3. PICK w \in {[work[a] EXCEPT !.copy = store], Free} : Do(a, w) /\ UNCHANGED <<resolved, dispatched>>
    BY <1>2 DEF Load
  <2> DEFINE filled == [at |-> work[a].at, item |-> work[a].item, copy |-> store, site |-> work[a].site]
  <2>4. [work[a] EXCEPT !.copy = store] = filled
    BY <2>2 DEF IsJob
  <2>5. IsJob(filled) /\ filled.at = work[a].at
    BY <2>2 DEF IsJob
  <2>6. CASE w = Free
    BY <1>1, <2>3, <2>6, TakesUp
  <2>7. CASE w = filled
    <3>1. w.at = work[a].at /\ IsJob(w)
      BY <2>5, <2>7
    <3>2. w.at \in {"resolve", "post"} => a = "loop"
      BY <3>1 DEF ClarifyInv
    <3> QED BY <2>1, <2>3, <3>1, <3>2, TakesUp
  <2> QED BY <2>3, <2>4, <2>6, <2>7
<1>3. ASSUME NEW a \in Actors, Save(a) PROVE ClarifyInv'
  <2> DEFINE w == work[a]
  <2>1. w # Free /\ IsJob(w) /\ w.item \in Items /\ Do(a, After(w)) /\ UNCHANGED dispatched
        /\ resolved' = IF w.at = "resolve" THEN [resolved EXCEPT ![w.item] = @ + 1] ELSE resolved
    BY <1>3 DEF Save, ClarifyInv, IsJob
  <2> HIDE DEF w
  <2>2. CASE w.at # "resolve"
    <3>1. After(w) \in {Step("ask", w.item), Step("fail", w.item), Free}
      BY <2>2 DEF After
    <3>2. resolved' = resolved
      BY <2>1, <2>2
    <3>3. CASE After(w) = Free
      BY <1>1, <2>1, <3>2, <3>3, TakesUp
    <3>4. ASSUME NEW op \in {"ask", "fail"}, After(w) = Step(op, w.item) PROVE ClarifyInv'
      <4>1. Do(a, Task(op, w.item, Bogus))
        BY <2>1, <3>4, Tasks
      <4> QED BY <2>1, <3>2, <4>1, SetsOut
    <3> QED BY <3>1, <3>3, <3>4
  <2>3. CASE w.at = "resolve"
    <3> DEFINE n == Task("council", w.item, w.site)
    <3>1. a = "loop"
      BY <2>3 DEF ClarifyInv, w
    <3>2. After(w) = n
      BY <2>3, Tasks DEF After
    <3>3. n.at = "council" /\ n.item = w.item /\ IsJob(n)
      BY <2>1, Tasks
    <3> HIDE DEF n
    <3>4. work' = [b \in Actors |-> IF b = "loop" THEN n ELSE work[b]]
      BY <2>1, <3>1, <3>2 DEF Do, ClarifyInv
    <3>5. resolved' = [resolved EXCEPT ![w.item] = @ + 1]
      BY <2>1, <2>3
    <3>6. /\ resolved' \in [Items -> Nat] /\ dispatched' = dispatched
          /\ resolved'[w.item] = resolved[w.item] + 1
          /\ \A i \in Items : resolved'[i] >= resolved[i]
      BY <2>1, <3>5 DEF ClarifyInv
    <3>7. \A i \in Items : dispatched[i] <= resolved[i] /\ dispatched[i] \in Nat /\ resolved[i] \in Nat /\ resolved'[i] \in Nat
      BY <3>6 DEF ClarifyInv, ResolvedFirst
    <3>8. ResolvedFirst' /\ dispatched'[w.item] < resolved'[w.item]
      BY <2>1, <3>6, <3>7 DEF ResolvedFirst
    <3>9. work'["loop"] = n /\ \A b \in Actors : work'[b] = IF b = "loop" THEN n ELSE work[b]
      BY <1>1, <3>4
    <3>10. ASSUME NEW b \in Actors
           PROVE  /\ work'[b] = Free \/ IsJob(work'[b])
                  /\ work'[b].at \in {"resolve", "council", "post"} => b = "loop"
      BY <3>3, <3>9 DEF ClarifyInv
    <3>11. (\A b \in Actors : work[b] = Free \/ IsJob(work[b]))'
      BY <3>10 DEF IsJob, Items
    <3>12. DOMAIN work' = Actors /\ work' = [b \in Actors |-> work'[b]]
      BY <3>4
    <3>13. dispatched' \in [Items -> Nat]
      BY <3>6 DEF ClarifyInv
    <3> QED BY <3>3, <3>6, <3>8, <3>9, <3>10, <3>11, <3>12, <3>13 DEF ClarifyInv
  <2> QED BY <2>2, <2>3
<1>4. ASSUME NEW a \in Actors, Dispatch(a) PROVE ClarifyInv'
  <2> DEFINE w == work[a]
             posts == [at |-> "post", item |-> w.item, copy |-> w.copy, site |-> w.site]
  <2>1. w.at = "council" /\ dispatched' = [dispatched EXCEPT ![w.item] = @ + 1] /\ resolved' = resolved
    BY <1>4 DEF Dispatch
  <2>2. IsJob(w) /\ a = "loop" /\ w.item \in Items /\ dispatched[w.item] < resolved[w.item]
    BY <2>1, Jobs DEF ClarifyInv, IsJob
  <2>3. [w EXCEPT !.at = "post"] = posts
    BY <2>2 DEF IsJob
  <2>4. IsJob(posts) /\ posts.at = "post"
    BY <2>2 DEF IsJob
  <2>5. PICK n \in {Free, posts} : Do(a, n)
    BY <1>4, <2>3 DEF Dispatch
  <2> HIDE DEF w, posts
  <2>6. (n = Free \/ IsJob(n)) /\ n.at \in {"free", "post"}
    BY <1>1, <2>4, <2>5
  <2>7. work' = [b \in Actors |-> IF b = "loop" THEN n ELSE work[b]]
    BY <2>2, <2>5 DEF Do, ClarifyInv
  <2>8. work'["loop"] = n /\ \A b \in Actors : work'[b] = IF b = "loop" THEN n ELSE work[b]
    BY <1>1, <2>7
  <2>9. ASSUME NEW b \in Actors
        PROVE  /\ work'[b] = Free \/ IsJob(work'[b])
               /\ work'[b].at \in {"resolve", "council", "post"} => b = "loop"
    BY <2>6, <2>8 DEF ClarifyInv
  <2>10. (\A b \in Actors : work[b] = Free \/ IsJob(work[b]))'
    BY <2>9 DEF IsJob, Items
  <2>11. DOMAIN work' = Actors /\ work' = [b \in Actors |-> work'[b]]
    BY <2>7
  <2>12. /\ dispatched' \in [Items -> Nat] /\ resolved' \in [Items -> Nat]
         /\ \A i \in Items : dispatched'[i] = IF i = w.item THEN dispatched[i] + 1 ELSE dispatched[i]
    BY <2>1, <2>2 DEF ClarifyInv
  <2>13. \A i \in Items : dispatched[i] <= resolved[i] /\ dispatched[i] \in Nat /\ resolved[i] \in Nat
    BY DEF ClarifyInv, ResolvedFirst
  <2>14. ResolvedFirst'
    BY <2>1, <2>2, <2>12, <2>13 DEF ResolvedFirst, Items
  <2> QED BY <2>6, <2>8, <2>9, <2>10, <2>11, <2>12, <2>14 DEF ClarifyInv
<1>5. ASSUME NEW a \in Actors, PostEnds(a) PROVE ClarifyInv'
  BY <1>1, <1>5, TakesUp DEF PostEnds
<1>6. ASSUME Expire PROVE ClarifyInv'
  <2>1. 1 \in Items
    BY <1>6, ClarifyAssumption DEF Expire, Items
  <2>2. Do("loop", Task("expire", 1, Bogus)) /\ UNCHANGED <<resolved, dispatched>>
    BY <1>6, Tasks DEF Expire
  <2> QED BY <1>1, <2>1, <2>2, SetsOut
<1>7. ASSUME NEW i \in Items, Ages(i) PROVE ClarifyInv'
  BY <1>7 DEF Ages, ClarifyInv, ResolvedFirst, IsJob
<1>8. ASSUME NEW i \in Items, NEW t \in Threads, NEW channel, ClarifiedCapture(t, i, channel) PROVE ClarifyInv'
  <2>1. Do(t, Task("create", i, channel)) /\ UNCHANGED <<resolved, dispatched>>
    BY <1>8, Tasks DEF ClarifiedCapture
  <2> QED BY <1>1, <2>1, SetsOut
<1>9. ASSUME NEW i \in Items, NEW site, Tap(i, site) PROVE ClarifyInv'
  <2>1. Do("loop", Task("resolve", i, Button(site))) /\ UNCHANGED <<resolved, dispatched>>
    BY <1>9, Tasks DEF Tap
  <2> QED BY <1>1, <2>1, SetsOut
<1>10. ASSUME NEW i \in Items, NEW site, FreeText(i, site) PROVE ClarifyInv'
  <2>1. \/ Do("loop", Task("resolve", i, site))
        \/ Do("loop", Task("bump", i, Bogus))
    BY <1>10, Tasks DEF FreeText
  <2>2. UNCHANGED <<resolved, dispatched>>
    BY <1>10 DEF FreeText
  <2>3. CASE Do("loop", Task("resolve", i, site))
    BY <1>1, <2>2, <2>3, SetsOut
  <2>4. CASE Do("loop", Task("bump", i, Bogus))
    BY <1>1, <2>2, <2>4, SetsOut
  <2> QED BY <2>1, <2>3, <2>4
<1>11. ASSUME NEW t \in Threads, Ask(t) PROVE ClarifyInv'
  <2>1. work[t].at = "ask"
    BY <1>11 DEF Ask
  <2>2. work[t].item \in Items
    BY <1>1, <2>1, Jobs DEF IsJob
  <2>3. Do(t, Task("mark", work[t].item, Bogus)) \/ Do(t, Free)
    BY <1>11, Tasks DEF Ask
  <2>4. UNCHANGED <<resolved, dispatched>>
    BY <1>11 DEF Ask
  <2>5. CASE Do(t, Task("mark", work[t].item, Bogus))
    BY <1>1, <2>2, <2>4, <2>5, SetsOut
  <2>6. CASE Do(t, Free)
    BY <1>1, <2>4, <2>6, TakesUp
  <2> QED BY <2>3, <2>5, <2>6
<1> QED BY <1>2, <1>3, <1>4, <1>5, <1>6, <1>7, <1>8, <1>9, <1>10, <1>11 DEF ClarifyNext, Serves

LEMMA ClarifyStarts == ClarifyInit => ClarifyInv
<1> SUFFICES ASSUME ClarifyInit PROVE ClarifyInv
  OBVIOUS
<1>1. /\ work = [a \in Actors |-> Free] /\ Free.at = "free"
      /\ resolved = [i \in Items |-> 0] /\ dispatched = [i \in Items |-> 0] /\ "loop" \in Actors
  BY DEF ClarifyInit, Free, Actors
<1>2. \A i \in Items : dispatched[i] <= resolved[i]
  BY <1>1
<1> QED BY <1>1, <1>2 DEF ClarifyInv, ResolvedFirst

\* A post is never dispatched more often than its clarification was answered: the answer is
\* written into the file before (sprint_a_handlers.py: handle_clarification_choice), whatever
\* the requests that hold older copies of the file write over it.
THEOREM AnsweredBeforeDispatched == ClarifySpec => []ResolvedFirst
<1>1. ClarifyInv => ResolvedFirst
  BY DEF ClarifyInv
<1> QED BY <1>1, ClarifyStarts, ClarifySteps, PTL DEF ClarifySpec
=============================================================================
