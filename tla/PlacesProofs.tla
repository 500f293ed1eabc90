----------------------------- MODULE PlacesProofs -----------------------------
(***************************************************************************)
(* Induction without an operator as a parameter: over a set of numbers,    *)
(* which stands for the property that is proved, and over a step that is a *)
(* function, for what is defined by recursion.  With them, what Rank, Nth  *)
(* and At of Places are, for any sequence and any of its places, and what  *)
(* a sequence of sequences is flattened to.                                *)
(***************************************************************************)
EXTENDS Places, SequencesExt, FiniteSetTheorems, SequenceTheorems, NaturalsInduction, TLAPS

\* The least of a set of natural numbers.
LEMMA Least ==
    ASSUME NEW T \in SUBSET Nat, T # {}
    PROVE  \E m \in T : \A k \in T : m <= k
<1>1. PICK m \in T : \A k \in T : <<k, m>> \notin OpToRel(<, Nat)
  BY NatLessThanWellFounded, WFMin, Zenon
<1>2. \A k \in T : ~(k < m)
  BY <1>1 DEF OpToRel
<1> QED BY <1>2

\* A set of natural numbers that has 0 and the successor of each of its members
\* has every natural number.
LEMMA Induction ==
    ASSUME NEW T \in SUBSET Nat, 0 \in T, \A n \in T : n + 1 \in T
    PROVE  T = Nat
<1> SUFFICES ASSUME NEW n \in Nat, n \notin T PROVE FALSE
  OBVIOUS
<1>1. PICK m \in Nat \ T : \A k \in Nat \ T : m <= k
  BY Least
<1>2. m # 0 /\ m - 1 \in Nat /\ ~(m <= m - 1)
  OBVIOUS
<1>3. m - 1 \in T
  BY <1>1, <1>2
<1>4. (m - 1) + 1 \in T
  BY <1>3
<1> QED BY <1>2, <1>4

\* The greatest of a set of natural numbers with a bound.
LEMMA Greatest ==
    ASSUME NEW T \in SUBSET Nat, T # {}, NEW n \in Nat, \A k \in T : k <= n
    PROVE  \E m \in T : \A k \in T : k <= m
<1> DEFINE U == {n - k : k \in T}
<1>1. U \in SUBSET Nat /\ U # {}
  <2>1. \A k \in T : n - k \in Nat
    OBVIOUS
  <2> QED BY <2>1
<1>2. PICK u \in U : \A v \in U : u <= v
  <2> HIDE DEF U
  <2> QED BY <1>1, Least
<1>3. PICK m \in T : u = n - m
  BY <1>2
<1>4. ASSUME NEW k \in T PROVE k <= m
  <2>1. n - m <= n - k
    BY <1>2, <1>3
  <2> QED BY <2>1
<1> QED BY <1>4

\* The beginnings, up to n, of what a recursion computes.
Beginnings(V, base, step, n) ==
    {g \in [0..n -> V] : g[0] = base /\ \A k \in 0..n : k # n => g[k + 1] = step[k + 1][g[k]]}

\* Two beginnings agree as far as both go.
LEMMA BeginningsAgree ==
    ASSUME NEW V, NEW base \in V, NEW step \in [Nat -> [V -> V]],
           NEW n \in Nat, NEW m \in Nat, NEW k \in Nat, k <= n, k <= m,
           NEW g \in Beginnings(V, base, step, n), NEW h \in Beginnings(V, base, step, m)
    PROVE  g[k] = h[k]
<1> DEFINE T == {l \in Nat : l <= n /\ l <= m => g[l] = h[l]}
<1>1. 0 \in T
  BY DEF Beginnings
<1>2. ASSUME NEW l \in T PROVE l + 1 \in T
  <2> SUFFICES ASSUME l + 1 <= n, l + 1 <= m PROVE g[l + 1] = h[l + 1]
    OBVIOUS
  <2>1. l \in 0..n /\ l # n /\ l \in 0..m /\ l # m /\ g[l] = h[l]
    OBVIOUS
  <2>2. g[l + 1] = step[l + 1][g[l]] /\ h[l + 1] = step[l + 1][h[l]]
    BY <2>1 DEF Beginnings
  <2> QED BY <2>1, <2>2
<1>3. T = Nat
  <2>1. T \in SUBSET Nat
    OBVIOUS
  <2> HIDE DEF T
  <2> QED BY <1>1, <1>2, <2>1, Induction
<1> QED BY <1>3

\* A recursion over the natural numbers has a beginning of every length.
LEMMA BeginningsExist ==
    ASSUME NEW V, NEW base \in V, NEW step \in [Nat -> [V -> V]], NEW n \in Nat
    PROVE  Beginnings(V, base, step, n) # {}
<1> DEFINE T == {l \in Nat : Beginnings(V, base, step, l) # {}}
<1>1. 0 \in T
  <2>1. [k \in 0..0 |-> base] \in Beginnings(V, base, step, 0)
    BY DEF Beginnings
  <2> QED BY <2>1
<1>2. ASSUME NEW l \in T PROVE l + 1 \in T
  <2>1. PICK g : g \in Beginnings(V, base, step, l)
    OBVIOUS
  <2>2. g \in [0..l -> V] /\ g[0] = base
        /\ \A k \in 0..l : k # l => g[k + 1] = step[k + 1][g[k]]
    BY <2>1 DEF Beginnings
  <2> DEFINE h == [k \in 0..l + 1 |-> IF k = l + 1 THEN step[l + 1][g[l]] ELSE g[k]]
  <2>3. step[l + 1][g[l]] \in V
    BY <2>2
  <2>4. \A k \in 0..l + 1 : k # l + 1 => k \in 0..l
    OBVIOUS
  <2>5. h \in [0..l + 1 -> V] /\ h[0] = base
    BY <2>2, <2>3, <2>4
  <2>6. ASSUME NEW k \in 0..l + 1, k # l + 1 PROVE h[k + 1] = step[k + 1][h[k]]
    <3>1. k \in 0..l /\ k + 1 \in 0..l + 1 /\ h[k] = g[k]
      BY <2>4, <2>6
    <3>2. CASE k = l
      BY <3>1, <3>2
    <3>3. CASE k # l
      BY <2>2, <3>1, <3>3
    <3> QED BY <3>2, <3>3
  <2> HIDE DEF h
  <2>7. h \in Beginnings(V, base, step, l + 1)
    BY <2>5, <2>6 DEF Beginnings
  <2> QED BY <2>7
<1>3. T = Nat
  <2>1. T \in SUBSET Nat
    OBVIOUS
  <2> HIDE DEF T
  <2> QED BY <1>1, <1>2, <2>1, Induction
<1> QED BY <1>3

\* f takes a given value at 0 and follows a given step from each natural number
\* to the next.
IsRecursive(f, V, base, step) ==
    f \in [Nat -> V] /\ f[0] = base /\ \A n \in Nat : f[n + 1] = step[n + 1][f[n]]

\* There is such a function for each value and each step.
LEMMA Recursion ==
    ASSUME NEW V, NEW base \in V, NEW step \in [Nat -> [V -> V]]
    PROVE  \E f : IsRecursive(f, V, base, step)
<1> DEFINE g(n) == CHOOSE b \in Beginnings(V, base, step, n) : TRUE
           f == [n \in Nat |-> g(n)[n]]
<1>1. \A n \in Nat : g(n) \in Beginnings(V, base, step, n)
  BY BeginningsExist
<1>2. \A n, m \in Nat : n <= m => g(m)[n] = g(n)[n]
  <2> HIDE DEF g
  <2> QED BY <1>1, BeginningsAgree
<1> HIDE DEF g
<1>3. \A n \in Nat : g(n) \in [0..n -> V] /\ n \in 0..n
  BY <1>1 DEF Beginnings
<1>4. f \in [Nat -> V]
  BY <1>3
<1>5. f[0] = base
  BY <1>1 DEF Beginnings
<1>6. ASSUME NEW n \in Nat PROVE f[n + 1] = step[n + 1][f[n]]
  <2>1. n \in 0..n + 1 /\ n # n + 1 /\ n + 1 \in Nat
    OBVIOUS
  <2>2. g(n + 1)[n + 1] = step[n + 1][g(n + 1)[n]]
    BY <1>1, <2>1 DEF Beginnings
  <2>3. g(n + 1)[n] = g(n)[n]
    BY <1>2, <2>1
  <2> QED BY <2>1, <2>2, <2>3
<1> QED BY <1>4, <1>5, <1>6 DEF IsRecursive

-----------------------------------------------------------------------------
\* The ranks of the places count them in order.
LEMMA RankInRange ==
    ASSUME NEW S \in SUBSET Nat, IsFiniteSet(S), NEW i \in S
    PROVE  Rank(S, i) \in 1..Cardinality(S)
<1> DEFINE upTo == {j \in S : j <= i}
<1>1. upTo \in SUBSET S /\ i \in upTo
  OBVIOUS
<1>2. /\ IsFiniteSet(upTo) /\ Cardinality(upTo) <= Cardinality(S)
      /\ Cardinality(upTo) \in Nat /\ Cardinality(S) \in Nat
  BY <1>1, FS_Subset, FS_CardinalityType
<1>3. Cardinality(upTo) # 0
  BY <1>1, <1>2, FS_EmptySet
<1> QED BY <1>2, <1>3 DEF Rank

\* A later place has a greater rank.
LEMMA RankGrows ==
    ASSUME NEW S \in SUBSET Nat, IsFiniteSet(S), NEW i \in S, NEW j \in S, i < j
    PROVE  Rank(S, i) < Rank(S, j)
<1> DEFINE upTo(k) == {l \in S : l <= k}
<1>1. /\ upTo(i) \in SUBSET upTo(j) /\ upTo(j) \in SUBSET S /\ upTo(i) \in SUBSET S
      /\ j \in upTo(j) /\ j \notin upTo(i)
  <2>1. i \in Nat /\ j \in Nat /\ \A l \in S : l \in Nat /\ (l <= i => l <= j)
    OBVIOUS
  <2>2. upTo(i) \in SUBSET upTo(j)
    BY <2>1
  <2>3. j <= j /\ ~(j <= i)
    BY <2>1
  <2> QED BY <2>2, <2>3
<1> HIDE DEF upTo
<1>2. IsFiniteSet(upTo(j)) /\ IsFiniteSet(upTo(i))
  BY <1>1, FS_Subset
<1>3. /\ Cardinality(upTo(i)) <= Cardinality(upTo(j))
      /\ Cardinality(upTo(j)) = Cardinality(upTo(i)) => upTo(j) = upTo(i)
      /\ Cardinality(upTo(i)) \in Nat /\ Cardinality(upTo(j)) \in Nat
  BY <1>1, <1>2, FS_Subset, FS_CardinalityType
<1>4. Cardinality(upTo(i)) < Cardinality(upTo(j))
  BY <1>1, <1>3
<1> QED BY <1>4 DEF upTo, Rank

\* Each number up to the number of places is the rank of one of them.
LEMMA RankOnto ==
    ASSUME NEW S \in SUBSET Nat, IsFiniteSet(S), NEW k \in 1..Cardinality(S)
    PROVE  \E i \in S : Rank(S, i) = k
<1> DEFINE f == [i \in S |-> Rank(S, i)]
           T == 1..Cardinality(S)
<1>1. f \in [S -> T]
  BY RankInRange
<1>2. ASSUME NEW i \in S, NEW j \in S, f[i] = f[j] PROVE i = j
  <2>1. ~(i < j) /\ ~(j < i)
    BY <1>1, <1>2, RankGrows
  <2> QED BY <2>1
<1>3. f \in Injection(S, T)
  BY <1>1, <1>2 DEF Injection, IsInjective
<1>4. IsFiniteSet(T) /\ Cardinality(T) = Cardinality(S)
  <2>1. Cardinality(S) \in Nat
    BY FS_CardinalityType
  <2> QED BY <2>1, FS_Interval
<1>5. f \in Surjection(S, T)
  BY <1>3, <1>4, FS_Injection
<1> QED BY <1>5 DEF Surjection

\* The k-th place is the one of rank k, and a place is the one of its rank.
LEMMA NthPlace ==
    ASSUME NEW S \in SUBSET Nat, IsFiniteSet(S)
    PROVE  /\ \A k \in 1..Cardinality(S) : Nth(S, k) \in S /\ Rank(S, Nth(S, k)) = k
           /\ \A i \in S : Nth(S, Rank(S, i)) = i
           /\ \A k, l \in 1..Cardinality(S) : k < l => Nth(S, k) < Nth(S, l)
<1>1. ASSUME NEW k \in 1..Cardinality(S)
      PROVE  Nth(S, k) \in S /\ Rank(S, Nth(S, k)) = k
  BY RankOnto DEF Nth
<1>2. ASSUME NEW i \in S, NEW j \in S, Rank(S, i) = Rank(S, j) PROVE i = j
  <2>1. Rank(S, i) \in Nat
    BY RankInRange
  <2>2. ~(i < j) /\ ~(j < i)
    BY <1>2, <2>1, RankGrows
  <2> QED BY <2>2
<1>3. ASSUME NEW i \in S PROVE Nth(S, Rank(S, i)) = i
  BY <1>1, <1>2, RankInRange
<1>4. ASSUME NEW k \in 1..Cardinality(S), NEW l \in 1..Cardinality(S), k < l
      PROVE  Nth(S, k) < Nth(S, l)
  <2>1. Nth(S, k) \in S /\ Nth(S, l) \in S
    BY <1>1
  <2>2. Nth(S, k) # Nth(S, l)
    BY <1>1, <1>4
  <2>3. ~(Nth(S, l) < Nth(S, k))
    <3> SUFFICES ASSUME Nth(S, l) < Nth(S, k) PROVE FALSE
      OBVIOUS
    <3>1. Rank(S, Nth(S, l)) < Rank(S, Nth(S, k))
      BY <2>1, RankGrows
    <3> QED BY <1>1, <1>4, <3>1
  <2>4. \A x, y \in Nat : x # y /\ ~(y < x) => x < y
    OBVIOUS
  <2> QED BY <2>1, <2>2, <2>3, <2>4
<1> QED BY <1>1, <1>3, <1>4

\* The places of a sequence are finitely many.
LEMMA PlacesFinite ==
    ASSUME NEW T, NEW seq \in Seq(T), NEW S \in SUBSET DOMAIN seq
    PROVE  S \in SUBSET Nat /\ IsFiniteSet(S) /\ Cardinality(S) \in Nat
<1>1. DOMAIN seq = 1..Len(seq) /\ Len(seq) \in Nat
  OBVIOUS
<1>2. IsFiniteSet(1..Len(seq))
  BY <1>1, FS_Interval
<1> QED BY <1>1, <1>2, FS_Subset, FS_CardinalityType

\* What stands at some places is a sequence of the elements at these places, and
\* of no others, in the order of the places.
LEMMA AtPlaces ==
    ASSUME NEW T, NEW seq \in Seq(T), NEW S \in SUBSET DOMAIN seq
    PROVE  /\ At(seq, S) \in Seq(T)
           /\ Len(At(seq, S)) = Cardinality(S)
           /\ DOMAIN At(seq, S) = 1..Cardinality(S)
           /\ \A k \in DOMAIN At(seq, S) : Nth(S, k) \in S /\ At(seq, S)[k] = seq[Nth(S, k)]
           /\ \A i \in S : Rank(S, i) \in DOMAIN At(seq, S) /\ At(seq, S)[Rank(S, i)] = seq[i]
           /\ \A k, l \in DOMAIN At(seq, S) : Nth(S, k) = Nth(S, l) => k = l
<1>1. S \in SUBSET Nat /\ IsFiniteSet(S) /\ Cardinality(S) \in Nat
  BY PlacesFinite
<1>2. \A k \in 1..Cardinality(S) : Nth(S, k) \in S /\ Rank(S, Nth(S, k)) = k
  BY <1>1, NthPlace
<1>3. \A i \in S : Nth(S, Rank(S, i)) = i /\ Rank(S, i) \in 1..Cardinality(S)
  BY <1>1, NthPlace, RankInRange
<1>4. \A i \in S : seq[i] \in T
  OBVIOUS
<1>5. /\ DOMAIN At(seq, S) = 1..Cardinality(S)
      /\ \A k \in 1..Cardinality(S) : At(seq, S)[k] = seq[Nth(S, k)]
  BY DEF At
<1>6. At(seq, S) \in Seq(T)
  <2>1. At(seq, S) = [k \in 1..Cardinality(S) |-> seq[Nth(S, k)]]
    BY DEF At
  <2>2. \A k \in 1..Cardinality(S) : seq[Nth(S, k)] \in T
    BY <1>2, <1>4
  <2>3. At(seq, S) \in [1..Cardinality(S) -> T]
    BY <2>1, <2>2
  <2> QED BY <1>1, <2>3
<1>7. Len(At(seq, S)) = Cardinality(S)
  BY <1>1, <1>5, <1>6
<1> QED BY <1>2, <1>3, <1>5, <1>6, <1>7

\* A sequence in which nothing occurs twice is as long as it has elements.
LEMMA ElementsOnce ==
    ASSUME NEW T, NEW seq \in Seq(T), \A k, l \in DOMAIN seq : seq[k] = seq[l] => k = l
    PROVE  Len(seq) = Cardinality(ToSet(seq))
<1>1. DOMAIN seq = 1..Len(seq) /\ Len(seq) \in Nat
  OBVIOUS
<1>2. seq \in [1..Len(seq) -> ToSet(seq)] /\ \A x \in ToSet(seq) : \E k \in 1..Len(seq) : seq[k] = x
  BY <1>1 DEF ToSet
<1>3. seq \in Bijection(1..Len(seq), ToSet(seq))
  BY <1>1, <1>2 DEF Bijection, Injection, Surjection, IsInjective
<1>4. ExistsBijection(1..Len(seq), ToSet(seq))
  BY <1>3 DEF ExistsBijection
<1> QED BY <1>1, <1>4, FS_CountingElements

-----------------------------------------------------------------------------
\* t joins the parts of a text one after the other.
Joins(t, parts, T) ==
    /\ t \in [0..Len(parts) -> Seq(T)] /\ t[0] = <<>>
    /\ \A n \in 1..Len(parts) : t[n] = t[n - 1] \o parts[n]

\* What the parts of a text are flattened to is what joining them comes to.
LEMMA FlatIsLast ==
    ASSUME NEW T, NEW parts \in Seq(Seq(T)), NEW t, Joins(t, parts, T)
    PROVE  FlattenSeq(parts) = t[Len(parts)]
<1>1. Len(parts) \in Nat
  OBVIOUS
<1>2. CASE Len(parts) = 0
  <2>1. parts = <<>>
    BY <1>2
  <2>2. FlattenSeq(parts) = parts
    BY <1>2 DEF FlattenSeq
  <2> QED BY <1>2, <2>1, <2>2 DEF Joins
<1>3. CASE Len(parts) # 0
  <2> DEFINE some == 1..Len(parts)
             join(f) == [i \in some |-> IF i = 1 THEN parts[i] ELSE f[i - 1] \o parts[i]]
             flat == CHOOSE f : f = join(f)
             short == [i \in some |-> t[i]]
  <2>1. FlattenSeq(parts) = flat[Len(parts)]
    BY <1>3 DEF FlattenSeq
  <2>2. t[1] = parts[1]
    <3>1. 1 \in 1..Len(parts) /\ 1 - 1 = 0 /\ parts[1] \in Seq(T)
      BY <1>1, <1>3
    <3>2. t[1] = <<>> \o parts[1]
      BY <3>1 DEF Joins
    <3> QED BY <3>1, <3>2
  <2>3. \A i \in some : i # 1 => i - 1 \in some
    OBVIOUS
  <2>4. short = join(short)
    BY <2>2, <2>3 DEF Joins
  <2>5. flat = join(flat)
    <3> HIDE DEF join, short
    <3> QED BY <2>4
  <2> HIDE DEF flat
  <2> DEFINE P == {n \in Nat : n + 1 <= Len(parts) => flat[n + 1] = t[n + 1]}
  <2>6. 0 \in P
    <3>1. 1 \in some
      BY <1>1, <1>3
    <3>2. flat[1] = parts[1]
      BY <2>5, <3>1
    <3> QED BY <2>2, <3>2
  <2>7. ASSUME NEW n \in P PROVE n + 1 \in P
    <3> SUFFICES ASSUME (n + 1) + 1 <= Len(parts) PROVE flat[(n + 1) + 1] = t[(n + 1) + 1]
      OBVIOUS
    <3> DEFINE m == (n + 1) + 1
    <3>1. m \in some /\ m # 1 /\ m - 1 = n + 1 /\ flat[n + 1] = t[n + 1]
      BY <1>1
    <3> HIDE DEF m
    <3>2. flat[m] = flat[m - 1] \o parts[m]
      BY <2>5, <3>1
    <3>3. t[m] = t[m - 1] \o parts[m]
      BY <3>1 DEF Joins
    <3>4. flat[m] = t[m]
      BY <3>1, <3>2, <3>3
    <3> QED BY <3>4 DEF m
  <2>8. P = Nat
    <3>1. P \in SUBSET Nat
      OBVIOUS
    <3> HIDE DEF P
    <3> QED BY <2>6, <2>7, <3>1, Induction
  <2>9. Len(parts) - 1 \in P /\ (Len(parts) - 1) + 1 = Len(parts)
    <3>1. Len(parts) - 1 \in Nat
      BY <1>1, <1>3
    <3> HIDE DEF P
    <3> QED BY <2>8, <3>1
  <2> QED BY <2>1, <2>9
<1> QED BY <1>2, <1>3

\* The parts of every text can be joined.
LEMMA JoinsExist ==
    ASSUME NEW T, NEW parts \in Seq(Seq(T))
    PROVE  \E t : Joins(t, parts, T)
<1> DEFINE step == [n \in Nat |-> [v \in Seq(T) |-> IF n \in DOMAIN parts THEN v \o parts[n] ELSE v]]
<1>1. step \in [Nat -> [Seq(T) -> Seq(T)]] /\ <<>> \in Seq(T)
  <2>1. \A n \in DOMAIN parts : parts[n] \in Seq(T)
    OBVIOUS
  <2>2. \A v, w \in Seq(T) : v \o w \in Seq(T)
    OBVIOUS
  <2> QED BY <2>1, <2>2
<1>2. PICK f : f \in [Nat -> Seq(T)] /\ f[0] = <<>> /\ \A n \in Nat : f[n + 1] = step[n + 1][f[n]]
  <2> HIDE DEF step
  <2>1. \E f : IsRecursive(f, Seq(T), <<>>, step)
    BY <1>1, Recursion
  <2> QED BY <2>1 DEF IsRecursive
<1>3. ASSUME NEW n \in 1..Len(parts) PROVE f[n] = f[n - 1] \o parts[n]
  <2> DEFINE m == n - 1
  <2>1. m \in Nat /\ m + 1 = n /\ n \in Nat /\ n \in DOMAIN parts
    OBVIOUS
  <2>2. f[m + 1] = step[m + 1][f[m]] /\ f[m] \in Seq(T)
    <3> HIDE DEF m, step
    <3> QED BY <1>2, <2>1
  <2>3. step[n][f[m]] = f[m] \o parts[n]
    <3> HIDE DEF m
    <3> QED BY <2>1, <2>2
  <2> HIDE DEF step
  <2> QED BY <2>1, <2>2, <2>3
<1> DEFINE t == [n \in 0..Len(parts) |-> f[n]]
<1>4. t \in [0..Len(parts) -> Seq(T)] /\ t[0] = <<>>
  BY <1>2
<1>5. \A n \in 1..Len(parts) : n - 1 \in 0..Len(parts) /\ n \in 0..Len(parts)
  OBVIOUS
<1>6. Joins(t, parts, T)
  BY <1>3, <1>4, <1>5 DEF Joins
<1> QED BY <1>6

\* One more part is joined at the end.
LEMMA FlatAppend ==
    ASSUME NEW T, NEW parts \in Seq(Seq(T)), NEW part \in Seq(T)
    PROVE  /\ FlattenSeq(parts) \in Seq(T)
           /\ FlattenSeq(Append(parts, part)) = FlattenSeq(parts) \o part
<1> DEFINE len == Len(parts)
           more == Append(parts, part)
<1>1. /\ len \in Nat /\ Len(more) = len + 1 /\ more[len + 1] = part /\ more \in Seq(Seq(T))
      /\ \A n \in 1..len : more[n] = parts[n]
  OBVIOUS
<1>2. PICK t : Joins(t, parts, T)
  BY JoinsExist
<1>3. t \in [0..len -> Seq(T)] /\ t[0] = <<>> /\ \A n \in 1..len : t[n] = t[n - 1] \o parts[n]
  BY <1>2 DEF Joins
<1>4. FlattenSeq(parts) = t[len] /\ t[len] \in Seq(T)
  <2>1. len \in 0..len
    BY <1>1
  <2>2. FlattenSeq(parts) = t[Len(parts)]
    BY <1>2, FlatIsLast
  <2> QED BY <1>3, <2>1, <2>2
<1> HIDE DEF len, more
<1> DEFINE u == [n \in 0..len + 1 |-> IF n = len + 1 THEN t[len] \o part ELSE t[n]]
<1>5. u \in [0..len + 1 -> Seq(T)] /\ u[0] = <<>>
  <2>1. t[len] \o part \in Seq(T)
    BY <1>4
  <2>2. \A n \in 0..len + 1 : n # len + 1 => n \in 0..len
    BY <1>1
  <2> QED BY <1>1, <1>3, <2>1, <2>2
<1>6. ASSUME NEW n \in 1..len + 1 PROVE u[n] = u[n - 1] \o more[n]
  <2>1. n - 1 \in 0..len /\ n - 1 # len + 1 /\ n - 1 \in 0..len + 1 /\ n \in 0..len + 1
    BY <1>1
  <2>2. u[n - 1] = t[n - 1]
    BY <2>1
  <2>3. CASE n = len + 1
    <3>1. n - 1 = len
      BY <1>1, <2>3
    <3> QED BY <1>1, <2>1, <2>2, <2>3, <3>1
  <2>4. CASE n # len + 1
    <3>1. n \in 1..len
      BY <1>1, <2>4
    <3> QED BY <1>1, <1>3, <2>1, <2>2, <2>4, <3>1
  <2> QED BY <2>3, <2>4
<1>7. u[len + 1] = t[len] \o part
  <2>1. len + 1 \in 0..len + 1
    BY <1>1
  <2> QED BY <2>1
<1> HIDE DEF u
<1>8. Joins(u, more, T)
  BY <1>1, <1>5, <1>6 DEF Joins
<1>9. FlattenSeq(more) = u[len + 1]
  BY <1>1, <1>8, FlatIsLast
<1> QED BY <1>4, <1>7, <1>9 DEF more

\* What is in one of the parts is in what they are flattened to.
LEMMA PartIsInFlat ==
    ASSUME NEW T, NEW parts \in Seq(Seq(T)), NEW i \in DOMAIN parts
    PROVE  ToSet(parts[i]) \in SUBSET ToSet(FlattenSeq(parts))
<1>1. Len(parts) \in Nat /\ DOMAIN parts = 1..Len(parts)
  OBVIOUS
<1>2. PICK t : Joins(t, parts, T)
  BY JoinsExist
<1>3. t \in [0..Len(parts) -> Seq(T)] /\ \A n \in 1..Len(parts) : t[n] = t[n - 1] \o parts[n]
  BY <1>2 DEF Joins
<1> DEFINE P == {n \in Nat : i <= n /\ n <= Len(parts) => ToSet(parts[i]) \subseteq ToSet(t[n])}
<1>4. \A v, w \in Seq(T) : ToSet(v) \subseteq ToSet(v \o w) /\ ToSet(w) \subseteq ToSet(v \o w)
  <2> TAKE v, w \in Seq(T)
  <2>1. /\ Len(v) \in Nat /\ Len(w) \in Nat /\ DOMAIN v = 1..Len(v) /\ DOMAIN w = 1..Len(w)
        /\ DOMAIN (v \o w) = 1..Len(v) + Len(w)
        /\ \A k \in 1..Len(v) : (v \o w)[k] = v[k]
        /\ \A k \in 1..Len(w) : (v \o w)[Len(v) + k] = w[k]
    OBVIOUS
  <2>2. \A k \in 1..Len(v) : k \in 1..Len(v) + Len(w)
    BY <2>1
  <2>3. \A k \in 1..Len(w) : Len(v) + k \in 1..Len(v) + Len(w)
    BY <2>1
  <2> QED BY <2>1, <2>2, <2>3 DEF ToSet
<1>5. 0 \in P
  BY <1>1
<1>6. ASSUME NEW n \in P PROVE n + 1 \in P
  <2> SUFFICES ASSUME i <= n + 1, n + 1 <= Len(parts)
               PROVE  ToSet(parts[i]) \subseteq ToSet(t[n + 1])
    OBVIOUS
  <2>1. n + 1 \in 1..Len(parts) /\ (n + 1) - 1 = n /\ n \in 0..Len(parts)
    BY <1>1
  <2>2. t[n + 1] = t[n] \o parts[n + 1] /\ t[n] \in Seq(T) /\ parts[n + 1] \in Seq(T)
    <3>1. t[n + 1] = t[(n + 1) - 1] \o parts[n + 1]
      BY <1>3, <2>1
    <3>2. parts[n + 1] \in Seq(T)
      BY <1>1, <2>1
    <3> QED BY <1>3, <2>1, <3>1, <3>2
  <2>3. ToSet(t[n]) \subseteq ToSet(t[n + 1]) /\ ToSet(parts[n + 1]) \subseteq ToSet(t[n + 1])
    BY <1>4, <2>2
  <2>4. CASE i = n + 1
    BY <2>3, <2>4
  <2>5. CASE i # n + 1
    <3>1. i <= n /\ n <= Len(parts)
      BY <1>1, <2>5
    <3> QED BY <2>3, <3>1
  <2> QED BY <2>4, <2>5
<1>7. P = Nat
  <2>1. P \in SUBSET Nat
    OBVIOUS
  <2> HIDE DEF P
  <2> QED BY <1>5, <1>6, <2>1, Induction
<1>8. ToSet(parts[i]) \subseteq ToSet(t[Len(parts)])
  <2>1. i <= Len(parts) /\ Len(parts) <= Len(parts)
    BY <1>1
  <2>2. Len(parts) \in P
    <3> HIDE DEF P
    <3> QED BY <1>1, <1>7
  <2> QED BY <2>1, <2>2
<1> QED BY <1>2, <1>8, FlatIsLast

=============================================================================
