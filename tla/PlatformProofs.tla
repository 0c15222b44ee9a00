-------------------------- MODULE PlatformProofs ----------------------------
(* Usage is counted once and quotas hold, for any number of flushes and of
   evaluations under way, and the two caches answer with what is current, for any
   number of readers, entries and versions.                                     *)
EXTENDS Metering, Caches, FiniteSetTheorems, TLAPS

-----------------------------------------------------------------------------
(* Usage and quotas.                                                         *)

\* A set of numbers that is not empty has a least one.
LEMMA LeastNumber ==
    ASSUME NEW S \in SUBSET Nat, S # {}
    PROVE  \E m \in S : \A k \in S : m <= k
<1> DEFINE R == {pair \in Nat \X Nat : pair[1] < pair[2]}
<1>1. IsWellFoundedOn(R, Nat)
  BY NatLessThanWellFounded, Zenon DEF OpToRel
<1>2. \A k, m \in Nat : <<k, m>> \in R <=> k < m
  BY Zenon
<1> HIDE DEF R
<1>3. PICK m \in S : \A k \in S : <<k, m>> \notin R
  BY <1>1, WFMin, Zenon
<1>4. m \in Nat /\ \A k \in S : k \in Nat /\ ~(k < m)
  BY <1>2, <1>3, Zenon
<1>5. \A k \in S : m <= k
  BY <1>4
<1> QED  BY <1>5, Zenon

\* What holds of 0 and is passed on from each number to the next holds up to N.
LEMMA UpTo ==
    ASSUME NEW N \in Nat, NEW I, 0 \in I, \A n \in 1..N : n - 1 \in I => n \in I
    PROVE  \A n \in 0..N : n \in I
<1> DEFINE Bad == {n \in 0..N : n \notin I}
<1>1. SUFFICES ASSUME Bad # {} PROVE FALSE
  BY Zenon
<1>2. PICK m \in Bad : \A k \in Bad : m <= k
  BY <1>1, LeastNumber, Bad \subseteq Nat, Zenon
<1>3. m # 0 /\ m - 1 \in 0..N /\ m \in 1..N
  BY <1>2
<1>4. m - 1 \notin Bad
  BY <1>2, <1>3
<1> QED  BY <1>2, <1>3, <1>4, Zenon

\* What holds at first and is kept by each turn of a loop holds after every turn.
LEMMA LoopInvariant ==
    ASSUME NEW N \in Nat, NEW f, NEW I, f[0] \in I,
           \A n \in 1..N : f[n - 1] \in I => f[n] \in I
    PROVE  \A n \in 0..N : f[n] \in I
<1> DEFINE J == {n \in 0..N : f[n] \in I}
<1>1. 0 \in J /\ \A n \in 1..N : n - 1 \in J => n \in J
  OBVIOUS
<1>2. \A n \in 0..N : n \in J
  <2> HIDE DEF J
  <2> QED  BY <1>1, UpTo, Zenon
<1> QED  BY <1>2, Zenon

\* N turns, given by a function F on the states K, lead on from k0.
LoopFrom(N, K, F, k0) == {g \in [0..N -> K] : g[0] = k0 /\ \A n \in 1..N : g[n] = F[g[n - 1]]}

\* A loop whose turns are given by a function can be run N times.
LEMMA LoopRuns ==
    ASSUME NEW N \in Nat, NEW K, NEW F \in [K -> K], NEW k0 \in K
    PROVE  LoopFrom(N, K, F, k0) # {}
<1> DEFINE Runs(n) == \E g \in [0..n -> K] : g[0] = k0 /\ \A i \in 1..n : g[i] = F[g[i - 1]]
           Bad == {n \in Nat : ~Runs(n)}
<1>1. SUFFICES ASSUME Bad # {} PROVE FALSE
  <2>1. Runs(N)
    BY Bad = {}, Zenon
  <2> QED  BY <2>1, Zenon DEF LoopFrom
<1>2. PICK m \in Bad : \A k \in Bad : m <= k
  <2> HIDE DEF Bad
  <2> QED  BY <1>1, LeastNumber, Bad \subseteq Nat, Zenon DEF Bad
<1>3. m \in Nat /\ ~Runs(m)
  BY <1>2, Zenon
<1>4. m # 0
  <2>1. Runs(0)
    <3> DEFINE g == [n \in 0..0 |-> k0]
    <3>1. g \in [0..0 -> K] /\ g[0] = k0 /\ \A i \in 1..0 : g[i] = F[g[i - 1]]
      OBVIOUS
    <3> HIDE DEF g
    <3> QED  BY <3>1, Zenon
  <2> HIDE DEF Runs
  <2> QED  BY <1>3, <2>1, Zenon
<1>5. m - 1 \in Nat /\ Runs(m - 1)
  <2>1. m \in Nat /\ m - 1 \in Nat /\ ~(m <= m - 1)
    BY <1>3, <1>4
  <2>2. m - 1 \notin Bad
    <3> HIDE DEF Bad
    <3> QED  BY <1>2, <2>1, Zenon
  <2> QED  BY <2>1, <2>2, Zenon
<1>6. PICK g \in [0..(m - 1) -> K] : g[0] = k0 /\ \A i \in 1..(m - 1) : g[i] = F[g[i - 1]]
  BY <1>5, Zenon
<1> DEFINE h == [i \in 0..m |-> IF i = m THEN F[g[m - 1]] ELSE g[i]]
<1>7. h \in [0..m -> K] /\ h[0] = k0 /\ \A i \in 1..m : h[i] = F[h[i - 1]]
  <2>1. m \in Nat /\ m - 1 \in 0..(m - 1) /\ g[m - 1] \in K
    BY <1>3, <1>4, <1>6
  <2>2. \A i \in 0..m : i # m => i \in 0..(m - 1)
    BY <2>1
  <2>3. h \in [0..m -> K]
    BY <1>6, <2>1, <2>2, Zenon
  <2>4. ASSUME NEW i \in 1..m PROVE h[i] = F[h[i - 1]]
    <3>1. i - 1 \in 0..m /\ i - 1 # m /\ i \in 0..m
      BY <2>1
    <3>2. CASE i = m
      BY <3>1, <3>2, Zenon
    <3>3. CASE i # m
      BY <1>6, <2>1, <3>1, <3>3
    <3> QED  BY <3>2, <3>3, Zenon
  <2>5. h[0] = k0
    BY <1>4, <1>6, <2>1
  <2> QED  BY <2>3, <2>4, <2>5, Zenon
<1>8. Runs(m)
  <2> HIDE DEF h
  <2> QED  BY <1>7, Zenon
<1> HIDE DEF Runs
<1> QED  BY <1>3, <1>8, Zenon

\* Appending what a sequence does not have leaves it without repetition.
LEMMA AppendedOnce ==
    ASSUME NEW T, NEW s \in Seq(T), IsInjective(s), NEW x \in T, x \notin Range(s)
    PROVE  /\ Append(s, x) \in Seq(T) /\ IsInjective(Append(s, x))
           /\ Range(Append(s, x)) = Range(s) \cup {x}
           /\ Len(Append(s, x)) = Len(s) + 1
           /\ \A i \in 1..Len(s) : Append(s, x)[i] = s[i]
           /\ Append(s, x)[Len(s) + 1] = x
<1>1. /\ Append(s, x) \in Seq(T) /\ Len(Append(s, x)) = Len(s) + 1 /\ Len(s) \in Nat
      /\ \A i \in 1..Len(s) : Append(s, x)[i] = s[i]
      /\ Append(s, x)[Len(s) + 1] = x /\ DOMAIN s = 1..Len(s) /\ DOMAIN Append(s, x) = 1..(Len(s) + 1)
  OBVIOUS
<1> DEFINE r == Append(s, x)
<1> HIDE DEF r
<1>2. Range(r) = Range(s) \cup {x}
  BY <1>1 DEF r, Range
<1>3. IsInjective(r)
  BY <1>1 DEF r, Range, IsInjective
<1> QED  BY <1>1, <1>2, <1>3, Zenon DEF r

\* Taking the head off a sequence without repetition takes it out of its range.
LEMMA TailOnce ==
    ASSUME NEW T, NEW s \in Seq(T), IsInjective(s), s # <<>>
    PROVE  /\ Tail(s) \in Seq(T) /\ IsInjective(Tail(s)) /\ Range(Tail(s)) = Range(s) \ {Head(s)}
           /\ Head(s) \in Range(s) /\ Head(s) \in T
<1> DEFINE r == Tail(s)
<1>1. /\ r \in Seq(T) /\ Len(s) \in Nat /\ Len(s) > 0 /\ DOMAIN s = 1..Len(s) /\ DOMAIN r = 1..(Len(s) - 1)
      /\ \A i \in 1..(Len(s) - 1) : r[i] = s[i + 1] /\ i + 1 \in 1..Len(s)
      /\ Head(s) = s[1] /\ 1 \in DOMAIN s /\ s[1] \in T
  OBVIOUS
<1> HIDE DEF r
<1>2. ASSUME NEW i \in DOMAIN r, NEW j \in DOMAIN r, r[i] = r[j] PROVE i = j
  <2>1. i + 1 \in DOMAIN s /\ j + 1 \in DOMAIN s /\ s[i + 1] = s[j + 1]
    BY <1>1, <1>2, Zenon
  <2>2. i + 1 = j + 1
    BY <2>1, Zenon DEF IsInjective
  <2> QED  BY <1>1, <2>2
<1>3. ASSUME NEW i \in DOMAIN r PROVE r[i] \in Range(s) /\ r[i] # Head(s)
  <2>1. i + 1 \in DOMAIN s /\ r[i] = s[i + 1] /\ i + 1 # 1
    BY <1>1
  <2> QED  BY <1>1, <2>1, Zenon DEF IsInjective, Range
<1>4. ASSUME NEW i \in DOMAIN s, s[i] # Head(s) PROVE s[i] \in Range(r)
  <2>1. i # 1 /\ i - 1 \in 1..(Len(s) - 1) /\ (i - 1) + 1 = i
    BY <1>1, <1>4
  <2>2. r[i - 1] = s[i] /\ i - 1 \in DOMAIN r
    BY <1>1, <2>1, Zenon
  <2> QED  BY <2>2, Zenon DEF Range
<1>5. Range(r) = Range(s) \ {Head(s)}
  BY <1>3, <1>4, Zenon DEF Range
<1>6. Head(s) \in Range(s)
  BY <1>1, Zenon DEF Range
<1>7. IsInjective(r)
  BY <1>2, Zenon DEF IsInjective
<1> QED  BY <1>1, <1>5, <1>6, <1>7, Zenon DEF r

-----------------------------------------------------------------------------
\* u sums up the window w age by age.
Sums(w, n, u) == u \in [0..n -> Nat] /\ u[0] = w[0] /\ \A a \in 1..n : u[a] = w[a] + u[a - 1]

\* A window of counts has its sums.
LEMMA SumExists ==
    ASSUME NEW n \in Nat, NEW w \in [0..n -> Nat]
    PROVE  \E u : Sums(w, n, u)
<1> DEFINE K == Nat \X Nat
           F == [k \in K |-> IF k[1] < n THEN <<k[1] + 1, k[2] + w[k[1] + 1]>> ELSE k]
           k0 == <<0, w[0]>>
<1>1. F \in [K -> K]
  <2>1. ASSUME NEW k \in K PROVE (IF k[1] < n THEN <<k[1] + 1, k[2] + w[k[1] + 1]>> ELSE k) \in K
    <3>1. CASE k[1] < n
      <4>1. k[1] + 1 \in 0..n /\ k[1] + 1 \in Nat
        BY <3>1
      <4>2. w[k[1] + 1] \in Nat
        BY <4>1, Zenon
      <4>3. k[2] + w[k[1] + 1] \in Nat
        BY <4>2
      <4> QED  BY <3>1, <4>1, <4>3, Zenon
    <3> QED  BY <3>1, Zenon
  <2> QED  BY <2>1, Zenon
<1>2. k0 \in K
  OBVIOUS
<1>3. PICK g \in LoopFrom(n, K, F, k0) : TRUE
  <2> HIDE DEF K, F, k0
  <2>1. LoopFrom(n, K, F, k0) # {}
    BY <1>1, <1>2, LoopRuns, Zenon
  <2> QED  BY <2>1, Zenon
<1>4. g \in [0..n -> K] /\ g[0] = k0 /\ \A a \in 1..n : g[a] = F[g[a - 1]]
  <2> HIDE DEF K, F, k0
  <2> QED  BY <1>3, Zenon DEF LoopFrom
<1> DEFINE I == {a \in 0..n : g[a][1] = a}
<1>5. \A a \in 0..n : g[a][1] = a
  <2>1. 0 \in I
    BY <1>4
  <2>2. ASSUME NEW a \in 1..n, a - 1 \in I PROVE a \in I
    <3>1. a - 1 \in 0..n /\ g[a - 1] \in K /\ g[a - 1][1] = a - 1 /\ a \in 0..n /\ a - 1 < n /\ (a - 1) + 1 = a
      BY <1>4, <2>2
    <3>2. g[a] = <<(a - 1) + 1, g[a - 1][2] + w[(a - 1) + 1]>>
      BY <1>4, <3>1, Zenon
    <3> QED  BY <3>1, <3>2
  <2>3. \A a \in 0..n : a \in I
    <3> HIDE DEF I
    <3> QED  BY <2>1, <2>2, UpTo, Zenon
  <2> QED  BY <2>3, Zenon
<1> DEFINE u == [a \in 0..n |-> g[a][2]]
<1>6. u \in [0..n -> Nat] /\ u[0] = w[0]
  BY <1>4
<1>7. ASSUME NEW a \in 1..n PROVE u[a] = w[a] + u[a - 1]
  <2>1. a - 1 \in 0..n /\ g[a - 1] \in K /\ g[a - 1][1] = a - 1 /\ a \in 0..n /\ a - 1 < n /\ (a - 1) + 1 = a
    BY <1>4, <1>5
  <2>2. g[a] = <<(a - 1) + 1, g[a - 1][2] + w[(a - 1) + 1]>>
    BY <1>4, <2>1, Zenon
  <2>3. w[a] \in Nat /\ g[a - 1][2] \in Nat
    BY <2>1, Zenon
  <2> QED  BY <2>1, <2>2, <2>3
<1> HIDE DEF u
<1> QED  BY <1>6, <1>7, Zenon DEF Sums

\* What Count computes is the last of the sums.
LEMMA CountSums ==
    ASSUME NEW n \in Nat, NEW w \in [0..n -> Nat]
    PROVE  \E u : Sums(w, n, u) /\ Count(w) = u[n] /\ Count(w) \in Nat
<1> DEFINE Sum(f) == [age \in DOMAIN w |-> IF age = 0 THEN w[0] ELSE w[age] + f[age - 1]]
           u == CHOOSE f : f = Sum(f)
<1>1. PICK g : Sums(w, n, g)
  BY SumExists, Zenon
<1>2. g = Sum(g)
  BY <1>1 DEF Sums
<1>3. u = Sum(u)
  <2> HIDE DEF Sum
  <2> QED  BY <1>2, Zenon
<1>4. Count(w) = u[Cardinality(DOMAIN w) - 1]
  BY Zenon DEF Count
<1> HIDE DEF u
<1>5. \A a \in 0..n : u[a] = IF a = 0 THEN w[0] ELSE w[a] + u[a - 1]
  BY <1>3, Zenon
<1>6. u[0] = w[0] /\ \A a \in 1..n : u[a] = w[a] + u[a - 1]
  <2>1. 0 \in 0..n /\ \A a \in 1..n : a \in 0..n /\ a # 0
    OBVIOUS
  <2> HIDE DEF Sum
  <2> QED  BY <1>5, <2>1, Zenon
<1>7. \A a \in 0..n : u[a] \in Nat
  <2>1. u[0] \in Nat /\ \A a \in 1..n : u[a - 1] \in Nat => u[a] \in Nat
    BY <1>6
  <2> QED  BY <2>1, LoopInvariant, Zenon
<1>8. u \in [0..n -> Nat]
  BY <1>3, <1>7, Zenon
<1>9. Cardinality(DOMAIN w) - 1 = n
  <2>1. Cardinality(0..n) = n - 0 + 1
    BY FS_Interval
  <2> QED  BY <2>1
<1>10. Sums(w, n, u)
  BY <1>6, <1>8, Zenon DEF Sums
<1>11. Count(w) = u[n] /\ u[n] \in Nat
  BY <1>4, <1>7, <1>9
<1> QED  BY <1>10, <1>11, Zenon

\* One more entry of age 0 is counted once.
LEMMA CountRecorded ==
    ASSUME NEW n \in Nat, NEW w \in [0..n -> Nat], NEW v \in [0..n -> Nat],
           v[0] = w[0] + 1, \A a \in 1..n : v[a] = w[a]
    PROVE  Count(v) = Count(w) + 1
<1>1. PICK u : Sums(w, n, u) /\ Count(w) = u[n]
  BY CountSums, Zenon
<1>2. PICK x : Sums(v, n, x) /\ Count(v) = x[n]
  BY CountSums, Zenon
<1> DEFINE I == {a \in 0..n : x[a] = u[a] + 1}
<1>3. 0 \in I
  BY <1>1, <1>2 DEF Sums
<1>4. ASSUME NEW a \in 1..n, a - 1 \in I PROVE a \in I
  <2>1. a - 1 \in 0..n /\ x[a - 1] = u[a - 1] + 1 /\ x[a] = v[a] + x[a - 1] /\ u[a] = w[a] + u[a - 1]
    BY <1>1, <1>2, <1>4, Zenon DEF Sums
  <2>2. u[a - 1] \in Nat /\ w[a] \in Nat /\ v[a] = w[a] /\ a \in 0..n
    BY <1>1, <2>1 DEF Sums
  <2> QED  BY <2>1, <2>2, SMTT(30)
<1>5. \A a \in 0..n : a \in I
  <2> HIDE DEF I
  <2> QED  BY <1>3, <1>4, UpTo, Zenon
<1> QED  BY <1>1, <1>2, <1>5

\* What gets older is counted no more than before.
LEMMA CountCleaned ==
    ASSUME NEW n \in Nat, NEW w \in [0..n -> Nat]
    PROVE  _cleanup(w) \in [0..n -> Nat] /\ Count(_cleanup(w)) \in Nat /\ Count(_cleanup(w)) <= Count(w)
<1> DEFINE v == _cleanup(w)
<1>1. v \in [0..n -> Nat] /\ v[0] = 0 /\ \A a \in 1..n : v[a] = w[a - 1]
  <2>1. v = [age \in 0..n |-> IF age = 0 THEN 0 ELSE w[age - 1]]
    BY Zenon DEF _cleanup
  <2> QED  BY <2>1
<1> HIDE DEF v
<1>2. PICK u : Sums(w, n, u) /\ Count(w) = u[n]
  BY CountSums, Zenon
<1>3. PICK x : Sums(v, n, x) /\ Count(v) = x[n] /\ Count(v) \in Nat
  BY <1>1, CountSums, Zenon
<1> DEFINE I == {a \in 0..n : x[a] + w[a] = u[a]}
<1>4. 0 \in I
  BY <1>1, <1>2, <1>3 DEF Sums
<1>5. ASSUME NEW a \in 1..n, a - 1 \in I PROVE a \in I
  <2>1. a - 1 \in 0..n /\ x[a - 1] + w[a - 1] = u[a - 1] /\ x[a] = w[a - 1] + x[a - 1] /\ u[a] = w[a] + u[a - 1]
    BY <1>1, <1>2, <1>3, <1>5, Zenon DEF Sums
  <2>2. x[a - 1] \in Nat /\ w[a - 1] \in Nat /\ w[a] \in Nat /\ a \in 0..n
    BY <1>3, <2>1 DEF Sums
  <2> QED  BY <2>1, <2>2
<1>6. \A a \in 0..n : a \in I
  <2> HIDE DEF I
  <2> QED  BY <1>4, <1>5, UpTo, Zenon
<1>7. x[n] + w[n] = u[n] /\ x[n] \in Nat /\ w[n] \in Nat
  BY <1>3, <1>6 DEF Sums
<1> QED  BY <1>1, <1>2, <1>3, <1>7 DEF v

-----------------------------------------------------------------------------
\* The records of the batches other than that of f.
OtherBatches(f) == UNION {Range(batch[g]) : g \in Flushers \ {f}}

UsageIInv ==
    /\ usageRecords \in Seq(Nat) /\ stored \in Seq(Nat) /\ issued \in Nat
    /\ batch = [f \in Flushers |-> batch[f]] /\ \A f \in Flushers : batch[f] \in Seq(Nat)
    /\ UsageConserved

\* What trimming keeps was there, once.
LEMMA NewestKept ==
    ASSUME NEW s \in Seq(Nat), IsInjective(s)
    PROVE  Newest(s) \in Seq(Nat) /\ IsInjective(Newest(s)) /\ Range(Newest(s)) \subseteq Range(s)
<1> DEFINE n == Len(s)
           m == MaxRecords
           t == SubSeq(s, n - m + 1, n)
<1>1. n \in Nat /\ DOMAIN s = 1..n /\ m \in Nat \ {0}
  BY MeterAssumption
<1>2. CASE ~(n > m)
  BY <1>2, Zenon DEF Newest
<1>3. CASE n > m
  <2>1. t \in Seq(Nat) /\ Len(t) = m /\ \A i \in 1..m : t[i] = s[(n - m) + i] /\ (n - m) + i \in 1..n
    BY <1>1, <1>3
  <2>2. Newest(s) = t
    BY <1>3, Zenon DEF Newest
  <2> HIDE DEF t
  <2>3. DOMAIN t = 1..m
    BY <2>1
  <2>4. Range(t) \subseteq Range(s)
    <3>1. \A i \in DOMAIN t : \E j \in DOMAIN s : t[i] = s[j]
      BY <1>1, <2>1, <2>3, Zenon
    <3> QED  BY <3>1, Zenon DEF Range
  <2>5. ASSUME NEW i \in 1..m, NEW j \in 1..m, t[i] = t[j] PROVE i = j
    <3>1. (n - m) + i = (n - m) + j
      <4>1. s[(n - m) + i] = s[(n - m) + j] /\ (n - m) + i \in DOMAIN s /\ (n - m) + j \in DOMAIN s
        BY <1>1, <2>1, <2>5, Zenon
      <4> HIDE DEF n, m
      <4> QED  BY <4>1, Zenon DEF IsInjective
    <3> QED  BY <1>1, <3>1
  <2>6. IsInjective(t)
    BY <2>3, <2>5, Zenon DEF IsInjective
  <2> QED  BY <2>1, <2>2, <2>4, <2>6, Zenon
<1> QED  BY <1>2, <1>3, Zenon

\* What one flusher moves between its batch, memory, the database and the records given up
\* is accounted for when nothing is doubled or lost among these.
LEMMA Moved ==
    ASSUME UsageIInv, NEW f \in Flushers, NEW s \in Seq(Nat), batch' = [batch EXCEPT ![f] = s], issued' = issued,
           usageRecords' \in Seq(Nat), stored' \in Seq(Nat),
           IsInjective(usageRecords'), IsInjective(stored'), IsInjective(s),
           Range(usageRecords') \cap Range(stored') = {}, Range(s) \cap (Range(usageRecords') \cup Range(stored')) = {},
           (trimmed' \cup abandoned') \cap (Range(usageRecords') \cup Range(stored') \cup Range(s)) = {},
           Range(usageRecords') \cup Range(stored') \cup Range(s) \cup trimmed' \cup abandoned'
             = Range(usageRecords) \cup Range(stored) \cup Range(batch[f]) \cup trimmed \cup abandoned
    PROVE  UsageIInv'
<1> DEFINE R == OtherBatches(f)
           O == Range(usageRecords) \cup Range(stored) \cup Range(batch[f]) \cup trimmed \cup abandoned
<1>1. batch'[f] = s /\ \A g \in Flushers \ {f} : batch'[g] = batch[g]
  BY Zenon DEF UsageIInv
<1>2. batch' = [g \in Flushers |-> batch'[g]] /\ \A g \in Flushers : batch'[g] \in Seq(Nat)
  BY <1>1, Zenon DEF UsageIInv
<1>3. UsageConserved
  BY Zenon DEF UsageIInv
<1>4. Held = Range(usageRecords) \cup Range(stored) \cup Range(batch[f]) \cup R
  BY Zenon DEF Held, OtherBatches
<1>5. Held' = Range(usageRecords') \cup Range(stored') \cup Range(s) \cup R
  <2>1. UNION {Range(batch'[g]) : g \in Flushers} = Range(s) \cup R
    BY <1>1, Zenon DEF OtherBatches
  <2> QED  BY <2>1, Zenon DEF Held
<1>6. R \cap O = {}
  <2>1. \A g \in Flushers \ {f} : Range(batch[g]) \cap (Range(usageRecords) \cup Range(stored) \cup Range(batch[f])) = {}
    BY <1>3, Zenon DEF UsageConserved
  <2>2. R \cap (Range(usageRecords) \cup Range(stored) \cup Range(batch[f])) = {}
    BY <2>1, Zenon DEF OtherBatches
  <2>3. R \cap (trimmed \cup abandoned) = {}
    BY <1>3, <1>4, Zenon DEF UsageConserved
  <2> QED  BY <2>2, <2>3, Zenon
<1>7. \A g \in Flushers \ {f} : Range(batch[g]) \subseteq R
  BY Zenon DEF OtherBatches
<1> HIDE DEF R
<1>8. ASSUME NEW g \in Flushers
      PROVE  /\ IsInjective(batch'[g]) /\ Range(batch'[g]) \cap (Range(usageRecords') \cup Range(stored')) = {}
             /\ \A k \in Flushers \ {g} : Range(batch'[g]) \cap Range(batch'[k]) = {}
  <2>1. CASE g = f
    <3>1. \A k \in Flushers \ {g} : Range(s) \cap Range(batch[k]) = {}
      BY <1>6, <1>7, <2>1, Zenon
    <3> QED  BY <1>1, <2>1, <3>1, Zenon
  <2>2. CASE g # f
    <3>1. batch'[g] = batch[g] /\ IsInjective(batch[g]) /\ Range(batch[g]) \subseteq R
      BY <1>1, <1>3, <1>7, <2>2, Zenon DEF UsageConserved
    <3>2. \A k \in Flushers \ {g} : k # f => Range(batch[g]) \cap Range(batch[k]) = {}
      BY <1>3, Zenon DEF UsageConserved
    <3>3. Range(batch[g]) \cap Range(s) = {} /\ Range(batch[g]) \cap (Range(usageRecords') \cup Range(stored')) = {}
      BY <1>6, <3>1, Zenon
    <3> QED  BY <1>1, <3>1, <3>2, <3>3, Zenon
  <2> QED  BY <2>1, <2>2, Zenon
<1>9. Held' \cup trimmed' \cup abandoned' = Held \cup trimmed \cup abandoned
  BY <1>4, <1>5, Zenon
<1>10. Held' \cap (trimmed' \cup abandoned') = {}
  BY <1>5, <1>6, Zenon
<1>11. Held \cup trimmed \cup abandoned = 1..issued
  BY <1>3, Zenon DEF UsageConserved
<1>12. UsageConserved'
  BY <1>8, <1>9, <1>10, <1>11, Zenon DEF UsageConserved
<1> QED  BY <1>2, <1>12, Zenon DEF UsageIInv

\* A new record goes to memory, and what a full memory trims is accounted for.
LEMMA StoreKeeps == ASSUME UsageIInv, _store_record PROVE UsageIInv'
<1> DEFINE x == issued + 1
           all == Append(usageRecords, x)
           kept == Newest(all)
           B == UNION {Range(batch[f]) : f \in Flushers}
<1>1. /\ issued' = x /\ usageRecords' = kept /\ trimmed' = trimmed \cup (Range(all) \ Range(kept))
      /\ batch' = batch /\ stored' = stored /\ abandoned' = abandoned
  BY Zenon DEF _store_record
<1>2. UsageConserved /\ usageRecords \in Seq(Nat) /\ x \in Nat /\ issued \in Nat
  BY DEF UsageIInv
<1>3. x \notin 1..issued /\ 1..x = 1..issued \cup {x}
  BY <1>2
<1>4. /\ Held = Range(usageRecords) \cup Range(stored) \cup B /\ Held \cup trimmed \cup abandoned = 1..issued
      /\ Held \cap (trimmed \cup abandoned) = {} /\ Range(usageRecords) \cap Range(stored) = {}
      /\ IsInjective(usageRecords)
  BY <1>2, Zenon DEF UsageConserved, Held
<1>5. \A f \in Flushers : Range(batch[f]) \cap Range(usageRecords) = {} /\ Range(batch[f]) \subseteq B
  BY <1>2, Zenon DEF UsageConserved
<1>6. B \cap Range(usageRecords) = {}
  BY <1>5, Zenon
<1>7. Held' = Range(kept) \cup Range(stored) \cup B
  BY <1>1, Zenon DEF Held
<1> HIDE DEF B, x
<1>8. x \notin Held \cup trimmed \cup abandoned
  BY <1>3, <1>4, Zenon
<1>9. all \in Seq(Nat) /\ IsInjective(all) /\ Range(all) = Range(usageRecords) \cup {x}
  BY <1>2, <1>4, <1>8, AppendedOnce
<1>10. kept \in Seq(Nat) /\ IsInjective(kept) /\ Range(kept) \subseteq Range(usageRecords) \cup {x}
  <2> HIDE DEF all
  <2> QED  BY <1>9, NewestKept, Zenon
<1> HIDE DEF all, kept
<1>11. Held' \cup trimmed' \cup abandoned' = 1..issued'
  BY <1>1, <1>3, <1>4, <1>7, <1>9, <1>10, Zenon
<1>12. Held' \cap (trimmed' \cup abandoned') = {}
  BY <1>1, <1>4, <1>6, <1>7, <1>8, <1>9, <1>10
<1>13. Range(usageRecords') \cap Range(stored') = {}
  BY <1>1, <1>4, <1>8, <1>10, Zenon
<1>14. \A f \in Flushers : Range(batch[f]) \cap (Range(kept) \cup Range(stored)) = {}
  <2> TAKE f \in Flushers
  <2>1. Range(batch[f]) \cap Range(stored) = {}
    BY <1>2, Zenon DEF UsageConserved
  <2>2. x \notin Range(batch[f])
    BY <1>4, <1>5, <1>8, Zenon
  <2> QED  BY <1>5, <1>10, <2>1, <2>2, Zenon
<1>15. UsageConserved'
  BY <1>1, <1>2, <1>10, <1>11, <1>12, <1>13, <1>14, Zenon DEF UsageConserved
<1> QED  BY <1>1, <1>2, <1>10, <1>15, Zenon DEF UsageIInv, x

\* A flush moves records to its batch, to the database and, when writing fails, back.
LEMMA FlushKeeps ==
    ASSUME UsageIInv, NEW f \in Flushers, BeginFlush(f) \/ FlushOne(f) \/ CancelFlush(f)
    PROVE  UsageIInv'
<1> DEFINE U == Range(usageRecords)
           S == Range(stored)
           B == Range(batch[f])
           A == trimmed \cup abandoned
<1>1. /\ usageRecords \in Seq(Nat) /\ stored \in Seq(Nat) /\ batch[f] \in Seq(Nat)
      /\ IsInjective(usageRecords) /\ IsInjective(stored) /\ IsInjective(batch[f])
      /\ U \cap S = {} /\ B \cap (U \cup S) = {} /\ A \cap (U \cup S \cup B) = {}
  <2>1. UsageConserved
    BY Zenon DEF UsageIInv
  <2>2. B \subseteq Held /\ U \subseteq Held /\ S \subseteq Held
    BY Zenon DEF Held
  <2>3. A \cap (U \cup S \cup B) = {}
    BY <2>1, <2>2, Zenon DEF UsageConserved
  <2> QED  BY <2>1, <2>3, Zenon DEF UsageIInv, UsageConserved
<1>2. <<>> \in Seq(Nat) /\ IsInjective(<<>>) /\ Range(<<>>) = {}
  BY DEF IsInjective, Range
<1>3. CASE BeginFlush(f)
  <2>1. /\ batch[f] = <<>> /\ batch' = [batch EXCEPT ![f] = usageRecords] /\ usageRecords' = <<>>
        /\ issued' = issued /\ stored' = stored /\ trimmed' = trimmed /\ abandoned' = abandoned
    BY <1>3, Zenon DEF BeginFlush
  <2> QED  BY <1>1, <1>2, <2>1, Moved, Zenon
<1>4. CASE CancelFlush(f)
  <2>1. /\ batch' = [batch EXCEPT ![f] = <<>>] /\ abandoned' = abandoned \cup B
        /\ issued' = issued /\ stored' = stored /\ trimmed' = trimmed /\ usageRecords' = usageRecords
    BY <1>4, Zenon DEF CancelFlush
  <2> QED  BY <1>1, <1>2, <2>1, Moved, Zenon
<1>5. CASE FlushOne(f)
  <2> DEFINE h == Head(batch[f])
             t == Tail(batch[f])
  <2>1. batch[f] # <<>> /\ batch' = [batch EXCEPT ![f] = t] /\ issued' = issued /\ trimmed' = trimmed /\ abandoned' = abandoned
    BY <1>5, Zenon DEF FlushOne
  <2>2. t \in Seq(Nat) /\ IsInjective(t) /\ Range(t) = B \ {h} /\ h \in B /\ h \in Nat
    BY <1>1, <2>1, TailOnce, Zenon
  <2>3. CASE stored' = Append(stored, h) /\ usageRecords' = usageRecords
    <3> HIDE DEF h, t
    <3>1. stored' \in Seq(Nat) /\ IsInjective(stored') /\ Range(stored') = S \cup {h}
      <4>1. stored \in Seq(Nat) /\ IsInjective(stored) /\ h \in Nat /\ h \notin Range(stored)
        BY <1>1, <2>2, Zenon
      <4>2. /\ Append(stored, h) \in Seq(Nat) /\ IsInjective(Append(stored, h))
            /\ Range(Append(stored, h)) = Range(stored) \cup {h}
        BY <4>1, AppendedOnce
      <4> QED  BY <2>3, <4>2, Zenon
    <3>2. Range(usageRecords') = U
      BY <2>3, Zenon
    <3> HIDE DEF U, S, B
    <3>3. /\ Range(usageRecords') \cap Range(stored') = {}
          /\ Range(t) \cap (Range(usageRecords') \cup Range(stored')) = {}
          /\ (trimmed' \cup abandoned') \cap (Range(usageRecords') \cup Range(stored') \cup Range(t)) = {}
          /\ Range(usageRecords') \cup Range(stored') \cup Range(t) \cup trimmed' \cup abandoned'
               = U \cup S \cup B \cup trimmed \cup abandoned
      BY <1>1, <2>1, <2>2, <3>1, <3>2
    <3> QED  BY <1>1, <2>1, <2>2, <2>3, <3>1, <3>3, Moved, Zenon DEF U, S, B
  <2>4. CASE usageRecords' = Append(usageRecords, h) /\ stored' = stored
    <3> HIDE DEF h, t
    <3>1. usageRecords' \in Seq(Nat) /\ IsInjective(usageRecords') /\ Range(usageRecords') = U \cup {h}
      <4>1. usageRecords \in Seq(Nat) /\ IsInjective(usageRecords) /\ h \in Nat /\ h \notin Range(usageRecords)
        BY <1>1, <2>2, Zenon
      <4>2. /\ Append(usageRecords, h) \in Seq(Nat) /\ IsInjective(Append(usageRecords, h))
            /\ Range(Append(usageRecords, h)) = Range(usageRecords) \cup {h}
        BY <4>1, AppendedOnce
      <4> QED  BY <2>4, <4>2, Zenon
    <3>2. Range(stored') = S
      BY <2>4, Zenon
    <3> HIDE DEF U, S, B
    <3>3. /\ Range(usageRecords') \cap Range(stored') = {}
          /\ Range(t) \cap (Range(usageRecords') \cup Range(stored')) = {}
          /\ (trimmed' \cup abandoned') \cap (Range(usageRecords') \cup Range(stored') \cup Range(t)) = {}
          /\ Range(usageRecords') \cup Range(stored') \cup Range(t) \cup trimmed' \cup abandoned'
               = U \cup S \cup B \cup trimmed \cup abandoned
      BY <1>1, <2>1, <2>2, <3>1, <3>2
    <3> QED  BY <1>1, <2>1, <2>2, <2>4, <3>1, <3>3, Moved, Zenon DEF U, S, B
  <2> QED  BY <1>5, <2>3, <2>4, Zenon DEF FlushOne
<1> QED  BY <1>3, <1>4, <1>5, Zenon

-----------------------------------------------------------------------------
\* The evaluations under way.
Busy(k) == {m \in Meters : meterTask[m] = k}

\* What is counted and what is under way together.
QuotaIInv ==
    /\ limit \in Limits /\ meterTask = [m \in Meters |-> meterTask[m]]
    /\ \A m \in Meters : meterTask[m] \in Kinds \cup {"idle"}
    /\ events \in [Kinds -> [0..1 -> Nat]] /\ unitEvents \in [Kinds -> [0..HourTicks -> Nat]]
    /\ \A k \in Kinds : \E n \in Limits :
        Count(events[k]) + Cardinality(Busy(k)) <= n + Cardinality(Meters) - 1
    /\ 5 * (Count(unitEvents["decision"]) + Cardinality(Busy("decision"))) <= UnitLimit + 5 * (Cardinality(Meters) - 1)

\* The evaluations under way of a kind are finitely many, no more than there are meters.
LEMMA BusyCounts ==
    /\ Cardinality(Meters) \in Nat \ {0}
    /\ \A k : IsFiniteSet(Busy(k)) /\ Cardinality(Busy(k)) \in Nat /\ Cardinality(Busy(k)) <= Cardinality(Meters)
<1>1. Cardinality(Meters) \in Nat \ {0}
  BY MeterAssumption, FS_CardinalityType, FS_EmptySet, Zenon
<1>2. \A k : Busy(k) \subseteq Meters
  BY Zenon DEF Busy
<1>3. \A k : IsFiniteSet(Busy(k)) /\ Cardinality(Busy(k)) <= Cardinality(Meters)
  BY <1>2, MeterAssumption, FS_Subset, Zenon
<1> QED  BY <1>1, <1>3, FS_CardinalityType, Zenon

\* The windows have counts.
LEMMA WindowCounts ==
    ASSUME QuotaIInv
    PROVE  \A k \in Kinds : Count(events[k]) \in Nat /\ Count(unitEvents[k]) \in Nat
<1>1. \A k \in Kinds : events[k] \in [0..1 -> Nat] /\ unitEvents[k] \in [0..HourTicks -> Nat]
  BY Zenon DEF QuotaIInv
<1>2. 1 \in Nat /\ HourTicks \in Nat
  BY MeterAssumption, Zenon
<1> QED  BY <1>1, <1>2, CountSums, Zenon

\* No evaluation is counted or under way at first.
LEMMA QuotaInitHolds == ASSUME QuotaInit PROVE QuotaIInv
<1>1. \A n \in Nat : Empty(n) \in [0..n -> Nat] /\ Count(Empty(n)) = 0
  <2> TAKE n \in Nat
  <2>1. Empty(n) \in [0..n -> Nat] /\ \A a \in 0..n : Empty(n)[a] = 0
    BY Zenon DEF Empty
  <2>2. PICK u : Sums(Empty(n), n, u) /\ Count(Empty(n)) = u[n]
    BY <2>1, CountSums, Zenon
  <2> DEFINE I == {a \in 0..n : u[a] = 0}
  <2>3. 0 \in I /\ \A a \in 1..n : a - 1 \in I => a \in I
    BY <2>1, <2>2 DEF Sums
  <2>4. \A a \in 0..n : a \in I
    <3> HIDE DEF I
    <3> QED  BY <2>3, UpTo, Zenon
  <2> QED  BY <2>1, <2>2, <2>4
<1>2. 1 \in Nat /\ HourTicks \in Nat
  BY MeterAssumption, Zenon
<1>3. \A k \in Kinds : /\ events[k] \in [0..1 -> Nat] /\ Count(events[k]) = 0
                       /\ unitEvents[k] \in [0..HourTicks -> Nat] /\ Count(unitEvents[k]) = 0
  BY <1>1, <1>2, Zenon DEF QuotaInit
<1>4. "decision" \in Kinds /\ "idle" \notin Kinds
  BY Zenon DEF Kinds
<1>5. \A k \in Kinds : Cardinality(Busy(k)) = 0
  <2>1. \A k \in Kinds : Busy(k) = {}
    BY <1>4, Zenon DEF QuotaInit, Busy
  <2> QED  BY <2>1, FS_EmptySet, Zenon
<1>6. limit \in Nat /\ limit \in Limits /\ UnitLimit \in Nat
  BY MeterAssumption, Zenon DEF QuotaInit
<1>7. \A k \in Kinds : Count(events[k]) + Cardinality(Busy(k)) <= limit + Cardinality(Meters) - 1
  <2>1. \A k \in Kinds : Count(events[k]) + Cardinality(Busy(k)) = 0
    BY <1>3, <1>5
  <2> QED  BY <2>1, <1>6, BusyCounts
<1>8. 5 * (Count(unitEvents["decision"]) + Cardinality(Busy("decision"))) <= UnitLimit + 5 * (Cardinality(Meters) - 1)
  <2>1. Count(unitEvents["decision"]) + Cardinality(Busy("decision")) = 0
    BY <1>3, <1>4, <1>5
  <2> QED  BY <2>1, <1>6, BusyCounts
<1>9. events \in [Kinds -> [0..1 -> Nat]] /\ unitEvents \in [Kinds -> [0..HourTicks -> Nat]]
  BY <1>3, Zenon DEF QuotaInit
<1> QED  BY <1>6, <1>7, <1>8, <1>9, Zenon DEF QuotaIInv, QuotaInit

\* check_quota admits an evaluation only below the limit, so one more fits the bound.
LEMMA AdmitKeeps ==
    ASSUME QuotaIInv, NEW m \in Meters, NEW k \in Kinds, Admitted(m, k)
    PROVE  QuotaIInv'
<1>1. /\ Check(k) /\ meterTask' = [meterTask EXCEPT ![m] = k]
      /\ limit' = limit /\ events' = events /\ unitEvents' = unitEvents /\ meterTask[m] = "idle"
  BY Zenon DEF Admitted
<1>2. meterTask' = [n \in Meters |-> meterTask'[n]] /\ \A n \in Meters : meterTask'[n] \in Kinds \cup {"idle"}
  BY <1>1, Zenon DEF QuotaIInv
<1>3. \A j \in Kinds : j # k => Busy(j)' = Busy(j)
  BY <1>1, Zenon DEF Busy, QuotaIInv, Kinds
<1>4. Cardinality(Busy(k)') \in Nat /\ Cardinality(Busy(k)') <= Cardinality(Meters)
  <2>1. Busy(k)' \subseteq Meters
    BY Zenon DEF Busy
  <2>2. IsFiniteSet(Busy(k)') /\ Cardinality(Busy(k)') <= Cardinality(Meters)
    BY <2>1, MeterAssumption, FS_Subset, Zenon
  <2> QED  BY <2>2, FS_CardinalityType, Zenon
<1>5. limit \in Limits /\ limit \in Nat /\ UnitLimit \in Nat
  BY MeterAssumption, Zenon DEF QuotaIInv
<1>6. Count(events[k]) < limit /\ Count(events[k]) \in Nat
  BY <1>1, WindowCounts, Zenon DEF Check
<1>7. Count(events[k]) + Cardinality(Busy(k)') <= limit + Cardinality(Meters) - 1
  BY <1>4, <1>5, <1>6, BusyCounts
<1>8. \A j \in Kinds : \E n \in Limits : Count(events[j]) + Cardinality(Busy(j)') <= n + Cardinality(Meters) - 1
  <2> TAKE j \in Kinds
  <2>1. CASE j = k
    BY <1>5, <1>7, <2>1, Zenon
  <2>2. CASE j # k
    BY <1>3, <2>2, Zenon DEF QuotaIInv
  <2> QED  BY <2>1, <2>2, Zenon
<1>9. 5 * (Count(unitEvents["decision"]) + Cardinality(Busy("decision")')) <= UnitLimit + 5 * (Cardinality(Meters) - 1)
  <2>1. CASE k # "decision"
    <3>1. Busy("decision")' = Busy("decision")
      BY <1>3, <2>1, Zenon DEF Kinds
    <3> QED  BY <3>1, Zenon DEF QuotaIInv
  <2>2. CASE k = "decision"
    <3>1. /\ Count(unitEvents["decision"]) \in Nat /\ Count(unitEvents["policy"]) \in Nat
      BY WindowCounts, Zenon DEF Kinds
    <3>2. compute_units_used + 5 <= UnitLimit
      BY <1>1, <2>2, Zenon DEF Check, UnitsOf
    <3>3. 2 * Count(unitEvents["policy"]) + 5 * Count(unitEvents["decision"]) + 5 <= UnitLimit
      BY <3>2, Zenon DEF compute_units_used, UnitsOf
    <3> QED  BY <1>4, <1>5, <2>2, <3>1, <3>3, BusyCounts
  <2> QED  BY <2>1, <2>2, Zenon
<1> QED  BY <1>1, <1>2, <1>8, <1>9, Zenon DEF QuotaIInv

\* An evaluation that ends is counted and no longer under way.
LEMMA RecordKeeps ==
    ASSUME QuotaIInv, NEW m \in Meters, RecordUse(m)
    PROVE  QuotaIInv'
<1>0. PICK k \in Kinds : k = meterTask[m]
  BY Zenon DEF RecordUse
<1>1. /\ meterTask' = [meterTask EXCEPT ![m] = "idle"] /\ limit' = limit
      /\ events' = [events EXCEPT ![k][0] = @ + 1] /\ unitEvents' = [unitEvents EXCEPT ![k][0] = @ + 1]
  BY <1>0, Zenon DEF RecordUse
<1>2. meterTask' = [n \in Meters |-> meterTask'[n]] /\ \A n \in Meters : meterTask'[n] \in Kinds \cup {"idle"}
  BY <1>1, Zenon DEF QuotaIInv
<1>3. /\ events \in [Kinds -> [0..1 -> Nat]] /\ unitEvents \in [Kinds -> [0..HourTicks -> Nat]]
      /\ HourTicks \in Nat
  BY MeterAssumption, Zenon DEF QuotaIInv
<1>4. \A j \in Kinds : j # k => Busy(j)' = Busy(j)
  BY <1>0, <1>1 DEF Busy, QuotaIInv, Kinds
<1>5. Busy(k)' = Busy(k) \ {m} /\ m \in Busy(k)
  BY <1>0, <1>1, Zenon DEF Busy, QuotaIInv, Kinds
<1>6. /\ \A j \in Kinds : j # k => events'[j] = events[j] /\ unitEvents'[j] = unitEvents[j]
      /\ events'[k] \in [0..1 -> Nat] /\ events'[k][0] = events[k][0] + 1
      /\ \A a \in 1..1 : events'[k][a] = events[k][a]
  BY <1>0, <1>1, <1>3
<1>7. /\ unitEvents'[k] \in [0..HourTicks -> Nat] /\ unitEvents'[k][0] = unitEvents[k][0] + 1
      /\ \A a \in 1..HourTicks : unitEvents'[k][a] = unitEvents[k][a]
  BY <1>0, <1>1, <1>3, SMTT(20)
<1>8. events' \in [Kinds -> [0..1 -> Nat]] /\ unitEvents' \in [Kinds -> [0..HourTicks -> Nat]]
  BY <1>1, <1>3, <1>6, <1>7, Zenon
<1>9. Count(events'[k]) = Count(events[k]) + 1
  <2>1. events[k] \in [0..1 -> Nat] /\ 1 \in Nat
    BY <1>0, <1>1, <1>3, Zenon
  <2> QED  BY <1>6, <2>1, CountRecorded, Zenon
<1>10. Count(unitEvents'[k]) = Count(unitEvents[k]) + 1
  <2>1. unitEvents[k] \in [0..HourTicks -> Nat]
    BY <1>0, <1>1, <1>3, Zenon
  <2> QED  BY <1>3, <1>7, <2>1, CountRecorded, Zenon
<1>11. Cardinality(Busy(k)') = Cardinality(Busy(k)) - 1 /\ Cardinality(Busy(k)) \in Nat
  <2>1. IsFiniteSet(Busy(k)) /\ Cardinality(Busy(k)) \in Nat
    BY BusyCounts, Zenon
  <2> QED  BY <1>5, <2>1, FS_RemoveElement, Zenon
<1>12. Count(events[k]) \in Nat /\ Count(unitEvents[k]) \in Nat
  BY <1>0, WindowCounts, Zenon
<1>13. ASSUME NEW j \in Kinds
       PROVE  \E n \in Limits : Count(events'[j]) + Cardinality(Busy(j)') <= n + Cardinality(Meters) - 1
  <2>1. Count(events'[j]) + Cardinality(Busy(j)') = Count(events[j]) + Cardinality(Busy(j))
    <3>1. CASE j = k
      <4>1. (Count(events[k]) + 1) + (Cardinality(Busy(k)) - 1) = Count(events[k]) + Cardinality(Busy(k))
        BY <1>11, <1>12
      <4> QED  BY <1>9, <1>11, <3>1, <4>1, Zenon
    <3>2. CASE j # k
      BY <1>4, <1>6, <3>2, Zenon
    <3> QED  BY <3>1, <3>2, Zenon
  <2> QED  BY <2>1, Zenon DEF QuotaIInv
<1>14. 5 * (Count(unitEvents'["decision"]) + Cardinality(Busy("decision")')) <= UnitLimit + 5 * (Cardinality(Meters) - 1)
  <2>1. Count(unitEvents'["decision"]) + Cardinality(Busy("decision")')
          = Count(unitEvents["decision"]) + Cardinality(Busy("decision"))
    <3>1. CASE k = "decision"
      <4>1. (Count(unitEvents[k]) + 1) + (Cardinality(Busy(k)) - 1) = Count(unitEvents[k]) + Cardinality(Busy(k))
        BY <1>11, <1>12
      <4> QED  BY <1>10, <1>11, <3>1, <4>1, Zenon
    <3>2. CASE k # "decision"
      BY <1>4, <1>6, <3>2, Zenon DEF Kinds
    <3> QED  BY <3>1, <3>2, Zenon
  <2> QED  BY <2>1, Zenon DEF QuotaIInv
<1>15. limit' \in Limits
  BY <1>1, Zenon DEF QuotaIInv
<1> QED  BY <1>2, <1>8, <1>13, <1>14, <1>15, Zenon DEF QuotaIInv

\* As time passes, a window only loses what it counted.
LEMMA TickKeeps == ASSUME QuotaIInv, QuotaTick PROVE QuotaIInv'
<1>1. /\ events' = [k \in Kinds |-> _cleanup(events[k])] /\ unitEvents' = [k \in Kinds |-> _cleanup(unitEvents[k])]
      /\ limit' = limit /\ meterTask' = meterTask
  BY Zenon DEF QuotaTick
<1>2. /\ \A k \in Kinds : events[k] \in [0..1 -> Nat] /\ unitEvents[k] \in [0..HourTicks -> Nat]
      /\ HourTicks \in Nat /\ 1 \in Nat
  BY MeterAssumption, Zenon DEF QuotaIInv
<1>3. \A k \in Kinds : /\ events'[k] \in [0..1 -> Nat] /\ Count(events'[k]) \in Nat /\ Count(events'[k]) <= Count(events[k])
  BY <1>1, <1>2, CountCleaned, Zenon
<1>4. \A k \in Kinds : /\ unitEvents'[k] \in [0..HourTicks -> Nat] /\ Count(unitEvents'[k]) \in Nat
                       /\ Count(unitEvents'[k]) <= Count(unitEvents[k])
  BY <1>1, <1>2, CountCleaned, Zenon
<1>5. events' \in [Kinds -> [0..1 -> Nat]] /\ unitEvents' \in [Kinds -> [0..HourTicks -> Nat]]
  BY <1>1, <1>3, <1>4, Zenon
<1>6. \A k : Busy(k)' = Busy(k)
  BY <1>1, Zenon DEF Busy
<1>7. \A k \in Kinds : \E n \in Limits : Count(events'[k]) + Cardinality(Busy(k)) <= n + Cardinality(Meters) - 1
  <2> TAKE k \in Kinds
  <2>1. PICK n \in Limits : Count(events[k]) + Cardinality(Busy(k)) <= n + Cardinality(Meters) - 1
    BY Zenon DEF QuotaIInv
  <2>2. n \in Nat
    BY MeterAssumption, Zenon
  <2> QED  BY <1>3, <2>1, <2>2, WindowCounts, BusyCounts
<1>8. 5 * (Count(unitEvents'["decision"]) + Cardinality(Busy("decision"))) <= UnitLimit + 5 * (Cardinality(Meters) - 1)
  <2>1. "decision" \in Kinds
    BY Zenon DEF Kinds
  <2>2. 5 * (Count(unitEvents["decision"]) + Cardinality(Busy("decision"))) <= UnitLimit + 5 * (Cardinality(Meters) - 1)
    BY Zenon DEF QuotaIInv
  <2> QED  BY <1>4, <2>1, <2>2, WindowCounts, BusyCounts, MeterAssumption
<1> QED  BY <1>1, <1>5, <1>6, <1>7, <1>8, Zenon DEF QuotaIInv

\* The inductive invariant gives the quotas.
LEMMA QuotaImplies == ASSUME QuotaIInv PROVE QuotasHold
<1>1. \A k \in Kinds : \E n \in Limits : Count(events[k]) <= n + (Cardinality(Meters) - 1)
  <2> TAKE k \in Kinds
  <2>1. PICK n \in Limits : Count(events[k]) + Cardinality(Busy(k)) <= n + Cardinality(Meters) - 1
    BY Zenon DEF QuotaIInv
  <2>2. n \in Nat
    BY MeterAssumption, Zenon
  <2> QED  BY <2>1, <2>2, WindowCounts, BusyCounts
<1>2. UnitsOf("decision") * Count(unitEvents["decision"]) <= UnitLimit + UnitsOf("decision") * (Cardinality(Meters) - 1)
  <2>1. "decision" \in Kinds /\ UnitsOf("decision") = 5
    BY Zenon DEF Kinds, UnitsOf
  <2>2. 5 * (Count(unitEvents["decision"]) + Cardinality(Busy("decision"))) <= UnitLimit + 5 * (Cardinality(Meters) - 1)
    BY Zenon DEF QuotaIInv
  <2> QED  BY <2>1, <2>2, WindowCounts, BusyCounts, MeterAssumption
<1> QED  BY <1>1, <1>2, Zenon DEF QuotasHold

\* For any number of flushers, records and evaluations: every usage record is in one place, once, or
\* was trimmed or abandoned by a cancelled flush; and the windows of the quota hold at most what the
\* limit admits and one operation for each other evaluation that was under way (UsageMeter, QuotaManager).
THEOREM MeterAccounts == MeterSpec => []UsageAccounted
<1> DEFINE Step == (MeterNext /\ UNCHANGED quotaVars) \/ (QuotaNext /\ UNCHANGED flushVars)
<1>1. ASSUME MeterInit, QuotaInit PROVE UsageIInv /\ QuotaIInv
  <2>1. <<>> \in Seq(Nat) /\ IsInjective(<<>>) /\ Range(<<>>) = {}
    BY DEF IsInjective, Range
  <2>2. /\ usageRecords = <<>> /\ stored = <<>> /\ \A f \in Flushers : batch[f] = <<>>
        /\ issued = 0 /\ trimmed = {} /\ abandoned = {} /\ batch = [f \in Flushers |-> batch[f]]
    BY <1>1, Zenon DEF MeterInit
  <2>3. Held = {}
    BY <2>1, <2>2, Zenon DEF Held
  <2>4. UsageIInv
    <3>1. 1..0 = {} /\ 0 \in Nat
      OBVIOUS
    <3>2. Held \cup trimmed \cup abandoned = 1..issued /\ Held \cap (trimmed \cup abandoned) = {}
      BY <2>2, <2>3, <3>1, Zenon
    <3>3. UsageConserved
      BY <2>1, <2>2, <3>2, Zenon DEF UsageConserved
    <3> QED  BY <2>1, <2>2, <3>1, <3>3, Zenon DEF UsageIInv
  <2> QED  BY <1>1, <2>4, QuotaInitHolds, Zenon
<1>2. ASSUME UsageIInv, UNCHANGED flushVars PROVE UsageIInv'
  BY <1>2 DEF flushVars, UsageIInv, UsageConserved, Held
<1>3. ASSUME QuotaIInv, UNCHANGED quotaVars PROVE QuotaIInv'
  BY <1>3, Zenon DEF quotaVars, QuotaIInv, Busy
<1>4. ASSUME UsageIInv, MeterNext PROVE UsageIInv'
  BY <1>4, StoreKeeps, FlushKeeps, Zenon DEF MeterNext
<1>5. ASSUME QuotaIInv, QuotaNext PROVE QuotaIInv'
  <2>1. CASE QuotaTick
    BY <1>5, <2>1, TickKeeps, Zenon
  <2>2. CASE \E n \in Limits : set_tenant_config(n)
    BY <1>5, <2>2, Zenon DEF set_tenant_config, QuotaIInv, Busy
  <2>3. ASSUME NEW m \in Meters, RecordUse(m) \/ \E k \in Kinds : Admitted(m, k) PROVE QuotaIInv'
    BY <1>5, <2>3, RecordKeeps, AdmitKeeps, Zenon
  <2> QED  BY <1>5, <2>1, <2>2, <2>3, Zenon DEF QuotaNext
<1>6. ASSUME UsageIInv /\ QuotaIInv, [Step]_meterVars PROVE (UsageIInv /\ QuotaIInv)'
  <2>1. CASE UNCHANGED meterVars
    BY <1>2, <1>3, <1>6, <2>1, Zenon DEF meterVars
  <2> QED  BY <1>2, <1>3, <1>4, <1>5, <1>6, <2>1, Zenon
<1>7. UsageIInv /\ QuotaIInv => UsageAccounted
  BY QuotaImplies, Zenon DEF UsageAccounted, UsageIInv
<1> QED  BY <1>1, <1>6, <1>7, PTL DEF MeterSpec
-----------------------------------------------------------------------------
(* The caches.                                                               *)

Line == [version : 1..MaxVersions, age : Nat]

CacheTypes ==
    /\ truth \in [Entries -> 1..MaxVersions]
    /\ validity \in [Entries -> [1..MaxVersions -> Nat]]
    /\ DOMAIN cached \subseteq Entries
    /\ \A e \in DOMAIN cached : cached[e] \in Line
    /\ reader \in [Readers -> [at : {"rest", "hit", "computing"}, entry : Entries \cup {0},
                               version : 0..MaxVersions, age : Nat]]
    /\ \A r \in Readers : reader[r].at # "rest" =>
          reader[r].entry \in Entries /\ reader[r].version \in 1..MaxVersions

\* The cache holds no more than it may.
Sized == IsFiniteSet(DOMAIN cached) /\ Cardinality(DOMAIN cached) <= MaxEntries

\* The present version is not stale, nor is a later one.
PresentIsFresh == \A e \in Entries : \A v \in 1..MaxVersions : v >= truth[e] => validity[e][v] = 0

\* What an evaluation computes has been stale for no longer than it has been computing.
Computing ==
    \A r \in Readers : reader[r].at = "computing" =>
        /\ reader[r].age <= MaxEvaluation
        /\ validity[reader[r].entry][reader[r].version] <= reader[r].age

\* A cached value that can still be served was computed by such an evaluation.
Cached ==
    \A e \in DOMAIN cached : cached[e].age <= LongestTtl =>
        validity[e][cached[e].version] <= cached[e].age + MaxEvaluation

Served ==
    \A r \in Readers : reader[r].at = "hit" =>
        validity[reader[r].entry][reader[r].version] <= ttl(reader[r].entry) + MaxEvaluation

\* The inductive invariant of the decision cache.
CacheIInv == CacheTypes /\ Sized /\ PresentIsFresh /\ Computing /\ Cached /\ Served

LEMMA TtlBound == \A e : ttl(e) \in Nat /\ ttl(e) <= LongestTtl /\ LongestTtl \in Nat
BY CacheAssumption DEF ttl, LongestTtl

LEMMA CacheInitInv == CacheInit => CacheIInv
<1> SUFFICES ASSUME CacheInit PROVE CacheIInv
  BY Zenon
<1>1. CacheTypes
  BY CacheAssumption DEF CacheInit, CacheTypes, AtRest, Missing
<1>2. Sized
  BY CacheAssumption, FS_EmptySet DEF CacheInit, Sized
<1>3. PresentIsFresh /\ Computing /\ Cached /\ Served
  BY Zenon DEF CacheInit, PresentIsFresh, Computing, Cached, Served, AtRest
<1> QED
  BY <1>1, <1>2, <1>3, Zenon DEF CacheIInv

\* Some entries leave the cache.
LEMMA EntriesLeave ==
    ASSUME CacheIInv, NEW D \in SUBSET DOMAIN cached, cached' = [x \in D |-> cached[x]],
           UNCHANGED <<truth, validity>>
    PROVE  /\ Sized' /\ PresentIsFresh' /\ Cached'
           /\ DOMAIN cached' \subseteq Entries
           /\ \A e \in DOMAIN cached' : cached'[e] \in Line
<1>1. IsFiniteSet(D) /\ Cardinality(D) <= Cardinality(DOMAIN cached)
      /\ Cardinality(D) \in Nat /\ Cardinality(DOMAIN cached) \in Nat
  BY FS_Subset, FS_CardinalityType, Zenon DEF CacheIInv, Sized
<1>2. Sized'
  BY <1>1, CacheAssumption DEF CacheIInv, Sized
<1>3. PresentIsFresh' /\ Cached'
  BY Zenon DEF CacheIInv, PresentIsFresh, Cached
<1> QED
  BY <1>2, <1>3, Zenon DEF CacheIInv, CacheTypes

LEMMA GetInv ==
    ASSUME CacheIInv, NEW r \in Readers, NEW e \in Entries, get(r, e)
    PROVE  CacheIInv'
<1> USE DEF CacheIInv
<1>1. ASSUME Live(e), UNCHANGED <<cached, truth, validity>>,
             reader' = [reader EXCEPT ![r] = [at |-> "hit", entry |-> e,
                                              version |-> cached[e].version, age |-> 0]]
      PROVE  CacheIInv'
  <2> DEFINE n == [at |-> "hit", entry |-> e, version |-> cached[e].version, age |-> 0]
  <2>1. /\ e \in DOMAIN cached /\ cached[e] \in Line /\ ~(cached[e].age > ttl(e))
        /\ cached[e].version \in 1..MaxVersions /\ cached[e].age \in Nat
    BY <1>1, Zenon DEF Live, expired, CacheTypes, Line
  <2>2. /\ n.at = "hit" /\ n.entry = e /\ n.version = cached[e].version
        /\ n \in [at : {"rest", "hit", "computing"}, entry : Entries \cup {0},
                  version : 0..MaxVersions, age : Nat]
    BY <2>1
  <2>3. reader' = [reader EXCEPT ![r] = n]
    BY <1>1, Zenon
  <2>4. validity[e][cached[e].version] <= ttl(e) + MaxEvaluation
    <3>1. validity[e][cached[e].version] \in Nat
      BY <2>1, Zenon DEF CacheTypes
    <3>2. ttl(e) \in Nat /\ ttl(e) <= LongestTtl /\ LongestTtl \in Nat
      BY TtlBound, Zenon
    <3>3. cached[e].age <= ttl(e) /\ cached[e].age <= LongestTtl
      BY <2>1, <3>2
    <3>4. validity[e][cached[e].version] <= cached[e].age + MaxEvaluation
      BY <2>1, <3>3, Zenon DEF Cached
    <3> QED
      BY <2>1, <3>1, <3>2, <3>3, <3>4, CacheAssumption
  <2> HIDE DEF n
  <2>5. CacheTypes'
    BY <1>1, <2>1, <2>2, <2>3 DEF CacheTypes
  <2>6. Sized' /\ PresentIsFresh' /\ Cached'
    BY <1>1, Zenon DEF Sized, PresentIsFresh, Cached
  <2>7. Computing'
    BY <1>1, <2>2, <2>3, Zenon DEF Computing, CacheTypes
  <2>8. Served'
    BY <1>1, <2>2, <2>3, <2>4, Zenon DEF Served, CacheTypes
  <2> QED
    BY <2>5, <2>6, <2>7, <2>8, Zenon
<1>2. ASSUME cached' = Without(e), UNCHANGED <<truth, validity>>,
             reader' = [reader EXCEPT ![r] = [at |-> "computing", entry |-> e,
                                              version |-> truth[e], age |-> 0]]
      PROVE  CacheIInv'
  <2> DEFINE n == [at |-> "computing", entry |-> e, version |-> truth[e], age |-> 0]
  <2>1. /\ n.at = "computing" /\ n.entry = e /\ n.version = truth[e] /\ n.age = 0
        /\ n \in [at : {"rest", "hit", "computing"}, entry : Entries \cup {0},
                  version : 0..MaxVersions, age : Nat]
        /\ truth[e] \in 1..MaxVersions
    BY DEF CacheTypes
  <2>2. reader' = [reader EXCEPT ![r] = n]
    BY <1>2, Zenon
  <2>3. validity[e][truth[e]] = 0
    BY <2>1 DEF PresentIsFresh
  <2> HIDE DEF n
  <2>4. /\ Sized' /\ PresentIsFresh' /\ Cached'
        /\ DOMAIN cached' \subseteq Entries
        /\ \A x \in DOMAIN cached' : cached'[x] \in Line
    BY <1>2, EntriesLeave, Zenon DEF Without
  <2>5. CacheTypes'
    BY <1>2, <2>1, <2>2, <2>4 DEF CacheTypes
  <2>6. Computing'
    BY <1>2, <2>1, <2>2, <2>3, CacheAssumption DEF Computing, CacheTypes
  <2>7. Served'
    BY <1>2, <2>1, <2>2, Zenon DEF Served, CacheTypes
  <2> QED
    BY <2>4, <2>5, <2>6, <2>7, Zenon
<1> QED
  BY <1>1, <1>2, Zenon DEF get

LEMMA SetInv ==
    ASSUME CacheIInv, NEW r \in Readers, set(r)
    PROVE  CacheIInv'
<1> USE DEF CacheIInv
<1> DEFINE e == reader[r].entry
           n == [version |-> reader[r].version, age |-> 0]
<1>1. e \in Entries /\ reader[r].version \in 1..MaxVersions /\ reader[r].at = "computing"
  BY Zenon DEF set, CacheTypes
<1>2. n \in Line /\ n.version = reader[r].version /\ n.age = 0
  BY <1>1, Zenon DEF Line
<1>3. validity[e][reader[r].version] <= MaxEvaluation
  <2>1. reader[r].age <= MaxEvaluation /\ validity[e][reader[r].version] <= reader[r].age
    BY <1>1, Zenon DEF Computing
  <2>2. reader[r].age \in Nat /\ validity[e][reader[r].version] \in Nat
    BY <1>1, Zenon DEF CacheTypes
  <2> QED
    BY <2>1, <2>2, CacheAssumption
<1>4. PICK kept \in IF Cardinality(DOMAIN cached) >= MaxEntries
                      THEN {DOMAIN cached \ {old} : old \in Oldest} ELSE {DOMAIN cached} :
        cached' = [x \in kept \cup {e} |-> IF x = e THEN n ELSE cached[x]]
  BY Zenon DEF set
<1>5. reader' = [reader EXCEPT ![r] = AtRest] /\ UNCHANGED <<truth, validity>>
  BY Zenon DEF set
<1> HIDE DEF e, n
<1>6. kept \subseteq DOMAIN cached
  BY <1>4, Zenon
<1>7. DOMAIN cached' = kept \cup {e} /\ \A x \in kept \cup {e} : cached'[x] = IF x = e THEN n ELSE cached[x]
  BY <1>4, Zenon
<1>8. IsFiniteSet(DOMAIN cached) /\ Cardinality(DOMAIN cached) \in Nat
      /\ Cardinality(DOMAIN cached) <= MaxEntries
  BY FS_CardinalityType, Zenon DEF Sized
<1>9. IsFiniteSet(kept) /\ Cardinality(kept) \in Nat /\ Cardinality(kept) < MaxEntries
  <2>1. CASE Cardinality(DOMAIN cached) >= MaxEntries
    <3>1. PICK old \in Oldest : kept = DOMAIN cached \ {old}
      BY <2>1, <1>4, Zenon
    <3>2. old \in DOMAIN cached
      BY Zenon DEF Oldest
    <3>3. IsFiniteSet(kept) /\ Cardinality(kept) = Cardinality(DOMAIN cached) - 1
      BY <3>1, <3>2, <1>8, FS_RemoveElement, Zenon
    <3> QED
      BY <3>3, <1>8, FS_CardinalityType, CacheAssumption
  <2>2. CASE ~(Cardinality(DOMAIN cached) >= MaxEntries)
    <3>1. kept = DOMAIN cached
      BY <2>2, <1>4, Zenon
    <3> QED
      BY <3>1, <2>2, <1>8, CacheAssumption
  <2> QED
    BY <2>1, <2>2, Zenon
<1>10. Sized'
  <2>1. IsFiniteSet(kept \cup {e})
        /\ Cardinality(kept \cup {e}) = IF e \in kept THEN Cardinality(kept) ELSE Cardinality(kept) + 1
    BY <1>9, FS_AddElement, Zenon
  <2> QED
    BY <2>1, <1>7, <1>9, CacheAssumption DEF Sized
<1>11. CacheTypes'
  <2>1. /\ DOMAIN cached' \subseteq Entries
        /\ \A x \in DOMAIN cached' : cached'[x] \in Line
    BY <1>1, <1>2, <1>6, <1>7, Zenon DEF CacheTypes
  <2>2. AtRest.at = "rest" /\ AtRest \in [at : {"rest", "hit", "computing"}, entry : Entries \cup {0},
                                           version : 0..MaxVersions, age : Nat]
    BY CacheAssumption DEF AtRest, Missing
  <2> QED
    BY <1>5, <2>1, <2>2, Zenon DEF CacheTypes
<1>12. PresentIsFresh'
  BY <1>5, Zenon DEF PresentIsFresh
<1>13. Computing' /\ Served'
  <2>1. AtRest.at = "rest"
    BY Zenon DEF AtRest
  <2> QED
    BY <1>5, <2>1, Zenon DEF Computing, Served, CacheTypes
<1>14. Cached'
  <2> SUFFICES ASSUME NEW x \in DOMAIN cached', cached'[x].age <= LongestTtl
               PROVE  validity[x][cached'[x].version] <= cached'[x].age + MaxEvaluation
    BY <1>5, Zenon DEF Cached
  <2>1. CASE x = e
    <3>1. cached'[x] = n
      BY <2>1, <1>7, Zenon
    <3> QED
      BY <2>1, <3>1, <1>2, <1>3, CacheAssumption
  <2>2. CASE x # e
    BY <2>2, <1>6, <1>7, Zenon DEF Cached
  <2> QED
    BY <2>1, <2>2, Zenon
<1> QED
  BY <1>10, <1>11, <1>12, <1>13, <1>14, Zenon

LEMMA TickInv ==
    ASSUME CacheIInv, CacheTick
    PROVE  CacheIInv'
<1> USE DEF CacheIInv
<1>1. DOMAIN cached' = DOMAIN cached /\ truth' = truth
  BY Zenon DEF CacheTick
<1>2. ASSUME NEW e \in Entries, NEW v \in 1..MaxVersions
      PROVE  /\ validity[e][v] \in Nat /\ validity'[e][v] \in Nat
             /\ validity'[e][v] <= validity[e][v] + 1
             /\ (v >= truth[e] => validity'[e][v] = validity[e][v])
  <2>1. validity'[e][v] = IF v < truth[e] /\ validity[e][v] < MaxAge THEN validity[e][v] + 1 ELSE validity[e][v]
    BY Zenon DEF CacheTick
  <2>2. validity[e][v] \in Nat /\ truth[e] \in 1..MaxVersions
    BY Zenon DEF CacheTypes
  <2> QED
    BY <2>1, <2>2, CacheAssumption
<1>3. ASSUME NEW e \in DOMAIN cached
      PROVE  /\ cached[e] \in Line /\ cached'[e] \in Line
             /\ cached'[e].version = cached[e].version
             /\ cached'[e].age = IF cached[e].age > LongestTtl THEN cached[e].age ELSE cached[e].age + 1
  <2>1. cached[e] \in Line
    BY Zenon DEF CacheTypes
  <2>2. cached'[e] = [cached[e] EXCEPT !.age = IF @ > LongestTtl THEN @ ELSE @ + 1]
    BY Zenon DEF CacheTick
  <2> QED
    BY <2>1, <2>2 DEF Line
<1>4. ASSUME NEW r \in Readers
      PROVE  /\ reader'[r].at = reader[r].at /\ reader[r].at # "hit"
             /\ reader'[r].entry = reader[r].entry /\ reader'[r].version = reader[r].version
             /\ reader'[r] \in [at : {"rest", "hit", "computing"}, entry : Entries \cup {0},
                                version : 0..MaxVersions, age : Nat]
             /\ reader[r].at = "computing" =>
                   reader[r].age < MaxEvaluation /\ reader'[r].age = reader[r].age + 1
  <2>1. reader'[r] = IF reader[r].at = "computing" THEN [reader[r] EXCEPT !.age = @ + 1] ELSE reader[r]
    BY Zenon DEF CacheTick
  <2>2. reader[r].at # "hit" /\ (reader[r].at = "computing" => reader[r].age < MaxEvaluation)
    BY Zenon DEF CacheTick
  <2>3. reader[r] \in [at : {"rest", "hit", "computing"}, entry : Entries \cup {0},
                      version : 0..MaxVersions, age : Nat]
    BY Zenon DEF CacheTypes
  <2> QED
    BY <2>1, <2>2, <2>3
<1>5. CacheTypes'
  <2>1. validity' \in [Entries -> [1..MaxVersions -> Nat]]
    <3>1. \A e \in Entries : validity'[e] \in [1..MaxVersions -> Nat]
      <4> TAKE e \in Entries
      <4>1. validity'[e] = [v \in 1..MaxVersions |->
                IF v < truth[e] /\ validity[e][v] < MaxAge THEN validity[e][v] + 1 ELSE validity[e][v]]
        BY Zenon DEF CacheTick
      <4>2. \A v \in 1..MaxVersions : validity[e][v] \in Nat
        BY Zenon DEF CacheTypes
      <4> QED
        BY <4>1, <4>2
    <3> QED
      BY <3>1, Zenon DEF CacheTick
  <2>2. reader' \in [Readers -> [at : {"rest", "hit", "computing"}, entry : Entries \cup {0},
                                 version : 0..MaxVersions, age : Nat]]
    BY <1>4, Zenon DEF CacheTick
  <2>3. \A r \in Readers : reader'[r].at # "rest" =>
            reader'[r].entry \in Entries /\ reader'[r].version \in 1..MaxVersions
    BY <1>4, Zenon DEF CacheTypes
  <2> QED
    BY <1>1, <1>3, <2>1, <2>2, <2>3, Zenon DEF CacheTypes
<1>6. Sized'
  BY <1>1, Zenon DEF Sized
<1>7. PresentIsFresh'
  BY <1>1, <1>2 DEF PresentIsFresh
<1>8. Computing'
  <2> SUFFICES ASSUME NEW r \in Readers, reader'[r].at = "computing"
               PROVE  /\ reader'[r].age <= MaxEvaluation
                      /\ validity'[reader'[r].entry][reader'[r].version] <= reader'[r].age
    BY Zenon DEF Computing
  <2> DEFINE e == reader[r].entry
             v == reader[r].version
  <2>1. /\ reader[r].at = "computing" /\ e \in Entries /\ v \in 1..MaxVersions
        /\ reader'[r].entry = e /\ reader'[r].version = v /\ reader[r].age \in Nat
    BY <1>4, Zenon DEF CacheTypes
  <2>2. validity[e][v] <= reader[r].age
    BY <2>1, Zenon DEF Computing
  <2>3. reader[r].age < MaxEvaluation /\ reader'[r].age = reader[r].age + 1
    BY <2>1, <1>4, Zenon
  <2> HIDE DEF e, v
  <2>4. validity[e][v] \in Nat /\ validity'[e][v] \in Nat /\ validity'[e][v] <= validity[e][v] + 1
    BY <2>1, <1>2, Zenon
  <2> QED
    BY <2>1, <2>2, <2>3, <2>4, CacheAssumption
<1>9. Cached'
  <2> SUFFICES ASSUME NEW e \in DOMAIN cached, cached'[e].age <= LongestTtl
               PROVE  validity'[e][cached'[e].version] <= cached'[e].age + MaxEvaluation
    BY <1>1, Zenon DEF Cached
  <2> DEFINE v == cached[e].version
  <2>1. e \in Entries /\ v \in 1..MaxVersions /\ cached[e].age \in Nat /\ cached'[e].version = v
    BY <1>3, Zenon DEF CacheTypes, Line
  <2>2. cached'[e].age = IF cached[e].age > LongestTtl THEN cached[e].age ELSE cached[e].age + 1
    BY <1>3, Zenon
  <2>3. LongestTtl \in Nat
    BY TtlBound, Zenon
  <2>4. cached[e].age <= LongestTtl /\ cached'[e].age = cached[e].age + 1
    BY <2>1, <2>2, <2>3
  <2>5. validity[e][v] <= cached[e].age + MaxEvaluation
    BY <2>4, Zenon DEF Cached
  <2> HIDE DEF v
  <2>6. validity[e][v] \in Nat /\ validity'[e][v] \in Nat /\ validity'[e][v] <= validity[e][v] + 1
    BY <2>1, <1>2, Zenon
  <2> QED
    BY <2>1, <2>4, <2>5, <2>6, CacheAssumption
<1>10. Served'
  BY <1>4, Zenon DEF Served
<1> QED
  BY <1>5, <1>6, <1>7, <1>8, <1>9, <1>10, Zenon

LEMMA CacheNextInv == CacheIInv /\ [CacheNext]_cacheVars => CacheIInv'
<1> SUFFICES ASSUME CacheIInv, [CacheNext]_cacheVars
             PROVE  CacheIInv'
  BY Zenon
<1>1. CASE CacheTick
  BY <1>1, TickInv, Zenon
<1>2. ASSUME NEW D \in SUBSET DOMAIN cached, cached' = [x \in D |-> cached[x]],
             UNCHANGED <<truth, validity, reader>>
      PROVE  CacheIInv'
  <2>1. /\ Sized' /\ PresentIsFresh' /\ Cached'
        /\ DOMAIN cached' \subseteq Entries
        /\ \A e \in DOMAIN cached' : cached'[e] \in Line
    BY <1>2, EntriesLeave, Zenon
  <2>2. CacheTypes'
    BY <1>2, <2>1, Zenon DEF CacheIInv, CacheTypes
  <2>3. Computing' /\ Served'
    BY <1>2, Zenon DEF CacheIInv, Computing, Served
  <2> QED
    BY <2>1, <2>2, <2>3, Zenon DEF CacheIInv
<1>3. CASE cleanup_expired
  <2>1. {e \in DOMAIN cached : ~expired(e)} \in SUBSET DOMAIN cached
    BY Zenon
  <2> QED
    BY <1>2, <1>3, <2>1, Zenon DEF cleanup_expired
<1>4. ASSUME NEW gone \in SUBSET Entries, invalidate(gone)
      PROVE  CacheIInv'
  <2>1. DOMAIN cached \ gone \in SUBSET DOMAIN cached
    BY Zenon
  <2> QED
    BY <1>2, <1>4, <2>1, Zenon DEF invalidate
<1>5. ASSUME NEW e \in Entries, Publish(e)
      PROVE  CacheIInv'
  <2>1. truth' = [truth EXCEPT ![e] = @ + 1] /\ UNCHANGED <<validity, cached, reader>>
    BY <1>5, Zenon DEF Publish
  <2>2. \A x \in Entries : truth[x] \in 1..MaxVersions /\ truth'[x] \in 1..MaxVersions /\ truth'[x] >= truth[x]
    BY <1>5, <2>1, CacheAssumption, SMTT(20) DEF Publish, CacheIInv, CacheTypes
  <2>3. CacheTypes'
    BY <2>1, <2>2, Zenon DEF CacheIInv, CacheTypes
  <2>4. PresentIsFresh'
    BY <2>1, <2>2, CacheAssumption DEF CacheIInv, PresentIsFresh
  <2>5. Sized' /\ Computing' /\ Cached' /\ Served'
    BY <2>1, Zenon DEF CacheIInv, Sized, Computing, Cached, Served
  <2> QED
    BY <2>3, <2>4, <2>5, Zenon DEF CacheIInv
<1>6. ASSUME NEW r \in Readers, Answered(r)
      PROVE  CacheIInv'
  <2>1. reader' = [reader EXCEPT ![r] = AtRest] /\ UNCHANGED <<truth, validity, cached>>
    BY <1>6, Zenon DEF Answered
  <2>2. AtRest.at = "rest" /\ AtRest \in [at : {"rest", "hit", "computing"}, entry : Entries \cup {0},
                                           version : 0..MaxVersions, age : Nat]
    BY CacheAssumption DEF AtRest, Missing
  <2>3. CacheTypes'
    BY <2>1, <2>2, Zenon DEF CacheIInv, CacheTypes
  <2>4. Computing' /\ Served'
    BY <2>1, <2>2, Zenon DEF CacheIInv, Computing, Served, CacheTypes
  <2>5. Sized' /\ PresentIsFresh' /\ Cached'
    BY <2>1, Zenon DEF CacheIInv, Sized, PresentIsFresh, Cached
  <2> QED
    BY <2>3, <2>4, <2>5, Zenon DEF CacheIInv
<1>7. CASE UNCHANGED cacheVars
  BY <1>7, Zenon DEF cacheVars, CacheIInv, CacheTypes, Sized, PresentIsFresh, Computing, Cached, Served
<1> QED
  BY <1>1, <1>3, <1>4, <1>5, <1>6, <1>7, GetInv, SetInv, Zenon DEF CacheNext

-----------------------------------------------------------------------------
LookupEntry == [compiled : 0..MaxVersions, hash : 0..MaxVersions]

\* An entry with a hash was compiled from the source that has this hash.
Coherent(x) == x \in LookupEntry /\ (x.hash # Missing => x.compiled = x.hash)

\* The inductive invariant of the charter registry: the row of now is among the
\* versions every running lookup may answer with, and so is what was fetched.
RegistryIInv ==
    /\ row \in 0..MaxVersions
    /\ Coherent(entry)
    /\ seen \in [Readers -> SUBSET (0..MaxVersions)]
    /\ lookup \in [Readers -> [at : {"rest", "verify", "fetch", "store", "done"}, entry : LookupEntry]]
    /\ \A r \in Readers :
        /\ Coherent(lookup[r].entry)
        /\ lookup[r].at # "rest" => row \in seen[r]
        /\ lookup[r].at \in {"store", "done"} => lookup[r].entry.compiled \in seen[r]

LEMMA RegistryInitInv == RegistryInit => RegistryIInv
BY CacheAssumption DEF RegistryInit, RegistryIInv, Coherent, LookupEntry, NoEntry, Missing

LEMMA RegistryNextInv == RegistryIInv /\ [RegistryNext]_registryVars => RegistryIInv'
<1> SUFFICES ASSUME RegistryIInv, [RegistryNext]_registryVars
             PROVE  RegistryIInv'
  BY Zenon
<1> USE DEF RegistryIInv
<1>1. CASE ChangeRow
  <2>1. row' \in 0..MaxVersions /\ UNCHANGED <<entry, lookup>>
    BY <1>1, CacheAssumption DEF ChangeRow, Missing
  <2>2. seen' = [r \in Readers |-> IF lookup[r].at = "rest" THEN {} ELSE seen[r] \cup {row'}]
    BY <1>1, Zenon DEF ChangeRow
  <2>3. seen' \in [Readers -> SUBSET (0..MaxVersions)]
    BY <2>1, <2>2, Zenon
  <2>4. \A r \in Readers : lookup[r].at # "rest" => seen[r] \subseteq seen'[r] /\ row' \in seen'[r]
    BY <2>2, Zenon
  <2> QED
    BY <2>1, <2>3, <2>4, Zenon
<1>2. CASE InvalidateCharter
  <2>1. Coherent(NoEntry)
    BY CacheAssumption DEF Coherent, LookupEntry, NoEntry, Missing
  <2> QED
    BY <1>2, <2>1, Zenon DEF InvalidateCharter
<1>3. ASSUME NEW hash \in 0..MaxVersions, register(hash)
      PROVE  RegistryIInv'
  <2>1. Coherent([compiled |-> row, hash |-> hash])
    BY <1>3, Zenon DEF register, Coherent, LookupEntry
  <2> QED
    BY <1>3, <2>1, Zenon DEF register
<1>4. ASSUME NEW r \in Readers, BeginLookup(r)
      PROVE  RegistryIInv'
  <2> DEFINE n == [at |-> IF entry = NoEntry THEN "fetch" ELSE "verify", entry |-> entry]
  <2>1. lookup' = [lookup EXCEPT ![r] = n] /\ seen' = [seen EXCEPT ![r] = {row}] /\ UNCHANGED <<row, entry>>
    BY <1>4, Zenon DEF BeginLookup
  <2>2. /\ n \in [at : {"rest", "verify", "fetch", "store", "done"}, entry : LookupEntry]
        /\ n.entry = entry /\ n.at \in {"fetch", "verify"}
    BY Zenon DEF Coherent
  <2> HIDE DEF n
  <2> QED
    BY <2>1, <2>2, Zenon
<1>5. ASSUME NEW r \in Readers, VerifyHash(r)
      PROVE  RegistryIInv'
  <2> DEFINE good == row # Missing /\ row = lookup[r].entry.hash
  <2>1. lookup' = [lookup EXCEPT ![r].at = IF good THEN "done" ELSE "fetch"] /\ UNCHANGED <<row, entry, seen>>
        /\ lookup[r].at = "verify"
    BY <1>5, Zenon DEF VerifyHash
  <2>2. good => lookup[r].entry.compiled = row
    BY Zenon DEF Coherent
  <2>3. row \in seen[r]
    BY <2>1, Zenon
  <2> HIDE DEF good
  <2>4. /\ lookup'[r].at = (IF good THEN "done" ELSE "fetch") /\ lookup'[r].entry = lookup[r].entry
        /\ lookup' \in [Readers -> [at : {"rest", "verify", "fetch", "store", "done"}, entry : LookupEntry]]
        /\ \A x \in Readers \ {r} : lookup'[x] = lookup[x]
    BY <2>1, Zenon
  <2> QED
    BY <2>1, <2>2, <2>3, <2>4
<1>6. ASSUME NEW r \in Readers, Fetch(r)
      PROVE  RegistryIInv'
  <2> DEFINE n == IF row = Missing THEN [at |-> "done", entry |-> NoEntry]
                  ELSE [at |-> "store", entry |-> [compiled |-> row, hash |-> row]]
  <2>1. lookup' = [lookup EXCEPT ![r] = n] /\ UNCHANGED <<row, entry, seen>> /\ row \in seen[r]
    BY <1>6, Zenon DEF Fetch
  <2>2. /\ n \in [at : {"rest", "verify", "fetch", "store", "done"}, entry : LookupEntry]
        /\ n.entry.compiled = row /\ Coherent(n.entry)
    BY CacheAssumption, Zenon DEF Coherent, LookupEntry, NoEntry, Missing
  <2> HIDE DEF n
  <2> QED
    BY <2>1, <2>2, Zenon
<1>7. ASSUME NEW r \in Readers, StoreEntry(r)
      PROVE  RegistryIInv'
  <2>1. /\ lookup' = [lookup EXCEPT ![r].at = "done"] /\ UNCHANGED <<row, seen>>
        /\ entry' = lookup[r].entry /\ lookup[r].at = "store"
    BY <1>7, Zenon DEF StoreEntry
  <2>2. /\ lookup'[r].at = "done" /\ lookup'[r].entry = lookup[r].entry
        /\ lookup' \in [Readers -> [at : {"rest", "verify", "fetch", "store", "done"}, entry : LookupEntry]]
        /\ \A x \in Readers \ {r} : lookup'[x] = lookup[x]
    BY <2>1, Zenon
  <2> QED
    BY <2>1, <2>2, Zenon
<1>8. ASSUME NEW r \in Readers, EndLookup(r)
      PROVE  RegistryIInv'
  <2>1. Coherent(NoEntry) /\ NoEntry \in LookupEntry
    BY CacheAssumption DEF Coherent, LookupEntry, NoEntry, Missing
  <2> QED
    BY <1>8, <2>1, Zenon DEF EndLookup
<1>9. CASE UNCHANGED registryVars
  BY <1>9, Zenon DEF registryVars
<1> QED
  BY <1>1, <1>2, <1>3, <1>4, <1>5, <1>6, <1>7, <1>8, <1>9, Zenon DEF RegistryNext

-----------------------------------------------------------------------------
(* Neither cache answers with what is long gone.  A decision served from the
   DecisionCache was the present one within its time to live and the time of one
   evaluation, and a charter the CharterRegistry answers with is one the database
   had while the lookup ran: for any number of evaluations, lookups, entries and
   versions, whatever the two times to live are.                               *)
THEOREM CachesAreCurrent == CacheSpec /\ RegistrySpec => []CachesCurrent
<1>1. CacheSpec => []CacheIInv
  BY CacheInitInv, CacheNextInv, PTL DEF CacheSpec
<1>2. RegistrySpec => []RegistryIInv
  BY RegistryInitInv, RegistryNextInv, PTL DEF RegistrySpec
<1>3. CacheIInv /\ RegistryIInv => CachesCurrent
  BY Zenon DEF CacheIInv, RegistryIInv, Sized, Served, CachesCurrent, ServedIsRecent, LookupIsCurrent
<1> QED
  BY <1>1, <1>2, <1>3, PTL
=============================================================================
