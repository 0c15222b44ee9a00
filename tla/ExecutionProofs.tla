-------------------------- MODULE ExecutionProofs ---------------------------
(* The compilation and the execution of charters, for any charters of any number of
   phases: a charter is rejected exactly when it is malformed or its phases depend on
   each other in a cycle, and the phases of one that compiles are executed in order. *)
EXTENDS CharterExecution, FiniteSetTheorems, TLAPS

-----------------------------------------------------------------------------
(* Induction over numbers and over the steps of a loop.                      *)

\* A set of numbers that is not empty has a least one.
LEMMA LeastNumber ==
    ASSUME NEW S \in SUBSET Nat, S # {}
    PROVE  \E m \in S : \A k \in S : m <= k
<1> DEFINE R == {pair \in Nat \X Nat : pair[1] < pair[2]}
<1>1. IsWellFoundedOn(R, Nat)
  BY NatLessThanWellFounded, Zenon DEF OpToRel
<1>2. \A k, m \in Nat : <<k, m>> \in R <=> k < m
  BY Zenon
<1> HIDE DEF R
<1>3. PICK m \in S : \A k \in S : <<k, m>> \notin R
  BY <1>1, WFMin, Zenon
<1>4. m \in Nat /\ \A k \in S : k \in Nat /\ ~(k < m)
  BY <1>2, <1>3, Zenon
<1>5. \A k \in S : m <= k
  BY <1>4
<1> QED  BY <1>5, Zenon

\* What holds of 0 and is passed on from each number to the next holds up to N.
LEMMA UpTo ==
    ASSUME NEW N \in Nat, NEW I, 0 \in I, \A n \in 1..N : n - 1 \in I => n \in I
    PROVE  \A n \in 0..N : n \in I
<1> DEFINE Bad == {n \in 0..N : n \notin I}
<1>1. SUFFICES ASSUME Bad # {} PROVE FALSE
  BY Zenon
<1>2. PICK m \in Bad : \A k \in Bad : m <= k
  BY <1>1, LeastNumber, Bad \subseteq Nat, Zenon
<1>3. m # 0 /\ m - 1 \in 0..N /\ m \in 1..N
  BY <1>2
<1>4. m - 1 \notin Bad
  BY <1>2, <1>3
<1> QED  BY <1>2, <1>3, <1>4, Zenon

\* What holds at first and is kept by each turn of a loop holds after every turn.
LEMMA LoopInvariant ==
    ASSUME NEW N \in Nat, NEW f, NEW I, f[0] \in I,
           \A n \in 1..N : f[n - 1] \in I => f[n] \in I
    PROVE  \A n \in 0..N : f[n] \in I
<1> DEFINE J == {n \in 0..N : f[n] \in I}
<1>1. 0 \in J /\ \A n \in 1..N : n - 1 \in J => n \in J
  OBVIOUS
<1>2. \A n \in 0..N : n \in J
  <2> HIDE DEF J
  <2> QED  BY <1>1, UpTo, Zenon
<1> QED  BY <1>2, Zenon

\* N turns, given by a function F on the states K, lead on from k0.
LoopFrom(N, K, F, k0) == {g \in [0..N -> K] : g[0] = k0 /\ \A n \in 1..N : g[n] = F[g[n - 1]]}

\* A loop whose turns are given by a function can be run N times.
LEMMA LoopRuns ==
    ASSUME NEW N \in Nat, NEW K, NEW F \in [K -> K], NEW k0 \in K
    PROVE  LoopFrom(N, K, F, k0) # {}
<1> DEFINE Runs(n) == \E g \in [0..n -> K] : g[0] = k0 /\ \A i \in 1..n : g[i] = F[g[i - 1]]
           Bad == {n \in Nat : ~Runs(n)}
<1>1. SUFFICES ASSUME Bad # {} PROVE FALSE
  <2>1. Runs(N)
    BY Bad = {}, Zenon
  <2> QED  BY <2>1, Zenon DEF LoopFrom
<1>2. PICK m \in Bad : \A k \in Bad : m <= k
  <2> HIDE DEF Bad
  <2> QED  BY <1>1, LeastNumber, Bad \subseteq Nat, Zenon DEF Bad
<1>3. m \in Nat /\ ~Runs(m)
  BY <1>2, Zenon
<1>4. m # 0
  <2>1. Runs(0)
    <3> DEFINE g == [n \in 0..0 |-> k0]
    <3>1. g \in [0..0 -> K] /\ g[0] = k0 /\ \A i \in 1..0 : g[i] = F[g[i - 1]]
      OBVIOUS
    <3> HIDE DEF g
    <3> QED  BY <3>1, Zenon
  <2> HIDE DEF Runs
  <2> QED  BY <1>3, <2>1, Zenon
<1>5. m - 1 \in Nat /\ Runs(m - 1)
  <2>1. m \in Nat /\ m - 1 \in Nat /\ ~(m <= m - 1)
    BY <1>3, <1>4
  <2>2. m - 1 \notin Bad
    <3> HIDE DEF Bad
    <3> QED  BY <1>2, <2>1, Zenon
  <2> QED  BY <2>1, <2>2, Zenon
<1>6. PICK g \in [0..(m - 1) -> K] : g[0] = k0 /\ \A i \in 1..(m - 1) : g[i] = F[g[i - 1]]
  BY <1>5, Zenon
<1> DEFINE h == [i \in 0..m |-> IF i = m THEN F[g[m - 1]] ELSE g[i]]
<1>7. h \in [0..m -> K] /\ h[0] = k0 /\ \A i \in 1..m : h[i] = F[h[i - 1]]
  <2>1. m \in Nat /\ m - 1 \in 0..(m - 1) /\ g[m - 1] \in K
    BY <1>3, <1>4, <1>6
  <2>2. \A i \in 0..m : i # m => i \in 0..(m - 1)
    BY <2>1
  <2>3. h \in [0..m -> K]
    BY <1>6, <2>1, <2>2, Zenon
  <2>4. ASSUME NEW i \in 1..m PROVE h[i] = F[h[i - 1]]
    <3>1. i - 1 \in 0..m /\ i - 1 # m /\ i \in 0..m
      BY <2>1
    <3>2. CASE i = m
      BY <3>1, <3>2, Zenon
    <3>3. CASE i # m
      BY <1>6, <2>1, <3>1, <3>3
    <3> QED  BY <3>2, <3>3, Zenon
  <2>5. h[0] = k0
    BY <1>4, <1>6, <2>1
  <2> QED  BY <2>3, <2>4, <2>5, Zenon
<1>8. Runs(m)
  <2> HIDE DEF h
  <2> QED  BY <1>7, Zenon
<1> HIDE DEF Runs
<1> QED  BY <1>3, <1>8, Zenon

Increasing(s, n) == \A i, j \in 1..n : i < j => s[i] < s[j]

\* A finite set of numbers can be listed in order.
LEMMA OrderExists ==
    ASSUME NEW S \in SUBSET Nat, IsFiniteSet(S)
    PROVE  \E s \in [1..Cardinality(S) -> S] : Increasing(s, Cardinality(S))
<1> DEFINE Listed(U) == \E s \in [1..Cardinality(U) -> U] : Increasing(s, Cardinality(U))
           Bad == {n \in Nat : \E U \in SUBSET Nat : IsFiniteSet(U) /\ Cardinality(U) = n /\ ~Listed(U)}
<1>1. SUFFICES ASSUME Bad # {} PROVE FALSE
  <2>1. Cardinality(S) \in Nat
    BY FS_CardinalityType, Zenon
  <2> QED  BY <2>1, Zenon
<1>2. PICK n \in Bad : \A k \in Bad : n <= k
  <2>1. Bad \subseteq Nat
    BY Zenon
  <2> HIDE DEF Bad
  <2> QED  BY <1>1, <2>1, LeastNumber, Zenon
<1>3. PICK U \in SUBSET Nat : IsFiniteSet(U) /\ Cardinality(U) = n /\ ~Listed(U)
  BY <1>2, Zenon
<1>4. U # {} /\ n \in Nat /\ n # 0
  <2>1. ASSUME U = {} PROVE Listed(U)
    <3>1. Cardinality(U) = 0
      BY <2>1, FS_EmptySet, Zenon
    <3> DEFINE e == [i \in 1..0 |-> 0]
    <3>2. e \in [1..0 -> U] /\ Increasing(e, 0)
      BY DEF Increasing
    <3> HIDE DEF e
    <3> QED  BY <3>1, <3>2, Zenon
  <2> QED  BY <1>2, <1>3, <2>1, FS_EmptySet, Zenon
<1>5. PICK m \in U : \A k \in U : m <= k
  BY <1>3, <1>4, LeastNumber, Zenon
<1> DEFINE V == U \ {m}
<1>6. V \in SUBSET Nat /\ IsFiniteSet(V) /\ Cardinality(V) = n - 1 /\ n - 1 \in Nat
  <2> HIDE DEF Listed
  <2>1. IsFiniteSet(V) /\ Cardinality(V) = n - 1
    BY <1>3, <1>5, FS_RemoveElement, Zenon
  <2> QED  BY <1>4, <2>1
<1>7. Listed(V)
  <2>1. n - 1 \notin Bad
    <3>1. n \in Nat /\ n - 1 \in Nat /\ ~(n <= n - 1)
      BY <1>4, <1>6
    <3> HIDE DEF Bad
    <3> QED  BY <1>2, <3>1, Zenon
  <2> HIDE DEF V
  <2> QED  BY <1>6, <2>1, Zenon
<1>8. PICK s \in [1..(n - 1) -> V] : Increasing(s, n - 1)
  BY <1>6, <1>7, Zenon
<1> DEFINE t == [i \in 1..n |-> IF i = 1 THEN m ELSE s[i - 1]]
<1>9. t \in [1..n -> U] /\ Increasing(t, n)
  <2>1. \A i \in 1..n : i # 1 => i - 1 \in 1..(n - 1)
    BY <1>4
  <2>2. \A i \in 1..n : i # 1 => s[i - 1] \in V
    BY <1>8, <2>1, Zenon
  <2>3. t \in [1..n -> U]
    BY <1>5, <2>2, Zenon
  <2>4. ASSUME NEW i \in 1..n, NEW j \in 1..n, i < j PROVE t[i] < t[j]
    <3>1. j # 1 /\ t[j] = s[j - 1] /\ s[j - 1] \in V
      BY <1>4, <2>2, <2>4
    <3>2. CASE i = 1
      <4>1. t[i] = m /\ s[j - 1] # m /\ m <= s[j - 1] /\ m \in Nat /\ s[j - 1] \in Nat
        BY <1>5, <3>1, <3>2, Zenon
      <4> QED  BY <3>1, <4>1
    <3>3. CASE i # 1
      <4>1. i - 1 \in 1..(n - 1) /\ j - 1 \in 1..(n - 1) /\ i - 1 < j - 1
        BY <1>4, <2>4, <3>1, <3>3
      <4>2. s[i - 1] < s[j - 1]
        BY <1>8, <4>1, Zenon DEF Increasing
      <4> QED  BY <3>1, <3>3, <4>2, Zenon
    <3> QED  BY <3>2, <3>3, Zenon
  <2> QED  BY <2>3, <2>4, Zenon DEF Increasing
<1> QED
  <2> HIDE DEF t
  <2> QED  BY <1>3, <1>9, Zenon

\* A sequence over a set is one over any larger set.
LEMMA WiderSeq ==
    ASSUME NEW S, NEW T, S \subseteq T, NEW s \in Seq(S)
    PROVE  s \in Seq(T)
<1>1. Len(s) \in Nat /\ s = [i \in 1..Len(s) |-> s[i]] /\ \A i \in 1..Len(s) : s[i] \in T
  OBVIOUS
<1>2. [i \in 1..Len(s) |-> s[i]] \in Seq(T)
  BY <1>1
<1> QED  BY <1>1, <1>2, Zenon

\* sorted() lists every element of a finite set, and each once.
LEMMA InOrderLists ==
    ASSUME NEW S \in SUBSET Nat, IsFiniteSet(S)
    PROVE  InOrder(S) \in Seq(S) /\ IsInjective(InOrder(S)) /\ Range(InOrder(S)) = S
<1> DEFINE n == Cardinality(S)
           s == InOrder(S)
<1>1. n \in Nat
  BY FS_CardinalityType, Zenon
<1>2. s \in [1..n -> S] /\ Increasing(s, n)
  <2>1. \E r \in [1..n -> S] : Increasing(r, n)
    BY OrderExists, Zenon
  <2> QED  BY <2>1, Zenon DEF InOrder, Increasing
<1> HIDE DEF s, n
<1>3. IsInjective(s)
  <2>1. DOMAIN s = 1..n /\ \A i \in 1..n : s[i] \in Nat
    BY <1>2, Zenon
  <2>2. ASSUME NEW i \in 1..n, NEW j \in 1..n, s[i] = s[j], i # j PROVE FALSE
    <3>1. i < j \/ j < i
      BY <1>1, <2>2
    <3>2. s[i] < s[j] \/ s[j] < s[i]
      BY <1>2, <3>1, Zenon DEF Increasing
    <3> QED  BY <2>1, <2>2, <3>2
  <2> QED  BY <2>1, <2>2, Zenon DEF IsInjective
<1>4. s \in Surjection(1..n, S)
  <2>1. IsFiniteSet(1..n) /\ Cardinality(1..n) = n
    BY <1>1, FS_Interval
  <2>2. s \in Injection(1..n, S)
    BY <1>2, <1>3, Zenon DEF Injection
  <2>3. Cardinality(1..n) = Cardinality(S)
    BY <2>1, Zenon DEF n
  <2> QED  BY <2>2, <2>3, FS_Injection, Zenon
<1>5. Range(s) = S
  BY <1>2, <1>4, Zenon DEF Range, Surjection
<1>6. s \in Seq(S)
  BY <1>1, <1>2
<1> QED  BY <1>3, <1>5, <1>6, Zenon DEF s

(* The compiler's order of phases *)

\* The phases of the workflow that p requires, and the requires that name them.
Needed(c, p) == _phase_dependencies(c, p) \cap Phases

Naming(c, p) == {i \in PhaseRefs(c, p) : c.requires[p][i].name \in Phases}

RepeatsAt(c, p) ==
    \E i, j \in PhaseRefs(c, p) :
        i # j /\ c.requires[p][i].name = c.requires[p][j].name /\ c.requires[p][i].name \in Phases

\* The phases of a charter are finitely many numbers.
LEMMA PhasesFinite ==
    IsFiniteSet(Phases) /\ Cardinality(Phases) = NumPhases /\ Phases \subseteq Nat
<1>1. NumPhases \in Nat
  BY ExecAssumption, Zenon
<1>2. IsFiniteSet(1..NumPhases) /\ Cardinality(1..NumPhases) = NumPhases
  BY <1>1, FS_Interval
<1> QED  BY <1>1, <1>2 DEF Phases

\* The degree of a phase is never below the number of those of its phases that are
\* listed, and meets it only when all are and no require is repeated.
LEMMA DegreeCounts ==
    ASSUME NEW c, IsCharter(c), NEW p \in Phases, NEW O \in SUBSET Phases
    PROVE  /\ InDegree(c)[p] \in Nat /\ IsFiniteSet(Needed(c, p) \cap O)
           /\ Cardinality(Needed(c, p) \cap O) \in Nat
           /\ Cardinality(Needed(c, p) \cap O) <= InDegree(c)[p]
           /\ InDegree(c)[p] = Cardinality(Needed(c, p) \cap O)
                <=> Needed(c, p) \subseteq O /\ ~RepeatsAt(c, p)
<1> DEFINE I == Naming(c, p)
           D == Needed(c, p)
           f == [i \in I |-> c.requires[p][i].name]
<1>1. InDegree(c)[p] = Cardinality(I)
  BY Zenon DEF InDegree, Naming
<1>2. IsFiniteSet(I)
  <2>1. Len(c.requires[p]) \in Nat
    BY Zenon DEF IsCharter
  <2>2. IsFiniteSet(1..Len(c.requires[p]))
    BY <2>1, FS_Interval
  <2>3. I \in SUBSET (1..Len(c.requires[p]))
    BY Zenon DEF Naming, PhaseRefs
  <2> QED  BY <2>2, <2>3, FS_Subset, Zenon
<1>3. IsFiniteSet(D) /\ IsFiniteSet(D \cap O)
  <2>1. D \in SUBSET Phases /\ D \cap O \in SUBSET Phases
    BY Zenon DEF Needed
  <2> QED  BY <2>1, PhasesFinite, FS_Subset, Zenon
<1>4. f \in Surjection(I, D)
  <2>1. \A i \in I : f[i] \in D
    BY Zenon DEF Naming, Needed, _phase_dependencies
  <2>2. \A d \in D : \E i \in I : f[i] = d
    BY Zenon DEF Naming, Needed, _phase_dependencies
  <2> QED  BY <2>1, <2>2, Zenon DEF Surjection
<1>5. f \in Injection(I, D) <=> ~RepeatsAt(c, p)
  <2>1. f \in [I -> D]
    BY <1>4, Zenon DEF Surjection
  <2>2. IsInjective(f) <=> ~RepeatsAt(c, p)
    BY Zenon DEF IsInjective, RepeatsAt, Naming
  <2> QED  BY <2>1, <2>2, Zenon DEF Injection
<1> HIDE DEF f, I, D
<1>6. Cardinality(D) <= Cardinality(I) /\ (Cardinality(D) = Cardinality(I) <=> ~RepeatsAt(c, p))
  BY <1>2, <1>4, <1>5, FS_Surjection, Zenon
<1>7. Cardinality(D \cap O) <= Cardinality(D) /\ (Cardinality(D) = Cardinality(D \cap O) <=> D \subseteq O)
  <2>1. D \cap O \in SUBSET D
    BY Zenon
  <2>2. D \subseteq O => D \cap O = D
    BY Zenon
  <2>3. D = D \cap O => D \subseteq O
    BY Zenon
  <2> QED  BY <1>3, <2>1, <2>2, <2>3, FS_Subset, Zenon
<1>8. Cardinality(I) \in Nat /\ Cardinality(D) \in Nat /\ Cardinality(D \cap O) \in Nat
  BY <1>2, <1>3, FS_CardinalityType, Zenon
<1>9. /\ Cardinality(D \cap O) <= Cardinality(I)
      /\ Cardinality(I) = Cardinality(D \cap O) <=> D \subseteq O /\ ~RepeatsAt(c, p)
  BY <1>6, <1>7, <1>8
<1> QED  BY <1>1, <1>3, <1>8, <1>9, Zenon DEF D

\* Appending what a sequence does not have leaves it without repetition.
LEMMA AppendedOnce ==
    ASSUME NEW T, NEW s \in Seq(T), IsInjective(s), NEW x \in T, x \notin Range(s)
    PROVE  /\ Append(s, x) \in Seq(T) /\ IsInjective(Append(s, x))
           /\ Range(Append(s, x)) = Range(s) \cup {x}
           /\ Len(Append(s, x)) = Len(s) + 1
           /\ \A i \in 1..Len(s) : Append(s, x)[i] = s[i]
           /\ Append(s, x)[Len(s) + 1] = x
<1>1. /\ Append(s, x) \in Seq(T) /\ Len(Append(s, x)) = Len(s) + 1 /\ Len(s) \in Nat
      /\ \A i \in 1..Len(s) : Append(s, x)[i] = s[i]
      /\ Append(s, x)[Len(s) + 1] = x /\ DOMAIN s = 1..Len(s) /\ DOMAIN Append(s, x) = 1..(Len(s) + 1)
  OBVIOUS
<1> DEFINE r == Append(s, x)
<1> HIDE DEF r
<1>2. Range(r) = Range(s) \cup {x}
  BY <1>1 DEF r, Range
<1>3. IsInjective(r)
  BY <1>1 DEF r, Range, IsInjective
<1> QED  BY <1>1, <1>2, <1>3, Zenon DEF r

\* Joining two sequences that share nothing leaves them without repetition.
LEMMA JoinedOnce ==
    ASSUME NEW T, NEW s \in Seq(T), IsInjective(s), NEW t \in Seq(T), IsInjective(t), Range(s) \cap Range(t) = {}
    PROVE  /\ s \o t \in Seq(T) /\ IsInjective(s \o t) /\ Range(s \o t) = Range(s) \cup Range(t)
<1> DEFINE r == s \o t
<1>1. /\ r \in Seq(T) /\ Len(s) \in Nat /\ Len(t) \in Nat
      /\ DOMAIN r = 1..(Len(s) + Len(t)) /\ DOMAIN s = 1..Len(s) /\ DOMAIN t = 1..Len(t)
      /\ \A i \in 1..Len(s) : r[i] = s[i]
      /\ \A i \in 1..Len(t) : r[Len(s) + i] = t[i]
      /\ \A i \in DOMAIN r : i \notin 1..Len(s) => i - Len(s) \in 1..Len(t) /\ r[i] = t[i - Len(s)]
  OBVIOUS
<1> HIDE DEF r
<1>2. Range(r) \subseteq Range(s) \cup Range(t)
  BY <1>1 DEF Range
<1>3. Range(s) \subseteq Range(r)
  BY <1>1 DEF Range
<1>4. Range(t) \subseteq Range(r)
  <2>1. ASSUME NEW i \in 1..Len(t) PROVE Len(s) + i \in DOMAIN r /\ r[Len(s) + i] = t[i]
    BY <1>1
  <2>2. ASSUME NEW i \in DOMAIN t PROVE t[i] \in Range(r)
    BY <1>1, <2>1, <2>2, Zenon DEF Range
  <2> QED  BY <2>2, Zenon DEF Range
<1> DEFINE A == Range(s)
           B == Range(t)
<1>6. \A i \in DOMAIN r : (i \in 1..Len(s) => r[i] \in A) /\ (i \notin 1..Len(s) => r[i] \in B)
  BY <1>1, Zenon DEF Range
<1>7. A \cap B = {}
  BY Zenon
<1> HIDE DEF A, B
<1>5. ASSUME NEW i \in DOMAIN r, NEW j \in DOMAIN r, r[i] = r[j] PROVE i = j
  <2>1. CASE i \in 1..Len(s) /\ j \in 1..Len(s)
    BY <1>1, <1>5, <2>1, Zenon DEF IsInjective
  <2>2. CASE i \notin 1..Len(s) /\ j \notin 1..Len(s)
    <3>1. i - Len(s) \in 1..Len(t) /\ j - Len(s) \in 1..Len(t) /\ t[i - Len(s)] = t[j - Len(s)]
      BY <1>1, <1>5, <2>2, Zenon
    <3>2. i - Len(s) = j - Len(s)
      BY <1>1, <3>1, Zenon DEF IsInjective
    <3> QED  BY <1>1, <3>2
  <2>3. CASE i \in 1..Len(s) /\ j \notin 1..Len(s)
    BY <1>5, <1>6, <1>7, <2>3, Zenon
  <2>4. CASE i \notin 1..Len(s) /\ j \in 1..Len(s)
    BY <1>5, <1>6, <1>7, <2>4, Zenon
  <2> QED  BY <2>1, <2>2, <2>3, <2>4, Zenon
<1> QED  BY <1>1, <1>2, <1>3, <1>4, <1>5, Zenon DEF r, IsInjective

\* Taking the head off a sequence without repetition takes it out of its range.
LEMMA TailOnce ==
    ASSUME NEW T, NEW s \in Seq(T), IsInjective(s), s # <<>>
    PROVE  /\ Tail(s) \in Seq(T) /\ IsInjective(Tail(s)) /\ Range(Tail(s)) = Range(s) \ {Head(s)}
           /\ Head(s) \in Range(s) /\ Head(s) \in T
<1> DEFINE r == Tail(s)
<1>1. /\ r \in Seq(T) /\ Len(s) \in Nat /\ Len(s) > 0 /\ DOMAIN s = 1..Len(s) /\ DOMAIN r = 1..(Len(s) - 1)
      /\ \A i \in 1..(Len(s) - 1) : r[i] = s[i + 1] /\ i + 1 \in 1..Len(s)
      /\ Head(s) = s[1] /\ 1 \in DOMAIN s /\ s[1] \in T
  OBVIOUS
<1> HIDE DEF r
<1>2. ASSUME NEW i \in DOMAIN r, NEW j \in DOMAIN r, r[i] = r[j] PROVE i = j
  <2>1. i + 1 \in DOMAIN s /\ j + 1 \in DOMAIN s /\ s[i + 1] = s[j + 1]
    BY <1>1, <1>2, Zenon
  <2>2. i + 1 = j + 1
    BY <2>1, Zenon DEF IsInjective
  <2> QED  BY <1>1, <2>2
<1>3. ASSUME NEW i \in DOMAIN r PROVE r[i] \in Range(s) /\ r[i] # Head(s)
  <2>1. i + 1 \in DOMAIN s /\ r[i] = s[i + 1] /\ i + 1 # 1
    BY <1>1
  <2> QED  BY <1>1, <2>1, Zenon DEF IsInjective, Range
<1>4. ASSUME NEW i \in DOMAIN s, s[i] # Head(s) PROVE s[i] \in Range(r)
  <2>1. i # 1 /\ i - 1 \in 1..(Len(s) - 1) /\ (i - 1) + 1 = i
    BY <1>1, <1>4
  <2>2. r[i - 1] = s[i] /\ i - 1 \in DOMAIN r
    BY <1>1, <2>1, Zenon
  <2> QED  BY <2>2, Zenon DEF Range
<1>5. Range(r) = Range(s) \ {Head(s)}
  BY <1>3, <1>4, Zenon DEF Range
<1>6. Head(s) \in Range(s)
  BY <1>1, Zenon DEF Range
<1>7. IsInjective(r)
  BY <1>2, Zenon DEF IsInjective
<1> QED  BY <1>1, <1>5, <1>6, <1>7, Zenon DEF r

KahnStates == [queue : Seq(Phases), order : Seq(Phases), degree : [Phases -> Int]]

\* The loop's invariant: a phase is listed or queued, once, exactly when its degree is
\* down to zero, the degree counts what is not listed yet, and whatever a listed phase
\* needs is listed before it.
KahnHolds(c, queue, order, degree) ==
    /\ IsInjective(queue) /\ IsInjective(order) /\ Range(order) \cap Range(queue) = {}
    /\ \A p \in Phases : degree[p] = InDegree(c)[p] - Cardinality(Needed(c, p) \cap Range(order))
    /\ \A p \in Phases : p \in Range(order) \cup Range(queue) <=> degree[p] = 0
    /\ \A i \in DOMAIN order : Needed(c, order[i]) \subseteq {order[j] : j \in 1..(i - 1)}

KahnInv(c, k) == KahnHolds(c, k.queue, k.order, k.degree)

\* The range of a sequence over a set is in the set.
LEMMA SeqRange ==
    ASSUME NEW T, NEW s \in Seq(T)
    PROVE  Range(s) \subseteq T
BY DEF Range

\* The sort starts with nothing in order and, in the queue, the phases without dependencies.
LEMMA KahnStarts ==
    ASSUME NEW c, IsCharter(c)
    PROVE  KahnStart(c) \in KahnStates /\ KahnInv(c, KahnStart(c))
<1> DEFINE Free == {p \in Phases : InDegree(c)[p] = 0}
           k == KahnStart(c)
<1>1. Free \in SUBSET Nat /\ IsFiniteSet(Free) /\ Free \subseteq Phases
  <2>1. Free \in SUBSET Phases
    BY Zenon
  <2> QED  BY <2>1, PhasesFinite, FS_Subset, Zenon
<1>2. InOrder(Free) \in Seq(Free) /\ IsInjective(InOrder(Free)) /\ Range(InOrder(Free)) = Free
  <2> HIDE DEF Free
  <2> QED  BY <1>1, InOrderLists, Zenon
<1>3. k.queue = InOrder(Free) /\ k.order = <<>> /\ k.degree = InDegree(c)
  BY Zenon DEF KahnStart
<1>4. \A p \in Phases : InDegree(c)[p] \in Nat /\ Cardinality(Needed(c, p) \cap {}) = 0
  <2>1. {} \in SUBSET Phases /\ Cardinality({}) = 0
    BY FS_EmptySet, Zenon
  <2>2. \A p \in Phases : Needed(c, p) \cap {} = {}
    BY Zenon
  <2> QED  BY <2>1, <2>2, DegreeCounts, Zenon
<1>5. InDegree(c) \in [Phases -> Int]
  <2>1. InDegree(c) = [p \in Phases |-> InDegree(c)[p]]
    BY Zenon DEF InDegree
  <2> QED  BY <1>4, <2>1
<1>6. InOrder(Free) \in Seq(Phases)
  <2> HIDE DEF Free
  <2> QED  BY <1>1, <1>2, WiderSeq, Zenon
<1>7. k \in KahnStates
  BY <1>5, <1>6 DEF KahnStart, KahnStates
<1>8. Range(k.order) = {} /\ IsInjective(k.order) /\ DOMAIN k.order = {}
  BY <1>3 DEF Range, IsInjective
<1>9. Range(k.queue) = Free /\ IsInjective(k.queue)
  BY <1>2, <1>3, Zenon
<1>10. \A p \in Phases : k.degree[p] = InDegree(c)[p] - Cardinality(Needed(c, p) \cap Range(k.order))
  <2> TAKE p \in Phases
  <2>1. InDegree(c)[p] = InDegree(c)[p] - 0
    BY <1>4
  <2> HIDE DEF k
  <2> QED  BY <1>3, <1>4, <1>8, <2>1, Zenon
<1>11. \A p \in Phases : p \in Range(k.order) \cup Range(k.queue) <=> k.degree[p] = 0
  BY <1>3, <1>8, <1>9, Zenon
<1> HIDE DEF k
<1>12. KahnHolds(c, k.queue, k.order, k.degree)
  BY <1>8, <1>9, <1>10, <1>11, Zenon DEF KahnHolds
<1> QED  BY <1>7, <1>12, Zenon DEF KahnInv, k

\* One turn of the loop keeps the invariant.
LEMMA KahnSteps ==
    ASSUME NEW c, IsCharter(c), NEW k \in KahnStates, KahnInv(c, k)
    PROVE  KahnStep(c, k) \in KahnStates /\ KahnInv(c, KahnStep(c, k))
<1>1. SUFFICES ASSUME k.queue # <<>> PROVE KahnStep(c, k) \in KahnStates /\ KahnInv(c, KahnStep(c, k))
  BY Zenon DEF KahnStep
<1>2. /\ k.queue \in Seq(Phases) /\ k.order \in Seq(Phases) /\ k.degree \in [Phases -> Int]
      /\ IsInjective(k.queue) /\ IsInjective(k.order) /\ Range(k.order) \cap Range(k.queue) = {}
  BY Zenon DEF KahnStates, KahnInv, KahnHolds
<1> DEFINE node == Head(k.queue)
           left == [p \in Phases |-> IF p \in Dependents(c, node) THEN k.degree[p] - 1 ELSE k.degree[p]]
           Freed == {p \in Dependents(c, node) : left[p] = 0}
           q == Tail(k.queue) \o InOrder(Freed)
           o == Append(k.order, node)
           O == Range(k.order)
           Q == Range(k.queue)
<1>3. KahnStep(c, k) = [queue |-> q, order |-> o, degree |-> left]
  BY <1>1, Zenon DEF KahnStep
<1>4. /\ Tail(k.queue) \in Seq(Phases) /\ IsInjective(Tail(k.queue)) /\ Range(Tail(k.queue)) = Q \ {node}
      /\ node \in Q /\ node \in Phases
  BY <1>1, <1>2, TailOnce, Zenon
<1> HIDE DEF node
<1>5. node \notin O /\ O \subseteq Phases /\ Q \subseteq Phases
  BY <1>2, <1>4, SeqRange, Zenon
<1>6. /\ o \in Seq(Phases) /\ IsInjective(o) /\ Range(o) = O \cup {node} /\ Len(o) = Len(k.order) + 1
      /\ \A i \in 1..Len(k.order) : o[i] = k.order[i]
      /\ o[Len(k.order) + 1] = node
  BY <1>2, <1>4, <1>5, AppendedOnce
<1>7. \A p \in Phases : k.degree[p] = InDegree(c)[p] - Cardinality(Needed(c, p) \cap O)
  BY Zenon DEF KahnInv, KahnHolds
<1>8. \A p \in Phases : p \in O \cup Q <=> k.degree[p] = 0
  BY Zenon DEF KahnInv, KahnHolds
<1>9. Freed \in SUBSET Phases /\ Freed \in SUBSET Nat /\ IsFiniteSet(Freed)
  <2>1. Freed \in SUBSET Phases
    BY Zenon DEF Dependents
  <2> QED  BY <2>1, PhasesFinite, FS_Subset, Zenon
<1>10. \A p \in Phases : left[p] = InDegree(c)[p] - Cardinality(Needed(c, p) \cap (O \cup {node})) /\ left[p] >= 0
  <2> TAKE p \in Phases
  <2>1. /\ InDegree(c)[p] \in Nat /\ IsFiniteSet(Needed(c, p) \cap O) /\ Cardinality(Needed(c, p) \cap O) \in Nat
        /\ Cardinality(Needed(c, p) \cap (O \cup {node})) \in Nat
        /\ Cardinality(Needed(c, p) \cap (O \cup {node})) <= InDegree(c)[p]
    <3>1. O \in SUBSET Phases /\ O \cup {node} \in SUBSET Phases
      BY <1>4, <1>5, Zenon
    <3> HIDE DEF O
    <3> QED  BY <3>1, DegreeCounts, Zenon
  <2>2. CASE p \in Dependents(c, node)
    <3>1. node \in Needed(c, p)
      BY <1>4, <2>2, Zenon DEF Dependents, Needed
    <3>2. Needed(c, p) \cap (O \cup {node}) = (Needed(c, p) \cap O) \cup {node} /\ node \notin Needed(c, p) \cap O
      BY <1>5, <3>1, Zenon
    <3>3. Cardinality(Needed(c, p) \cap (O \cup {node})) = Cardinality(Needed(c, p) \cap O) + 1
      BY <2>1, <3>2, FS_AddElement, Zenon
    <3>4. left[p] = k.degree[p] - 1
      BY <2>2, Zenon
    <3> HIDE DEF left, O
    <3> QED  BY <1>7, <2>1, <3>3, <3>4
  <2>3. CASE p \notin Dependents(c, node)
    <3>1. node \notin Needed(c, p)
      BY <2>3, Zenon DEF Dependents, Needed
    <3>2. Needed(c, p) \cap (O \cup {node}) = Needed(c, p) \cap O
      BY <3>1, Zenon
    <3>3. left[p] = k.degree[p]
      BY <2>3, Zenon
    <3> HIDE DEF left, O
    <3> QED  BY <1>7, <2>1, <3>2, <3>3
  <2> QED  BY <2>2, <2>3, Zenon
<1>11. left \in [Phases -> Int]
  BY <1>2
<1>12. \A p \in Freed : k.degree[p] = 1 /\ p \notin O \cup Q
  <2> TAKE p \in Freed
  <2>1. p \in Phases /\ left[p] = 0 /\ left[p] = k.degree[p] - 1 /\ k.degree[p] \in Int
    BY <1>2, <1>9, Zenon
  <2>2. k.degree[p] = 1
    BY <2>1
  <2> HIDE DEF O, Q, left, Freed
  <2> QED  BY <1>8, <2>1, <2>2
<1>13. \A p \in Phases : left[p] = 0 <=> p \in O \cup Q \cup Freed
  <2> TAKE p \in Phases
  <2>1. k.degree[p] \in Int /\ left[p] >= 0
    BY <1>2, <1>10, Zenon
  <2>2. CASE p \in Dependents(c, node)
    <3>1. left[p] = k.degree[p] - 1
      BY <2>2, Zenon
    <3>2. k.degree[p] # 0
      BY <2>1, <3>1
    <3>3. p \notin O \cup Q
      <4> HIDE DEF O, Q
      <4> QED  BY <1>8, <3>2, Zenon
    <3> QED  BY <2>2, <3>3, Zenon
  <2>3. CASE p \notin Dependents(c, node)
    <3>1. left[p] = k.degree[p] /\ p \notin Freed
      BY <2>3, Zenon
    <3> HIDE DEF O, Q, left, Freed
    <3> QED  BY <1>8, <3>1, Zenon
  <2> QED  BY <2>2, <2>3, Zenon
<1> HIDE DEF Freed, O, Q, left
<1>14. InOrder(Freed) \in Seq(Freed) /\ IsInjective(InOrder(Freed)) /\ Range(InOrder(Freed)) = Freed
  BY <1>9, InOrderLists, Zenon
<1>15. q \in Seq(Phases) /\ IsInjective(q) /\ Range(q) = (Q \ {node}) \cup Freed
  <2>1. InOrder(Freed) \in Seq(Phases)
    BY <1>9, <1>14, WiderSeq, Zenon
  <2>2. Range(Tail(k.queue)) \cap Range(InOrder(Freed)) = {}
    BY <1>4, <1>12, <1>14, Zenon
  <2> DEFINE a == Tail(k.queue)
             b == InOrder(Freed)
  <2>3. a \in Seq(Phases) /\ b \in Seq(Phases) /\ IsInjective(a) /\ IsInjective(b) /\ Range(a) \cap Range(b) = {}
    BY <1>4, <1>14, <2>1, <2>2, Zenon
  <2>4. q = a \o b /\ Range(a) = Q \ {node} /\ Range(b) = Freed
    BY <1>4, <1>14, Zenon
  <2> HIDE DEF a, b, q
  <2> QED  BY <2>3, <2>4, JoinedOnce
<1> HIDE DEF q, o
<1> DEFINE n == [queue |-> q, order |-> o, degree |-> left]
<1>16. n \in KahnStates
  BY <1>6, <1>11, <1>15, Zenon DEF KahnStates
<1>17. n.queue = q /\ n.order = o /\ n.degree = left
  BY Zenon
<1> HIDE DEF n
<1>18. Range(o) \cap Range(q) = {}
  BY <1>2, <1>4, <1>6, <1>12, <1>15 DEF O, Q
<1>19. \A p \in Phases : p \in Range(o) \cup Range(q) <=> left[p] = 0
  BY <1>4, <1>6, <1>13, <1>15, Zenon
<1>20. \A i \in DOMAIN o : Needed(c, o[i]) \subseteq {o[j] : j \in 1..(i - 1)}
  <2>1. Len(k.order) \in Nat /\ DOMAIN k.order = 1..Len(k.order) /\ DOMAIN o = 1..(Len(k.order) + 1)
    BY <1>2, <1>6
  <2>2. ASSUME NEW i \in 1..Len(k.order) PROVE Needed(c, o[i]) \subseteq {o[j] : j \in 1..(i - 1)}
    <3>1. o[i] = k.order[i] /\ Needed(c, k.order[i]) \subseteq {k.order[j] : j \in 1..(i - 1)}
      BY <1>6, <2>1, Zenon DEF KahnInv, KahnHolds
    <3>2. \A j \in 1..(i - 1) : k.order[j] = o[j]
      BY <1>6, <2>1
    <3> QED  BY <3>1, <3>2, Zenon
  <2>3. Needed(c, node) \subseteq O
    <3>1. k.degree[node] = 0 /\ O \in SUBSET Phases
      BY <1>4, <1>5, <1>8, Zenon
    <3>2. InDegree(c)[node] \in Nat /\ Cardinality(Needed(c, node) \cap O) \in Nat
      BY <1>4, <3>1, DegreeCounts, Zenon
    <3>3. InDegree(c)[node] = Cardinality(Needed(c, node) \cap O)
      BY <1>4, <1>7, <3>1, <3>2
    <3> QED  BY <1>4, <3>1, <3>3, DegreeCounts, Zenon
  <2>4. O = {o[j] : j \in 1..Len(k.order)}
    BY <1>6, <2>1 DEF O, Range
  <2>5. \A i \in DOMAIN o : i \notin 1..Len(k.order) => i = Len(k.order) + 1 /\ i - 1 = Len(k.order)
    BY <2>1
  <2> QED  BY <1>6, <2>2, <2>3, <2>4, <2>5, Zenon
<1>21. KahnInv(c, n)
  <2>1. \A p \in Phases : left[p] = InDegree(c)[p] - Cardinality(Needed(c, p) \cap Range(o))
    BY <1>6, <1>10, Zenon
  <2>2. KahnHolds(c, q, o, left)
    BY <1>6, <1>15, <1>18, <1>19, <1>20, <2>1, Zenon DEF KahnHolds
  <2> QED  BY <1>17, <2>2, Zenon DEF KahnInv
<1> QED  BY <1>3, <1>16, <1>21, Zenon DEF n

KahnGood(c) == {k \in KahnStates : KahnInv(c, k)}

\* The loop is what its turns make of its start, and keeps its invariant.
LEMMA KahnRuns ==
    ASSUME NEW c, IsCharter(c)
    PROVE  /\ Kahn(c)[0] = KahnStart(c)
           /\ \A n \in 1..NumPhases : Kahn(c)[n] = KahnStep(c, Kahn(c)[n - 1])
           /\ \A n \in 0..NumPhases : Kahn(c)[n] \in KahnGood(c)
<1> DEFINE N == NumPhases
           K == KahnGood(c)
           F == [k \in K |-> KahnStep(c, k)]
           Next1(f) == [n \in 0..N |-> IF n = 0 THEN KahnStart(c) ELSE KahnStep(c, f[n - 1])]
<1>1. N \in Nat
  BY ExecAssumption, Zenon
<1>2. KahnStart(c) \in K
  BY KahnStarts, Zenon DEF KahnGood
<1>3. \A k \in K : KahnStep(c, k) \in K
  BY KahnSteps, Zenon DEF KahnGood
<1> HIDE DEF K
<1>4. F \in [K -> K] /\ \A k \in K : F[k] = KahnStep(c, k)
  BY <1>3, Zenon
<1> HIDE DEF F
<1>5. PICK g \in [0..N -> K] : g[0] = KahnStart(c) /\ \A n \in 1..N : g[n] = F[g[n - 1]]
  <2>1. LoopFrom(N, K, F, KahnStart(c)) # {}
    BY <1>1, <1>2, <1>4, LoopRuns, Zenon
  <2> QED  BY <2>1, Zenon DEF LoopFrom
<1>6. g = Next1(g)
  <2>1. ASSUME NEW n \in 0..N PROVE g[n] = IF n = 0 THEN KahnStart(c) ELSE KahnStep(c, g[n - 1])
    <3>1. CASE n = 0
      BY <1>5, <3>1, Zenon
    <3>2. CASE n # 0
      <4>1. n \in 1..N /\ n - 1 \in 0..N
        BY <1>1, <3>2
      <4> QED  BY <1>4, <1>5, <3>2, <4>1, Zenon
    <3> QED  BY <3>1, <3>2, Zenon
  <2> QED  BY <1>5, <2>1, Zenon
<1> DEFINE f == Kahn(c)
<1>7. f = Next1(f)
  <2>1. \E h : h = Next1(h)
    BY <1>6, Zenon
  <2>2. f = CHOOSE h : h = Next1(h)
    BY Zenon DEF Kahn
  <2> HIDE DEF Next1, f
  <2> QED  BY <2>1, <2>2, Zenon
<1> HIDE DEF f
<1>8. \A n \in 0..N : f[n] = IF n = 0 THEN KahnStart(c) ELSE KahnStep(c, f[n - 1])
  BY <1>7, Zenon
<1>9. f[0] = KahnStart(c) /\ \A n \in 1..N : f[n] = KahnStep(c, f[n - 1])
  BY <1>1, <1>8
<1>10. \A n \in 0..N : f[n] \in K
  <2>1. f[0] \in K /\ \A n \in 1..N : f[n - 1] \in K => f[n] \in K
    BY <1>2, <1>3, <1>9, Zenon
  <2> QED  BY <1>1, <2>1, LoopInvariant, Zenon
<1> QED  BY <1>9, <1>10, Zenon DEF f, K

\* A list without repetition has all phases exactly when it is as long as they are many.
LEMMA Listed ==
    ASSUME NEW o \in Seq(Phases), IsInjective(o)
    PROVE  Len(o) = NumPhases <=> Range(o) = Phases
<1> DEFINE n == Len(o)
<1>1. n \in Nat /\ DOMAIN o = 1..n
  OBVIOUS
<1>2. o \in Injection(1..n, Phases)
  BY <1>1 DEF Injection, IsInjective
<1>3. IsFiniteSet(1..n) /\ Cardinality(1..n) = n
  BY <1>1, FS_Interval, SMTT(20)
<1>4. ASSUME n = NumPhases PROVE Range(o) = Phases
  <2>1. IsFiniteSet(Phases) /\ Cardinality(1..n) = Cardinality(Phases)
    BY <1>3, <1>4, PhasesFinite, Zenon
  <2>2. o \in Surjection(1..n, Phases)
    <3> HIDE DEF n
    <3> QED  BY <1>2, <2>1, FS_Injection, Zenon
  <2> QED  BY <1>1, <2>2, Zenon DEF Surjection, Range
<1>5. ASSUME Range(o) = Phases PROVE n = NumPhases
  <2>1. o \in Surjection(1..n, Phases)
    <3>1. o \in [1..n -> Phases]
      BY <1>1
    <3>2. \A t \in Phases : \E i \in 1..n : o[i] = t
      BY <1>1, <1>5, Zenon DEF Range
    <3> QED  BY <3>1, <3>2, Zenon DEF Surjection
  <2>2. o \in Bijection(1..n, Phases)
    BY <1>2, <2>1, Zenon DEF Bijection
  <2>3. Cardinality(1..n) = Cardinality(Phases)
    <3> HIDE DEF n
    <3> QED  BY <1>3, <2>2, PhasesFinite, FS_Bijection, Zenon DEF ExistsBijection
  <2> QED  BY <1>3, <2>3, PhasesFinite, Zenon
<1> QED  BY <1>4, <1>5, Zenon

\* After as many turns as there are phases the queue is empty.
LEMMA KahnEnds ==
    ASSUME NEW c, IsCharter(c)
    PROVE  Kahn(c)[NumPhases].queue = <<>>
<1> DEFINE N == NumPhases
           f == Kahn(c)
           Counted == {n \in 0..N : f[n].queue = <<>> \/ Len(f[n].order) = n}
<1>1. N \in Nat
  BY ExecAssumption, Zenon
<1>2. /\ f[0] = KahnStart(c) /\ \A n \in 1..N : f[n] = KahnStep(c, f[n - 1])
      /\ \A n \in 0..N : f[n] \in KahnStates /\ KahnInv(c, f[n])
  BY KahnRuns, Zenon DEF KahnGood
<1> HIDE DEF f
<1>3. 0 \in Counted
  BY <1>1, <1>2 DEF KahnStart
<1>4. ASSUME NEW n \in 1..N, n - 1 \in Counted PROVE n \in Counted
  <2>1. f[n] = KahnStep(c, f[n - 1]) /\ n - 1 \in 0..N /\ n \in 0..N /\ f[n - 1].order \in Seq(Phases)
    BY <1>1, <1>2 DEF KahnStates
  <2>2. CASE f[n - 1].queue = <<>>
    BY <2>1, <2>2, Zenon DEF KahnStep
  <2>3. CASE f[n - 1].queue # <<>>
    <3>1. Len(f[n - 1].order) = n - 1
      BY <1>4, <2>3, Zenon
    <3>2. f[n].order = Append(f[n - 1].order, Head(f[n - 1].queue))
      <4> DEFINE b == f[n - 1]
      <4>1. KahnStep(c, b).order = Append(b.order, Head(b.queue))
        <5> HIDE DEF b
        <5> QED  BY <2>3, Zenon DEF KahnStep, b
      <4> QED  BY <2>1, <4>1, Zenon
    <3>3. Len(Append(f[n - 1].order, Head(f[n - 1].queue))) = (n - 1) + 1
      BY <2>1, <3>1
    <3> QED  BY <2>1, <3>2, <3>3
  <2> QED  BY <2>2, <2>3, Zenon
<1>5. N \in Counted
  <2> HIDE DEF Counted
  <2>1. \A n \in 0..N : n \in Counted
    BY <1>1, <1>3, <1>4, UpTo, Zenon
  <2> QED  BY <1>1, <2>1
<1> DEFINE o == f[N].order
           q == f[N].queue
<1>6. /\ o \in Seq(Phases) /\ q \in Seq(Phases) /\ IsInjective(o) /\ Range(o) \cap Range(q) = {}
  <2>1. f[N] \in KahnStates /\ KahnInv(c, f[N])
    BY <1>1, <1>2
  <2>2. o \in Seq(Phases) /\ q \in Seq(Phases)
    BY <2>1, Zenon DEF KahnStates
  <2>3. IsInjective(o) /\ Range(o) \cap Range(q) = {}
    BY <2>1, Zenon DEF KahnInv, KahnHolds
  <2> QED  BY <2>2, <2>3, Zenon
<1> HIDE DEF o, q
<1>7. CASE Len(o) = N
  <2>1. Range(q) = {}
    BY <1>6, <1>7, SeqRange, Listed, Zenon
  <2>2. q # <<>> => Head(q) \in Range(q)
    BY <1>6 DEF Range
  <2> QED  BY <2>1, <2>2, Zenon DEF f, q
<1> QED  BY <1>5, <1>7, Zenon DEF f, o

\* The sort lists what needs only listed phases and names none of them twice: all of
\* the phases exactly when no phase repeats one and none is part of a cycle.
LEMMA SortExact ==
    ASSUME NEW c, IsCharter(c)
    PROVE  /\ _topological_sort(c) \in Seq(Phases)
           /\ Len(_topological_sort(c)) = NumPhases <=> Range(_topological_sort(c)) = Phases
           /\ Len(_topological_sort(c)) = NumPhases <=> ~(Cyclic(c) \/ Repeats(c))
           /\ \A i \in 1..Len(_topological_sort(c)) :
                Needed(c, _topological_sort(c)[i]) \subseteq {_topological_sort(c)[j] : j \in 1..(i - 1)}
<1> DEFINE o == _topological_sort(c)
           k == Kahn(c)[NumPhases]
           O == Range(o)
<1>1. NumPhases \in 0..NumPhases
  BY ExecAssumption
<1>2. k \in KahnStates /\ KahnInv(c, k) /\ k.queue = <<>> /\ o = k.order
  BY <1>1, KahnRuns, KahnEnds, Zenon DEF KahnGood, _topological_sort
<1> HIDE DEF o, k
<1>3. /\ o \in Seq(Phases) /\ IsInjective(o)
      /\ \A p \in Phases : k.degree[p] = InDegree(c)[p] - Cardinality(Needed(c, p) \cap O)
      /\ \A p \in Phases : p \in O <=> k.degree[p] = 0
      /\ \A i \in DOMAIN o : Needed(c, o[i]) \subseteq {o[j] : j \in 1..(i - 1)}
  <2>1. Range(k.queue) = {}
    BY <1>2 DEF Range
  <2>2. o \in Seq(Phases)
    BY <1>2, Zenon DEF KahnStates
  <2>3. KahnHolds(c, k.queue, o, k.degree) /\ O \cup Range(k.queue) = O
    BY <1>2, <2>1, Zenon DEF KahnInv
  <2> QED  BY <2>2, <2>3, Zenon DEF KahnHolds
<1>4. O \subseteq Phases
  BY <1>3, SeqRange, Zenon
<1>5. ASSUME NEW p \in Phases PROVE p \in O <=> Needed(c, p) \subseteq O /\ ~RepeatsAt(c, p)
  <2>1. /\ InDegree(c)[p] \in Nat /\ Cardinality(Needed(c, p) \cap O) \in Nat
        /\ InDegree(c)[p] = Cardinality(Needed(c, p) \cap O) <=> Needed(c, p) \subseteq O /\ ~RepeatsAt(c, p)
    BY <1>4, DegreeCounts, Zenon
  <2>2. p \in O <=> InDegree(c)[p] - Cardinality(Needed(c, p) \cap O) = 0
    BY <1>3, Zenon
  <2> QED  BY <2>1, <2>2
<1>6. Len(o) = NumPhases <=> O = Phases
  BY <1>3, Listed, Zenon
<1>7. ASSUME O # Phases PROVE Cyclic(c) \/ Repeats(c)
  <2> DEFINE S == Phases \ O
  <2>1. SUFFICES ASSUME ~Repeats(c) PROVE Cyclic(c)
    BY Zenon
  <2>2. S \in (SUBSET Phases) \ {{}}
    BY <1>4, <1>7, Zenon
  <2>3. ASSUME NEW p \in S PROVE _phase_dependencies(c, p) \cap S # {}
    <3>1. ~RepeatsAt(c, p)
      BY <2>1, <2>3, Zenon DEF Repeats, RepeatsAt
    <3>2. ~(Needed(c, p) \subseteq O)
      BY <1>5, <2>3, <3>1, Zenon
    <3> QED  BY <3>2, Zenon DEF Needed
  <2> QED  BY <2>2, <2>3, Zenon DEF Cyclic
<1>8. ASSUME O = Phases, Repeats(c) PROVE FALSE
  <2>1. PICK p \in Phases : RepeatsAt(c, p)
    BY <1>8, Zenon DEF Repeats, RepeatsAt
  <2> QED  BY <1>5, <1>8, <2>1, Zenon
<1>9. ASSUME O = Phases, Cyclic(c) PROVE FALSE
  <2>1. PICK S \in (SUBSET Phases) \ {{}} : \A p \in S : _phase_dependencies(c, p) \cap S # {}
    BY <1>9, Zenon DEF Cyclic
  <2> DEFINE Places == {i \in DOMAIN o : o[i] \in S}
  <2>2. Places \subseteq Nat /\ DOMAIN o = 1..Len(o) /\ Len(o) \in Nat
    BY <1>3
  <2>3. Places # {}
    <3>1. PICK p \in S : p \in O
      BY <1>9, <2>1, Zenon
    <3> QED  BY <3>1, Zenon DEF Range
  <2>4. PICK i \in Places : \A j \in Places : i <= j
    <3> HIDE DEF Places
    <3> QED  BY <2>2, <2>3, LeastNumber, Zenon
  <2>5. PICK d : d \in _phase_dependencies(c, o[i]) \cap S
    BY <2>1, <2>4, Zenon
  <2>6. d \in Needed(c, o[i]) /\ d \in S
    BY <2>1, <2>5, Zenon DEF Needed
  <2>7. PICK j \in 1..(i - 1) : d = o[j]
    BY <1>3, <2>4, <2>6, Zenon
  <2>8. j \in DOMAIN o /\ ~(i <= j)
    BY <2>2, <2>4, <2>7
  <2> QED  BY <2>4, <2>6, <2>7, <2>8, Zenon
<1>10. Len(o) = NumPhases <=> ~(Cyclic(c) \/ Repeats(c))
  BY <1>6, <1>7, <1>8, <1>9, Zenon
<1>11. \A i \in 1..Len(o) : Needed(c, o[i]) \subseteq {o[j] : j \in 1..(i - 1)}
  BY <1>3
<1> QED  BY <1>3, <1>6, <1>10, <1>11, Zenon DEF o

-----------------------------------------------------------------------------
\* The requires of phase p before statement i that name a phase are met.
PhasesMet(p, i) ==
    \A j \in 1..(i - 1) : Statements(p)[j].kind = "phase" =>
        Statements(p)[j].name \in DOMAIN shared /\ shared[Statements(p)[j].name]

\* What every state of the executor has: a phase awaits a phrase past requires that are
\* met, and the results it depends on are there.
CompileHolds ==
    /\ compiled # "none" =>
        charter \in ExecCharters /\ errors = resolve(charter) /\ (compiled = "accepted" <=> errors = {})
    /\ compiled # "accepted" => DOMAIN at = {} /\ DOMAIN shared = {} /\ unmet = {}

PhasesHold ==
    /\ at = [p \in DOMAIN at |-> at[p]] /\ shared = [p \in DOMAIN shared |-> shared[p]]
    /\ DOMAIN at \subseteq Phases /\ DOMAIN shared \subseteq Phases /\ DOMAIN at \cap DOMAIN shared = {}
    /\ \A p \in DOMAIN at \cup DOMAIN shared : Dependencies(p) \subseteq DOMAIN shared
    /\ \A p \in DOMAIN at :
        at[p] \in 1..Len(Statements(p)) /\ Awaits(Statements(p)[at[p]]) /\ PhasesMet(p, at[p])
    /\ \A p \in DOMAIN shared : shared[p] \in BOOLEAN /\ (shared[p] => \A d \in Dependencies(p) : shared[d])

UnmetFail == \A u \in unmet : u[2] \in DictPhrases => u[1] \in DOMAIN shared /\ ~shared[u[1]]

ExecIInv == CompileHolds /\ PhasesHold /\ UnmetFail

-----------------------------------------------------------------------------
\* What the compiler reports: a cycle exactly when the sort stops early, and a require
\* that names no phase of the workflow.
LEMMA ResolveReports ==
    ASSUME NEW c, IsCharter(c)
    PROVE  /\ "cyclic" \in resolve(c) <=> Len(_topological_sort(c)) # NumPhases
           /\ resolve(c) = {} => \A p \in Phases : _phase_dependencies(c, p) \subseteq Phases
<1>1. \A f : "cyclic" \notin _resolve_feature_call(c, f)
  BY Zenon DEF _resolve_feature_call
<1>2. ASSUME NEW p \in Phases, NEW i \in 1..Len(c.requires[p])
      PROVE  /\ "cyclic" \notin _resolve_require(c, c.requires[p][i])
             /\ c.requires[p][i].kind = "phase" /\ c.requires[p][i].name \notin Phases
                  => "unknown_phase" \in _resolve_require(c, c.requires[p][i])
  <2> DEFINE r == c.requires[p][i]
  <2>1. r.kind \in {"feature", "phase", "await", "builtin"}
    BY <1>2, Zenon DEF IsCharter
  <2> HIDE DEF r
  <2>2. CASE r.kind = "feature"
    BY <1>1, <2>2, Zenon DEF _resolve_require, r
  <2>3. CASE r.kind = "phase"
    BY <2>3, Zenon DEF _resolve_require, r
  <2>4. CASE r.kind = "await"
    BY <2>4, Zenon DEF _resolve_require, r
  <2>5. CASE r.kind = "builtin"
    BY <2>5, SMTT(20) DEF _resolve_require, r
  <2> QED  BY <2>1, <2>2, <2>3, <2>4, <2>5, Zenon
<1>3. \A p \in Phases : "cyclic" \notin _resolve_phase(c, p)
  <2> TAKE p \in Phases
  <2> DEFINE R == UNION {_resolve_require(c, c.requires[p][i]) : i \in 1..Len(c.requires[p])}
             A == UNION {_resolve_feature_call(c, c.actions[p][i]) : i \in 1..Len(c.actions[p])}
  <2>1. "cyclic" \notin R
    BY <1>2, Zenon
  <2>2. "cyclic" \notin A
    BY <1>1, Zenon
  <2>3. _resolve_phase(c, p) = R \cup A \cup (IF c.outputs \subseteq KnownTypes THEN {} ELSE {"unknown_schema"})
                                 \cup (IF c.ttl = 0 \/ c.ttl \in 1..1440 THEN {} ELSE {"grant_ttl"})
    BY Zenon DEF _resolve_phase
  <2> HIDE DEF R, A
  <2> QED  BY <2>1, <2>2, <2>3
<1>4. "cyclic" \in _resolve_workflow(c) <=> Len(_topological_sort(c)) # NumPhases
  <2> DEFINE P == UNION {_resolve_phase(c, p) : p \in Phases}
  <2>1. "cyclic" \notin P
    BY <1>3, Zenon
  <2>2. _resolve_workflow(c) = P \cup (IF Len(_topological_sort(c)) = NumPhases THEN {} ELSE {"cyclic"})
    BY Zenon DEF _resolve_workflow
  <2> HIDE DEF P
  <2> QED  BY <2>1, <2>2, Zenon
<1>5. "cyclic" \in resolve(c) <=> Len(_topological_sort(c)) # NumPhases
  BY <1>4, Zenon DEF resolve
<1>6. ASSUME resolve(c) = {}, NEW p \in Phases PROVE _phase_dependencies(c, p) \subseteq Phases
  <2>1. _resolve_workflow(c) = {}
    BY <1>6, Zenon DEF resolve
  <2>2. _resolve_phase(c, p) = {}
    BY <1>6, <2>1, Zenon DEF _resolve_workflow
  <2>3. \A i \in 1..Len(c.requires[p]) : _resolve_require(c, c.requires[p][i]) = {}
    <3> DEFINE R == UNION {_resolve_require(c, c.requires[p][i]) : i \in 1..Len(c.requires[p])}
           A == UNION {_resolve_feature_call(c, c.actions[p][i]) : i \in 1..Len(c.actions[p])}
    <3>1. R = {}
      <4>1. _resolve_phase(c, p) = R \cup A \cup (IF c.outputs \subseteq KnownTypes THEN {} ELSE {"unknown_schema"})
                                     \cup (IF c.ttl = 0 \/ c.ttl \in 1..1440 THEN {} ELSE {"grant_ttl"})
        BY Zenon DEF _resolve_phase
      <4> HIDE DEF R, A
      <4> QED  BY <2>2, <4>1
    <3> QED  BY <3>1, Zenon
  <2> QED  BY <1>2, <1>6, <2>3, SMTT(30) DEF _phase_dependencies, PhaseRefs
<1> QED  BY <1>5, <1>6, Zenon

\* What the compiler says of a charter is exact.
LEMMA CompiledExact ==
    ASSUME CompileHolds PROVE CompileExact
<1>1. SUFFICES ASSUME compiled # "none" PROVE
        /\ "cyclic" \in errors <=> Cyclic(charter) \/ Repeats(charter)
        /\ compiled = "accepted" =>
            /\ Range(_topological_sort(charter)) = Phases /\ Len(_topological_sort(charter)) = NumPhases
            /\ \A i \in 1..NumPhases : Dependencies(_topological_sort(charter)[i])
                 \subseteq {_topological_sort(charter)[j] : j \in 1..(i - 1)}
  BY Zenon DEF CompileExact
<1>2. IsCharter(charter) /\ errors = resolve(charter) /\ (compiled = "accepted" <=> errors = {})
  BY <1>1, ExecAssumption, Zenon DEF CompileHolds
<1>3. "cyclic" \in errors <=> Cyclic(charter) \/ Repeats(charter)
  BY <1>2, ResolveReports, SortExact, Zenon
<1> DEFINE o == _topological_sort(charter)
<1>4. ASSUME compiled = "accepted"
      PROVE  /\ Range(o) = Phases /\ Len(o) = NumPhases
             /\ \A i \in 1..NumPhases : Dependencies(o[i]) \subseteq {o[j] : j \in 1..(i - 1)}
  <2>1. Len(o) = NumPhases /\ \A p \in Phases : _phase_dependencies(charter, p) \subseteq Phases
    BY <1>2, <1>4, ResolveReports, Zenon
  <2>2. /\ o \in Seq(Phases) /\ Range(o) = Phases
        /\ \A i \in 1..NumPhases : Needed(charter, o[i]) \subseteq {o[j] : j \in 1..(i - 1)}
    BY <1>2, <2>1, SortExact, Zenon
  <2> HIDE DEF o
  <2>3. ASSUME NEW i \in 1..NumPhases PROVE Dependencies(o[i]) = Needed(charter, o[i])
    <3>1. o[i] \in Phases
      BY <2>1, <2>2
    <3> QED  BY <2>1, <3>1, Zenon DEF Dependencies, Needed
  <2> QED  BY <2>1, <2>2, <2>3, Zenon
<1> QED  BY <1>3, <1>4, Zenon

-----------------------------------------------------------------------------
\* The statements of a phase are its requires and then its actions.
LEMMA StatementsAre ==
    ASSUME IsCharter(charter), NEW p \in Phases
    PROVE  /\ Len(charter.requires[p]) \in Nat /\ Len(Statements(p)) \in Nat
           /\ Len(charter.requires[p]) <= Len(Statements(p))
           /\ \A i \in 1..Len(charter.requires[p]) : Statements(p)[i] = charter.requires[p][i]
           /\ \A i \in 1..Len(Statements(p)) :
                i \notin 1..Len(charter.requires[p]) => Statements(p)[i].kind = "action"
<1> DEFINE r == charter.requires[p]
           a == charter.actions[p]
           b == [i \in 1..Len(a) |-> [kind |-> "action", name |-> a[i]]]
           T == {r[i] : i \in 1..Len(r)} \cup {b[i] : i \in 1..Len(a)}
<1>1. r = [i \in 1..Len(r) |-> r[i]] /\ Len(r) \in Nat /\ Len(a) \in Nat
  BY Zenon DEF IsCharter
<1> HIDE DEF r, a
<1>2. r \in Seq(T)
  BY <1>1
<1>3. b \in Seq(T) /\ Len(b) = Len(a)
  BY <1>1
<1>4. Statements(p) = r \o b
  BY Zenon DEF Statements, r, a
<1>5. \A i \in 1..Len(a) : b[i].kind = "action"
  BY Zenon
<1> HIDE DEF b, T
<1>6. /\ Len(r \o b) = Len(r) + Len(b)
      /\ \A i \in 1..Len(r) : (r \o b)[i] = r[i]
      /\ \A i \in 1..Len(r \o b) : i \notin 1..Len(r) => (r \o b)[i] = b[i - Len(r)] /\ i - Len(r) \in 1..Len(b)
  BY <1>1, <1>2, <1>3
<1> QED  BY <1>1, <1>3, <1>4, <1>5, <1>6, SMTT(30) DEF r
\* A phase that runs on from a statement fails, or awaits a later one past requires that
\* are met, or passes with all of them met.
LEMMA AdvanceExact ==
    ASSUME IsCharter(charter), NEW p \in Phases, NEW i \in Nat \ {0}, PhasesMet(p, i)
    PROVE  /\ Advance(p, i) # 0 => PhasesMet(p, Advance(p, i))
           /\ Advance(p, i) \in 1..Len(Statements(p)) => Awaits(Statements(p)[Advance(p, i)])
           /\ Advance(p, i) # 0 => Advance(p, i) \in 1..Len(Statements(p)) \/ Advance(p, i) = Len(Statements(p)) + 1
<1> DEFINE L == Len(Statements(p))
           S == Stops(p, i)
           first == CHOOSE j \in S : \A k \in S : j <= k
<1>1. L \in Nat /\ S \subseteq Nat
  BY StatementsAre DEF Stops
<1>2. \A j \in 1..L : j >= i /\ j \notin S => (Statements(p)[j].kind = "phase" =>
                        Statements(p)[j].name \in DOMAIN shared /\ shared[Statements(p)[j].name])
  <2> TAKE j \in 1..L
  <2>1. HAVE j >= i /\ j \notin S
  <2>2. Holds(Statements(p)[j])
    BY <1>1, <2>1 DEF Stops
  <2> QED  BY <2>2, Zenon DEF Holds
<1>3. Advance(p, i) = IF S = {} THEN L + 1 ELSE IF Awaits(Statements(p)[first]) THEN first ELSE 0
  BY Zenon DEF Advance
<1>4. CASE S = {}
  <2>1. PhasesMet(p, L + 1)
    <3>1. ASSUME NEW j \in 1..((L + 1) - 1), Statements(p)[j].kind = "phase"
          PROVE  Statements(p)[j].name \in DOMAIN shared /\ shared[Statements(p)[j].name]
      <4>1. j \in 1..L /\ (j >= i \/ j \in 1..(i - 1))
        BY <1>1
      <4> HIDE DEF S, L
      <4> QED  BY <1>2, <1>4, <3>1, <4>1, Zenon DEF PhasesMet
    <3> HIDE DEF L
    <3> QED  BY <3>1, Zenon DEF PhasesMet
  <2> HIDE DEF S, L
  <2> QED  BY <1>1, <1>3, <1>4, <2>1 DEF L
<1>5. CASE S # {}
  <2>1. first \in S /\ \A k \in S : first <= k
    <3>1. \E j \in S : \A k \in S : j <= k
      <4> HIDE DEF S
      <4> QED  BY <1>1, <1>5, LeastNumber, Zenon
    <3> HIDE DEF S
    <3> QED  BY <3>1, Zenon
  <2>2. first \in 1..L /\ first >= i
    <3> HIDE DEF first
    <3> QED  BY <1>1, <2>1 DEF Stops
  <2> HIDE DEF first
  <2>3. PhasesMet(p, first)
    <3>1. ASSUME NEW j \in 1..(first - 1), Statements(p)[j].kind = "phase"
          PROVE  Statements(p)[j].name \in DOMAIN shared /\ shared[Statements(p)[j].name]
      <4>1. j \in 1..L /\ (j >= i \/ j \in 1..(i - 1)) /\ ~(first <= j)
        BY <1>1, <2>2
      <4> HIDE DEF S, L
      <4> QED  BY <1>2, <2>1, <3>1, <4>1, Zenon DEF PhasesMet
    <3> QED  BY <3>1, Zenon DEF PhasesMet
  <2>4. CASE Awaits(Statements(p)[first])
    <3>1. Advance(p, i) = first
      BY <1>3, <1>5, <2>4, Zenon DEF first
    <3> QED  BY <2>2, <2>3, <2>4, <3>1, Zenon
  <2>5. CASE ~Awaits(Statements(p)[first])
    <3>1. Advance(p, i) = 0
      BY <1>3, <1>5, <2>5, Zenon DEF first
    <3> QED  BY <1>1, <3>1
  <2> QED  BY <2>4, <2>5, Zenon
<1> QED  BY <1>4, <1>5, Zenon

\* A phase past whose requires nothing is open has the phases it depends on passed.
LEMMA MetMeansPassed ==
    ASSUME IsCharter(charter), NEW p \in Phases, NEW i \in Int, PhasesMet(p, i), i > Len(charter.requires[p])
    PROVE  \A d \in Dependencies(p) : d \in DOMAIN shared /\ shared[d]
<1> TAKE d \in Dependencies(p)
<1>1. PICK j \in 1..Len(charter.requires[p]) :
        charter.requires[p][j].kind = "phase" /\ d = charter.requires[p][j].name
  BY Zenon DEF Dependencies, _phase_dependencies, PhaseRefs
<1>2. j \in 1..(i - 1) /\ Statements(p)[j] = charter.requires[p][j]
  BY StatementsAre
<1> QED  BY <1>1, <1>2, Zenon DEF PhasesMet
-----------------------------------------------------------------------------
\* The result of a phase, or the statement it awaits next, keeps the invariant of the phases.
LEMMA SettleKeeps ==
    ASSUME IsCharter(charter), PhasesHold, NEW p \in Phases, p \notin DOMAIN shared,
           Dependencies(p) \subseteq DOMAIN shared,
           NEW i, Settle(p, i), UNCHANGED charter,
           i # 0 => PhasesMet(p, i),
           i \in 1..Len(Statements(p)) => Awaits(Statements(p)[i]),
           i # 0 => i \in 1..Len(Statements(p)) \/ i = Len(Statements(p)) + 1
    PROVE  /\ PhasesHold'
           /\ \A q \in DOMAIN shared : q \in DOMAIN shared' /\ shared'[q] = shared[q]
           /\ i = 0 => p \in DOMAIN shared' /\ ~shared'[p]
<1>1. /\ \A q : Statements(q)' = Statements(q) /\ Dependencies(q)' = Dependencies(q)
      /\ \A q, s : Awaits(s) <=> Awaits(s)'
  BY Zenon DEF Statements, Dependencies, Awaits
<1>2. Len(Statements(p)) \in Nat
  BY StatementsAre, Zenon
<1>3. /\ at = [q \in DOMAIN at |-> at[q]] /\ shared = [q \in DOMAIN shared |-> shared[q]]
      /\ DOMAIN at \subseteq Phases /\ DOMAIN shared \subseteq Phases /\ DOMAIN at \cap DOMAIN shared = {}
      /\ \A q \in DOMAIN at \cup DOMAIN shared : Dependencies(q) \subseteq DOMAIN shared
      /\ \A q \in DOMAIN at :
          at[q] \in 1..Len(Statements(q)) /\ Awaits(Statements(q)[at[q]]) /\ PhasesMet(q, at[q])
      /\ \A q \in DOMAIN shared : shared[q] \in BOOLEAN /\ (shared[q] => \A d \in Dependencies(q) : shared[d])
  BY Zenon DEF PhasesHold
<1>4. CASE i \in 1..Len(Statements(p))
  <2>1. at' = [q \in DOMAIN at \cup {p} |-> IF q = p THEN i ELSE at[q]] /\ shared' = shared
    BY <1>4, Zenon DEF Settle
  <2>2. DOMAIN at' = DOMAIN at \cup {p} /\ at'[p] = i /\ \A q \in DOMAIN at : q # p => at'[q] = at[q]
    BY <2>1, Zenon
  <2>3. \A q, j : PhasesMet(q, j) => PhasesMet(q, j)'
    BY <1>1, <2>1, Zenon DEF PhasesMet
  <2>4. i # 0
    BY <1>2, <1>4
  <2>5. \A q \in DOMAIN at' :
          at'[q] \in 1..Len(Statements(q)) /\ Awaits(Statements(q)[at'[q]]) /\ PhasesMet(q, at'[q])
    BY <1>3, <1>4, <2>2, <2>4, Zenon
  <2>6. \A q \in DOMAIN at' : at'[q] \in 1..Len(Statements(q)') /\ Awaits(Statements(q)[at[q]])' /\ PhasesMet(q, at[q])'
    BY <1>1, <2>3, <2>5, Zenon DEF Awaits, PhasesMet
  <2>7. at' = [q \in DOMAIN at' |-> at'[q]] /\ shared' = [q \in DOMAIN shared' |-> shared'[q]]
    BY <1>3, <2>1
  <2>8. DOMAIN at' \subseteq Phases /\ DOMAIN shared' \subseteq Phases /\ DOMAIN at' \cap DOMAIN shared' = {}
    BY <1>3, <2>1, <2>2
  <2>9. \A q \in DOMAIN at' \cup DOMAIN shared' : Dependencies(q)' \subseteq DOMAIN shared'
    BY <1>1, <1>3, <2>1, <2>2, Zenon
  <2>10. \A q \in DOMAIN shared' : shared'[q] \in BOOLEAN /\ (shared'[q] => \A d \in Dependencies(q)' : shared'[d])
    BY <1>1, <1>3, <2>1, Zenon
  <2>11. PhasesHold'
    BY <2>6, <2>7, <2>8, <2>9, <2>10, Zenon DEF PhasesHold
  <2> QED  BY <2>1, <2>4, <2>11, Zenon
<1>5. CASE i \notin 1..Len(Statements(p))
  <2>1. /\ at' = [q \in DOMAIN at \ {p} |-> at[q]]
        /\ shared' = [q \in DOMAIN shared \cup {p} |-> IF q = p THEN i # 0 ELSE shared[q]]
    BY <1>5, Zenon DEF Settle
  <2>2. /\ DOMAIN shared' = DOMAIN shared \cup {p} /\ (shared'[p] <=> i # 0) /\ shared'[p] \in BOOLEAN
        /\ \A q \in DOMAIN shared : shared'[q] = shared[q]
    BY <2>1, Zenon
  <2>3. \A q, j : PhasesMet(q, j) => PhasesMet(q, j)'
    BY <1>1, <2>2, Zenon DEF PhasesMet
  <2>4. DOMAIN at' = DOMAIN at \ {p} /\ \A q \in DOMAIN at' : at'[q] = at[q]
    BY <2>1, Zenon
  <2>5. shared'[p] => \A d \in Dependencies(p) : shared[d]
    <3>1. i # 0 => i = Len(Statements(p)) + 1 /\ i \in Int /\ i > Len(charter.requires[p])
      BY <1>2, <1>5, StatementsAre
    <3> QED  BY <2>2, <3>1, MetMeansPassed, Zenon
  <2>6. \A q \in DOMAIN at' : at'[q] \in 1..Len(Statements(q)') /\ Awaits(Statements(q)[at[q]])' /\ PhasesMet(q, at[q])'
    BY <1>1, <1>3, <2>3, <2>4, Zenon DEF Awaits, PhasesMet
  <2>7. \A q \in DOMAIN shared' : shared'[q] \in BOOLEAN /\ (shared'[q] => \A d \in Dependencies(q)' : shared'[d])
    BY <1>1, <1>3, <2>2, <2>5, Zenon
  <2>8. \A q \in DOMAIN at' \cup DOMAIN shared' : Dependencies(q)' \subseteq DOMAIN shared'
    BY <1>1, <1>3, <2>2, <2>4, Zenon
  <2>9. at' = [q \in DOMAIN at' |-> at'[q]] /\ shared' = [q \in DOMAIN shared' |-> shared'[q]]
    BY <2>1, Zenon
  <2>10. DOMAIN at' \subseteq Phases /\ DOMAIN shared' \subseteq Phases /\ DOMAIN at' \cap DOMAIN shared' = {}
    BY <1>3, <2>2, <2>4, Zenon
  <2>11. PhasesHold'
    BY <2>6, <2>7, <2>8, <2>9, <2>10, Zenon DEF PhasesHold
  <2> QED  BY <2>2, <2>11, Zenon
<1> QED  BY <1>4, <1>5, Zenon

\* Nothing is compiled or executed at first.
LEMMA ExecInitHolds == ExecInit => ExecIInv
BY DEF ExecInit, ExecIInv, CompileHolds, PhasesHold, UnmetFail

\* Compiling a charter starts a workflow with no phase begun.
LEMMA CompileKeeps ==
    ASSUME ExecIInv, compiled = "none", NEW c \in ExecCharters, compile_charter(c)
    PROVE  ExecIInv'
<1>1. DOMAIN at = {} /\ DOMAIN shared = {} /\ unmet = {} /\ at' = at /\ shared' = shared /\ unmet' = unmet
  BY Zenon DEF compile_charter, ExecIInv, CompileHolds
<1>2. CompileHolds'
  BY <1>1, Zenon DEF compile_charter, CompileHolds
<1>3. PhasesHold'
  BY <1>1, Zenon DEF PhasesHold, ExecIInv
<1> QED  BY <1>1, <1>2, <1>3, Zenon DEF ExecIInv, UnmetFail

\* A phase begins when the results of all phases it depends on are there.
LEMMA BeginKeeps ==
    ASSUME ExecIInv, NEW p \in Phases, BeginPhase(p)
    PROVE  ExecIInv'
<1>1. /\ compiled = "accepted" /\ p \notin DOMAIN at \cup DOMAIN shared /\ Dependencies(p) \subseteq DOMAIN shared
      /\ Settle(p, Advance(p, 1)) /\ UNCHANGED <<charter, compiled, errors, unmet>>
  BY Zenon DEF BeginPhase
<1>2. CompileHolds /\ PhasesHold /\ UnmetFail /\ IsCharter(charter)
  BY <1>1, ExecAssumption, Zenon DEF ExecIInv, CompileHolds
<1>3. PhasesMet(p, 1)
  BY DEF PhasesMet
<1> DEFINE i == Advance(p, 1)
<1>4. /\ i # 0 => PhasesMet(p, i)
      /\ i \in 1..Len(Statements(p)) => Awaits(Statements(p)[i])
      /\ i # 0 => i \in 1..Len(Statements(p)) \/ i = Len(Statements(p)) + 1
  BY <1>2, <1>3, AdvanceExact
<1> HIDE DEF i
<1>5. PhasesHold' /\ \A q \in DOMAIN shared : q \in DOMAIN shared' /\ shared'[q] = shared[q]
  BY <1>1, <1>2, <1>4, SettleKeeps, Zenon DEF i
<1>6. CompileHolds'
  BY <1>1, <1>2, Zenon DEF CompileHolds
<1>7. UnmetFail'
  BY <1>1, <1>2, <1>5, Zenon DEF UnmetFail
<1> QED  BY <1>5, <1>6, <1>7, Zenon DEF ExecIInv

\* A statement that returns fails its phase, or takes it past a require that is met.
LEMMA ReturnKeeps ==
    ASSUME ExecIInv, NEW p \in Phases, NEW answer, PhraseReturns(p, answer)
    PROVE  ExecIInv'
<1> DEFINE s == Statements(p)[at[p]]
           gate == s.kind = "feature" /\ answer = "unsatisfied"
           i == IF answer = "raises" \/ (gate /\ s.name \in DictPhrases) THEN 0 ELSE Advance(p, at[p] + 1)
<1>1. /\ p \in DOMAIN at /\ Settle(p, i) /\ unmet' = (IF gate THEN unmet \cup {<<p, s.name>>} ELSE unmet)
      /\ UNCHANGED <<charter, compiled, errors>>
  BY Zenon DEF PhraseReturns
<1>2. CompileHolds /\ PhasesHold /\ UnmetFail
  BY Zenon DEF ExecIInv
<1>3. compiled = "accepted" /\ IsCharter(charter)
  BY <1>1, <1>2, ExecAssumption, Zenon DEF CompileHolds
<1>4. /\ p \notin DOMAIN shared /\ Dependencies(p) \subseteq DOMAIN shared
      /\ at[p] \in 1..Len(Statements(p)) /\ Awaits(s) /\ PhasesMet(p, at[p])
  BY <1>1, <1>2, Zenon DEF PhasesHold
<1>5. Len(Statements(p)) \in Nat /\ at[p] \in Nat /\ at[p] + 1 \in Nat \ {0}
  BY <1>3, <1>4, StatementsAre
<1>6. PhasesMet(p, at[p] + 1)
  <2>1. s.kind # "phase"
    BY <1>4, Zenon DEF Awaits
  <2>2. \A j \in 1..((at[p] + 1) - 1) : j \in 1..(at[p] - 1) \/ j = at[p]
    BY <1>5
  <2> QED  BY <1>4, <2>1, <2>2, Zenon DEF PhasesMet
<1>7. /\ i # 0 => PhasesMet(p, i)
      /\ i \in 1..Len(Statements(p)) => Awaits(Statements(p)[i])
      /\ i # 0 => i \in 1..Len(Statements(p)) \/ i = Len(Statements(p)) + 1
  <2>1. CASE i = 0
    <3> HIDE DEF i
    <3> QED  BY <1>5, <2>1
  <2>2. CASE i # 0
    <3>1. i = Advance(p, at[p] + 1)
      BY <2>2, Zenon
    <3> HIDE DEF i
    <3> QED  BY <1>3, <1>5, <1>6, <3>1, AdvanceExact, Zenon
  <2> QED  BY <2>1, <2>2, Zenon
<1>8. gate /\ s.name \in DictPhrases => i = 0
  BY Zenon
<1> HIDE DEF i
<1>9. /\ PhasesHold' /\ \A q \in DOMAIN shared : q \in DOMAIN shared' /\ shared'[q] = shared[q]
      /\ i = 0 => p \in DOMAIN shared' /\ ~shared'[p]
  BY <1>1, <1>2, <1>3, <1>4, <1>7, SettleKeeps, Zenon
<1>10. CompileHolds'
  BY <1>1, <1>2, <1>3, Zenon DEF CompileHolds
<1>11. UnmetFail'
  <2> HIDE DEF s
  <2>1. \A u \in unmet' : u \in unmet \/ (gate /\ u = <<p, s.name>>)
    BY <1>1, Zenon
  <2> QED  BY <1>2, <1>8, <1>9, <2>1 DEF UnmetFail
<1> QED  BY <1>9, <1>10, <1>11, Zenon DEF ExecIInv

\* The inductive invariant gives the property.
LEMMA ExecImplies ==
    ASSUME ExecIInv PROVE ExecutionFollowsCharter
<1>1. CompileExact
  BY CompiledExact, Zenon DEF ExecIInv
<1>2. RequiredPhasesPassed
  <2>1. ASSUME NEW p \in DOMAIN at, Statements(p)[at[p]].kind = "action"
        PROVE  \A d \in Dependencies(p) : shared[d]
    <3>1. IsCharter(charter) /\ p \in Phases /\ at[p] \in 1..Len(Statements(p)) /\ PhasesMet(p, at[p])
      BY <2>1, ExecAssumption, Zenon DEF ExecIInv, CompileHolds, PhasesHold
    <3>2. at[p] \notin 1..Len(charter.requires[p])
      <4>1. ASSUME at[p] \in 1..Len(charter.requires[p]) PROVE FALSE
        <5>1. Statements(p)[at[p]] = charter.requires[p][at[p]]
          BY <3>1, <4>1, StatementsAre, Zenon
        <5> QED  BY <2>1, <3>1, <4>1, <5>1, Zenon DEF IsCharter
      <4> QED  BY <4>1, Zenon
    <3>3. at[p] \in Int /\ at[p] > Len(charter.requires[p])
      BY <3>1, <3>2, StatementsAre
    <3> QED  BY <3>1, <3>3, MetMeansPassed, Zenon
  <2> QED  BY <2>1, Zenon DEF ExecIInv, PhasesHold, UnmetFail, RequiredPhasesPassed
<1> QED  BY <1>1, <1>2, Zenon DEF ExecutionFollowsCharter

\* For any charters of any number of phases and statements: resolve reports a charter exactly when it
\* is malformed or its phases depend on each other in a cycle (Kahn's sort lists every phase otherwise,
\* after those it depends on), and executing one that compiled starts a phase after the phases it
\* requires have a result and lets it pass, or act, only if they passed (CharterResolver,
\* CharterWorkflowExecutor).
THEOREM ExecutionFollows == ExecSpec => []ExecutionFollowsCharter
<1>1. ASSUME ExecIInv, [ExecNext]_execVars PROVE ExecIInv'
  <2>1. CASE UNCHANGED execVars
    <3>1. UNCHANGED <<charter, compiled, errors, shared, at, unmet>>
      BY <2>1, Zenon DEF execVars
    <3>2. CompileHolds'
      BY <1>1, <3>1, Zenon DEF ExecIInv, CompileHolds
    <3>3. PhasesHold'
      <4>1. \A q : Statements(q)' = Statements(q) /\ Dependencies(q)' = Dependencies(q)
        BY <3>1, Zenon DEF Statements, Dependencies
      <4>2. /\ \A q : Awaits(Statements(q)[at[q]])' <=> Awaits(Statements(q)[at[q]])
            /\ \A q : PhasesMet(q, at[q])' <=> PhasesMet(q, at[q])
        BY <3>1, <4>1, Zenon DEF Awaits, PhasesMet
      <4>3. PhasesHold
        BY <1>1, Zenon DEF ExecIInv
      <4> QED  BY <3>1, <4>1, <4>2, <4>3 DEF PhasesHold
    <3>4. UnmetFail'
      BY <1>1, <3>1, Zenon DEF ExecIInv, UnmetFail
    <3> QED  BY <3>2, <3>3, <3>4, Zenon DEF ExecIInv
  <2>2. CASE compiled = "none" /\ \E c \in ExecCharters : compile_charter(c)
    BY <1>1, <2>2, CompileKeeps, Zenon
  <2>3. CASE \E p \in Phases : BeginPhase(p)
    BY <1>1, <2>3, BeginKeeps, Zenon
  <2>4. CASE \E p \in Phases, answer \in {"satisfied", "unsatisfied", "raises"} : PhraseReturns(p, answer)
    BY <1>1, <2>4, ReturnKeeps, Zenon
  <2> QED  BY <1>1, <2>1, <2>2, <2>3, <2>4, Zenon DEF ExecNext
<1> QED  BY <1>1, ExecInitHolds, ExecImplies, PTL DEF ExecSpec
=============================================================================
