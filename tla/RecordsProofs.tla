--------------------------- MODULE RecordsProofs ----------------------------
(* Policy releases: what they pin and what a query resolves, for any number of rows
   and of overlapping requests.
   Delegated authority: a delegation reported valid is one, for any graph of
   delegations.  And the documents opened to the phases of a charter run, for every
   set of users, documents, phases and declared grants.                         *)
EXTENDS PolicyReleases, AuthorizationChecks, DocumentGrants, WellFoundedInduction, TLAPS

-----------------------------------------------------------------------------
(* Induction over numbers and over the steps of a loop.                      *)

\* A set of numbers that is not empty has a least one.
LEMMA LeastNumber ==
    ASSUME NEW S \in SUBSET Nat, S # {}
    PROVE  \E m \in S : \A k \in S : m <= k
<1> DEFINE R == {pair \in Nat \X Nat : pair[1] < pair[2]}
<1>1. IsWellFoundedOn(R, Nat)
  BY NatLessThanWellFounded, Zenon DEF OpToRel
<1>2. \A k, m \in Nat : <<k, m>> \in R <=> k < m
  BY Zenon
<1> HIDE DEF R
<1>3. PICK m \in S : \A k \in S : <<k, m>> \notin R
  BY <1>1, WFMin, Zenon
<1>4. m \in Nat /\ \A k \in S : k \in Nat /\ ~(k < m)
  BY <1>2, <1>3, Zenon
<1>5. \A k \in S : m <= k
  BY <1>4
<1> QED  BY <1>5, Zenon

\* What holds of 0 and is passed on from each number to the next holds up to N.
LEMMA UpTo ==
    ASSUME NEW N \in Nat, NEW I, 0 \in I, \A n \in 1..N : n - 1 \in I => n \in I
    PROVE  \A n \in 0..N : n \in I
<1> DEFINE Bad == {n \in 0..N : n \notin I}
<1>1. SUFFICES ASSUME Bad # {} PROVE FALSE
  BY Zenon
<1>2. PICK m \in Bad : \A k \in Bad : m <= k
  BY <1>1, LeastNumber, Bad \subseteq Nat, Zenon
<1>3. m # 0 /\ m - 1 \in 0..N /\ m \in 1..N
  BY <1>2
<1>4. m - 1 \notin Bad
  BY <1>2, <1>3
<1> QED  BY <1>2, <1>3, <1>4, Zenon

\* What holds at first and is kept by each turn of a loop holds after every turn.
LEMMA LoopInvariant ==
    ASSUME NEW N \in Nat, NEW f, NEW I, f[0] \in I,
           \A n \in 1..N : f[n - 1] \in I => f[n] \in I
    PROVE  \A n \in 0..N : f[n] \in I
<1> DEFINE J == {n \in 0..N : f[n] \in I}
<1>1. 0 \in J /\ \A n \in 1..N : n - 1 \in J => n \in J
  OBVIOUS
<1>2. \A n \in 0..N : n \in J
  <2> HIDE DEF J
  <2> QED  BY <1>1, UpTo, Zenon
<1> QED  BY <1>2, Zenon

\* N turns, given by a function F on the states K, lead on from k0.
LoopFrom(N, K, F, k0) == {g \in [0..N -> K] : g[0] = k0 /\ \A n \in 1..N : g[n] = F[g[n - 1]]}

\* A loop whose turns are given by a function can be run N times.
LEMMA LoopRuns ==
    ASSUME NEW N \in Nat, NEW K, NEW F \in [K -> K], NEW k0 \in K
    PROVE  LoopFrom(N, K, F, k0) # {}
<1> DEFINE Runs(n) == \E g \in [0..n -> K] : g[0] = k0 /\ \A i \in 1..n : g[i] = F[g[i - 1]]
           Bad == {n \in Nat : ~Runs(n)}
<1>1. SUFFICES ASSUME Bad # {} PROVE FALSE
  <2>1. Runs(N)
    BY Bad = {}, Zenon
  <2> QED  BY <2>1, Zenon DEF LoopFrom
<1>2. PICK m \in Bad : \A k \in Bad : m <= k
  <2> HIDE DEF Bad
  <2> QED  BY <1>1, LeastNumber, Bad \subseteq Nat, Zenon DEF Bad
<1>3. m \in Nat /\ ~Runs(m)
  BY <1>2, Zenon
<1>4. m # 0
  <2>1. Runs(0)
    <3> DEFINE g == [n \in 0..0 |-> k0]
    <3>1. g \in [0..0 -> K] /\ g[0] = k0 /\ \A i \in 1..0 : g[i] = F[g[i - 1]]
      OBVIOUS
    <3> HIDE DEF g
    <3> QED  BY <3>1, Zenon
  <2> HIDE DEF Runs
  <2> QED  BY <1>3, <2>1, Zenon
<1>5. m - 1 \in Nat /\ Runs(m - 1)
  <2>1. m \in Nat /\ m - 1 \in Nat /\ ~(m <= m - 1)
    BY <1>3, <1>4
  <2>2. m - 1 \notin Bad
    <3> HIDE DEF Bad
    <3> QED  BY <1>2, <2>1, Zenon
  <2> QED  BY <2>1, <2>2, Zenon
<1>6. PICK g \in [0..(m - 1) -> K] : g[0] = k0 /\ \A i \in 1..(m - 1) : g[i] = F[g[i - 1]]
  BY <1>5, Zenon
<1> DEFINE h == [i \in 0..m |-> IF i = m THEN F[g[m - 1]] ELSE g[i]]
<1>7. h \in [0..m -> K] /\ h[0] = k0 /\ \A i \in 1..m : h[i] = F[h[i - 1]]
  <2>1. m \in Nat /\ m - 1 \in 0..(m - 1) /\ g[m - 1] \in K
    BY <1>3, <1>4, <1>6
  <2>2. \A i \in 0..m : i # m => i \in 0..(m - 1)
    BY <2>1
  <2>3. h \in [0..m -> K]
    BY <1>6, <2>1, <2>2, Zenon
  <2>4. ASSUME NEW i \in 1..m PROVE h[i] = F[h[i - 1]]
    <3>1. i - 1 \in 0..m /\ i - 1 # m /\ i \in 0..m
      BY <2>1
    <3>2. CASE i = m
      BY <3>1, <3>2, Zenon
    <3>3. CASE i # m
      BY <1>6, <2>1, <3>1, <3>3
    <3> QED  BY <3>2, <3>3, Zenon
  <2>5. h[0] = k0
    BY <1>4, <1>6, <2>1
  <2> QED  BY <2>3, <2>4, <2>5, Zenon
<1>8. Runs(m)
  <2> HIDE DEF h
  <2> QED  BY <1>7, Zenon
<1> HIDE DEF Runs
<1> QED  BY <1>3, <1>8, Zenon

\* The rows of a table are numbered in turn.
LEMMA NextIdIs ==
    ASSUME NEW T, NEW n \in Nat, DOMAIN T = 1..n
    PROVE  NextId(T) = n + 1
<1>1. n + 1 \in {1} \cup {i + 1 : i \in 1..n}
  <2>1. CASE n = 0  BY <2>1, SMTT(20)
  <2>2. CASE n # 0
    <3>1. n \in 1..n  BY <2>2, SMTT(20)
    <3> QED  BY <3>1, Zenon
  <2> QED  BY <2>1, <2>2, Zenon
<1>2. ASSUME NEW i \in {1} \cup {i + 1 : i \in 1..n}, i \notin 1..n PROVE i = n + 1
  BY <1>2, SMTT(20)
<1>3. n + 1 \notin 1..n
  BY SMTT(20)
<1> QED  BY <1>1, <1>2, <1>3, Zenon DEF NextId

-----------------------------------------------------------------------------
(* Policy releases.                                                          *)

\* A part of a finite set is finite, and so is an interval.
LEMMA FiniteSubset ==
    ASSUME NEW S, IsFiniteSet(S), NEW U \in SUBSET S
    PROVE  IsFiniteSet(U)
<1>1. CASE U = {}
  <2>1. <<>> \in Seq(U) /\ \A s \in U : \E n \in 1..Len(<<>>) : <<>>[n] = s
    BY <1>1
  <2> QED  BY <2>1, Zenon DEF IsFiniteSet
<1>2. CASE U # {}
  <2>1. PICK q \in Seq(S) : \A s \in S : \E n \in 1..Len(q) : q[n] = s
    BY Zenon DEF IsFiniteSet
  <2>2. PICK u \in U : TRUE
    BY <1>2, Zenon
  <2> DEFINE r == [n \in 1..Len(q) |-> IF q[n] \in U THEN q[n] ELSE u]
  <2>3. r \in Seq(U) /\ Len(r) = Len(q)
    BY <2>1, <2>2
  <2>4. \A s \in U : \E n \in 1..Len(r) : r[n] = s
    BY <2>1, <2>3, Zenon
  <2> HIDE DEF r
  <2> QED  BY <2>3, <2>4, Zenon DEF IsFiniteSet
<1> QED  BY <1>1, <1>2, Zenon

LEMMA FiniteInterval ==
    ASSUME NEW n \in Nat
    PROVE  IsFiniteSet(1..n)
<1> DEFINE q == [i \in 1..n |-> i]
<1>1. q \in Seq(1..n) /\ Len(q) = n /\ \A i \in 1..n : q[i] = i
  OBVIOUS
<1> HIDE DEF q
<1> QED  BY <1>1, Zenon DEF IsFiniteSet

\* An element of S at which f is at least as large as anywhere in S.
Topmost(f, S, m) == m \in S /\ \A x \in S : f[x] <= f[m]

\* A finite set has one: going through a list of its elements, the largest so far.
LEMMA TopmostExists ==
    ASSUME NEW S, IsFiniteSet(S), S # {}, NEW f \in [S -> Int]
    PROVE  \E m \in S : Topmost(f, S, m)
<1>1. PICK q \in Seq(S) : \A s \in S : \E n \in 1..Len(q) : q[n] = s
  BY Zenon DEF IsFiniteSet
<1>2. Len(q) \in Nat /\ \A i \in 1..Len(q) : q[i] \in S /\ f[q[i]] \in Int
  <2>1. Len(q) \in Nat /\ \A i \in 1..Len(q) : q[i] \in S
    OBVIOUS
  <2>2. \A s \in S : f[s] \in Int
    BY Zenon
  <2> QED  BY <2>1, <2>2, Zenon
<1> DEFINE Best(k, m) == m \in 1..k /\ \A j \in 1..k : f[q[j]] <= f[q[m]]
           I == {k \in 0..Len(q) : k = 0 \/ \E m \in 1..k : Best(k, m)}
<1>3. ASSUME NEW k \in 1..Len(q), k - 1 \in I PROVE k \in I
  <2>1. CASE k = 1
    <3>1. Best(k, 1)
      BY <1>2, <2>1
    <3> QED  BY <2>1, <3>1
  <2>2. CASE k # 1
    <3>1. PICK m \in 1..(k - 1) : Best(k - 1, m)
      BY <1>3, <2>2
    <3>2. f[q[m]] \in Int /\ f[q[k]] \in Int /\ \A j \in 1..k : f[q[j]] \in Int
      BY <1>2
    <3>3. CASE f[q[k]] <= f[q[m]]
      <4>1. Best(k, m)
        BY <3>1, <3>3
      <4> QED  BY <4>1
    <3>4. CASE ~(f[q[k]] <= f[q[m]])
      <4>1. Best(k, k)
        BY <3>1, <3>2, <3>4
      <4> QED  BY <4>1
    <3> QED  BY <3>3, <3>4, Zenon
  <2> QED  BY <2>1, <2>2, Zenon
<1>4. 0 \in I
  BY <1>2
<1>5. \A k \in 0..Len(q) : k \in I
  <2> HIDE DEF I
  <2> QED  BY <1>2, <1>3, <1>4, UpTo, Zenon
<1>6. Len(q) # 0 /\ Len(q) \in 0..Len(q)
  BY <1>1, <1>2
<1>7. PICK m \in 1..Len(q) : Best(Len(q), m)
  BY <1>5, <1>6, Zenon
<1> QED  BY <1>1, <1>2, <1>7, Zenon DEF Topmost

ReleaseColumns == {"entry", "bundle_hash", "explicit", "status", "signature", "published_at"}

\* What a release row pins is in the tables D of definitions and A of adapters.
Pins(row, D, A) ==
    /\ DOMAIN row = ReleaseColumns
    /\ \E d \in DOMAIN D : D[d].hash = row.entry.definition_hash
    /\ row.entry.adapter \in DOMAIN A
    /\ AdapterHash(A[row.entry.adapter]) = row.entry.adapter_hash
    /\ ~row.explicit => A[row.entry.adapter].definition_version = row.entry.definition_version
    /\ row.bundle_hash = <<"bundle", row.entry>>
    /\ row.status \in {"draft", "published", "active"}
    /\ row.published_at \in Nat
    /\ row.signature # Null => row.status # "draft" /\ row.signature[2] = row.bundle_hash

PolicyTable(T) == \E n \in Nat : DOMAIN T = 1..n

Grown(T, U) == DOMAIN T \subseteq DOMAIN U /\ \A i \in DOMAIN T : U[i] = T[i]

\* A request's release can be pinned, and its signature covers the release it publishes.
PolicyKnows(r, D, A, R) ==
    \/ r = PolicyIdle
    \/ r.at \in {"definition", "adapter"}
    \/ r.at = "release" /\ Pins(r.row, D, A)
    \/ /\ r.at = "publish" /\ r.id \in DOMAIN R /\ r.published_at \in Nat
       /\ r.signature # Null => r.signature[2] = R[r.id].bundle_hash

PolicyIInv ==
    /\ PolicyTable(policy_definitions) /\ PolicyTable(policy_adapters) /\ PolicyTable(policy_releases)
    /\ DOMAIN policyReq = PolicyClients
    /\ \A r \in DOMAIN policy_releases : Pins(policy_releases[r], policy_definitions, policy_adapters)
    /\ \A c \in PolicyClients : PolicyKnows(policyReq[c], policy_definitions, policy_adapters, policy_releases)

LEMMA PolicyRowAdded ==
    ASSUME NEW T, PolicyTable(T), NEW row
    PROVE  LET U == insert(T, NextId(T), row)
           IN  /\ PolicyTable(U) /\ Grown(T, U)
               /\ DOMAIN U = DOMAIN T \cup {NextId(T)} /\ U[NextId(T)] = row
<1>1. PICK n \in Nat : DOMAIN T = 1..n
  BY Zenon DEF PolicyTable
<1>2. NextId(T) = n + 1
  BY <1>1, NextIdIs, Zenon
<1>3. NextId(T) \notin DOMAIN T
  BY <1>1, <1>2
<1>4. DOMAIN insert(T, NextId(T), row) = 1..(n + 1)
  BY <1>1, <1>2 DEF insert
<1> QED  BY <1>1, <1>2, <1>3, <1>4 DEF PolicyTable, Grown, insert

LEMMA PolicyTableFinite ==
    ASSUME NEW T, PolicyTable(T), NEW S \in SUBSET DOMAIN T
    PROVE  IsFiniteSet(S) /\ S \subseteq Nat
<1>1. PICK n \in Nat : DOMAIN T = 1..n
  BY Zenon DEF PolicyTable
<1> QED  BY <1>1, FiniteInterval, FiniteSubset

LEMMA PinsKept ==
    ASSUME NEW D, NEW D2, NEW A, NEW A2, Grown(D, D2), Grown(A, A2), NEW row, Pins(row, D, A)
    PROVE  Pins(row, D2, A2)
BY Zenon DEF Grown, Pins

\* ORDER BY created_at DESC LIMIT 1 answers with a row that matches.
LEMMA NewestMatches ==
    ASSUME NEW T, PolicyTable(T), NEW where, NewestOf(T, where) # Null
    PROVE  NewestOf(T, where) \in select(T, where)
<1> DEFINE ids == select(T, where)
           f == [i \in ids |-> i]
<1>1. ids \in SUBSET DOMAIN T
  BY Zenon DEF select
<1>2. IsFiniteSet(ids) /\ ids \subseteq Nat
  BY <1>1, PolicyTableFinite, Zenon
<1>3. ids # {}
  BY Zenon DEF NewestOf
<1>4. \E m \in ids : \A j \in ids : j <= m
  <2> HIDE DEF ids
  <2>1. f \in [ids -> Int]
    BY <1>2
  <2>2. PICK m \in ids : Topmost(f, ids, m)
    <3> HIDE DEF f
    <3> QED  BY <1>2, <1>3, <2>1, TopmostExists, Zenon
  <2> QED  BY <2>2, Zenon DEF Topmost
<1> QED  BY <1>3, <1>4, Zenon DEF NewestOf

\* What the requests know survives a step that only adds rows and changes no bundle.
LEMMA PolicyKnowsKept ==
    ASSUME NEW D, NEW D2, NEW A, NEW A2, NEW R, NEW R2, Grown(D, D2), Grown(A, A2),
           DOMAIN R \subseteq DOMAIN R2, \A i \in DOMAIN R : R2[i].bundle_hash = R[i].bundle_hash,
           NEW r, PolicyKnows(r, D, A, R)
    PROVE  PolicyKnows(r, D2, A2, R2)
BY PinsKept, Zenon DEF PolicyKnows

LEMMA WrittenTable ==
    ASSUME NEW T, PolicyTable(T), NEW c \in PolicyClients, NEW name
    PROVE  LET U == Written(c, name, T)
           IN  /\ PolicyTable(U) /\ Grown(T, U)
               /\ \A i \in DOMAIN U \ DOMAIN T : policyReq[c].at = name /\ U[i] = policyReq[c].row
<1>1. CASE policyReq[c].at = name
  <2>1. Written(c, name, T) = insert(T, NextId(T), policyReq[c].row)
    BY <1>1, Zenon DEF Written
  <2> DEFINE U == insert(T, NextId(T), policyReq[c].row)
  <2>2. /\ PolicyTable(U) /\ Grown(T, U)
        /\ DOMAIN U = DOMAIN T \cup {NextId(T)} /\ U[NextId(T)] = policyReq[c].row
    BY PolicyRowAdded, Zenon
  <2> HIDE DEF U
  <2> QED  BY <1>1, <2>1, <2>2, Zenon DEF U
<1>2. CASE policyReq[c].at # name
  BY <1>2, Zenon DEF Written, Grown
<1> QED  BY <1>1, <1>2, Zenon

LEMMA PolicyInsertStep ==
    ASSUME PolicyIInv, NEW c \in PolicyClients, PolicyInsert(c)
    PROVE  PolicyIInv'
<1> DEFINE D == policy_definitions  A == policy_adapters  R == policy_releases
<1>1. /\ PolicyTable(D') /\ Grown(D, D') /\ PolicyTable(A') /\ Grown(A, A')
      /\ PolicyTable(R') /\ Grown(R, R')
  BY WrittenTable, Zenon DEF PolicyInsert, PolicyIInv
<1>2. ASSUME NEW r \in DOMAIN R' PROVE Pins(R'[r], D', A')
  <2>1. CASE r \in DOMAIN R
    BY <1>1, <2>1, PinsKept, Zenon DEF PolicyIInv, Grown
  <2>2. CASE r \notin DOMAIN R
    <3>1. policyReq[c].at = "release" /\ R'[r] = policyReq[c].row
      BY <1>2, <2>2, WrittenTable DEF PolicyInsert, PolicyIInv
    <3>2. Pins(policyReq[c].row, D, A)
      BY <3>1 DEF PolicyIInv, PolicyKnows, PolicyIdle
    <3> QED  BY <1>1, <3>1, <3>2, PinsKept, Zenon
  <2> QED  BY <2>1, <2>2, Zenon
<1>3. ASSUME NEW k \in PolicyClients PROVE PolicyKnows(policyReq'[k], D', A', R')
  <2>1. CASE k = c
    BY <2>1, Zenon DEF PolicyInsert, PolicyIInv, PolicyKnows
  <2>2. CASE k # c
    <3>1. policyReq'[k] = policyReq[k] /\ PolicyKnows(policyReq[k], D, A, R)
      BY <2>2, Zenon DEF PolicyInsert, PolicyIInv
    <3> HIDE DEF D, A, R
    <3> QED  BY <1>1, <3>1, PolicyKnowsKept, Zenon DEF Grown
  <2> QED  BY <2>1, <2>2, Zenon
<1>4. DOMAIN policyReq' = PolicyClients
  BY Zenon DEF PolicyInsert, PolicyIInv
<1> QED  BY <1>1, <1>2, <1>3, <1>4, Zenon DEF PolicyIInv

\* A request that has read and has still to write: the tables are as they were.
LEMMA PolicyRequestStep ==
    ASSUME PolicyIInv, NEW c \in PolicyClients, NEW req,
           PolicyKnows(req, policy_definitions, policy_adapters, policy_releases),
           policyReq' = [policyReq EXCEPT ![c] = req],
           UNCHANGED <<policy_definitions, policy_adapters, policy_releases>>
    PROVE  PolicyIInv'
<1>1. DOMAIN policyReq' = PolicyClients
  BY Zenon DEF PolicyIInv
<1>2. \A k \in PolicyClients : PolicyKnows(policyReq[k], policy_definitions, policy_adapters, policy_releases)'
  BY Zenon DEF PolicyIInv
<1> QED  BY <1>1, <1>2, Zenon DEF PolicyIInv

LEMMA DefineStep ==
    ASSUME PolicyIInv, NEW c \in PolicyClients, NEW name \in {"definition", "adapter"}, NEW row,
           Inserts(c, name, row)
    PROVE  PolicyIInv'
<1> DEFINE req == [at |-> name, row |-> row]
<1>1. /\ policyReq' = [policyReq EXCEPT ![c] = req]
      /\ UNCHANGED <<policy_definitions, policy_adapters, policy_releases>>
  BY Zenon DEF Inserts
<1>2. PolicyKnows(req, policy_definitions, policy_adapters, policy_releases)
  BY Zenon DEF PolicyKnows
<1> HIDE DEF req
<1> QED  BY <1>1, <1>2, PolicyRequestStep, Zenon

LEMMA NewReleaseStep ==
    ASSUME PolicyIInv, NEW c \in PolicyClients,
           NEW d \in DOMAIN policy_definitions, NEW a \in DOMAIN policy_adapters, NEW explicit \in BOOLEAN,
           ~explicit => policy_adapters[a].definition_version = policy_definitions[d].version,
           NewRelease(c, Pinned(d, a), explicit)
    PROVE  PolicyIInv'
<1> DEFINE e == Pinned(d, a)
           row == [entry |-> e, bundle_hash |-> <<"bundle", e>>, explicit |-> explicit,
                   status |-> "draft", signature |-> Null, published_at |-> 0]
           req == [at |-> "release", row |-> row]
<1>1. /\ e.definition_version = policy_definitions[d].version
      /\ e.definition_hash = policy_definitions[d].hash
      /\ e.adapter = a /\ e.adapter_hash = AdapterHash(policy_adapters[a])
  BY Zenon DEF Pinned
<1>2. /\ policyReq' = [policyReq EXCEPT ![c] = req]
      /\ UNCHANGED <<policy_definitions, policy_adapters, policy_releases>>
  BY Zenon DEF NewRelease, Inserts
<1> HIDE DEF e
<1>3. Pins(row, policy_definitions, policy_adapters)
  BY <1>1, Zenon DEF Pins, ReleaseColumns
<1> HIDE DEF row
<1>4. PolicyKnows(req, policy_definitions, policy_adapters, policy_releases)
  BY <1>3, Zenon DEF PolicyKnows
<1> QED  BY <1>2, <1>4, PolicyRequestStep, Zenon

LEMMA ReleaseStep ==
    ASSUME PolicyIInv, NEW c \in PolicyClients,
           \/ create_policy_release(c)
           \/ \E d \in DOMAIN policy_definitions, a \in DOMAIN policy_adapters : create_release_explicit(c, d, a)
    PROVE  PolicyIInv'
<1>1. CASE create_policy_release(c)
  <2> DEFINE d == NewestOf(policy_definitions, <<>>)
             where == [definition_version |-> policy_definitions[d].version]
             a == NewestOf(policy_adapters, where)
  <2>1. d # Null /\ a # Null /\ NewRelease(c, Pinned(d, a), FALSE)
    BY <1>1, Zenon DEF create_policy_release
  <2>2. d \in DOMAIN policy_definitions
    BY <2>1, NewestMatches, Zenon DEF PolicyIInv, select
  <2>3. a \in select(policy_adapters, where)
    BY <2>1, NewestMatches, Zenon DEF PolicyIInv
  <2>4. a \in DOMAIN policy_adapters /\ policy_adapters[a].definition_version = policy_definitions[d].version
    <3> HIDE DEF a, d
    <3> QED  BY <2>3, Zenon DEF select, Matches
  <2> HIDE DEF a, d
  <2> QED  BY <2>1, <2>2, <2>4, NewReleaseStep, Zenon
<1>2. CASE \E d \in DOMAIN policy_definitions, a \in DOMAIN policy_adapters : create_release_explicit(c, d, a)
  BY <1>2, NewReleaseStep, Zenon DEF create_release_explicit
<1> QED  BY <1>1, <1>2, Zenon

-----------------------------------------------------------------------------
\* now_utc() after what is stored and pending: such a time exists.
LEMMA LaterIsTime ==
    ASSUME PolicyIInv
    PROVE  Later \in Nat
<1> DEFINE C == {k \in PolicyClients : policyReq[k].at = "publish"}
           P == {policy_releases[r].published_at : r \in DOMAIN policy_releases}
           Q == {policyReq[c].published_at : c \in C}
           T == {0} \cup P \cup Q
           f == [r \in DOMAIN policy_releases |-> policy_releases[r].published_at]
           g == [c \in C |-> policyReq[c].published_at]
<1>1. T \subseteq Nat
  <2>1. P \subseteq Nat
    BY Zenon DEF PolicyIInv, Pins
  <2>2. Q \subseteq Nat
    BY DEF PolicyIInv, PolicyKnows, PolicyIdle
  <2> QED  BY <2>1, <2>2
<1>2. P # {} => \E p \in P : \A x \in P : x <= p
  <2>1. SUFFICES ASSUME P # {} PROVE \E p \in P : \A x \in P : x <= p
    BY <2>1, Zenon
  <2>2. IsFiniteSet(DOMAIN policy_releases) /\ DOMAIN policy_releases # {}
    BY <2>1, PolicyTableFinite, Zenon DEF PolicyIInv
  <2>3. f \in [DOMAIN policy_releases -> Int]
    BY DEF PolicyIInv, Pins
  <2>4. PICK m \in DOMAIN policy_releases : Topmost(f, DOMAIN policy_releases, m)
    <3> HIDE DEF f
    <3> QED  BY <2>2, <2>3, TopmostExists, Zenon
  <2> QED  BY <2>4, Zenon DEF Topmost
<1>3. Q # {} => \E q \in Q : \A x \in Q : x <= q
  <2>1. SUFFICES ASSUME Q # {} PROVE \E q \in Q : \A x \in Q : x <= q
    BY <2>1, Zenon
  <2>2. IsFiniteSet(C) /\ C # {}
    <3>1. C \in SUBSET PolicyClients /\ C # {}
      BY <2>1, Zenon
    <3> HIDE DEF C
    <3> QED  BY <3>1, PolicyAssumption, FiniteSubset, Zenon
  <2>3. g \in [C -> Int]
    BY DEF PolicyIInv, PolicyKnows, PolicyIdle
  <2>4. PICK m \in C : Topmost(g, C, m)
    <3> HIDE DEF g, C
    <3> QED  BY <2>2, <2>3, TopmostExists, Zenon
  <2> QED  BY <2>4, Zenon DEF Topmost
<1>4. Later = 1 + CHOOSE t \in T : \A u \in T : u <= t
  BY Zenon DEF Later
<1>5. 0 \in T /\ P \subseteq T /\ Q \subseteq T /\ \A x \in T : x = 0 \/ x \in P \/ x \in Q
  BY Zenon
<1> HIDE DEF P, Q, T
<1>6. \E t \in T : \A u \in T : u <= t
  <2>1. PICK p \in T : \A x \in P : x <= p
    BY <1>1, <1>2, <1>5, Zenon
  <2>2. PICK q \in T : \A x \in Q : x <= q
    BY <1>1, <1>3, <1>5, Zenon
  <2>3. p \in Nat /\ q \in Nat
    BY <1>1, <2>1, <2>2, Zenon
  <2>4. CASE p <= q
    BY <1>1, <1>5, <2>1, <2>2, <2>3, <2>4
  <2>5. CASE q <= p
    BY <1>1, <1>5, <2>1, <2>2, <2>3, <2>5
  <2> QED  BY <2>3, <2>4, <2>5
<1>7. (CHOOSE t \in T : \A u \in T : u <= t) \in T
  BY <1>6, Zenon
<1>8. \A m \in T : 1 + m \in Nat
  BY <1>1
<1> QED  BY <1>4, <1>7, <1>8, Zenon

LEMMA PublishSelectStep ==
    ASSUME PolicyIInv, NEW c \in PolicyClients, NEW r \in DOMAIN policy_releases, NEW sign \in BOOLEAN,
           PublishSelect(c, r, sign)
    PROVE  PolicyIInv'
<1> DEFINE sig == IF sign THEN <<"sig", policy_releases[r].bundle_hash>> ELSE Null
           req == [at |-> "publish", id |-> r, published_at |-> Later, signature |-> sig]
<1>1. /\ policyReq' = [policyReq EXCEPT ![c] = req]
      /\ UNCHANGED <<policy_definitions, policy_adapters, policy_releases>>
  BY Zenon DEF PublishSelect
<1>2. sig # Null => sig[2] = policy_releases[r].bundle_hash
  BY Zenon
<1> HIDE DEF sig
<1>3. req.at = "publish" /\ req.id = r /\ req.published_at \in Nat /\ req.signature = sig
  BY LaterIsTime, Zenon
<1> HIDE DEF req
<1>4. PolicyKnows(req, policy_definitions, policy_adapters, policy_releases)
  BY <1>2, <1>3, Zenon DEF PolicyKnows
<1> QED  BY <1>1, <1>4, PolicyRequestStep, Zenon

\* A release changes its row in place: what it pins, and its bundle, stay.
LEMMA ReleaseRowStep ==
    ASSUME PolicyIInv, NEW r \in DOMAIN policy_releases, NEW row,
           Pins(row, policy_definitions, policy_adapters),
           row.bundle_hash = policy_releases[r].bundle_hash,
           policy_releases' = [policy_releases EXCEPT ![r] = row],
           UNCHANGED <<policy_definitions, policy_adapters>>,
           \/ UNCHANGED policyReq
           \/ \E c \in PolicyClients : policyReq' = [policyReq EXCEPT ![c] = PolicyIdle]
    PROVE  PolicyIInv'
<1> DEFINE D == policy_definitions  A == policy_adapters  R == policy_releases
<1>1. DOMAIN R' = DOMAIN R /\ R'[r] = row /\ \A i \in DOMAIN R : i # r => R'[i] = R[i]
  BY Zenon
<1>2. PolicyTable(R')
  BY <1>1, Zenon DEF PolicyTable, PolicyIInv
<1>3. \A i \in DOMAIN R' : Pins(R'[i], D, A)
  BY <1>1, Zenon DEF PolicyIInv
<1>4. Grown(D, D) /\ Grown(A, A)
  BY Zenon DEF Grown
<1>5. ASSUME NEW k \in PolicyClients PROVE PolicyKnows(policyReq'[k], D, A, R')
  <2>1. CASE policyReq'[k] = PolicyIdle
    BY <2>1, Zenon DEF PolicyKnows
  <2>2. CASE policyReq'[k] = policyReq[k]
    <3>1. PolicyKnows(policyReq[k], D, A, R)
      BY Zenon DEF PolicyIInv
    <3>2. \A i \in DOMAIN R : R'[i].bundle_hash = R[i].bundle_hash
      BY <1>1, Zenon
    <3> HIDE DEF D, A, R
    <3> QED  BY <1>1, <1>4, <2>2, <3>1, <3>2, PolicyKnowsKept, Zenon
  <2> QED  BY <2>1, <2>2, Zenon DEF PolicyIInv
<1>6. DOMAIN policyReq' = PolicyClients
  BY Zenon DEF PolicyIInv
<1> QED  BY <1>2, <1>3, <1>5, <1>6, Zenon DEF PolicyIInv

LEMMA PublishUpdateStep ==
    ASSUME PolicyIInv, NEW c \in PolicyClients, PublishUpdate(c)
    PROVE  PolicyIInv'
<1> DEFINE req == policyReq[c]
           old == policy_releases[req.id]
           row == [old EXCEPT !.status = "published", !.published_at = req.published_at,
                              !.signature = IF req.signature # Null THEN req.signature ELSE old.signature]
<1>1. /\ req.id \in DOMAIN policy_releases /\ req.published_at \in Nat
      /\ req.signature # Null => req.signature[2] = old.bundle_hash
  BY DEF PublishUpdate, PolicyIInv, PolicyKnows, PolicyIdle
<1>2. Pins(old, policy_definitions, policy_adapters)
  BY <1>1, Zenon DEF PolicyIInv
<1>3. /\ policy_releases' = [policy_releases EXCEPT ![req.id] = row]
      /\ policyReq' = [policyReq EXCEPT ![c] = PolicyIdle]
      /\ UNCHANGED <<policy_definitions, policy_adapters>>
  BY Zenon DEF PublishUpdate
<1> HIDE DEF req, old
<1>4. /\ DOMAIN row = ReleaseColumns /\ row.status = "published" /\ row.published_at = req.published_at
      /\ row.signature = IF req.signature # Null THEN req.signature ELSE old.signature
      /\ row.entry = old.entry /\ row.bundle_hash = old.bundle_hash /\ row.explicit = old.explicit
  BY <1>2, Zenon DEF Pins, ReleaseColumns
<1> HIDE DEF row
<1>5. Pins(row, policy_definitions, policy_adapters)
  BY <1>1, <1>2, <1>4, Zenon DEF Pins
<1> QED  BY <1>1, <1>3, <1>4, <1>5, ReleaseRowStep, Zenon DEF old

LEMMA ActivatedStep ==
    ASSUME PolicyIInv, NEW r \in DOMAIN policy_releases, release_activated(r)
    PROVE  PolicyIInv'
<1> DEFINE old == policy_releases[r]
           row == [old EXCEPT !.status = "active"]
<1>1. Pins(old, policy_definitions, policy_adapters)
  BY Zenon DEF PolicyIInv
<1>2. /\ policy_releases' = [policy_releases EXCEPT ![r] = row]
      /\ UNCHANGED <<policy_definitions, policy_adapters, policyReq>>
  BY Zenon DEF release_activated
<1> HIDE DEF old
<1>3. /\ DOMAIN row = ReleaseColumns /\ row.status = "active" /\ row.published_at = old.published_at
      /\ row.signature = old.signature
      /\ row.entry = old.entry /\ row.bundle_hash = old.bundle_hash /\ row.explicit = old.explicit
  BY <1>1, Zenon DEF Pins, ReleaseColumns
<1> HIDE DEF row
<1>4. Pins(row, policy_definitions, policy_adapters)
  BY <1>1, <1>3, Zenon DEF Pins
<1> QED  BY <1>2, <1>3, <1>4, ReleaseRowStep, Zenon DEF old

LEMMA PolicyStep ==
    ASSUME PolicyIInv, [PolicyNext \/ PublishNext]_policyVars
    PROVE  PolicyIInv'
<1>1. CASE UNCHANGED policyVars
  <2>1. \A k \in PolicyClients : PolicyKnows(policyReq[k], policy_definitions, policy_adapters, policy_releases)'
    BY <1>1, Zenon DEF PolicyIInv, policyVars
  <2> QED  BY <1>1, <2>1, Zenon DEF PolicyIInv, policyVars
<1>2. ASSUME NEW c \in PolicyClients,
             \/ PolicyInsert(c)
             \/ \E v \in PolicyVersions : create_policy_definition(c, v)
             \/ \E v \in PolicyVersions, k \in Contents : create_policy_adapter(c, v, k)
             \/ create_policy_release(c)
             \/ \E d \in DOMAIN policy_definitions, a \in DOMAIN policy_adapters : create_release_explicit(c, d, a)
             \/ PublishUpdate(c)
             \/ \E r \in DOMAIN policy_releases, sign \in BOOLEAN : PublishSelect(c, r, sign)
      PROVE  PolicyIInv'
  <2>1. CASE PolicyInsert(c)
    BY <2>1, PolicyInsertStep, Zenon
  <2>2. CASE \E v \in PolicyVersions : create_policy_definition(c, v)
    BY <2>2, DefineStep, Zenon DEF create_policy_definition
  <2>3. CASE \E v \in PolicyVersions, k \in Contents : create_policy_adapter(c, v, k)
    BY <2>3, DefineStep, Zenon DEF create_policy_adapter
  <2>4. CASE \/ create_policy_release(c)
             \/ \E d \in DOMAIN policy_definitions, a \in DOMAIN policy_adapters : create_release_explicit(c, d, a)
    BY <2>4, ReleaseStep, Zenon
  <2>5. CASE PublishUpdate(c)
    BY <2>5, PublishUpdateStep, Zenon
  <2>6. CASE \E r \in DOMAIN policy_releases, sign \in BOOLEAN : PublishSelect(c, r, sign)
    BY <2>6, PublishSelectStep, Zenon
  <2> QED  BY <1>2, <2>1, <2>2, <2>3, <2>4, <2>5, <2>6, Zenon
<1>3. CASE PolicyNext
  BY <1>2, <1>3, Zenon DEF PolicyNext
<1>4. CASE PublishNext
  <2>1. CASE \E r \in DOMAIN policy_releases : release_activated(r)
    BY <2>1, ActivatedStep, Zenon
  <2> QED  BY <1>2, <1>4, <2>1, Zenon DEF PublishNext
<1> QED  BY <1>1, <1>3, <1>4, Zenon

LEMMA PolicyInitially == PolicyInit => PolicyIInv
<1> SUFFICES ASSUME PolicyInit PROVE PolicyIInv
  BY Zenon
<1>1. DOMAIN policy_definitions = 1..0 /\ DOMAIN policy_adapters = 1..0 /\ DOMAIN policy_releases = 1..0
  BY DEF PolicyInit
<1>2. PolicyTable(policy_definitions) /\ PolicyTable(policy_adapters) /\ PolicyTable(policy_releases)
  BY <1>1, Zenon DEF PolicyTable
<1> QED  BY <1>1, <1>2 DEF PolicyInit, PolicyIInv, PolicyKnows

\* Of the releases with a status there is one published last.
LEMMA LatestExists ==
    ASSUME PolicyIInv, NEW status \in {"active", "published"},
           NEW r \in DOMAIN policy_releases, policy_releases[r].status = status
    PROVE  LatestPublished(status) # {}
<1> DEFINE ids == select(policy_releases, [status |-> status])
           f == [i \in ids |-> policy_releases[i].published_at]
<1>1. ids \in SUBSET DOMAIN policy_releases /\ r \in ids
  BY PolicyAssumption DEF select, Matches
<1>2. LatestPublished(status) =
          {i \in ids : \A q \in ids : policy_releases[q].published_at <= policy_releases[i].published_at}
  BY Zenon DEF LatestPublished
<1> HIDE DEF ids
<1>3. IsFiniteSet(ids)
  BY <1>1, PolicyTableFinite, Zenon DEF PolicyIInv
<1>4. f \in [ids -> Int]
  BY <1>1 DEF PolicyIInv, Pins
<1>5. PICK m \in ids : Topmost(f, ids, m)
  <2> HIDE DEF f
  <2> QED  BY <1>1, <1>3, <1>4, TopmostExists, Zenon
<1> QED  BY <1>2, <1>5, Zenon DEF Topmost

LEMMA ReleasesResolved == PolicyIInv => ReferencesResolve
<1> SUFFICES ASSUME PolicyIInv PROVE ReleasePinsWhatExists /\ ResolvesWhatWasPublished
  BY Zenon DEF ReferencesResolve
<1>1. ReleasePinsWhatExists
  BY Zenon DEF PolicyIInv, Pins, ReleasePinsWhatExists
<1> DEFINE live == {r \in DOMAIN policy_releases : policy_releases[r].status # "draft"}
<1>2. LatestPublished("active") \subseteq live /\ LatestPublished("published") \subseteq live
  BY Zenon DEF LatestPublished, select, Matches
<1>3. resolve_policy(Null) =
          IF LatestPublished("active") # {} THEN LatestPublished("active") ELSE LatestPublished("published")
  BY Zenon DEF resolve_policy
<1>4. ASSUME live # {} PROVE resolve_policy(Null) # {}
  <2>1. PICK r \in DOMAIN policy_releases : policy_releases[r].status # "draft"
    BY <1>4, Zenon
  <2>2. policy_releases[r].status \in {"active", "published"}
    BY <2>1, Zenon DEF PolicyIInv, Pins
  <2> QED  BY <1>3, <2>2, LatestExists, Zenon
<1>5. ResolvesWhatWasPublished
  BY <1>2, <1>3, <1>4, Zenon DEF ResolvesWhatWasPublished
<1> QED  BY <1>1, <1>5, Zenon

\* What a release pins exists and resolve_policy finds what was published, for any number of
\* requests that define, release, publish and activate, with every overlap of their statements.
THEOREM ReleasesStand == PolicySpec => []ReferencesResolve
<1>1. PolicyIInv /\ [PolicyNext \/ PublishNext]_policyVars => PolicyIInv'
  BY PolicyStep, Zenon
<1> QED  BY <1>1, PolicyInitially, ReleasesResolved, PTL DEF PolicySpec

-----------------------------------------------------------------------------
(* Delegated authority.                                                      *)

\* The expiries a delegation that has not expired can have, and the rows made of them.
Live == {Null} \cup {t \in Nat : t > authNow}

LiveRows == SUBSET (Actors \X Live)

AuthType == authNow \in Nat /\ delegations \subseteq Actors \X Actors \X Expiries

\* One more link, as PathTo takes it.
Hop(rows) ==
    {<<l[2][1], Least(l[1][2], l[2][3])>> :
        l \in {k \in rows \X delegations : k[2][2] = k[1][1] /\ Unexpired(k[2][3])}}

\* The earlier of two expiries that are not over is not over.
LEMMA LeastLive ==
    ASSUME AuthType, NEW a \in Live, NEW b \in Expiries, Unexpired(b)
    PROVE  Least(a, b) \in Live /\ Least(Null, b) = b
<1>1. b \in Live
  BY AuthAssumption, NullAssumption DEF AuthType, Expiries, Unexpired, Live
<1> QED  BY <1>1, Zenon DEF Least, Live

\* The recursive term of the query adds those links.
LEMMA ChainRows ==
    ASSUME NEW rows, NEW x
    PROVE  x \in ChainStep(rows) <=> \E r \in rows, d \in delegations :
                d[2] = r[1] /\ Unexpired(d[3]) /\ x = <<d[1], Least(r[2], d[3])>>
<1> DEFINE Links(r) == {<<d[1], Least(r[2], d[3])>> : d \in {e \in delegations : e[2] = r[1] /\ Unexpired(e[3])}}
<1>1. \A r \in rows : x \in Links(r) <=> \E d \in delegations :
            d[2] = r[1] /\ Unexpired(d[3]) /\ x = <<d[1], Least(r[2], d[3])>>
  BY Zenon
<1>2. ChainStep(rows) = UNION {Links(r) : r \in rows}
  BY Zenon DEF ChainStep
<1> HIDE DEF Links
<1>3. x \in ChainStep(rows) <=> \E r \in rows : x \in Links(r)
  BY <1>2, Zenon
<1> QED  BY <1>1, <1>3, Zenon

\* One more delegation that has not expired leads to actors and expiries that are not over.
LEMMA HopLive ==
    ASSUME AuthType, NEW rows \in LiveRows
    PROVE  Hop(rows) \in LiveRows /\ ChainStep(rows) = Hop(rows)
<1>1. ASSUME NEW r \in rows, NEW d \in delegations, d[2] = r[1], Unexpired(d[3])
      PROVE  <<d[1], Least(r[2], d[3])>> \in Actors \X Live
  <2>1. r \in Actors \X Live /\ d \in Actors \X Actors \X Expiries
    BY Zenon DEF LiveRows, AuthType
  <2>2. r[2] \in Live /\ d[3] \in Expiries /\ d[1] \in Actors
    BY <2>1, Zenon
  <2>3. Least(r[2], d[3]) \in Live
    BY <1>1, <2>2, LeastLive, Zenon
  <2> QED  BY <2>2, <2>3, Zenon
<1>2. ASSUME NEW x PROVE x \in Hop(rows) <=> \E r \in rows, d \in delegations :
                            d[2] = r[1] /\ Unexpired(d[3]) /\ x = <<d[1], Least(r[2], d[3])>>
  <2>1. ASSUME x \in Hop(rows)
        PROVE  \E r \in rows, d \in delegations : d[2] = r[1] /\ Unexpired(d[3]) /\ x = <<d[1], Least(r[2], d[3])>>
    <3>1. PICK l \in rows \X delegations : l[2][2] = l[1][1] /\ Unexpired(l[2][3]) /\ x = <<l[2][1], Least(l[1][2], l[2][3])>>
      BY <2>1, Zenon DEF Hop
    <3>2. l[1] \in rows /\ l[2] \in delegations
      BY <3>1, Zenon
    <3> QED  BY <3>1, <3>2, Zenon
  <2>2. ASSUME NEW r \in rows, NEW d \in delegations, d[2] = r[1], Unexpired(d[3]), x = <<d[1], Least(r[2], d[3])>>
        PROVE  x \in Hop(rows)
    <3>1. <<r, d>> \in rows \X delegations /\ <<r, d>>[1] = r /\ <<r, d>>[2] = d
      BY Zenon
    <3>2. \E l \in rows \X delegations : l[2][2] = l[1][1] /\ Unexpired(l[2][3]) /\ x = <<l[2][1], Least(l[1][2], l[2][3])>>
      BY <2>2, <3>1, Zenon
    <3> QED  BY <3>2, Zenon DEF Hop
  <2> QED  BY <2>1, <2>2, Zenon
<1>3. ASSUME NEW x PROVE x \in ChainStep(rows) <=> \E r \in rows, d \in delegations :
                            d[2] = r[1] /\ Unexpired(d[3]) /\ x = <<d[1], Least(r[2], d[3])>>
  BY ChainRows
<1>4. ChainStep(rows) = Hop(rows)
  BY <1>2, <1>3, Zenon
<1>5. Hop(rows) \subseteq Actors \X Live
  <2> SUFFICES ASSUME NEW x \in Hop(rows) PROVE x \in Actors \X Live
    BY Zenon
  <2>1. PICK r \in rows, d \in delegations : d[2] = r[1] /\ Unexpired(d[3]) /\ x = <<d[1], Least(r[2], d[3])>>
    BY <1>2, Zenon
  <2> QED  BY <1>1, <2>1, Zenon
<1> QED  BY <1>4, <1>5, Zenon DEF LiveRows

\* The first rows are one link away from the delegatee.
LEMMA FirstHop ==
    ASSUME AuthType, NEW actor \in Actors
    PROVE  /\ {<<actor, Null>>} \in LiveRows
           /\ {<<d[1], d[3]>> : d \in {e \in delegations : e[2] = actor /\ Unexpired(e[3])}} = Hop({<<actor, Null>>})
<1> DEFINE start == {<<actor, Null>>}
           first == {<<d[1], d[3]>> : d \in {e \in delegations : e[2] = actor /\ Unexpired(e[3])}}
<1>1. start \in LiveRows
  BY DEF LiveRows, Live
<1>2. \A d \in delegations : Unexpired(d[3]) => Least(Null, d[3]) = d[3]
  <2> TAKE d \in delegations
  <2>1. d[3] \in Expiries /\ Null \in Live
    BY Zenon DEF AuthType, Live
  <2> QED  BY <2>1, LeastLive, Zenon
<1>3. \A x : x \in first <=> \E d \in delegations : d[2] = actor /\ Unexpired(d[3]) /\ x = <<d[1], d[3]>>
  BY Zenon
<1>4. \A x : x \in Hop(start) <=> \E d \in delegations : d[2] = actor /\ Unexpired(d[3]) /\ x = <<d[1], Least(Null, d[3])>>
  <2>1. ASSUME NEW x
        PROVE  x \in ChainStep(start) <=> \E d \in delegations : d[2] = actor /\ Unexpired(d[3]) /\ x = <<d[1], Least(Null, d[3])>>
    <3>1. \A r \in start : r[1] = actor /\ r[2] = Null
      OBVIOUS
    <3>2. \E r \in start : r[1] = actor /\ r[2] = Null
      BY Zenon
    <3> HIDE DEF start
    <3>3. x \in ChainStep(start) <=> \E r \in start, d \in delegations :
                d[2] = r[1] /\ Unexpired(d[3]) /\ x = <<d[1], Least(r[2], d[3])>>
      BY ChainRows
    <3> QED  BY <3>1, <3>2, <3>3, Zenon
  <2> HIDE DEF start
  <2>2. ChainStep(start) = Hop(start)
    BY <1>1, HopLive, Zenon
  <2> QED  BY <2>1, <2>2, Zenon
<1>5. \A x : x \in first <=> x \in Hop(start)
  <2> HIDE DEF first, start
  <2> QED  BY <1>2, <1>3, <1>4, Zenon
<1> HIDE DEF first, start
<1>6. first = Hop(start)
  BY <1>5, Zenon
<1> QED  BY <1>1, <1>6, Zenon DEF first, start

\* What the query finds at each depth is what as many delegations lead to.
LEMMA DelegationsFound ==
    ASSUME AuthType, NEW actor \in Actors
    PROVE  /\ \A n \in 1..MaxDepth : DelegationRows(actor)[n] \in LiveRows
           /\ PathTo(actor) = UNION {DelegationRows(actor)[n] : n \in 1..MaxDepth}
<1> DEFINE N == MaxDepth
           start == {<<actor, Null>>}
           first == {<<d[1], d[3]>> : d \in {e \in delegations : e[2] = actor /\ Unexpired(e[3])}}
           F == [rows \in LiveRows |-> Hop(rows)]
           Rows1(f) == [n \in 1..N |-> IF n = 1 THEN first ELSE ChainStep(f[n - 1])]
           Reach1(f) == [n \in 0..N |-> IF n = 0 THEN start ELSE Hop(f[n - 1])]
           u == CHOOSE f : f = Reach1(f)
           v == CHOOSE f : f = Rows1(f)
<1>1. N \in Nat /\ start \in LiveRows /\ first = Hop(start)
  BY AuthAssumption, FirstHop, Zenon
<1>2. F \in [LiveRows -> LiveRows] /\ \A rows \in LiveRows : F[rows] = Hop(rows)
  BY HopLive, Zenon
<1>3. PathTo(actor) = UNION {u[n] : n \in 1..N} /\ DelegationRows(actor) = v
  BY Zenon DEF PathTo, DelegationRows, Hop
<1> HIDE DEF F, start, first
<1>4. PICK g \in [0..N -> LiveRows] : g[0] = start /\ \A n \in 1..N : g[n] = F[g[n - 1]]
  <2>1. LoopFrom(N, LiveRows, F, start) # {}
    BY <1>1, <1>2, LoopRuns, Zenon
  <2> QED  BY <2>1, Zenon DEF LoopFrom
<1>5. \A n \in 1..N : g[n] = Hop(g[n - 1]) /\ g[n - 1] \in LiveRows /\ ChainStep(g[n - 1]) = Hop(g[n - 1])
  <2> TAKE n \in 1..N
  <2>1. n - 1 \in 0..N
    BY <1>1
  <2>2. g[n - 1] \in LiveRows
    BY <1>4, <2>1, Zenon
  <2> QED  BY <1>2, <1>4, <2>2, HopLive, Zenon
<1>6. g = Reach1(g)
  <2>1. ASSUME NEW n \in 0..N PROVE g[n] = IF n = 0 THEN start ELSE Hop(g[n - 1])
    BY <1>1, <1>4, <1>5
  <2> QED  BY <1>4, <2>1, Zenon
<1> DEFINE h == [n \in 1..N |-> g[n]]
<1>7. h = Rows1(h)
  <2>1. ASSUME NEW n \in 1..N PROVE h[n] = IF n = 1 THEN first ELSE ChainStep(h[n - 1])
    <3>1. CASE n = 1
      BY <1>1, <1>4, <1>5, <3>1
    <3>2. CASE n # 1
      <4>1. n - 1 \in 1..N
        BY <1>1, <3>2
      <4> QED  BY <1>5, <3>2, <4>1, Zenon
    <3> QED  BY <3>1, <3>2, Zenon
  <2> QED  BY <2>1, Zenon
<1> HIDE DEF h
<1>8. u = Reach1(u) /\ v = Rows1(v)
  <2> HIDE DEF Reach1, Rows1
  <2> QED  BY <1>6, <1>7, Zenon
<1> HIDE DEF u, v
<1>9. \A n \in 0..N : u[n] = g[n]
  <2> DEFINE I == {n \in 0..N : u[n] = g[n]}
  <2>1. 0 \in I
    BY <1>1, <1>4, <1>8
  <2>2. ASSUME NEW n \in 1..N, n - 1 \in I PROVE n \in I
    <3>1. n \in 0..N /\ n # 0
      BY <1>1
    <3> QED  BY <1>5, <1>8, <2>2, <3>1
  <2>3. \A n \in 0..N : n \in I
    <3> HIDE DEF I
    <3> QED  BY <1>1, <2>1, <2>2, UpTo, Zenon
  <2> QED  BY <2>3, Zenon
<1>10. \A n \in 1..N : v[n] = g[n]
  <2> DEFINE I == {0} \cup {n \in 1..N : v[n] = g[n]}
  <2>1. 0 \in I
    BY Zenon
  <2>2. ASSUME NEW n \in 1..N, n - 1 \in I PROVE n \in I
    <3>1. CASE n = 1
      BY <1>1, <1>4, <1>5, <1>8, <3>1
    <3>2. CASE n # 1
      <4>1. n - 1 # 0 /\ n - 1 \in 1..N
        BY <1>1, <3>2
      <4> QED  BY <1>5, <1>8, <2>2, <3>2, <4>1
    <3> QED  BY <3>1, <3>2, Zenon
  <2>3. \A n \in 0..N : n \in I
    <3> HIDE DEF I
    <3> QED  BY <1>1, <2>1, <2>2, UpTo, Zenon
  <2>4. ASSUME NEW n \in 1..N PROVE v[n] = g[n]
    <3>1. n \in 0..N /\ n # 0
      BY <1>1
    <3> QED  BY <2>3, <3>1, Zenon
  <2> QED  BY <2>4, Zenon
<1>11. \A n \in 1..N : n \in 0..N /\ v[n] \in LiveRows /\ v[n] = u[n]
  <2>1. \A n \in 1..N : n \in 0..N
    BY <1>1
  <2> QED  BY <1>4, <1>9, <1>10, <2>1, Zenon
<1>12. UNION {u[n] : n \in 1..N} = UNION {v[n] : n \in 1..N}
  BY <1>11, Zenon
<1> QED  BY <1>3, <1>11, <1>12, Zenon

\* verify_delegation_valid answers from the recursive query at one point in time, so its answer is
\* sound whatever the rows of the table are.
LEMMA TypeMeansSound == ASSUME AuthType PROVE DelegationSound
<1> SUFFICES ASSUME NEW actor \in Actors, NEW answer \in verify_delegation_valid(actor), answer.valid
             PROVE  \E p \in PathTo(actor) :
                /\ p[1] = answer.authority /\ require_role_authorized(p[1])
                /\ p[2] # Null => answer.expires_at # Null /\ answer.expires_at <= p[2]
                /\ Unexpired(answer.expires_at)
  BY Zenon DEF DelegationSound
<1> DEFINE N == MaxDepth
           found == DelegationRows(actor)
           depths == {k \in 1..N : found[k] # {}}
           last == CHOOSE k \in depths : \A j \in depths : j <= k
           rows == UNION {found[k] : k \in depths}
           times == {r[2] : r \in rows} \ {Null}
           earliest == IF times = {} THEN Null ELSE CHOOSE t \in times : \A s \in times : t <= s
<1>2. /\ N \in Nat /\ \A n \in 1..N : found[n] \subseteq Actors \X Live
      /\ PathTo(actor) = UNION {found[n] : n \in 1..N}
  BY DelegationsFound, AuthAssumption, Zenon DEF LiveRows
<1>3. depths # {} /\ answer \in {[valid |-> r[1] \in holders, authority |-> r[1], expires_at |-> earliest] : r \in found[last]}
  BY Zenon DEF verify_delegation_valid
<1> HIDE DEF found
<1>4. last \in 1..N
  <2> DEFINE S == {N - k : k \in depths}
  <2>1. S \subseteq Nat /\ S # {}
    BY <1>2, <1>3
  <2>2. PICK m \in S : \A k \in S : m <= k
    <3> HIDE DEF S
    <3> QED  BY <2>1, LeastNumber, Zenon
  <2>3. PICK k \in depths : m = N - k
    BY <2>2, Zenon
  <2>4. \A j \in depths : j <= k
    <3> TAKE j \in depths
    <3>1. N - j \in S /\ j \in Int /\ k \in Int
      OBVIOUS
    <3>2. N - k <= N - j
      BY <2>2, <2>3, <3>1, Zenon
    <3> QED  BY <1>2, <3>1, <3>2
  <2>5. last \in depths
    <3> HIDE DEF depths
    <3> QED  BY <2>3, <2>4, Zenon
  <2> QED  BY <2>5, Zenon
<1> HIDE DEF last
<1>5. PICK r \in found[last] : answer = [valid |-> r[1] \in holders, authority |-> r[1], expires_at |-> earliest]
  <2> HIDE DEF earliest
  <2> QED  BY <1>3, Zenon
<1>6. answer.authority = r[1] /\ answer.expires_at = earliest /\ r[1] \in holders
  <2> HIDE DEF earliest
  <2> QED  BY <1>5, Zenon
<1>7. last \in depths /\ r \in rows /\ r \in PathTo(actor)
  BY <1>2, <1>4, <1>5, Zenon
<1>8. \A t \in times : t \in Nat /\ t > authNow
  <2>1. ASSUME NEW q \in rows PROVE q[2] \in Live
    <3>1. PICK k \in depths : q \in found[k]
      BY <2>1, Zenon
    <3>2. q \in Actors \X Live
      BY <1>2, <3>1, Zenon
    <3> QED  BY <3>2, Zenon
  <2> HIDE DEF rows
  <2>2. \A t \in times : t \in Live /\ t # Null
    BY <2>1, Zenon
  <2> QED  BY <2>2, Zenon DEF Live
<1>9. times # {} => earliest \in times /\ \A s \in times : earliest <= s
  <2>1. SUFFICES ASSUME times # {} PROVE earliest \in times /\ \A s \in times : earliest <= s
    BY Zenon
  <2> HIDE DEF times
  <2>2. \E t \in times : \A s \in times : t <= s
    <3>1. times \in SUBSET Nat
      BY <1>8, Zenon
    <3> QED  BY <2>1, <3>1, LeastNumber, Zenon
  <2>3. earliest = CHOOSE t \in times : \A s \in times : t <= s
    BY <2>1, Zenon
  <2> HIDE DEF earliest
  <2> QED  BY <2>2, <2>3, Zenon
<1>10. r[2] # Null => r[2] \in times
  BY <1>7, Zenon
<1>11. times = {} => earliest = Null
  BY Zenon
<1>12. AuthType
  BY Zenon
<1> HIDE DEF times, earliest, rows, depths
<1>13. Unexpired(earliest)
  BY <1>8, <1>9, <1>11, Zenon DEF Unexpired
<1>14. r[2] # Null => earliest # Null /\ earliest <= r[2]
  <2>1. ASSUME r[2] # Null PROVE earliest # Null /\ earliest <= r[2]
    BY <1>8, <1>9, <1>10, <2>1, NullAssumption
  <2> QED  BY <2>1, Zenon
<1> QED  BY <1>6, <1>7, <1>13, <1>14, Zenon DEF require_role_authorized

\* For any actors, any delegations between them and any max_depth: when verify_delegation_valid reports
\* a delegation valid, a chain of delegations that have not expired leads to the actor from one that
\* holds the role, and the expiry reported is not after that of the chain.
THEOREM DelegationsSound == DelegationSpec => []DelegationSound
<1>1. AuthInit => AuthType
  BY DEF AuthInit, AuthType
<1>2. AuthType /\ [DelegationNext]_authVars => AuthType'
  <2> SUFFICES ASSUME AuthType, [DelegationNext]_authVars PROVE AuthType'
    BY Zenon
  <2>1. CASE UNCHANGED authVars
    BY <2>1, Zenon DEF authVars, AuthType
  <2>2. ASSUME NEW from \in Actors, NEW to \in Actors, NEW expires \in Expiries, delegated(from, to, expires)
        PROVE  AuthType'
    BY <2>2 DEF delegated, AuthType, Expiries
  <2>3. ASSUME NEW d \in delegations, delegation_withdrawn(d) PROVE AuthType'
    BY <2>3, Zenon DEF delegation_withdrawn, AuthType, Expiries
  <2>4. ASSUME NEW actor \in Actors, role_changed(actor) PROVE AuthType'
    BY <2>4, Zenon DEF role_changed, AuthType, Expiries
  <2>5. CASE AuthTick
    BY <2>5 DEF AuthTick, AuthType, Expiries
  <2> QED  BY <2>1, <2>2, <2>3, <2>4, <2>5, Zenon DEF DelegationNext
<1>3. AuthType => DelegationSound
  BY TypeMeansSound, Zenon
<1> QED  BY <1>1, <1>2, <1>3, PTL DEF DelegationSpec

-----------------------------------------------------------------------------
(* Document access.                                                          *)

Node == [doc : Docs, timed : BOOLEAN]

Delegation == [phase : Phases \cup {"none"}, from : Users \cup {"none"}, to : Users \cup {"none"},
               todo : SUBSET Node, done : SUBSET Node]

\* The delegate holds a token for every grant made so far.
Delegated ==
    \/ transfer.todo = {} /\ transfer.done = {}
    \/ /\ transfer.phase \in Phases /\ transfer.from \in Users /\ transfer.to \in Users
       /\ transfer.from # transfer.to
       /\ \A g \in transfer.done : \E i \in DOMAIN token :
             token[i].grantee = transfer.to /\ token[i].doc = g.doc

\* The inductive invariant.
GrantIInv == TypeOK /\ transfer \in Delegation /\ Delegated

-----------------------------------------------------------------------------
LEMMA NoTransferRecord == NoTransfer \in Delegation /\ NoTransfer.todo = {} /\ NoTransfer.done = {}
BY Zenon DEF NoTransfer, Delegation

LEMMA GrantInitInv == Init => GrantIInv
<1> SUFFICES ASSUME Init PROVE GrantIInv
  BY Zenon
<1>1. TypeOK
  <2>1. token \in Seq(TokenRow) /\ Len(token) = 0
    BY DEF Init
  <2>2. transfer.todo \cup transfer.done \subseteq [doc : Docs, timed : BOOLEAN]
    BY NoTransferRecord, Zenon DEF Init
  <2> QED
    BY <2>1, <2>2, GrantAssumption DEF Init, TypeOK
<1> QED
  BY <1>1, NoTransferRecord, Zenon DEF Init, GrantIInv, Delegated

\* A step that only rewrites statuses, or leaves the tokens alone, keeps what they are for.
SameTokens ==
    /\ token' \in Seq(TokenRow)
    /\ DOMAIN token' = DOMAIN token
    /\ Len(token') = Len(token)
    /\ \A i \in DOMAIN token : /\ token'[i].grantee = token[i].grantee
                               /\ token'[i].doc = token[i].doc
                               /\ token'[i].expires = token[i].expires

\* A step that issues one more token.
OneMore(p, g, u) ==
    /\ token' \in Seq(TokenRow)
    /\ DOMAIN token' = DOMAIN token \cup {Len(token) + 1}
    /\ Len(token') = Len(token) + 1 /\ Len(token') <= MaxTokens
    /\ \A i \in DOMAIN token : token'[i] = token[i]
    /\ token'[Len(token) + 1].grantee = u /\ token'[Len(token) + 1].doc = g.doc

LEMMA Issues ==
    ASSUME TypeOK, NEW p \in Phases, NEW g \in Node, NEW u \in Users, create_phase_grant(p, g, u)
    PROVE  OneMore(p, g, u)
<1> DEFINE row == [grantee |-> u, doc |-> g.doc, phase |-> p, timed |-> g.timed, status |-> "active",
                   issued |-> now, expires |-> now + (IF g.timed THEN TTL ELSE Safety)]
<1>1. now \in Nat /\ now + (IF g.timed THEN TTL ELSE Safety) \in Nat
  BY GrantAssumption DEF TypeOK
<1>2. row \in TokenRow /\ row.grantee = u /\ row.doc = g.doc
  BY <1>1, Zenon DEF TokenRow, Node
<1>3. token' = Append(token, row) /\ Len(token) < MaxTokens /\ token \in Seq(TokenRow)
  BY Zenon DEF create_phase_grant, TypeOK
<1> HIDE DEF row
<1>4. token' \in Seq(TokenRow) /\ Len(token') = Len(token) + 1 /\ Len(token) \in Nat
  BY <1>2, <1>3
<1>5. /\ \A i \in 1..Len(token) : token'[i] = token[i]
      /\ token'[Len(token) + 1] = row
  BY <1>2, <1>3
<1>6. DOMAIN token = 1..Len(token) /\ DOMAIN token' = 1..(Len(token) + 1)
  BY <1>3, <1>4
<1>7. 1..(Len(token) + 1) = 1..Len(token) \cup {Len(token) + 1}
  BY <1>4
<1>8. Len(token') <= MaxTokens
  BY <1>3, <1>4, GrantAssumption
<1> QED
  BY <1>2, <1>4, <1>5, <1>6, <1>7, <1>8, Zenon DEF OneMore

LEMMA Revokes ==
    ASSUME TypeOK, NEW S, RevokeWhere(S)
    PROVE  SameTokens /\ \A i \in DOMAIN token : token[i].grantee \notin S => token'[i] = token[i]
<1>1. token \in Seq(TokenRow)
  BY Zenon DEF TypeOK
<1>2. \A r \in TokenRow : LET q == [r EXCEPT !.status = "revoked"]
          IN  q \in TokenRow /\ q.grantee = r.grantee /\ q.doc = r.doc /\ q.expires = r.expires
  BY Zenon DEF TokenRow
<1>3. \A i \in DOMAIN token : token[i] \in TokenRow
  BY <1>1
<1>4. DOMAIN token' = DOMAIN token
  BY Zenon DEF RevokeWhere
<1>5. \A i \in DOMAIN token : token'[i] = IF token[i].grantee \in S /\ token[i].status \in {"active", "used"}
                                        THEN [token[i] EXCEPT !.status = "revoked"] ELSE token[i]
  BY Zenon DEF RevokeWhere
<1>6. \A i \in DOMAIN token : /\ token'[i] \in TokenRow
                              /\ token'[i].grantee = token[i].grantee
                              /\ token'[i].doc = token[i].doc
                              /\ token'[i].expires = token[i].expires
  BY <1>2, <1>3, <1>5, Zenon
<1>7. token' \in [1..Len(token) -> TokenRow]
  <2>1. DOMAIN token = 1..Len(token)
    BY <1>1
  <2>2. token' = [i \in DOMAIN token |-> token'[i]]
    BY Zenon DEF RevokeWhere
  <2> QED
    BY <2>1, <2>2, <1>6, Zenon
<1>8. token' \in Seq(TokenRow) /\ Len(token') = Len(token)
  BY <1>1, <1>7
<1> QED
  BY <1>4, <1>5, <1>6, <1>8, Zenon DEF SameTokens

LEMMA Records ==
    ASSUME TypeOK, NEW r \in Readers, record_document_access(r)
    PROVE  SameTokens /\ \A i \in DOMAIN token : token'[i].status \in {token[i].status, "used"}
<1>1. token \in Seq(TokenRow)
  BY Zenon DEF TypeOK
<1>2. \A q \in TokenRow : LET s == [q EXCEPT !.status = "used"]
          IN  s \in TokenRow /\ s.grantee = q.grantee /\ s.doc = q.doc /\ s.expires = q.expires /\ s.status = "used"
  BY Zenon DEF TokenRow
<1>3. PICK n \in DOMAIN token : n = reader[r]
  <2>1. reader[r] \in 0..MaxTokens /\ reader[r] # 0 /\ reader[r] <= Len(token)
    BY Zenon DEF TypeOK, record_document_access
  <2>2. DOMAIN token = 1..Len(token) /\ Len(token) \in Nat
    BY <1>1
  <2> QED
    BY <2>1, <2>2, GrantAssumption
<1>4. PICK q \in TokenRow : q = [token[n] EXCEPT !.status = "used"]
  <2>1. token[n] \in TokenRow
    BY <1>1
  <2>2. [token[n] EXCEPT !.status = "used"] \in TokenRow
    BY <1>2, <2>1, Zenon
  <2> QED
    BY <2>2, Zenon
<1>5. token' = [token EXCEPT ![n] = q]
  BY <1>3, <1>4, Zenon DEF record_document_access
<1>6. q.grantee = token[n].grantee /\ q.doc = token[n].doc /\ q.expires = token[n].expires /\ q.status = "used"
  BY <1>1, <1>2, <1>4
<1>7. token' \in Seq(TokenRow) /\ DOMAIN token' = DOMAIN token /\ Len(token') = Len(token)
  BY <1>1, <1>5
<1>8. \A i \in DOMAIN token : token'[i] = IF i = n THEN q ELSE token[i]
  BY <1>1, <1>5, Zenon
<1> QED
  BY <1>6, <1>7, <1>8, Zenon DEF SameTokens

-----------------------------------------------------------------------------
(* Type correctness and the state of the delegation, action by action.      *)

\* What the type invariant says of the tokens a step issued or rewrote.
LEMMA TokensTyped ==
    ASSUME TypeOK, \/ SameTokens \/ \E p \in Phases, g \in Node, u \in Users : OneMore(p, g, u)
    PROVE  token' \in Seq(TokenRow) /\ Len(token') <= MaxTokens /\ Len(token') \in Nat /\ Len(token) <= Len(token')
<1>1. Len(token) \in Nat /\ Len(token) <= MaxTokens
  BY DEF TypeOK
<1> QED
  BY <1>1 DEF SameTokens, OneMore

\* A delegation keeps its tokens: none is deleted and none changes hands.
LEMMA TokensKept ==
    ASSUME GrantIInv, transfer' = transfer,
           \/ SameTokens \/ \E p \in Phases, g \in Node, u \in Users : OneMore(p, g, u)
    PROVE  Delegated'
<1>1. \A i \in DOMAIN token : /\ i \in DOMAIN token'
                              /\ token'[i].grantee = token[i].grantee
                              /\ token'[i].doc = token[i].doc
  BY Zenon DEF SameTokens, OneMore
<1> QED
  BY <1>1 DEF GrantIInv, Delegated

LEMMA TypeStep ==
    ASSUME GrantIInv, \/ SameTokens \/ \E p \in Phases, g \in Node, u \in Users : OneMore(p, g, u),
           now' = now \/ Tick, pending' \subseteq pending, transfer' \in Delegation,
           \/ reader' = reader
           \/ \E r \in Readers, n \in 0..Len(token) : reader' = [reader EXCEPT ![r] = n]
    PROVE  TypeOK'
<1>1. token' \in Seq(TokenRow) /\ Len(token') <= MaxTokens /\ Len(token') \in Nat /\ Len(token) <= Len(token')
  BY TokensTyped, Zenon DEF GrantIInv
<1>2. now' \in 0..MaxTime
  BY GrantAssumption DEF GrantIInv, TypeOK, Tick
<1>3. Len(token) \in Nat /\ Len(token) <= MaxTokens
  BY DEF GrantIInv, TypeOK
<1>4. reader \in [Readers -> 0..MaxTokens] /\ \A r \in Readers : reader[r] <= Len(token)
  BY Zenon DEF GrantIInv, TypeOK
<1>5. reader' \in [Readers -> 0..MaxTokens] /\ \A r \in Readers : reader'[r] <= Len(token)
  <2>1. CASE reader' = reader
    BY <1>4, <2>1, Zenon
  <2>2. ASSUME NEW r \in Readers, NEW n \in 0..Len(token), reader' = [reader EXCEPT ![r] = n]
        PROVE  reader' \in [Readers -> 0..MaxTokens] /\ \A q \in Readers : reader'[q] <= Len(token)
    <3>1. n \in 0..MaxTokens /\ n <= Len(token)
      BY <1>3, GrantAssumption
    <3> QED
      BY <1>4, <2>2, <3>1, Zenon
  <2> QED
    BY <2>1, <2>2, Zenon
<1>6. \A r \in Readers : reader'[r] <= Len(token')
  BY <1>1, <1>3, <1>5, GrantAssumption
<1>7. transfer'.todo \cup transfer'.done \subseteq [doc : Docs, timed : BOOLEAN]
  BY Zenon DEF Delegation, Node
<1> QED
  BY <1>1, <1>2, <1>5, <1>6, <1>7, Zenon DEF GrantIInv, TypeOK

LEMMA GrantStep ==
    ASSUME GrantIInv, NEW p \in Phases, NEW u \in Users, NEW g \in GrantNodes[p], Grant(p, g, u)
    PROVE  GrantIInv' /\ OneMore(p, g, u)
<1>1. g \in Node
  BY GrantAssumption, Zenon DEF Node
<1>2. OneMore(p, g, u)
  BY <1>1, Issues, Zenon DEF Grant, GrantIInv
<1>3. TypeOK'
  BY <1>1, <1>2, TypeStep, Zenon DEF Grant, GrantIInv
<1> QED
  BY <1>1, <1>2, <1>3, TokensKept, Zenon DEF Grant, GrantIInv

LEMMA Unchanged == ASSUME TypeOK, token' = token PROVE SameTokens
BY Zenon DEF TypeOK, SameTokens

LEMMA CheckStep ==
    ASSUME GrantIInv, NEW r \in Readers, NEW u \in Users, NEW d \in Docs, check_document_access(r, u, d)
    PROVE  GrantIInv'
<1>1. SameTokens
  BY Unchanged, Zenon DEF GrantIInv, check_document_access
<1>2. \E n \in 0..Len(token) : reader' = [reader EXCEPT ![r] = n]
  <2>1. PICK i \in DOMAIN token : reader' = [reader EXCEPT ![r] = i]
    BY Zenon DEF check_document_access
  <2>2. DOMAIN token = 1..Len(token) /\ Len(token) \in Nat
    BY DEF GrantIInv, TypeOK
  <2>3. i \in 0..Len(token)
    BY <2>2
  <2> QED
    BY <2>1, <2>3, Zenon
<1>3. TypeOK'
  BY <1>1, <1>2, TypeStep, Zenon DEF GrantIInv, check_document_access
<1> QED
  BY <1>1, <1>3, TokensKept, Zenon DEF GrantIInv, check_document_access

LEMMA RecordStep ==
    ASSUME GrantIInv, NEW r \in Readers, record_document_access(r)
    PROVE  GrantIInv'
<1>1. SameTokens
  BY Records, Zenon DEF GrantIInv
<1>2. \E n \in 0..Len(token) : reader' = [reader EXCEPT ![r] = n]
  <2>1. 0 \in 0..Len(token)
    BY DEF GrantIInv, TypeOK
  <2> QED
    BY <2>1, Zenon DEF record_document_access
<1>3. TypeOK'
  BY <1>1, <1>2, TypeStep, Zenon DEF GrantIInv, record_document_access
<1> QED
  BY <1>1, <1>3, TokensKept, Zenon DEF GrantIInv, record_document_access

LEMMA RevokeStep ==
    ASSUME GrantIInv, NEW p \in Phases, revoke_phase_grants(p)
    PROVE  GrantIInv'
<1>1. SameTokens
  BY Revokes, Zenon DEF GrantIInv, revoke_phase_grants
<1>2. TypeOK'
  BY <1>1, TypeStep, Zenon DEF GrantIInv, revoke_phase_grants
<1> QED
  BY <1>1, <1>2, TokensKept, Zenon DEF GrantIInv, revoke_phase_grants

LEMMA BeginStep ==
    ASSUME GrantIInv, NEW p \in Phases, NEW from \in Users, NEW to \in Users, BeginTransfer(p, from, to)
    PROVE  GrantIInv'
<1>1. SameTokens
  BY Unchanged, Zenon DEF GrantIInv, BeginTransfer
<1>2. GrantNodes[p] \subseteq Node
  BY GrantAssumption, Zenon DEF Node
<1>3. /\ transfer' \in Delegation /\ transfer'.phase = p /\ transfer'.from = from /\ transfer'.to = to
      /\ transfer'.done = {}
  BY <1>2, Zenon DEF BeginTransfer, Delegation
<1>4. TypeOK'
  BY <1>1, <1>3, TypeStep, Zenon DEF BeginTransfer
<1>5. Delegated'
  BY <1>3, Zenon DEF BeginTransfer, Delegated
<1> QED
  BY <1>3, <1>4, <1>5, Zenon DEF GrantIInv

\* The loop's next grant: the delegate gets its token with it.
LEMMA CreateStep ==
    ASSUME GrantIInv, NEW g \in transfer.todo, TransferCreate(g)
    PROVE  GrantIInv' /\ OneMore(transfer.phase, g, transfer.to)
<1>1. /\ transfer \in Delegation /\ transfer.phase \in Phases /\ transfer.from \in Users
      /\ transfer.to \in Users /\ transfer.from # transfer.to
      /\ \A h \in transfer.done : \E i \in DOMAIN token : token[i].grantee = transfer.to /\ token[i].doc = h.doc
  BY Zenon DEF GrantIInv, Delegated
<1>2. g \in Node
  BY <1>1, Zenon DEF Delegation
<1>3. OneMore(transfer.phase, g, transfer.to)
  BY <1>1, <1>2, Issues, Zenon DEF GrantIInv, TransferCreate
<1>4. /\ transfer' \in Delegation /\ transfer'.phase = transfer.phase
      /\ transfer'.from = transfer.from /\ transfer'.to = transfer.to
      /\ transfer'.done = transfer.done \cup {g}
  <2>1. transfer' = [transfer EXCEPT !.todo = transfer.todo \ {g}, !.done = transfer.done \cup {g}]
    BY Zenon DEF TransferCreate
  <2>2. transfer.todo \ {g} \in SUBSET Node /\ transfer.done \cup {g} \in SUBSET Node
    BY <1>1, <1>2, Zenon DEF Delegation
  <2> QED
    BY <1>1, <2>1, <2>2, Zenon DEF Delegation
<1>5. TypeOK'
  BY <1>1, <1>2, <1>3, <1>4, TypeStep, Zenon DEF TransferCreate
<1>6. ASSUME NEW h \in transfer'.done
      PROVE  \E i \in DOMAIN token' : token'[i].grantee = transfer'.to /\ token'[i].doc = h.doc
  <2>1. CASE h = g
    BY <1>3, <1>4, <2>1, Zenon DEF OneMore
  <2>2. CASE h \in transfer.done
    BY <1>1, <1>3, <1>4, <2>2 DEF OneMore
  <2> QED
    BY <1>4, <1>6, <2>1, <2>2, Zenon
<1>7. Delegated'
  BY <1>1, <1>4, <1>6, Zenon DEF Delegated
<1> QED
  BY <1>3, <1>4, <1>5, <1>7, Zenon DEF GrantIInv

LEMMA EndStep ==
    ASSUME GrantIInv, TransferRevoke \/ TransferFails
    PROVE  GrantIInv'
<1>1. SameTokens
  BY Unchanged, Revokes, Zenon DEF GrantIInv, TransferRevoke, TransferFails
<1>2. transfer' \in Delegation /\ Delegated'
  BY NoTransferRecord, Zenon DEF TransferRevoke, TransferFails, Delegated
<1>3. TypeOK'
  BY <1>1, <1>2, TypeStep, Zenon DEF TransferRevoke, TransferFails
<1> QED
  BY <1>2, <1>3, Zenon DEF GrantIInv

LEMMA TickStep == ASSUME GrantIInv, Tick PROVE GrantIInv'
<1>1. SameTokens
  BY Unchanged, Zenon DEF GrantIInv, Tick
<1>2. TypeOK'
  BY <1>1, TypeStep, Zenon DEF GrantIInv, Tick
<1> QED
  BY <1>1, <1>2, TokensKept, Zenon DEF GrantIInv, Tick

LEMMA GrantNextInv == GrantIInv /\ [Next]_vars => GrantIInv'
<1> SUFFICES ASSUME GrantIInv, [Next]_vars PROVE GrantIInv'
  BY Zenon
<1>1. CASE UNCHANGED vars
  BY <1>1, Zenon DEF vars, GrantIInv, TypeOK, Delegated
<1>2. CASE \E p \in Phases, u \in Users : \E g \in GrantNodes[p] : Grant(p, g, u)
  BY <1>2, GrantStep, Zenon
<1>3. CASE \E r \in Readers, u \in Users, d \in Docs : check_document_access(r, u, d)
  BY <1>3, CheckStep, Zenon
<1>4. CASE \E r \in Readers : record_document_access(r)
  BY <1>4, RecordStep, Zenon
<1>5. CASE \E p \in Phases : revoke_phase_grants(p)
  BY <1>5, RevokeStep, Zenon
<1>6. CASE \E p \in Phases, from, to \in Users : BeginTransfer(p, from, to)
  BY <1>6, BeginStep, Zenon
<1>7. CASE \E g \in transfer.todo : TransferCreate(g)
  BY <1>7, CreateStep, Zenon
<1>8. CASE TransferRevoke \/ TransferFails
  BY <1>8, EndStep, Zenon
<1>9. CASE Tick
  BY <1>9, TickStep, Zenon
<1> QED
  BY <1>1, <1>2, <1>3, <1>4, <1>5, <1>6, <1>7, <1>8, <1>9, Zenon DEF Next

-----------------------------------------------------------------------------
(* Access.                                                                  *)

\* A usable token stays usable when it is only appended to or recorded as used.
LEMMA AccessKept ==
    ASSUME NEW u, NEW d, HasAccess(u, d), now' = now,
           \A i \in DOMAIN token :
              /\ i \in DOMAIN token'
              /\ token'[i].grantee = token[i].grantee /\ token'[i].doc = token[i].doc
              /\ token'[i].expires = token[i].expires
              /\ token'[i].status \in {token[i].status, "used"}
    PROVE  HasAccess(u, d)'
BY Zenon DEF HasAccess, Usable

\* The last statement of a transfer: by then the delegate has every grant.
LEMMA DelegateHasAccess ==
    ASSUME GrantIInv, TransferRevoke, NEW d \in {g.doc : g \in transfer.todo \cup transfer.done},
           NEW to, to = transfer.to, \A i \in DOMAIN token : token[i].grantee = to => Usable(token[i])
    PROVE  HasAccess(to, d)'
<1>1. PICK g \in transfer.done : g.doc = d
  BY Zenon DEF TransferRevoke
<1>2. transfer.from # transfer.to /\ \E i \in DOMAIN token : token[i].grantee = transfer.to /\ token[i].doc = g.doc
  BY <1>1, Zenon DEF GrantIInv, Delegated
<1>3. PICK i \in DOMAIN token : token[i].grantee = to /\ token[i].doc = d
  BY <1>1, <1>2, Zenon
<1>4. i \in DOMAIN token' /\ token'[i] = token[i]
  BY <1>2, <1>3, Revokes DEF GrantIInv, TransferRevoke, SameTokens
<1>5. Usable(token[i])'
  BY <1>3, <1>4, Zenon DEF Usable, TransferRevoke
<1> QED
  BY <1>3, <1>4, <1>5, Zenon DEF HasAccess

\* One step of a delegation, or of anybody else, while no phase completes and the clock
\* stands still.
LEMMA StepKeepsAccess ==
    ASSUME GrantIInv, Next, now' = now, pending' = pending,
           NEW d \in {g.doc : g \in transfer.todo \cup transfer.done},
           HasAccess(transfer.from, d) \/ HasAccess(transfer.to, d),
           \A i \in DOMAIN token : token[i].grantee = transfer.to => Usable(token[i]),
           NEW from, NEW to, from = transfer.from, to = transfer.to
    PROVE  HasAccess(from, d)' \/ HasAccess(to, d)'
<1> DEFINE Kept == \A i \in DOMAIN token :
              /\ i \in DOMAIN token'
              /\ token'[i].grantee = token[i].grantee /\ token'[i].doc = token[i].doc
              /\ token'[i].expires = token[i].expires
              /\ token'[i].status \in {token[i].status, "used"}
<1>1. ASSUME Kept PROVE HasAccess(from, d)' \/ HasAccess(to, d)'
  BY <1>1, AccessKept, Zenon
<1>2. CASE \E p \in Phases, u \in Users : \E g \in GrantNodes[p] : Grant(p, g, u)
  <2>1. Kept
    BY <1>2, GrantStep, Zenon DEF OneMore
  <2> QED
    BY <1>1, <2>1, Zenon
<1>3. CASE \E r \in Readers : record_document_access(r)
  <2>1. Kept
    BY <1>3, Records, Zenon DEF GrantIInv, SameTokens
  <2> QED
    BY <1>1, <2>1, Zenon
<1>4. CASE \E g \in transfer.todo : TransferCreate(g)
  <2>1. Kept
    BY <1>4, CreateStep, Zenon DEF OneMore
  <2> QED
    BY <1>1, <2>1, Zenon
<1>5. CASE token' = token
  <2>1. Kept
    BY <1>5, Zenon
  <2> QED
    BY <1>1, <2>1, Zenon
<1>6. CASE TransferRevoke
  BY <1>6, DelegateHasAccess, Zenon
<1>7. \A p \in Phases : ~revoke_phase_grants(p)
  BY Zenon DEF revoke_phase_grants
<1> HIDE DEF Kept
<1> QED
  BY <1>2, <1>3, <1>4, <1>5, <1>6, <1>7, Zenon
  DEF Next, check_document_access, BeginTransfer, TransferFails, Tick

-----------------------------------------------------------------------------
\* The rows, the clock and the calls in progress keep their types, whatever the charter
\* declares and however many accesses overlap.
THEOREM GrantsTypeCorrect == Spec => []TypeOK
<1>1. GrantIInv => TypeOK
  BY Zenon DEF GrantIInv
<1> QED
  BY <1>1, GrantInitInv, GrantNextInv, PTL DEF Spec

\* transfer_phase_grants opens no gap: at every statement of a delegation, and wherever
\* it fails, the documents stay in reach of the user who delegates or of the delegate.
THEOREM NoGap == Spec => NoAccessGap
<1>1. GrantIInv /\ [Next]_vars =>
        [\A from, to \in Users, d \in {g.doc : g \in transfer.todo \cup transfer.done} :
          /\ from = transfer.from /\ to = transfer.to
          /\ HasAccess(from, d) \/ HasAccess(to, d)
          /\ now' = now /\ pending' = pending
          /\ \A i \in DOMAIN token : token[i].grantee = to => Usable(token[i])
          => HasAccess(from, d)' \/ HasAccess(to, d)']_vars
  <2> SUFFICES ASSUME GrantIInv, Next, NEW from \in Users, NEW to \in Users,
                      NEW d \in {g.doc : g \in transfer.todo \cup transfer.done},
                      from = transfer.from, to = transfer.to,
                      HasAccess(from, d) \/ HasAccess(to, d), now' = now, pending' = pending,
                      \A i \in DOMAIN token : token[i].grantee = to => Usable(token[i])
               PROVE  HasAccess(from, d)' \/ HasAccess(to, d)'
    BY Zenon
  <2> QED
    BY StepKeepsAccess, Zenon
<1> QED
  BY <1>1, GrantInitInv, GrantNextInv, PTL DEF Spec, NoAccessGap
=============================================================================
