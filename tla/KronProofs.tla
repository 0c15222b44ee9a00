---------------------------- MODULE KronProofs ------------------------------
(* kron's session and operations: the mail between the entities of a session is
   accounted for, and the dependency-aware executor respects dependencies, limit
   and error policy, for any number of entities and messages and for every graph.
   And the pool of policy engines accounts for its engines, for every size and any
   number of threads.                                                           *)
EXTENDS Exchange, OperationFlow, EnginePool, FiniteSetTheorems, TLAPS

Message == [sender : Owners, recipient : Owners \cup {Everyone}]

Box == [outbox : Seq(Nat), inbox : [Owners -> Seq(Nat)], items : SUBSET Nat]

ForOwner(o, m) == m.recipient = o \/ (m.recipient = Everyone /\ m.sender # o)

\* What is on its way, D, and what has arrived, A, of the messages S ever sent.
MailFact(S, A, D) ==
    /\ S \in Seq(Message)
    /\ A \subseteq Owners \X DOMAIN S
    /\ D \subseteq Owners \X DOMAIN S
    /\ D \cap A = {}
    /\ \A d \in D : ForOwner(d[1], S[d[2]])

\* The items of a mailbox are those it refers to.
ItemsFact(f) ==
    \A i : i \in f.items <=> i \in Range(f.outbox) \/ \E s \in Owners : i \in Range(f.inbox[s])

\* The mailbox f of owner o: what it still has to send nobody has been sent, and what
\* it holds for reading was addressed to o and has arrived.
BoxFact(o, f, S, A, D) ==
    /\ f \in Box
    /\ ItemsFact(f)
    /\ IsInjective(f.outbox)
    /\ \A i \in Range(f.outbox) : i \in DOMAIN S /\ S[i].sender = o
                                  /\ \A p \in Owners : <<p, i>> \notin A /\ <<p, i>> \notin D
    /\ \A s \in Owners :
        /\ IsInjective(f.inbox[s])
        /\ \A i \in Range(f.inbox[s]) : i \in DOMAIN S /\ S[i].sender = s
                                        /\ ForOwner(o, S[i]) /\ <<o, i>> \in A

\* The inductive invariant.
MailIInv ==
    /\ DOMAIN flows \subseteq Owners
    /\ MailFact(sent, arrived, inFlight)
    /\ \A o \in DOMAIN flows : BoxFact(o, flows[o], sent, arrived, inFlight)

-----------------------------------------------------------------------------
LEMMA EmptyQueue == Range(<<>>) = {} /\ IsInjective(<<>>) /\ <<>> \in Seq(Nat)
BY DEF Range, IsInjective

LEMMA Queued ==
    ASSUME NEW q \in Seq(Nat), NEW i \in Nat, IsInjective(q), i \notin Range(q)
    PROVE  /\ Append(q, i) \in Seq(Nat) /\ IsInjective(Append(q, i))
           /\ Range(Append(q, i)) = Range(q) \cup {i}
<1>1. /\ Append(q, i) \in Seq(Nat) /\ Len(q) \in Nat /\ DOMAIN q = 1..Len(q)
      /\ DOMAIN Append(q, i) = 1..(Len(q) + 1)
      /\ Append(q, i)[Len(q) + 1] = i /\ \A k \in 1..Len(q) : Append(q, i)[k] = q[k]
  OBVIOUS
<1>2. \A k \in 1..(Len(q) + 1) : k \in 1..Len(q) \/ k = Len(q) + 1
  BY <1>1
<1>3. Len(q) + 1 \in 1..(Len(q) + 1) /\ 1..Len(q) \subseteq 1..(Len(q) + 1)
  BY <1>1
<1> DEFINE a == Append(q, i)
<1> HIDE DEF a
<1>4. Range(a) = Range(q) \cup {i}
  BY <1>1, <1>2, <1>3, Zenon DEF Range, a
<1>5. IsInjective(a)
  <2> SUFFICES ASSUME NEW j \in 1..(Len(q) + 1), NEW k \in 1..(Len(q) + 1), a[j] = a[k] PROVE j = k
    BY <1>1, Zenon DEF IsInjective, a
  <2>1. \A x \in 1..Len(q) : a[x] = q[x] /\ q[x] # i
    BY <1>1, Zenon DEF a, Range
  <2>2. a[Len(q) + 1] = i
    BY <1>1, Zenon DEF a
  <2>3. CASE j \in 1..Len(q) /\ k \in 1..Len(q)
    BY <2>1, <2>3, <1>1, Zenon DEF IsInjective
  <2> QED
    BY <1>2, <2>1, <2>2, <2>3, Zenon
<1> QED
  BY <1>1, <1>4, <1>5, Zenon DEF a

LEMMA Unqueued ==
    ASSUME NEW q \in Seq(Nat), q # <<>>, IsInjective(q)
    PROVE  /\ Tail(q) \in Seq(Nat) /\ IsInjective(Tail(q))
           /\ Head(q) \in Range(q) /\ Range(Tail(q)) = Range(q) \ {Head(q)}
<1>1. /\ Len(q) \in Nat /\ Len(q) >= 1 /\ DOMAIN q = 1..Len(q) /\ Head(q) = q[1]
      /\ Tail(q) \in Seq(Nat) /\ DOMAIN Tail(q) = 1..(Len(q) - 1)
      /\ \A k \in 1..(Len(q) - 1) : Tail(q)[k] = q[k + 1]
  OBVIOUS
<1> DEFINE t == Tail(q)
           n == Len(q)
           h == Head(q)
<1>2. /\ n \in Nat /\ n >= 1 /\ DOMAIN q = 1..n /\ h = q[1] /\ DOMAIN t = 1..(n - 1)
      /\ \A k \in 1..(n - 1) : t[k] = q[k + 1]
  BY <1>1, Zenon
<1>3. \A j, k \in 1..n : q[j] = q[k] => j = k
  BY <1>2, Zenon DEF IsInjective
<1> HIDE DEF t, n, h
<1>4. /\ 1 \in 1..n /\ \A k \in 1..(n - 1) : k + 1 \in 1..n /\ k + 1 # 1
      /\ \A j \in 1..n : j # 1 => j - 1 \in 1..(n - 1) /\ (j - 1) + 1 = j
  BY <1>2
<1>5. \A j, k \in 1..(n - 1) : t[j] = t[k] => j = k
  BY <1>2, <1>3, <1>4
<1>6. h \in Range(q)
  BY <1>2, <1>4, Zenon DEF Range
<1>7. Range(t) = Range(q) \ {h}
  <2>1. ASSUME NEW x \in Range(t) PROVE x \in Range(q) \ {h}
    <3>1. PICK k \in 1..(n - 1) : x = t[k]
      BY <1>2, Zenon DEF Range
    <3>2. x = q[k + 1] /\ k + 1 \in 1..n /\ k + 1 # 1
      BY <3>1, <1>2, <1>4, Zenon
    <3> QED
      BY <3>2, <1>2, <1>3, <1>4, Zenon DEF Range
  <2>2. ASSUME NEW x \in Range(q), x # h PROVE x \in Range(t)
    <3>1. PICK j \in 1..n : x = q[j]
      BY <1>2, Zenon DEF Range
    <3>2. j # 1
      BY <3>1, <2>2, <1>2, Zenon
    <3>3. j - 1 \in 1..(n - 1) /\ t[j - 1] = x
      BY <3>1, <3>2, <1>2, <1>4, Zenon
    <3> QED
      BY <3>3, <1>2, Zenon DEF Range
  <2> QED
    BY <2>1, <2>2, Zenon
<1> QED
  BY <1>1, <1>2, <1>5, <1>6, <1>7, Zenon DEF t, h, IsInjective

-----------------------------------------------------------------------------
\* A mailbox nothing is done to stays what it was, as long as what it still has to send is
\* not sent by others.
LEMMA BoxKept ==
    ASSUME NEW o, NEW f, NEW S, NEW A, NEW D, NEW S2, NEW A2, NEW D2, BoxFact(o, f, S, A, D),
           DOMAIN S \subseteq DOMAIN S2, \A i \in DOMAIN S : S2[i] = S[i], A \subseteq A2,
           \A i \in Range(f.outbox) : \A p \in Owners : <<p, i>> \notin A2 /\ <<p, i>> \notin D2
    PROVE  BoxFact(o, f, S2, A2, D2)
<1>1. \A i \in Range(f.outbox) : i \in DOMAIN S2 /\ S2[i].sender = o
                                 /\ \A p \in Owners : <<p, i>> \notin A2 /\ <<p, i>> \notin D2
  BY Zenon DEF BoxFact
<1>2. \A s \in Owners : \A i \in Range(f.inbox[s]) :
          i \in DOMAIN S2 /\ S2[i].sender = s /\ ForOwner(o, S2[i]) /\ <<o, i>> \in A2
  <2> SUFFICES ASSUME NEW s \in Owners, NEW i \in Range(f.inbox[s])
               PROVE  i \in DOMAIN S2 /\ S2[i].sender = s /\ ForOwner(o, S2[i]) /\ <<o, i>> \in A2
    BY Zenon
  <2>1. i \in DOMAIN S /\ S[i].sender = s /\ ForOwner(o, S[i]) /\ <<o, i>> \in A
    BY Zenon DEF BoxFact
  <2>2. S2[i] = S[i]
    BY <2>1, Zenon
  <2> QED
    BY <2>1, <2>2, Zenon
<1> QED
  BY Zenon, <1>1, <1>2 DEF BoxFact

LEMMA NewBox == \A o, S, A, D : BoxFact(o, NewFlow, S, A, D)
<1> TAKE o, S, A, D
<1>1. /\ NewFlow.outbox = <<>> /\ NewFlow.items = {} /\ \A s \in Owners : NewFlow.inbox[s] = <<>>
      /\ NewFlow \in Box
  BY EmptyQueue, Zenon DEF NewFlow, Box
<1> QED
  BY <1>1, EmptyQueue, Zenon DEF BoxFact, ItemsFact

\* The owner o of mailbox f sends m: f becomes g, and the messages S become T.
Sends(o, f, g, S, T, m) ==
    /\ m \in Message /\ m.sender = o
    /\ T = Append(S, m)
    /\ g = [f EXCEPT !.outbox = Append(@, Len(S) + 1), !.items = @ \cup {Len(S) + 1}]

LEMMA BoxSends ==
    ASSUME NEW o \in Owners, NEW f, NEW g, NEW S, NEW T, NEW m, Sends(o, f, g, S, T, m),
           NEW A, NEW D, BoxFact(o, f, S, A, D), MailFact(S, A, D)
    PROVE  /\ BoxFact(o, g, T, A, D) /\ MailFact(T, A, D)
           /\ DOMAIN S \subseteq DOMAIN T /\ \A i \in DOMAIN S : T[i] = S[i]
<1> DEFINE n == Len(S) + 1
<1>0. m \in Message /\ m.sender = o /\ T = Append(S, m) /\ g = [f EXCEPT !.outbox = Append(@, n), !.items = @ \cup {n}]
  BY Zenon DEF Sends
<1>1. /\ n \in Nat /\ n \notin DOMAIN S /\ T \in Seq(Message) /\ n \in DOMAIN T /\ T[n] = m
      /\ DOMAIN S \subseteq DOMAIN T /\ \A i \in DOMAIN S : T[i] = S[i]
  BY <1>0 DEF MailFact
<1>2. f \in Box
  BY Zenon DEF BoxFact
<1>3. /\ g.outbox = Append(f.outbox, n) /\ g.inbox = f.inbox /\ g.items = f.items \cup {n}
      /\ f.outbox \in Seq(Nat)
  BY <1>0, <1>2, Zenon DEF Box
<1> HIDE DEF n
<1>4. n \notin Range(f.outbox) /\ IsInjective(f.outbox)
  BY <1>1, Zenon DEF BoxFact
<1>5. /\ Append(f.outbox, n) \in Seq(Nat) /\ IsInjective(Append(f.outbox, n))
      /\ Range(Append(f.outbox, n)) = Range(f.outbox) \cup {n}
  BY <1>1, <1>3, <1>4, Queued, Zenon
<1>6. g \in Box
  BY <1>0, <1>1, <1>2, <1>5, Zenon DEF Box
<1>7. ItemsFact(g)
  BY <1>3, <1>5, Zenon DEF BoxFact, ItemsFact
<1>8. \A p \in Owners : <<p, n>> \notin A /\ <<p, n>> \notin D
  BY <1>1, Zenon DEF MailFact
<1>9. BoxFact(o, f, T, A, D)
  BY <1>1, BoxKept DEF BoxFact
<1>10. BoxFact(o, g, T, A, D)
  BY <1>0, <1>1, <1>3, <1>5, <1>6, <1>7, <1>8, <1>9 DEF BoxFact
<1>11. MailFact(T, A, D)
  <2>1. A \subseteq Owners \X DOMAIN T /\ D \subseteq Owners \X DOMAIN T /\ D \cap A = {}
    BY <1>1, Zenon DEF MailFact
  <2>2. \A d \in D : d[2] \in DOMAIN S /\ ForOwner(d[1], S[d[2]])
    BY Zenon DEF MailFact
  <2>3. \A d \in D : ForOwner(d[1], T[d[2]])
    BY <1>1, <2>2, Zenon
  <2> QED
    BY <1>1, <2>1, <2>3, Zenon DEF MailFact
<1> QED
  BY <1>1, <1>10, <1>11, Zenon

LEMMA BoxCollected ==
    ASSUME NEW o \in Owners, NEW f, NEW S, NEW A, NEW D, NEW D2, BoxFact(o, f, S, A, D)
    PROVE  BoxFact(o, [f EXCEPT !.outbox = <<>>, !.items = @ \ Range(f.outbox)], S, A, D2)
<1> DEFINE g == [f EXCEPT !.outbox = <<>>, !.items = @ \ Range(f.outbox)]
<1>1. f \in Box
  BY Zenon DEF BoxFact
<1>2. /\ g.outbox = <<>> /\ g.inbox = f.inbox /\ g.items = f.items \ Range(f.outbox)
      /\ g \in Box
  BY <1>1, EmptyQueue, Zenon DEF Box
<1> HIDE DEF g
<1>3. ItemsFact(g)
  <2>1. ItemsFact(f)
    BY Zenon DEF BoxFact
  <2>2. \A s \in Owners : \A i \in Range(f.inbox[s]) : i \notin Range(f.outbox)
    BY Zenon DEF BoxFact
  <2> QED
    BY <1>2, <2>1, <2>2, EmptyQueue, Zenon DEF ItemsFact
<1>4. BoxFact(o, g, S, A, D2)
  BY <1>2, <1>3, EmptyQueue, Zenon DEF BoxFact
<1> QED
  BY <1>4, Zenon DEF g

LEMMA BoxDelivered ==
    ASSUME NEW r \in Owners, NEW i, NEW f, NEW S, NEW A, NEW D, <<r, i>> \in D,
           BoxFact(r, f, S, A, D), MailFact(S, A, D)
    PROVE  BoxFact(r, [f EXCEPT !.inbox[S[i].sender] = Append(@, i), !.items = @ \cup {i}],
                   S, A \cup {<<r, i>>}, D \ {<<r, i>>})
<1> DEFINE s0 == S[i].sender
           q == Append(f.inbox[s0], i)
           g == [f EXCEPT !.inbox[s0] = Append(@, i), !.items = @ \cup {i}]
           A2 == A \cup {<<r, i>>}
           D2 == D \ {<<r, i>>}
<1>1. /\ i \in DOMAIN S /\ i \in Nat /\ s0 \in Owners /\ <<r, i>> \notin A /\ ForOwner(r, S[i])
  <2>1. i \in DOMAIN S /\ <<r, i>> \notin A /\ S \in Seq(Message)
    BY Zenon DEF MailFact
  <2>2. i \in Nat /\ S[i] \in Message
    BY <2>1
  <2>3. ForOwner(<<r, i>>[1], S[<<r, i>>[2]])
    BY Zenon DEF MailFact
  <2> QED
    BY <2>1, <2>2, <2>3, Zenon DEF Message
<1>2. f \in Box
  BY Zenon DEF BoxFact
<1>3. /\ f.inbox \in [Owners -> Seq(Nat)] /\ f.inbox[s0] \in Seq(Nat)
      /\ i \notin Range(f.inbox[s0]) /\ IsInjective(f.inbox[s0])
  BY <1>1, <1>2, Zenon DEF BoxFact, Box
<1>4. q \in Seq(Nat) /\ IsInjective(q) /\ Range(q) = Range(f.inbox[s0]) \cup {i}
  BY <1>1, <1>3, Queued, Zenon
<1>5. /\ g.outbox = f.outbox /\ g.inbox = [f.inbox EXCEPT ![s0] = q] /\ g.items = f.items \cup {i}
  BY <1>1, <1>2, Zenon DEF Box
<1> HIDE DEF s0, q, A2, D2
<1>6. g \in Box
  BY <1>1, <1>2, <1>3, <1>4, Zenon DEF Box, q
<1> HIDE DEF g
<1>7. \A s \in Owners : g.inbox[s] = IF s = s0 THEN q ELSE f.inbox[s]
  BY <1>3, <1>5, Zenon
<1>8. ItemsFact(g)
  <2>1. \A s \in Owners : \A j : j \in Range(g.inbox[s]) <=> j \in Range(f.inbox[s]) \/ (s = s0 /\ j = i)
    BY <1>4, <1>7, Zenon
  <2> QED
    BY <1>1, <1>5, <2>1 DEF BoxFact, ItemsFact
<1>9. BoxFact(r, f, S, A2, D2)
  <2>1. \A j \in Range(f.outbox) : \A p \in Owners : <<p, j>> \notin A /\ <<p, j>> \notin D
    BY Zenon DEF BoxFact
  <2>2. \A j \in Range(f.outbox) : \A p \in Owners : <<p, j>> \notin A2 /\ <<p, j>> \notin D2
    BY <2>1, Zenon DEF A2, D2
  <2> QED
    BY <2>2, BoxKept, Zenon DEF A2
<1>10. /\ S[i].sender = s0 /\ <<r, i>> \in A2
       /\ \A j \in Range(f.inbox[s0]) : j \in DOMAIN S /\ S[j].sender = s0 /\ ForOwner(r, S[j]) /\ <<r, j>> \in A2
  BY <1>1, <1>9, Zenon DEF s0, A2, BoxFact
<1>11. \A s \in Owners :
        /\ IsInjective(g.inbox[s])
        /\ \A j \in Range(g.inbox[s]) : j \in DOMAIN S /\ S[j].sender = s
                                        /\ ForOwner(r, S[j]) /\ <<r, j>> \in A2
  <2> TAKE s \in Owners
  <2>1. CASE s = s0
    <3>1. g.inbox[s] = q
      BY <2>1, <1>7, Zenon
    <3> QED
      BY Zenon, <2>1, <3>1, <1>1, <1>4, <1>10
  <2>2. CASE s # s0
    BY <2>2, <1>7, <1>9, Zenon DEF BoxFact
  <2> QED
    BY <2>1, <2>2, Zenon
<1>12. BoxFact(r, g, S, A2, D2)
  BY <1>5, <1>6, <1>8, <1>9, <1>11, Zenon DEF BoxFact
<1> QED
  BY <1>12, Zenon DEF g, A2, D2, s0

LEMMA BoxPopped ==
    ASSUME NEW o \in Owners, NEW s0 \in Owners, NEW f, NEW S, NEW A, NEW D,
           BoxFact(o, f, S, A, D), f.inbox[s0] # <<>>
    PROVE  BoxFact(o, [f EXCEPT !.inbox[s0] = Tail(@), !.items = @ \ {Head(f.inbox[s0])}], S, A, D)
<1> DEFINE q == Tail(f.inbox[s0])
           h == Head(f.inbox[s0])
           g == [f EXCEPT !.inbox[s0] = Tail(@), !.items = @ \ {h}]
<1>1. f \in Box
  BY Zenon DEF BoxFact
<1>2. f.inbox \in [Owners -> Seq(Nat)] /\ f.inbox[s0] \in Seq(Nat) /\ IsInjective(f.inbox[s0])
  BY <1>1, Zenon DEF BoxFact, Box
<1>3. /\ q \in Seq(Nat) /\ IsInjective(q) /\ h \in Range(f.inbox[s0])
      /\ Range(q) = Range(f.inbox[s0]) \ {h}
  BY <1>2, Unqueued, Zenon
<1>4. /\ g.outbox = f.outbox /\ g.inbox = [f.inbox EXCEPT ![s0] = q] /\ g.items = f.items \ {h}
  BY <1>1, Zenon DEF Box
<1> HIDE DEF q, h
<1>5. g \in Box
  BY <1>1, <1>2, <1>3, Zenon DEF Box, q
<1> HIDE DEF g
<1>6. \A s \in Owners : g.inbox[s] = IF s = s0 THEN q ELSE f.inbox[s]
  BY <1>2, <1>4, Zenon
<1>7. h \notin Range(f.outbox) /\ \A s \in Owners : s # s0 => h \notin Range(f.inbox[s])
  <2>1. S[h].sender = s0 /\ <<o, h>> \in A
    BY <1>3, Zenon DEF BoxFact
  <2> QED
    BY <2>1, Zenon DEF BoxFact
<1>8. ItemsFact(g)
  <2>1. \A s \in Owners : \A j : j \in Range(g.inbox[s]) <=> j \in Range(f.inbox[s]) /\ j # h
    BY <1>3, <1>6, <1>7, Zenon
  <2> QED
    BY <1>4, <1>7, <2>1 DEF BoxFact, ItemsFact
<1>9. \A s \in Owners :
        /\ IsInjective(g.inbox[s])
        /\ \A j \in Range(g.inbox[s]) : j \in DOMAIN S /\ S[j].sender = s
                                        /\ ForOwner(o, S[j]) /\ <<o, j>> \in A
  BY <1>3, <1>6, Zenon DEF BoxFact
<1>10. BoxFact(o, g, S, A, D)
  BY <1>4, <1>5, <1>8, <1>9, Zenon DEF BoxFact
<1> QED
  BY <1>10, Zenon DEF g, h

-----------------------------------------------------------------------------
LEMMA MailInit == ExchangeInit => MailIInv
<1> SUFFICES ASSUME ExchangeInit PROVE MailIInv
  BY Zenon
<1>1. DOMAIN flows = {}
  BY DEF ExchangeInit
<1>2. MailFact(sent, arrived, inFlight)
  BY DEF ExchangeInit, MailFact
<1> QED
  BY <1>1, <1>2, Zenon DEF MailIInv

\* A step that puts the mailbox g in the place of o's, or makes it o's.
LEMMA Replaced ==
    ASSUME DOMAIN flows \subseteq Owners, NEW o \in Owners, NEW g, flows' = With(o, g),
           MailFact(sent', arrived', inFlight'), BoxFact(o, g, sent', arrived', inFlight'),
           \A p \in DOMAIN flows \ {o} : BoxFact(p, flows[p], sent', arrived', inFlight')
    PROVE  MailIInv'
<1>1. DOMAIN flows' = DOMAIN flows \cup {o}
      /\ \A p \in DOMAIN flows' : flows'[p] = IF p = o THEN g ELSE flows[p]
  BY Zenon DEF With, registered
<1>2. \A p \in DOMAIN flows' : BoxFact(p, flows'[p], sent', arrived', inFlight')
  BY <1>1, Zenon
<1> QED
  BY <1>1, <1>2, Zenon DEF MailIInv

\* A step that leaves the mailboxes and the mail alone.
LEMMA MailUntouched ==
    ASSUME MailIInv, UNCHANGED <<flows, sent, arrived, inFlight>>
    PROVE  MailIInv'
BY Zenon DEF MailIInv

LEMMA MailNext == MailIInv /\ [ExchangeNext]_exchangeVars => MailIInv'
<1> SUFFICES ASSUME MailIInv, [ExchangeNext]_exchangeVars PROVE MailIInv'
  BY Zenon
<1>0. /\ DOMAIN flows \subseteq Owners /\ MailFact(sent, arrived, inFlight)
      /\ \A p \in DOMAIN flows : BoxFact(p, flows[p], sent, arrived, inFlight)
  BY Zenon DEF MailIInv
<1>1. ASSUME NEW o \in Owners, register(o) PROVE MailIInv'
  <2>1. flows' = With(o, NewFlow) /\ UNCHANGED <<sent, arrived, inFlight>>
    BY <1>1, Zenon DEF register
  <2>2. BoxFact(o, NewFlow, sent', arrived', inFlight')
    BY NewBox, Zenon
  <2> QED
    BY <1>0, <2>1, <2>2, Replaced, Zenon
<1>2. ASSUME NEW o \in Owners, unregister(o) PROVE MailIInv'
  <2>1. /\ DOMAIN flows' = DOMAIN flows \ {o} /\ \A p \in DOMAIN flows' : flows'[p] = flows[p]
        /\ UNCHANGED <<sent, arrived, inFlight>>
    BY <1>2, Zenon DEF unregister, registered
  <2>2. \A p \in DOMAIN flows' : BoxFact(p, flows'[p], sent', arrived', inFlight')
    BY <1>0, <2>1, Zenon
  <2> QED
    BY <1>0, <2>1, <2>2, Zenon DEF MailIInv
<1>3. ASSUME NEW o \in Owners, NEW to \in Owners \cup {Everyone}, send(o, to) PROVE MailIInv'
  <2> DEFINE m == [sender |-> o, recipient |-> to]
             g == [flows[o] EXCEPT !.outbox = Append(@, Len(sent) + 1), !.items = @ \cup {Len(sent) + 1}]
  <2>1. m \in Message /\ m.sender = o
    BY Zenon DEF Message
  <2>2. /\ sent' = Append(sent, m) /\ flows' = With(o, g) /\ UNCHANGED <<arrived, inFlight>>
        /\ o \in DOMAIN flows
    BY <1>3, Zenon DEF send, registered
  <2>3. /\ BoxFact(o, g, sent', arrived, inFlight) /\ MailFact(sent', arrived, inFlight)
        /\ DOMAIN sent \subseteq DOMAIN sent' /\ \A i \in DOMAIN sent : sent'[i] = sent[i]
    <3>1. BoxFact(o, flows[o], sent, arrived, inFlight) /\ MailFact(sent, arrived, inFlight)
      BY <1>0, <2>2, Zenon
    <3>2. Sends(o, flows[o], g, sent, sent', m)
      BY <2>1, <2>2, Zenon DEF Sends
    <3> HIDE DEF g, m
    <3> QED
      BY <3>1, <3>2, BoxSends, Zenon
  <2> HIDE DEF g
  <2>4. \A p \in DOMAIN flows \ {o} : BoxFact(p, flows[p], sent', arrived, inFlight)
    <3> TAKE p \in DOMAIN flows \ {o}
    <3>1. BoxFact(p, flows[p], sent, arrived, inFlight)
      BY <1>0, Zenon
    <3>2. \A i \in Range(flows[p].outbox) : \A r \in Owners : <<r, i>> \notin arrived /\ <<r, i>> \notin inFlight
      BY <3>1, Zenon DEF BoxFact
    <3> QED
      BY <2>3, <3>1, <3>2, BoxKept, Zenon
  <2> QED
    BY <1>0, <2>2, <2>3, <2>4, Replaced, Zenon
<1>4. ASSUME NEW o \in Owners, NEW s \in Owners, pop_message(o, s) PROVE MailIInv'
  <2> DEFINE g == [flows[o] EXCEPT !.inbox[s] = Tail(@), !.items = @ \ {Head(flows[o].inbox[s])}]
  <2>1. /\ o \in DOMAIN flows /\ flows[o].inbox[s] # <<>> /\ flows' = With(o, g)
        /\ UNCHANGED <<sent, arrived, inFlight>>
    BY <1>4, Zenon DEF pop_message, registered
  <2>2. BoxFact(o, g, sent, arrived, inFlight)
    BY <1>0, <2>1, BoxPopped, Zenon
  <2> HIDE DEF g
  <2> QED
    BY <1>0, <2>1, <2>2, Replaced, Zenon
<1>5. CASE run \/ stop \/ BeginPass
  BY <1>5, MailUntouched, Zenon DEF run, stop, BeginPass
<1>6. CASE CollectNext
  <2> DEFINE o == Head(toCollect)
             out == Range(flows[o].outbox)
             g == [flows[o] EXCEPT !.outbox = <<>>, !.items = @ \ out]
  <2>1. CASE o \notin registered
    BY <1>6, <2>1, MailUntouched, Zenon DEF CollectNext
  <2>2. CASE o \in registered
    <3>1. /\ flows' = With(o, g) /\ UNCHANGED <<sent, arrived>> /\ inFlight = {}
          /\ inFlight' = {d \in Owners \X out : d[1] \in Recipients(o, d[2])}
          /\ o \in Owners /\ o \in DOMAIN flows
      BY <1>0, <1>6, <2>2, Zenon DEF CollectNext, collect, registered
    <3>2. BoxFact(o, flows[o], sent, arrived, inFlight)
      BY <1>0, <3>1, Zenon
    <3> HIDE DEF o
    <3>3. BoxFact(o, g, sent, arrived, inFlight')
      BY <3>1, <3>2, BoxCollected, Zenon
    <3> HIDE DEF g
    <3>4. \A i \in out : i \in DOMAIN sent /\ sent[i].sender = o /\ \A p \in Owners : <<p, i>> \notin arrived
      BY <3>2, Zenon DEF BoxFact
    <3>5. \A d \in inFlight' : d = <<d[1], d[2]>> /\ d[1] \in Owners /\ d[2] \in out /\ d[1] \in Recipients(o, d[2])
      BY <3>1
    <3> HIDE DEF out
    <3>6. MailFact(sent, arrived, inFlight')
      <4>1. inFlight' \subseteq Owners \X DOMAIN sent
        BY <3>4, <3>5
      <4>2. inFlight' \cap arrived = {}
        BY <3>4, <3>5, Zenon
      <4>3. \A d \in inFlight' : ForOwner(d[1], sent[d[2]])
        BY <3>4, <3>5, Zenon DEF ForOwner, Recipients
      <4> QED
        BY <1>0, <4>1, <4>2, <4>3, Zenon DEF MailFact
    <3>7. \A p \in DOMAIN flows \ {o} : BoxFact(p, flows[p], sent, arrived, inFlight')
      <4> TAKE p \in DOMAIN flows \ {o}
      <4>1. BoxFact(p, flows[p], sent, arrived, inFlight)
        BY <1>0, Zenon
      <4>2. \A i \in Range(flows[p].outbox) : sent[i].sender = p /\ \A r \in Owners : <<r, i>> \notin arrived
        BY <4>1, Zenon DEF BoxFact
      <4>3. \A i \in Range(flows[p].outbox) : \A r \in Owners : <<r, i>> \notin inFlight'
        BY <4>2, <3>4, <3>5, Zenon
      <4> QED
        BY <4>1, <4>2, <4>3, BoxKept, Zenon
    <3> QED
      BY <1>0, <3>1, <3>3, <3>6, <3>7, Replaced, Zenon
  <2> QED
    BY <2>1, <2>2, Zenon
<1>7. ASSUME NEW r \in Owners, NEW i, _deliver_to(r, i) PROVE MailIInv'
  <2> DEFINE g == [flows[r] EXCEPT !.inbox[sent[i].sender] = Append(@, i), !.items = @ \cup {i}]
  <2>1. <<r, i>> \in inFlight /\ inFlight' = inFlight \ {<<r, i>>} /\ UNCHANGED sent
    BY <1>7, Zenon DEF _deliver_to
  <2>2. CASE r \notin registered
    <3>1. UNCHANGED <<flows, arrived>>
      BY <1>7, <2>2, Zenon DEF _deliver_to
    <3>2. MailFact(sent, arrived, inFlight')
      BY <1>0, <2>1, Zenon DEF MailFact
    <3>3. \A p \in DOMAIN flows : BoxFact(p, flows[p], sent, arrived, inFlight')
      BY <1>0, <2>1, Zenon DEF BoxFact
    <3> QED
      BY <1>0, <2>1, <3>1, <3>2, <3>3, Zenon DEF MailIInv
  <2>3. CASE r \in registered
    <3>1. flows' = With(r, g) /\ arrived' = arrived \cup {<<r, i>>} /\ r \in DOMAIN flows
      BY <1>7, <2>3, Zenon DEF _deliver_to, registered
    <3>2. BoxFact(r, g, sent, arrived', inFlight')
      BY <1>0, <2>1, <3>1, BoxDelivered, Zenon
    <3> HIDE DEF g
    <3>3. MailFact(sent, arrived', inFlight')
      BY <1>0, <2>1, <3>1, Zenon DEF MailFact
    <3>4. \A p \in DOMAIN flows \ {r} : BoxFact(p, flows[p], sent, arrived', inFlight')
      <4> TAKE p \in DOMAIN flows \ {r}
      <4>1. BoxFact(p, flows[p], sent, arrived, inFlight)
        BY <1>0, Zenon
      <4>2. \A j \in Range(flows[p].outbox) : \A x \in Owners : <<x, j>> \notin arrived /\ <<x, j>> \notin inFlight
        BY <4>1, Zenon DEF BoxFact
      <4>3. \A j \in Range(flows[p].outbox) : \A x \in Owners : <<x, j>> \notin arrived' /\ <<x, j>> \notin inFlight'
        BY <4>2, <2>1, <3>1, Zenon
      <4> QED
        BY <3>1, <4>1, <4>3, BoxKept, Zenon
    <3> QED
      BY <1>0, <2>1, <3>1, <3>2, <3>3, <3>4, Replaced, Zenon
  <2> QED
    BY <2>2, <2>3, Zenon
<1>8. CASE UNCHANGED exchangeVars
  BY <1>8, MailUntouched, Zenon DEF exchangeVars
<1> QED
  BY <1>1, <1>2, <1>3, <1>4, <1>5, <1>6, <1>7, <1>8, Zenon DEF ExchangeNext, LoopStep

(* The mail of a session is neither lost track of, misdirected nor delivered twice, for any
   number of entities and messages, whoever registers, leaves, sends and reads while
   collect() delivers: the items of every mailbox are those its outbox and inboxes refer to,
   each once; what is delivered was addressed to its reader and lies with its sender; and a
   delivered message is neither on its way again nor left in an outbox.                  *)
THEOREM MailIsAccounted == ExchangeSpec => []MailAccounted
<1>1. MailIInv => MailAccounted
  <2> SUFFICES ASSUME MailIInv PROVE MailAccounted
    BY Zenon
  <2>0. /\ DOMAIN flows \subseteq Owners /\ MailFact(sent, arrived, inFlight)
        /\ \A p \in DOMAIN flows : BoxFact(p, flows[p], sent, arrived, inFlight)
    BY Zenon DEF MailIInv
  <2>1. MailboxesConsistent
    <3> SUFFICES ASSUME NEW o \in DOMAIN flows
                 PROVE  /\ flows[o].items = Range(flows[o].outbox) \cup UNION {Range(flows[o].inbox[s]) : s \in Owners}
                        /\ IsInjective(flows[o].outbox)
                        /\ \A s \in Owners : /\ IsInjective(flows[o].inbox[s])
                                             /\ Range(flows[o].inbox[s]) \cap Range(flows[o].outbox) = {}
      BY Zenon DEF MailboxesConsistent, registered
    <3>1. BoxFact(o, flows[o], sent, arrived, inFlight) /\ o \in Owners
      BY <2>0, Zenon
    <3>2. \A s \in Owners : \A i \in Range(flows[o].inbox[s]) : i \notin Range(flows[o].outbox)
      BY <3>1, Zenon DEF BoxFact
    <3>3. flows[o].items = Range(flows[o].outbox) \cup UNION {Range(flows[o].inbox[s]) : s \in Owners}
      BY <3>1 DEF BoxFact, ItemsFact
    <3> QED
      BY <3>1, <3>2, <3>3, Zenon DEF BoxFact
  <2>2. DeliveredAsAddressed
    <3>1. \A d \in inFlight : AddressedTo(d[1], d[2])
      BY <2>0, Zenon DEF MailFact, ForOwner, AddressedTo
    <3>2. ASSUME NEW o \in Owners, NEW s \in Owners, NEW i \in receive(o, s)
          PROVE  AddressedTo(o, i) /\ sent[i].sender = s
      <4>1. o \in DOMAIN flows /\ i \in Range(flows[o].inbox[s])
        BY <3>2, Zenon DEF receive, registered
      <4>2. BoxFact(o, flows[o], sent, arrived, inFlight)
        BY <2>0, <4>1, Zenon
      <4>3. sent[i].sender = s /\ ForOwner(o, sent[i])
        BY <4>1, <4>2, Zenon DEF BoxFact
      <4> QED
        BY <4>3, Zenon DEF ForOwner, AddressedTo
    <3> QED
      BY <3>1, <3>2, Zenon DEF DeliveredAsAddressed
  <2>3. DeliveredOnce
    <3> SUFFICES ASSUME NEW a \in arrived
                 PROVE  a \notin inFlight /\ \A o \in DOMAIN flows : a[2] \notin Range(flows[o].outbox)
      BY Zenon DEF DeliveredOnce, registered
    <3>1. a \notin inFlight /\ a = <<a[1], a[2]>> /\ a[1] \in Owners
      BY <2>0 DEF MailFact
    <3>2. ASSUME NEW o \in DOMAIN flows, a[2] \in Range(flows[o].outbox) PROVE FALSE
      <4>1. BoxFact(o, flows[o], sent, arrived, inFlight)
        BY <2>0, Zenon
      <4>2. <<a[1], a[2]>> \notin arrived
        BY <3>1, <3>2, <4>1, Zenon DEF BoxFact
      <4> QED
        BY <3>1, <4>2, Zenon
    <3> QED
      BY <3>1, <3>2, Zenon
  <2> QED
    BY <2>1, <2>2, <2>3, Zenon DEF MailAccounted
<1> QED
  BY <1>1, MailInit, MailNext, PTL DEF ExchangeSpec

-----------------------------------------------------------------------------
Settled == results \cup errors

\* What is known of one operation from the place of its task.
TaskInv(o) ==
    /\ pc[o] \in {"acquire", "invoke", "run"} => Preds[o] \subseteq Settled
    /\ o \in Settled => pc[o] \in {"send", "ended"}
    /\ pc[o] = "send" => o \in Settled
    /\ o \in stream \cup received => pc[o] = "ended" /\ o \in Settled
    /\ ~(o \in results /\ o \in errors)
    /\ o \in holding => pc[o] \in {"invoke", "run"}
    /\ Limit > 0 /\ pc[o] \in {"invoke", "run"} => o \in holding
    /\ group \in {"returned", "raised"} => pc[o] = "ended"

\* The events of a group that is not being cancelled come from settled operations.
GroupInv == group = "running" => events \subseteq Settled

SlotInv == Limit > 0 => Cardinality(holding) <= Limit

\* The inductive invariant.
IInv == TypeOK /\ (\A o \in Ops : TaskInv(o)) /\ GroupInv /\ SlotInv

-----------------------------------------------------------------------------

LEMMA InitIInv == Init => IInv
<1> SUFFICES ASSUME Init PROVE IInv
  BY Zenon
<1>1. TypeOK
  BY Zenon DEF Init, TypeOK, Labels
<1>2. (\A o \in Ops : TaskInv(o)) /\ GroupInv
  BY Zenon DEF Init, TaskInv, GroupInv, Settled
<1>3. SlotInv
  BY FS_EmptySet, FlowAssumption DEF Init, SlotInv
<1> QED
  BY <1>1, <1>2, <1>3, Zenon DEF IInv

\* Slots are only taken by Acquire, and only below the limit.
LEMMA FewerSlots ==
    ASSUME TypeOK, SlotInv, holding' \subseteq holding
    PROVE  SlotInv'
<1>1. IsFiniteSet(holding)
  BY FS_Subset, FlowAssumption, Zenon DEF TypeOK
<1>2. Cardinality(holding') <= Cardinality(holding)
  BY <1>1, FS_Subset, Zenon
<1>3. Cardinality(holding) \in Nat /\ Cardinality(holding') \in Nat
  BY <1>1, FS_Subset, FS_CardinalityType, Zenon
<1> QED
  BY <1>2, <1>3, FlowAssumption DEF SlotInv

LEMMA OneMoreSlot ==
    ASSUME TypeOK, NEW o \in Ops, Acquire(o)
    PROVE  SlotInv'
<1>1. IsFiniteSet(holding)
  BY FS_Subset, FlowAssumption, Zenon DEF TypeOK
<1>2. \/ Cardinality(holding \cup {o}) = Cardinality(holding)
      \/ Cardinality(holding \cup {o}) = Cardinality(holding) + 1
  BY <1>1, FS_AddElement, Zenon
<1>3. Cardinality(holding) \in Nat
  BY <1>1, FS_CardinalityType, Zenon
<1>4. Cardinality(holding) < Limit /\ holding' = holding \cup {o}
  BY Zenon DEF Acquire
<1> QED
  BY <1>2, <1>3, <1>4, FlowAssumption DEF SlotInv

\* A task that moves on without settling.
LEMMA MoveStep ==
    ASSUME IInv, NEW o \in Ops,
           WaitForDependencies(o) \/ Acquire(o) \/ Send(o) \/ Receive(o), UNCHANGED noBranch
    PROVE  IInv'
<1>1. TypeOK'
  BY Zenon DEF IInv, TypeOK, Labels, WaitForDependencies, Acquire, Send, Receive, Goto
<1>2. ASSUME NEW x \in Ops PROVE TaskInv(x)'
  <2>1. CASE WaitForDependencies(o)
    BY <2>1 DEF IInv, TypeOK, TaskInv, GroupInv, Settled, WaitForDependencies, Goto
  <2>2. CASE Acquire(o)
    BY <2>2, Zenon DEF IInv, TypeOK, TaskInv, Settled, Acquire, Goto
  <2>3. CASE Send(o)
    BY <2>3, Zenon DEF IInv, TypeOK, TaskInv, Settled, Send, Goto
  <2>4. CASE Receive(o)
    BY <2>4 DEF IInv, TypeOK, TaskInv, Settled, Receive
  <2> QED
    BY <2>1, <2>2, <2>3, <2>4, Zenon
<1>3. GroupInv'
  BY Zenon DEF IInv, GroupInv, Settled, WaitForDependencies, Acquire, Send, Receive
<1>4. SlotInv'
  <2>1. CASE Acquire(o)
    BY <2>1, OneMoreSlot, Zenon DEF IInv
  <2>2. CASE WaitForDependencies(o) \/ Send(o) \/ Receive(o)
    BY <2>2, FewerSlots, Zenon DEF IInv, WaitForDependencies, Send, Receive
  <2> QED
    BY <2>1, <2>2, Zenon
<1> QED
  BY <1>1, <1>2, <1>3, <1>4, Zenon DEF IInv

\* A task that is past its dependencies and not settled stores its outcome.
LEMMA SettleStep ==
    ASSUME IInv, NEW o \in Ops, NEW ok \in BOOLEAN, Settle(o, ok), UNCHANGED noBranch,
           pc[o] \in {"invoke", "run"},
           status' \in [Ops -> {"pending", "processing", "completed", "failed", "cancelled"}]
    PROVE  IInv'
<1>1. TypeOK'
  BY Zenon DEF IInv, TypeOK, Labels, Settle, Goto
<1>2. Settled' = Settled \cup {o}
  BY Zenon DEF Settle, Settled
<1>3. ASSUME NEW x \in Ops PROVE TaskInv(x)'
  <2>1. CASE x = o
    BY <1>2, <2>1, Zenon DEF IInv, TypeOK, TaskInv, Settle, Goto, Settled
  <2>2. CASE x # o
    BY <1>2, <2>2, Zenon DEF IInv, TypeOK, TaskInv, Settle, Goto, Settled
  <2> QED
    BY <2>1, <2>2, Zenon
<1>4. GroupInv'
  BY <1>2, Zenon DEF IInv, GroupInv, Settle
<1>5. SlotInv'
  BY FewerSlots, Zenon DEF IInv, Settle
<1> QED
  BY <1>1, <1>3, <1>4, <1>5, Zenon DEF IInv

LEMMA InvokeStep ==
    ASSUME IInv, NEW o \in Ops, UNCHANGED noBranch,
           \/ BeginInvoke(o)
           \/ \E s \in {"completed", "failed", "cancelled"} : FinishInvoke(o, s)
    PROVE  IInv'
<1>1. CASE pc[o] = "invoke" /\ Fail(o)
  <2>1. TypeOK'
    BY <1>1, Zenon DEF IInv, TypeOK, Labels, Fail, Goto
  <2>2. Settled' = Settled \cup {o}
    BY <1>1, Zenon DEF Fail, Settled
  <2>3. ASSUME NEW x \in Ops PROVE TaskInv(x)'
    <3>1. CASE x = o
      BY <1>1, <2>2, <3>1, Zenon DEF IInv, TypeOK, TaskInv, Fail, Goto, Settled
    <3>2. CASE x # o
      BY <1>1, <2>2, <3>2, Zenon DEF IInv, TypeOK, TaskInv, Fail, Goto, Settled
    <3> QED
      BY <3>1, <3>2, Zenon
  <2>4. GroupInv'
    BY <1>1, <2>2, Zenon DEF IInv, GroupInv, Fail
  <2>5. SlotInv'
    BY <1>1, FewerSlots, Zenon DEF IInv, Fail
  <2> QED
    BY <2>1, <2>3, <2>4, <2>5, Zenon DEF IInv
<1>2. CASE /\ pc[o] = "invoke"
           /\ status' = [status EXCEPT ![o] = "processing"]
           /\ Goto(o, "run")
           /\ UNCHANGED <<results, errors, events, holding, stream, received, group>>
  <2>1. TypeOK'
    BY <1>2, Zenon DEF IInv, TypeOK, Labels, Goto
  <2>2. ASSUME NEW x \in Ops PROVE TaskInv(x)'
    BY <1>2, Zenon DEF IInv, TypeOK, TaskInv, Goto, Settled
  <2>3. GroupInv'
    BY <1>2, Zenon DEF IInv, GroupInv, Settled
  <2>4. SlotInv'
    BY <1>2, FewerSlots, Zenon DEF IInv
  <2> QED
    BY <2>1, <2>2, <2>3, <2>4, Zenon DEF IInv
<1>3. CASE pc[o] = "invoke" /\ Settle(o, status[o] = "completed") /\ UNCHANGED status
  <2>1. (status[o] = "completed") \in BOOLEAN
    BY Zenon
  <2>2. status' \in [Ops -> {"pending", "processing", "completed", "failed", "cancelled"}]
    BY <1>3, Zenon DEF IInv, TypeOK
  <2> QED
    BY <1>3, <2>1, <2>2, SettleStep, Zenon
<1>4. ASSUME NEW s \in {"completed", "failed", "cancelled"}, FinishInvoke(o, s)
      PROVE  IInv'
  <2>1. (s = "completed") \in BOOLEAN
    BY Zenon
  <2>2. status' \in [Ops -> {"pending", "processing", "completed", "failed", "cancelled"}]
    BY <1>4, Zenon DEF IInv, TypeOK, FinishInvoke
  <2> QED
    BY <1>4, <2>1, <2>2, SettleStep, Zenon DEF FinishInvoke
<1> QED
  BY <1>1, <1>2, <1>3, <1>4, Zenon DEF BeginInvoke

LEMMA CancelStep ==
    ASSUME IInv, NEW o \in Ops, Cancelled(o), UNCHANGED noBranch
    PROVE  IInv'
<1>1. TypeOK'
  BY Zenon DEF IInv, TypeOK, Labels, Cancelled, Goto
<1>2. ASSUME NEW x \in Ops PROVE TaskInv(x)'
  BY Zenon DEF IInv, TypeOK, TaskInv, Cancelled, Goto, Settled
<1>3. GroupInv'
  BY Zenon DEF IInv, GroupInv, Cancelled
<1>4. SlotInv'
  BY FewerSlots, Zenon DEF IInv, Cancelled
<1> QED
  BY <1>1, <1>2, <1>3, <1>4, Zenon DEF IInv

LEMMA ExitStep == ASSUME IInv, Exit PROVE IInv'
<1>1. TypeOK'
  BY Zenon DEF IInv, TypeOK, Exit
<1>2. ASSUME NEW x \in Ops PROVE TaskInv(x)'
  BY Zenon DEF IInv, TypeOK, TaskInv, Exit, Settled
<1>3. GroupInv'
  BY Zenon DEF IInv, GroupInv, Exit
<1>4. SlotInv'
  BY FewerSlots, Zenon DEF IInv, Exit
<1> QED
  BY <1>1, <1>2, <1>3, <1>4, Zenon DEF IInv

LEMMA NextIInv == IInv /\ [Next]_vars => IInv'
<1> SUFFICES ASSUME IInv, [Next]_vars PROVE IInv'
  BY Zenon
<1>1. CASE UNCHANGED vars
  <2>1. TypeOK' /\ GroupInv'
    BY <1>1, Zenon DEF IInv, vars, TypeOK, GroupInv, Settled
  <2>2. ASSUME NEW x \in Ops PROVE TaskInv(x)'
    BY <1>1, Zenon DEF IInv, vars, TaskInv, Settled
  <2>3. SlotInv'
    BY <1>1, FewerSlots, Zenon DEF IInv, vars
  <2> QED
    BY <2>1, <2>2, <2>3, Zenon DEF IInv
<1>2. CASE Next
  BY <1>2, MoveStep, InvokeStep, CancelStep, ExitStep, Zenon DEF Next, Step
<1> QED
  BY <1>1, <1>2, Zenon

LEMMA InductiveInvariant == Spec => []IInv
BY InitIInv, NextIInv, PTL DEF Spec

-----------------------------------------------------------------------------

\* The executor's bookkeeping stays within the operations of the graph.
THEOREM TypeCorrect == Spec => []TypeOK
<1>1. IInv => TypeOK
  BY Zenon DEF IInv
<1> QED
  BY <1>1, InductiveInvariant, PTL

\* Whatever the DAG, the limit and the failures, _execute_operation never invokes an
\* operation before its predecessors have left a result or an error.
THEOREM PredecessorsFirst == Spec => []InvokedAfterPredecessors
<1>1. IInv => InvokedAfterPredecessors
  BY Zenon DEF IInv, TaskInv, InvokedAfterPredecessors, Settled
<1> QED
  BY <1>1, InductiveInvariant, PTL

\* The CapacityLimiter bounds the running operations and gets its slots back.
THEOREM LimitRespected == Spec => []ConcurrencyLimit
<1>1. IInv => ConcurrencyLimit
  <2> SUFFICES ASSUME IInv PROVE ConcurrencyLimit
    BY Zenon
  <2> DEFINE running == {o \in Ops : pc[o] = "run"}
  <2>1. IsFiniteSet(holding)
    BY FS_Subset, FlowAssumption, Zenon DEF IInv, TypeOK
  <2>2. ASSUME Limit > 0 PROVE Cardinality(running) <= Limit
    <3>1. running \subseteq holding
      BY <2>2, Zenon DEF IInv, TaskInv
    <3>2. /\ Cardinality(running) <= Cardinality(holding)
          /\ Cardinality(running) \in Nat /\ Cardinality(holding) \in Nat
      BY <2>1, <3>1, FS_Subset, FS_CardinalityType, Zenon
    <3> QED
      BY <2>2, <3>2, FlowAssumption DEF IInv, SlotInv
  <2>3. group \in {"returned", "raised"} => holding = {}
    BY Zenon DEF IInv, TaskInv, TypeOK
  <2> QED
    BY <2>2, <2>3, Zenon DEF ConcurrencyLimit
<1> QED
  BY <1>1, InductiveInvariant, PTL

\* flow() returns only when every operation has a result or an error, and not both.
THEOREM AllSettled == Spec => []EveryOperationSettled
<1>1. IInv /\ (group = "returned" => received = Ops) => EveryOperationSettled
  BY Zenon DEF IInv, TaskInv, TypeOK, EveryOperationSettled, Settled
<1>2. Init => (group = "returned" => received = Ops)
  BY Zenon DEF Init
<1>3. IInv /\ (group = "returned" => received = Ops) /\ [Next]_vars
         => (group = "returned" => received = Ops)'
  <2> SUFFICES ASSUME IInv, group = "returned" => received = Ops, [Next]_vars,
                      group' = "returned"
               PROVE  received' = Ops
    BY Zenon
  <2>1. CASE UNCHANGED vars
    BY <2>1, Zenon DEF vars
  <2>2. CASE Exit
    BY <2>2, Zenon DEF Exit
  <2>3. ASSUME NEW o \in Ops, Step(o) PROVE received' = Ops
    BY <2>3, Zenon DEF Step, WaitForDependencies, Acquire, BeginInvoke, Fail, Settle, FinishInvoke,
                Send, Cancelled, Receive
  <2> QED
    BY <2>1, <2>2, <2>3, Zenon DEF Next
<1> QED
  BY <1>1, <1>2, <1>3, InductiveInvariant, PTL DEF Spec

\* The three facts together: a flow keeps to its dependencies and its limit and leaves nothing
\* open (FlowSafe), for every graph of operations, every limit and every choice of failures.
THEOREM FlowIsSafe == Spec => []FlowSafe
<1>1. InvokedAfterPredecessors /\ ConcurrencyLimit /\ EveryOperationSettled => FlowSafe
  BY Zenon DEF FlowSafe
<1> QED
  BY <1>1, PredecessorsFirst, LimitRespected, AllSettled, PTL

-----------------------------------------------------------------------------
(* The pool of policy engines.                                               *)

Engines == SUBSET (RegoFiles \cup {"no engine"})

TakenOut == {"taken", "using", "clean", "returning", "poisoned"}

Counted == {"using", "clean", "returning", "poisoned"}

PoolTypes ==
    /\ rego \subseteq RegoFiles /\ pending \subseteq RegoFiles
    /\ available \in Seq(Engines) /\ drained \in Seq(Engines)
    /\ totalEngines \in Int /\ checkedOut \in Int /\ dropped \in Int
    /\ stage \in [Borrowers -> {"idle", "refused"} \cup TakenOut]
    /\ inHand \in [Borrowers -> Engines]

AddsAFile == adding \in RegoFiles \cup {""}

\* Nothing happens before the pool is filled: that is why filling it starts the count.
NotFilled ==
    ~initialized => /\ Len(available) = 0 /\ Len(drained) = 0 /\ dropped = 0
                    /\ adding = "" /\ \A b \in Borrowers : stage[b] = "idle"

\* The inductive invariant.
PoolIInv == PoolTypes /\ AddsAFile /\ NotFilled /\ EnginesAccounted

-----------------------------------------------------------------------------
LEMMA HoldingFinite == \A S : IsFiniteSet(Holding(S)) /\ Cardinality(Holding(S)) \in Nat
<1> TAKE S
<1>1. Holding(S) \subseteq Borrowers
  BY Zenon DEF Holding
<1> QED
  BY <1>1, PoolAssumption, FS_Subset, FS_CardinalityType, Zenon

One(x, S) == IF x \in S THEN 1 ELSE 0

\* One thread moves: who holds an engine changes by that thread.
Counts(S, b, x) ==
    Cardinality(Holding(S)') = Cardinality(Holding(S)) + One(x, S) - One(stage[b], S)

LEMMA MoveCounts ==
    ASSUME PoolTypes, NEW b \in Borrowers, NEW x, stage' = [stage EXCEPT ![b] = x], NEW S
    PROVE  Counts(S, b, x)
<1> DEFINE H == Holding(S)
<1>1. IsFiniteSet(H) /\ Cardinality(H) \in Nat
  BY HoldingFinite, Zenon
<1>2. \A c \in Borrowers : stage'[c] = IF c = b THEN x ELSE stage[c]
  BY Zenon DEF PoolTypes
<1>3. b \in H <=> stage[b] \in S
  BY Zenon DEF Holding
<1>4. CASE x \in S
  <2>1. Holding(S)' = H \cup {b}
    BY <1>2, <1>4, Zenon DEF Holding
  <2>2. Cardinality(H \cup {b}) = IF b \in H THEN Cardinality(H) ELSE Cardinality(H) + 1
    BY <1>1, FS_AddElement, Zenon
  <2> HIDE DEF H
  <2> QED
    BY <1>1, <1>3, <1>4, <2>1, <2>2 DEF Counts, H, One
<1>5. CASE x \notin S
  <2>1. Holding(S)' = H \ {b}
    BY <1>2, <1>5, Zenon DEF Holding
  <2>2. Cardinality(H \ {b}) = IF b \in H THEN Cardinality(H) - 1 ELSE Cardinality(H)
    BY <1>1, FS_RemoveElement, Zenon
  <2> HIDE DEF H
  <2> QED
    BY <1>1, <1>3, <1>5, <2>1, <2>2 DEF Counts, H, One
<1> QED
  BY <1>4, <1>5, Zenon

LEMMA AccountedAs ==
    EnginesAccounted <=> /\ totalEngines = Len(available) + Len(drained) + dropped + Cardinality(Holding(TakenOut))
                         /\ checkedOut = Cardinality(Holding(Counted))
                         /\ totalEngines <= PoolSize
BY Zenon DEF EnginesAccounted, TakenOut, Counted

LEMMA AccountedAsPrimed ==
    EnginesAccounted' <=> /\ totalEngines' = Len(available') + Len(drained') + dropped' + Cardinality(Holding(TakenOut)')
                          /\ checkedOut' = Cardinality(Holding(Counted)')
                          /\ totalEngines' <= PoolSize
BY Zenon DEF EnginesAccounted, TakenOut, Counted

LEMMA SequenceLengths ==
    \A s \in Seq(Engines) : /\ Len(s) \in Nat
                            /\ s # <<>> => Tail(s) \in Seq(Engines) /\ Len(Tail(s)) = Len(s) - 1 /\ Head(s) \in Engines
                            /\ \A e \in Engines : Append(s, e) \in Seq(Engines) /\ Len(Append(s, e)) = Len(s) + 1
                            /\ s = <<>> => Len(s) = 0
OBVIOUS

LEMMA EmptyPoolQueue == <<>> \in Seq(Engines) /\ Len(<<>>) = 0
OBVIOUS

\* The pool is filled: PoolSize engines, all in the queue.
LEMMA InitializeKeeps == PoolIInv /\ initialize => PoolIInv'
<1> SUFFICES ASSUME PoolIInv, initialize PROVE PoolIInv'
  BY Zenon
<1>1. PICK found \in SUBSET RegoFiles :
        rego' = rego \cup found /\ available' = [i \in 1..PoolSize |-> (rego \cup found) \ Invalid]
  BY Zenon DEF initialize
<1>2. /\ ~initialized /\ initialized' = TRUE /\ totalEngines' = PoolSize
      /\ UNCHANGED <<pending, checkedOut, stage, inHand, threadEngine, adding, drained, dropped>>
  BY Zenon DEF initialize
<1>3. (rego \cup found) \ Invalid \in Engines
  BY Zenon DEF PoolIInv, PoolTypes, Engines
<1>4. available' \in [1..PoolSize -> Engines]
  BY <1>1, <1>3, Zenon
<1>5. available' \in Seq(Engines) /\ Len(available') = PoolSize
  BY <1>4, PoolAssumption
<1>6. PoolTypes'
  <2>1. rego' \subseteq RegoFiles
    BY <1>1, Zenon DEF PoolIInv, PoolTypes
  <2> QED
    BY <1>2, <1>5, <2>1, PoolAssumption DEF PoolIInv, PoolTypes
<1>7. Holding(TakenOut) = {} /\ Holding(Counted) = {}
  BY <1>2, Zenon DEF PoolIInv, NotFilled, Holding, TakenOut, Counted
<1>8. Holding(TakenOut)' = {} /\ Holding(Counted)' = {}
  BY <1>2, <1>7, Zenon DEF Holding
<1>9. Len(drained') = 0 /\ dropped' = 0 /\ checkedOut' = 0
  BY <1>2, <1>7, AccountedAs, FS_EmptySet, Zenon DEF PoolIInv, NotFilled
<1>10. EnginesAccounted'
  BY <1>2, <1>5, <1>8, <1>9, AccountedAsPrimed, FS_EmptySet, PoolAssumption
<1> QED
  BY <1>2, <1>6, <1>10, Zenon DEF PoolIInv, NotFilled, AddsAFile

\* What a thread does to the queue and the counters when it moves from one place to another.
Balanced(b, x) ==
    /\ totalEngines' + Len(available) + One(stage[b], TakenOut) = totalEngines + Len(available') + One(x, TakenOut)
    /\ checkedOut' + One(stage[b], Counted) = checkedOut + One(x, Counted)
    /\ totalEngines' <= totalEngines
    /\ UNCHANGED <<drained, dropped>>

LEMMA ThreadKeeps ==
    ASSUME PoolIInv, initialized, initialized', PoolTypes', NEW b \in Borrowers, NEW x,
           stage' = [stage EXCEPT ![b] = x], Balanced(b, x), UNCHANGED adding
    PROVE  PoolIInv'
<1>1. /\ Cardinality(Holding(TakenOut)') = Cardinality(Holding(TakenOut)) + One(x, TakenOut) - One(stage[b], TakenOut)
      /\ Cardinality(Holding(Counted)') = Cardinality(Holding(Counted)) + One(x, Counted) - One(stage[b], Counted)
  <2>1. Counts(TakenOut, b, x) /\ Counts(Counted, b, x)
    BY MoveCounts, Zenon DEF PoolIInv
  <2> QED
    BY <2>1, Zenon DEF Counts, TakenOut, Counted
<1>2. /\ Cardinality(Holding(TakenOut)) \in Nat /\ Cardinality(Holding(Counted)) \in Nat
      /\ Len(available) \in Nat /\ Len(available') \in Nat /\ Len(drained) \in Nat
      /\ totalEngines \in Int /\ totalEngines' \in Int /\ checkedOut \in Int /\ checkedOut' \in Int /\ dropped \in Int
      /\ PoolSize \in Nat
      /\ One(x, TakenOut) \in Int /\ One(x, Counted) \in Int /\ One(stage[b], TakenOut) \in Int /\ One(stage[b], Counted) \in Int
  BY HoldingFinite, SequenceLengths, PoolAssumption DEF PoolIInv, PoolTypes, One
<1>3. /\ totalEngines = Len(available) + Len(drained) + dropped + Cardinality(Holding(TakenOut))
      /\ checkedOut = Cardinality(Holding(Counted)) /\ totalEngines <= PoolSize
  BY AccountedAs, Zenon DEF PoolIInv
<1>4. PICK h \in Nat, k \in Nat, q \in Nat, r \in Nat, e \in Nat :
        h = Cardinality(Holding(TakenOut)) /\ k = Cardinality(Holding(Counted))
        /\ q = Len(available) /\ r = Len(available') /\ e = Len(drained)
  BY <1>2, Zenon
<1>5. PICK u \in Int, v \in Int, y \in Int, z \in Int :
        u = One(x, TakenOut) /\ v = One(stage[b], TakenOut) /\ y = One(x, Counted) /\ z = One(stage[b], Counted)
  BY <1>2, Zenon
<1>6. /\ totalEngines' = r + e + dropped + (h + u - v)
      /\ checkedOut' = k + y - z
  <2>1. PICK t \in Int, c \in Int, d \in Int : t = totalEngines' /\ c = checkedOut' /\ d = dropped
    BY <1>2, Zenon
  <2>2. t + q + v = totalEngines + r + u /\ c + z = checkedOut + y
    BY <1>4, <1>5, <2>1, Zenon DEF Balanced
  <2>3. totalEngines = q + e + d + h /\ checkedOut = k
    BY <1>3, <1>4, <2>1, Zenon
  <2>4. t + q + v = (q + e + d + h) + r + u /\ c + z = k + y
    BY <2>2, <2>3, Zenon
  <2>5. t = r + e + d + (h + u - v) /\ c = k + y - z
    BY <2>4
  <2> QED
    BY <2>1, <2>5, Zenon
<1>7. /\ totalEngines' = Len(available') + Len(drained') + dropped' + Cardinality(Holding(TakenOut)')
      /\ checkedOut' = Cardinality(Holding(Counted)')
  <2>1. Cardinality(Holding(TakenOut)') = h + u - v
    BY <1>1, <1>4, <1>5, Zenon
  <2>2. Cardinality(Holding(Counted)') = k + y - z
    BY <1>1, <1>4, <1>5, Zenon
  <2>3. Len(available') = r /\ Len(drained') = e /\ dropped' = dropped
    BY <1>4, Zenon DEF Balanced
  <2> QED
    BY <1>6, <2>1, <2>2, <2>3, Zenon
<1>8. EnginesAccounted'
  BY <1>2, <1>3, <1>7, AccountedAsPrimed DEF Balanced
<1> QED
  BY <1>8, Zenon DEF PoolIInv, NotFilled, AddsAFile

\* Where an engine is counted.
LEMMA Places ==
    /\ \A x \in {"idle", "refused"} : One(x, TakenOut) = 0 /\ One(x, Counted) = 0
    /\ One("taken", TakenOut) = 1 /\ One("taken", Counted) = 0
    /\ \A x \in Counted : One(x, TakenOut) = 1 /\ One(x, Counted) = 1
BY Zenon DEF One, TakenOut, Counted

\* A thread moves and only the places change; x and stage[b] are counted alike.
LEMMA OnlyMoves ==
    ASSUME PoolIInv, NEW b \in Borrowers, NEW x \in {"idle", "refused"} \cup TakenOut, stage[b] # "idle" \/ initialized,
           stage' = [stage EXCEPT ![b] = x], inHand' \in [Borrowers -> Engines],
           One(x, TakenOut) = One(stage[b], TakenOut), One(x, Counted) = One(stage[b], Counted),
           UNCHANGED <<initialized, rego, pending, available, totalEngines, checkedOut, adding, drained, dropped>>
    PROVE  PoolIInv'
<1>1. initialized /\ initialized'
  BY Zenon DEF PoolIInv, NotFilled
<1>2. PoolTypes'
  BY Zenon DEF PoolIInv, PoolTypes
<1>3. totalEngines \in Int
  BY Zenon DEF PoolIInv, PoolTypes
<1>4. Balanced(b, x)
  BY <1>3 DEF Balanced
<1> QED
  BY <1>1, <1>2, <1>4, ThreadKeeps, Zenon

LEMMA BorrowerKeeps ==
    ASSUME PoolIInv, NEW b \in Borrowers, TakeEngine(b) \/ Exhausted(b) \/ BorrowerStep(b)
    PROVE  PoolIInv'
<1>1. /\ stage \in [Borrowers -> {"idle", "refused"} \cup TakenOut] /\ inHand \in [Borrowers -> Engines]
      /\ available \in Seq(Engines) /\ pending \subseteq RegoFiles /\ rego \subseteq RegoFiles
      /\ stage[b] # "idle" => initialized
  BY Zenon DEF PoolIInv, PoolTypes, NotFilled
<1> PICK t \in Int, c \in Int, q \in Nat : t = totalEngines /\ c = checkedOut /\ q = Len(available)
  BY SequenceLengths, Zenon DEF PoolIInv, PoolTypes
<1>2. CASE TakeEngine(b)
  <2>1. /\ initialized /\ initialized' /\ stage[b] = "idle" /\ available # <<>> /\ available' = Tail(available)
        /\ inHand' = [inHand EXCEPT ![b] = Head(available)] /\ stage' = [stage EXCEPT ![b] = "taken"]
        /\ UNCHANGED <<rego, pending, totalEngines, checkedOut, adding, drained, dropped>>
    BY <1>2, Zenon DEF TakeEngine
  <2>2. Head(available) \in Engines /\ available' \in Seq(Engines) /\ Len(available') = q - 1
    BY <1>1, <2>1, SequenceLengths, Zenon
  <2>3. PoolTypes'
    BY <1>1, <2>1, <2>2, Zenon DEF PoolIInv, PoolTypes, TakenOut
  <2>4. t + q + 0 = t + (q - 1) + 1 /\ c + 0 = c + 0 /\ t <= t
    OBVIOUS
  <2>5. Balanced(b, "taken")
    BY <2>1, <2>2, <2>4, Places, Zenon DEF Balanced
  <2> QED
    BY <2>1, <2>3, <2>5, ThreadKeeps, Zenon
<1>3. CASE Exhausted(b)
  BY <1>1, <1>3, OnlyMoves, Places, Zenon DEF Exhausted
<1>4. CASE GiveUp(b)
  BY <1>1, <1>4, OnlyMoves, Places, Zenon DEF GiveUp
<1>5. CASE CountOut(b)
  <2>1. /\ initialized /\ initialized' /\ stage[b] = "taken" /\ stage' = [stage EXCEPT ![b] = "using"]
        /\ checkedOut' = checkedOut + 1
        /\ UNCHANGED <<rego, pending, available, totalEngines, inHand, adding, drained, dropped>>
    BY <1>1, <1>5, Zenon DEF CountOut
  <2>2. PoolTypes'
    BY <1>1, <2>1 DEF PoolIInv, PoolTypes, TakenOut
  <2>3. t + q + 1 = t + q + 1 /\ (c + 1) + 0 = c + 1 /\ t <= t
    OBVIOUS
  <2>4. "using" \in Counted
    BY Zenon DEF Counted
  <2>5. Balanced(b, "using")
    BY <2>1, <2>3, <2>4, Places, Zenon DEF Balanced
  <2> QED
    BY <2>1, <2>2, <2>5, ThreadKeeps, Zenon
<1>6. CASE EndUse(b)
  <2>1. PICK end \in {"clean", "poisoned"} : stage' = [stage EXCEPT ![b] = end]
    BY <1>6, Zenon DEF EndUse
  <2>2. end \in Counted /\ stage[b] \in Counted /\ end \in TakenOut
    BY <1>6, <2>1, Zenon DEF EndUse, Counted, TakenOut
  <2> QED
    BY <1>1, <1>6, <2>1, <2>2, OnlyMoves, Places, Zenon DEF EndUse
<1>7. CASE _apply_pending_policies(b)
  <2>1. "returning" \in Counted /\ "returning" \in TakenOut /\ stage[b] \in Counted /\ stage[b] # "idle"
    BY <1>7, Zenon DEF _apply_pending_policies, Counted, TakenOut
  <2>2. inHand' = [inHand EXCEPT ![b] = inHand[b] \cup (pending \ Invalid)]
    BY <1>1, <1>7, Zenon DEF _apply_pending_policies
  <2>3. inHand[b] \cup (pending \ Invalid) \in Engines
    BY <1>1, Zenon DEF Engines
  <2>4. inHand' \in [Borrowers -> Engines]
    BY <1>1, <2>2, <2>3, Zenon
  <2> QED
    BY <1>1, <1>7, <2>1, <2>4, OnlyMoves, Places, Zenon DEF _apply_pending_policies
<1>8. CASE Return(b)
  <2> DEFINE back == IF stage[b] = "returning" THEN inHand[b] ELSE _create_engine
  <2>1. /\ initialized /\ initialized' /\ stage[b] \in {"returning", "poisoned"} /\ stage' = [stage EXCEPT ![b] = "idle"]
        /\ checkedOut' = checkedOut - 1 /\ inHand' = [inHand EXCEPT ![b] = NoEngine]
        /\ UNCHANGED <<rego, pending, adding, drained, dropped>>
        /\ \/ available' = Append(available, back) /\ totalEngines' = totalEngines
           \/ totalEngines' = totalEngines - 1 /\ available' = available
    BY <1>1, <1>8, Zenon DEF Return
  <2>2. back \in Engines /\ NoEngine \in Engines
    BY <1>1, Zenon DEF Engines, _create_engine, NoEngine
  <2>3. /\ available' \in Seq(Engines)
        /\ \/ Len(available') = q + 1 /\ totalEngines' = t
           \/ totalEngines' = t - 1 /\ Len(available') = q
    BY <1>1, <2>1, <2>2, SequenceLengths, Zenon
  <2>4. PoolTypes'
    BY <1>1, <2>1, <2>2, <2>3 DEF PoolIInv, PoolTypes
  <2>5. /\ t + q + 1 = t + (q + 1) + 0 /\ (t - 1) + q + 1 = t + q + 0 /\ (c - 1) + 1 = c + 0
        /\ t <= t /\ t - 1 <= t
    OBVIOUS
  <2>6. stage[b] \in Counted
    BY <2>1, Zenon DEF Counted
  <2>7. Balanced(b, "idle")
    BY <2>1, <2>3, <2>5, <2>6, Places, Zenon DEF Balanced
  <2> QED
    BY <2>1, <2>4, <2>7, ThreadKeeps, Zenon
<1> QED
  BY <1>2, <1>3, <1>4, <1>5, <1>6, <1>7, <1>8, Zenon DEF BorrowerStep

\* A step that leaves the threads where they are, and the sum of the other places.
LEMMA RestKeeps ==
    ASSUME PoolIInv, PoolTypes', AddsAFile', NotFilled', UNCHANGED <<stage, totalEngines, checkedOut>>,
           Len(available') + Len(drained') + dropped' = Len(available) + Len(drained) + dropped
    PROVE  PoolIInv'
<1>1. Holding(TakenOut)' = Holding(TakenOut) /\ Holding(Counted)' = Holding(Counted)
  BY Zenon DEF Holding, TakenOut, Counted
<1>2. EnginesAccounted'
  BY <1>1, AccountedAs, AccountedAsPrimed, Zenon DEF PoolIInv
<1> QED
  BY <1>2, Zenon DEF PoolIInv

LEMMA PolicyKeeps ==
    ASSUME PoolIInv,
           \/ Drain \/ PutBack \/ clear_pending_policies
           \/ \E p \in RegoFiles : add_policy(p) \/ add_policy_warm(p)
           \/ \E b \in Borrowers : get_thread_engine(b)
           \/ UNCHANGED poolVars
    PROVE  PoolIInv'
<1>1. /\ available \in Seq(Engines) /\ drained \in Seq(Engines) /\ NotFilled /\ PoolTypes /\ AddsAFile
  BY Zenon DEF PoolIInv, PoolTypes
<1>2. PICK q \in Nat, e \in Nat, d \in Int : q = Len(available) /\ e = Len(drained) /\ d = dropped
  BY <1>1, SequenceLengths, Zenon DEF PoolTypes
<1>3. CASE Drain
  <2>1. /\ adding # "" /\ available # <<>> /\ available' = Tail(available)
        /\ UNCHANGED <<initialized, rego, pending, totalEngines, checkedOut, stage, inHand>>
    BY <1>3, Zenon DEF Drain
  <2>2. available' \in Seq(Engines) /\ Len(available') = q - 1 /\ Head(available) \in Engines
    BY <1>1, <1>2, <2>1, SequenceLengths, Zenon
  <2>3. initialized /\ initialized'
    BY <1>1, <2>1, Zenon DEF NotFilled
  <2>4. CASE adding \notin Invalid /\ drained' = Append(drained, Head(available) \cup {adding}) /\ UNCHANGED <<adding, dropped>>
    <3>1. Head(available) \cup {adding} \in Engines
      BY <1>1, <2>1, <2>2, Zenon DEF Engines, AddsAFile
    <3>2. drained' \in Seq(Engines) /\ Len(drained') = e + 1 /\ dropped' = d
      BY <1>1, <1>2, <2>4, <3>1, SequenceLengths, Zenon
    <3>3. (q - 1) + (e + 1) + d = q + e + d
      OBVIOUS
    <3>4. PoolTypes'
      BY <1>1, <2>1, <2>2, <2>4, <3>2, Zenon DEF PoolTypes
    <3>5. NotFilled' /\ AddsAFile'
      BY <1>1, <2>3, <2>4, Zenon DEF NotFilled, AddsAFile
    <3> QED
      BY <1>2, <2>1, <2>2, <3>2, <3>3, <3>4, <3>5, RestKeeps, Zenon
  <2>5. CASE dropped' = dropped + Len(drained) + 1 /\ drained' = <<>> /\ adding' = ""
    <3>1. drained' \in Seq(Engines) /\ Len(drained') = 0 /\ dropped' = d + e + 1
      <4>1. drained' = <<>> /\ dropped' = d + e + 1
        BY <1>2, <2>5, Zenon
      <4> QED
        BY <4>1, EmptyPoolQueue, Zenon
    <3>2. (q - 1) + 0 + (d + e + 1) = q + e + d /\ d + e + 1 \in Int
      OBVIOUS
    <3>3. PoolTypes'
      BY <1>1, <2>1, <2>2, <3>1, <3>2, Zenon DEF PoolTypes
    <3>4. NotFilled' /\ AddsAFile'
      BY <2>3, <2>5, Zenon DEF NotFilled, AddsAFile
    <3> QED
      BY <1>2, <2>1, <2>2, <3>1, <3>2, <3>3, <3>4, RestKeeps, Zenon
  <2> QED
    BY <1>3, <2>4, <2>5, Zenon DEF Drain
<1>4. CASE PutBack
  <2>1. /\ adding # "" /\ available = <<>> /\ available' = drained /\ drained' = <<>> /\ adding' = ""
        /\ UNCHANGED <<initialized, rego, pending, totalEngines, checkedOut, stage, inHand, dropped>>
    BY <1>4, Zenon DEF PutBack
  <2>2. available' \in Seq(Engines) /\ drained' \in Seq(Engines) /\ Len(available') = e /\ Len(drained') = 0 /\ q = 0
    BY <1>1, <1>2, <2>1, Zenon
  <2>3. e + 0 + d = 0 + e + d
    OBVIOUS
  <2>4. PoolTypes'
    BY <1>1, <2>1, <2>2, Zenon DEF PoolTypes
  <2>5. NotFilled' /\ AddsAFile'
    BY <1>1, <2>1, Zenon DEF NotFilled, AddsAFile
  <2> QED
    BY <1>2, <2>1, <2>2, <2>3, <2>4, <2>5, RestKeeps, Zenon
<1>5. CASE \/ clear_pending_policies
           \/ \E p \in RegoFiles : add_policy(p) \/ add_policy_warm(p)
           \/ \E b \in Borrowers : get_thread_engine(b)
           \/ UNCHANGED poolVars
  <2>1. UNCHANGED <<initialized, available, totalEngines, checkedOut, stage, inHand, drained, dropped>>
    BY <1>5, Zenon DEF clear_pending_policies, add_policy, add_policy_warm, get_thread_engine, poolVars
  <2>2. rego' \subseteq RegoFiles /\ pending' \subseteq RegoFiles
    BY <1>1, <1>5, Zenon DEF clear_pending_policies, add_policy, add_policy_warm, get_thread_engine, poolVars, PoolTypes
  <2>3. (~initialized /\ adding = "" => adding' = "") /\ (adding' = adding \/ adding' \in RegoFiles \cup {""})
    BY <1>5, Zenon DEF clear_pending_policies, add_policy, add_policy_warm, get_thread_engine, poolVars
  <2>4. PoolTypes'
    BY <1>1, <2>1, <2>2, Zenon DEF PoolTypes
  <2>5. NotFilled' /\ AddsAFile'
    BY <1>1, <2>1, <2>3, Zenon DEF NotFilled, AddsAFile
  <2> QED
    BY <2>1, <2>4, <2>5, RestKeeps, Zenon
<1> QED
  BY <1>3, <1>4, <1>5, Zenon

\* The engine pool never loses count of its engines, whatever its size, the number of threads
\* and of policies that load or do not, and however checkouts, returns of poisoned engines and
\* a draining add_policy interleave.
THEOREM PoolAccounts == PoolSpec => []EnginesAccounted
<1>1. PoolInit => PoolIInv
  <2> SUFFICES ASSUME PoolInit PROVE PoolIInv
    BY Zenon
  <2>1. NotFilled /\ AddsAFile
    BY Zenon DEF PoolInit, NotFilled, AddsAFile
  <2>2. NoEngine \in Engines
    BY Zenon DEF NoEngine, Engines
  <2>3. PoolTypes
    <3>1. rego \subseteq RegoFiles /\ pending \subseteq RegoFiles /\ available = <<>> /\ drained = <<>>
      BY Zenon DEF PoolInit
    <3>2. totalEngines \in Int /\ checkedOut \in Int /\ dropped \in Int
      <4>1. totalEngines = 0 /\ checkedOut = 0 /\ dropped = 0
        BY Zenon DEF PoolInit
      <4> QED
        BY <4>1
    <3>3. stage = [b \in Borrowers |-> "idle"] /\ inHand = [b \in Borrowers |-> NoEngine]
      BY Zenon DEF PoolInit
    <3>4. stage \in [Borrowers -> {"idle", "refused"} \cup TakenOut]
      BY <3>3, Zenon
    <3>5. inHand \in [Borrowers -> Engines]
      BY <2>2, <3>3, Zenon
    <3> QED
      BY <3>1, <3>2, <3>4, <3>5, EmptyPoolQueue, Zenon DEF PoolTypes
  <2>4. Cardinality(Holding(TakenOut)) = 0 /\ Cardinality(Holding(Counted)) = 0
    <3>1. Holding(TakenOut) = {} /\ Holding(Counted) = {}
      BY Zenon DEF PoolInit, Holding, TakenOut, Counted
    <3> QED
      BY <3>1, FS_EmptySet, Zenon
  <2>5. /\ totalEngines = 0 /\ Len(available) = 0 /\ Len(drained) = 0 /\ dropped = 0 /\ checkedOut = 0
        /\ 0 = 0 + 0 + 0 + 0 /\ 0 <= PoolSize
    <3>1. available = <<>> /\ drained = <<>> /\ totalEngines = 0 /\ dropped = 0 /\ checkedOut = 0
      BY Zenon DEF PoolInit
    <3>2. 0 = 0 + 0 + 0 + 0 /\ 0 <= PoolSize
      BY PoolAssumption
    <3> QED
      BY <3>1, <3>2, EmptyPoolQueue, Zenon
  <2>6. EnginesAccounted
    BY <2>4, <2>5, AccountedAs, Zenon
  <2> QED
    BY <2>1, <2>3, <2>6, Zenon DEF PoolIInv
<1>2. PoolIInv /\ [PoolNext]_poolVars => PoolIInv'
  BY InitializeKeeps, BorrowerKeeps, PolicyKeeps, Zenon DEF PoolNext
<1>3. PoolIInv => EnginesAccounted
  BY Zenon DEF PoolIInv
<1> QED
  BY <1>1, <1>2, <1>3, PTL DEF PoolSpec

=============================================================================
