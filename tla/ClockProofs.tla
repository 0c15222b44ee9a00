----------------------------- MODULE ClockProofs ----------------------------
(***************************************************************************)
(* What depends on the passing of time.  The statutory minimum of the       *)
(* waiting period, for every length of it and any number of overlapping     *)
(* requests, and each of its two implementations, one request at a time,    *)
(* as a pausable clock; and the token bucket as a rate meter, the circuit   *)
(* breaker and the single call of a Calling, for every capacity, rate,      *)
(* threshold and number of callers.                                         *)
(***************************************************************************)
EXTENDS WaitingPeriods, ModelCalls, TLAPS

-----------------------------------------------------------------------------
(* The waiting period.                                                       *)

Request ==
    {WaitIdle} \cup [at : {"write"}, row : WaitRow] \cup [at : {"adverse"}, none : BOOLEAN]
    \cup [at : {"find"}, stamp : Int]

Notices == [pre : {Null} \cup Int, adverse : {Null} \cup [at : Int, none : BOOLEAN]]

WaitTypes ==
    /\ waitNow \in Int /\ stamps \in Int
    /\ waiting \in {Null} \cup WaitRow
    /\ notices \in Notices
    /\ waitReq \in [WaitClients -> Request]

\* The minimum has passed.
Due == notices.pre # Null /\ waitNow >= notices.pre + WaitDays

Lawful(row) ==
    /\ notices.pre # Null
    /\ row.ends >= notices.pre + WaitDays
    /\ row.elapsed => Due
    /\ row.paused # Null => row.paused <= waitNow

\* What a request that has read knows when it writes, whatever was written meanwhile.
Knows(c) ==
    /\ waitReq[c].at = "write" => Lawful(waitReq[c].row)
    /\ waitReq[c].at = "find" => waiting \in WaitRow /\ Lawful(waiting) /\ Due
    /\ (waitReq[c].at = "adverse" /\ ~waitReq[c].none) => Due

Stored == waiting # Null => Lawful(waiting)

Acted == (notices.adverse # Null /\ ~notices.adverse.none) =>
            notices.pre # Null /\ notices.adverse.at >= notices.pre + WaitDays

\* The inductive invariant.
WaitIInv == WaitTypes /\ Stored /\ Acted /\ \A c \in WaitClients : Knows(c)

-----------------------------------------------------------------------------
LEMMA WaitInitInv == WaitInit => WaitIInv
BY NullAssumption DEF WaitInit, WaitIInv, WaitTypes, Stored, Acted, Knows, Request, Notices, WaitIdle

\* A request that takes another row to write, or none, disturbs nothing else.
LEMMA RequestMoves ==
    ASSUME WaitIInv, NEW c \in WaitClients, NEW r \in Request,
           waitReq' = [waitReq EXCEPT ![c] = r],
           stamps' \in Int, UNCHANGED <<waiting, notices, waitNow>>,
           r.at = "write" => Lawful(r.row),
           r.at = "find" => waiting \in WaitRow /\ Lawful(waiting) /\ Due,
           (r.at = "adverse" /\ ~r.none) => Due
    PROVE  WaitIInv'
<1>1. WaitTypes'
  BY Zenon DEF WaitIInv, WaitTypes
<1>2. \A d \in WaitClients : waitReq'[d] = IF d = c THEN r ELSE waitReq[d]
  BY Zenon DEF WaitIInv, WaitTypes
<1>3. Stored' /\ Acted'
  BY Zenon DEF WaitIInv, Stored, Acted, Lawful, Due
<1>4. ASSUME NEW d \in WaitClients PROVE Knows(d)'
  <2>1. CASE d = c
    BY <1>2, <2>1, Zenon DEF Knows, Lawful, Due
  <2>2. CASE d # c
    <3>1. waitReq'[d] = waitReq[d] /\ Knows(d)
      BY <1>2, <2>2, Zenon DEF WaitIInv
    <3> QED
      BY <3>1, Zenon DEF Knows, Lawful, Due
  <2> QED
    BY <2>1, <2>2, Zenon
<1> QED
  BY <1>1, <1>3, <1>4, Zenon DEF WaitIInv

\* The row a handler makes of a lawful one it has read is lawful.
LEMMA PlanKeeps ==
    ASSUME WaitIInv, NEW c \in WaitClients, NEW row \in WaitRow, Lawful(row),
           PhrasePlan(c, row) \/ ServicePlan(c, row),
           UNCHANGED <<waiting, notices, waitNow>>
    PROVE  WaitIInv'
<1>1. stamps' \in Int
  BY DEF WaitIInv, WaitTypes, PhrasePlan, ServicePlan, Plan
<1>2. PICK s \in {Null} \cup Int : waitReq' = [waitReq EXCEPT ![c] = [at |-> "write", row |-> [row EXCEPT !.stamp = s]]]
  BY DEF PhrasePlan, ServicePlan, Plan, WaitIInv, WaitTypes
<1> DEFINE new == [row EXCEPT !.stamp = s]
<1>3. new \in WaitRow /\ new.ends = row.ends /\ new.elapsed = row.elapsed
  BY Zenon DEF WaitRow
<1>4. Lawful(new)
  BY <1>3 DEF Lawful
<1>5. [at |-> "write", row |-> new] \in Request
  BY <1>3, Zenon DEF Request
<1> QED
  BY <1>1, <1>2, <1>4, <1>5, RequestMoves, Zenon

\* What the handlers make of a row.
LEMMA Marked ==
    ASSUME NEW r \in WaitRow
    PROVE  LET n == [r EXCEPT !.elapsed = TRUE]
           IN  n \in WaitRow /\ n.ends = r.ends /\ n.paused = r.paused
BY Zenon DEF WaitRow

LEMMA Paused ==
    ASSUME NEW r \in WaitRow, NEW t \in Int
    PROVE  /\ LET n == [r EXCEPT !.paused = t]
              IN  n \in WaitRow /\ n.ends = r.ends /\ n.elapsed = r.elapsed /\ n.paused = t
           /\ LET n == [r EXCEPT !.paused = t, !.resumed = FALSE]
              IN  n \in WaitRow /\ n.ends = r.ends /\ n.elapsed = r.elapsed /\ n.paused = t
BY Zenon DEF WaitRow

LEMMA Resumed ==
    ASSUME NEW r \in WaitRow, NEW t \in Int
    PROVE  LET n == [r EXCEPT !.ends = t, !.paused = Null, !.resumed = TRUE]
           IN  n \in WaitRow /\ n.ends = t /\ n.elapsed = r.elapsed /\ n.paused = Null
BY Zenon DEF WaitRow

LEMMA SameStamp ==
    ASSUME NEW r \in WaitRow, r.stamp = Null
    PROVE  [r EXCEPT !.stamp = Null] = r
BY Zenon DEF WaitRow

LEMMA Restamped ==
    ASSUME NEW r \in WaitRow, NEW t \in {Null} \cup Int
    PROVE  LET n == [r EXCEPT !.stamp = t]
           IN  n \in WaitRow /\ n.ends = r.ends /\ n.elapsed = r.elapsed /\ n.paused = r.paused
BY Zenon DEF WaitRow

\* Every handler that reads the newest row plans a lawful one: none moves the end
\* back, and none says elapsed before the minimum has passed.
LEMMA ReadersPlanLawful ==
    ASSUME WaitIInv, NEW c \in WaitClients,
           \/ check_waiting(c) \/ pause_waiting(c) \/ resume_waiting(c)
           \/ pause_waiting_period(c) \/ resume_waiting_period(c)
    PROVE  WaitIInv'
<1>1. waiting \in WaitRow /\ Lawful(waiting) /\ UNCHANGED <<waiting, notices, waitNow>>
  BY Zenon DEF WaitIInv, WaitTypes, Stored, check_waiting, pause_waiting, resume_waiting,
         pause_waiting_period, resume_waiting_period, ServiceRead, PhraseRead
<1>2. waitNow \in Int /\ notices.pre \in Int /\ WaitDays \in Int
  BY <1>1, WaitAssumption DEF WaitIInv, WaitTypes, Notices, Lawful
<1>3. CASE check_waiting(c)
  <2> DEFINE new == [waiting EXCEPT !.elapsed = TRUE]
  <2>1. new \in WaitRow /\ new.ends = waiting.ends /\ new.paused = waiting.paused
    BY <1>1, Marked, Zenon
  <2>2. Due
    BY <1>1, <1>2, <1>3 DEF check_waiting, Lawful, Due, WaitRow
  <2>3. Lawful(new)
    BY <1>1, <2>1, <2>2, Zenon DEF Lawful
  <2> QED
    BY <1>1, <1>3, <2>1, <2>3, PlanKeeps, Zenon DEF check_waiting
<1>4. CASE pause_waiting(c)
  <2> DEFINE new == [waiting EXCEPT !.paused = waitNow]
  <2>1. new \in WaitRow /\ new.ends = waiting.ends /\ new.elapsed = waiting.elapsed /\ new.paused = waitNow
    BY <1>1, <1>2, Paused, Zenon
  <2>2. Lawful(new)
    BY <1>1, <1>2, <2>1 DEF Lawful
  <2> QED
    BY <1>1, <1>4, <2>1, <2>2, PlanKeeps, Zenon DEF pause_waiting
<1>5. CASE pause_waiting_period(c)
  <2> DEFINE new == [waiting EXCEPT !.paused = waitNow, !.resumed = FALSE]
  <2>1. new \in WaitRow /\ new.ends = waiting.ends /\ new.elapsed = waiting.elapsed /\ new.paused = waitNow
    BY <1>1, <1>2, Paused, Zenon
  <2>2. Lawful(new)
    BY <1>1, <1>2, <2>1 DEF Lawful
  <2> QED
    BY <1>1, <1>5, <2>1, <2>2, PlanKeeps, Zenon DEF pause_waiting_period
<1>6. CASE resume_waiting(c) \/ resume_waiting_period(c)
  <2> DEFINE moved == waiting.ends + (waitNow - waiting.paused)
  <2> DEFINE new == [waiting EXCEPT !.ends = moved, !.paused = Null, !.resumed = TRUE]
  <2>1. waiting.paused \in Int /\ waiting.paused <= waitNow
    BY <1>1, <1>6, Zenon DEF resume_waiting, resume_waiting_period, WaitRow, Lawful
  <2>2. moved \in Int /\ moved >= notices.pre + WaitDays
    BY <1>1, <1>2, <2>1 DEF WaitRow, Lawful
  <2>3. new \in WaitRow /\ new.ends = moved /\ new.elapsed = waiting.elapsed /\ new.paused = Null
    BY <1>1, <2>2, Resumed, Zenon
  <2>4. Lawful(new)
    BY <1>1, <2>2, <2>3, Zenon DEF Lawful
  <2> QED
    BY <1>1, <1>6, <2>3, <2>4, PlanKeeps, Zenon DEF resume_waiting, resume_waiting_period
<1> QED
  BY <1>3, <1>4, <1>5, <1>6, Zenon

\* The first notice is sent when there is no row yet.
LEMMA PreAdverseKeeps ==
    ASSUME WaitIInv, NEW c \in WaitClients, NEW exps, create_pre_adverse(c, exps)
    PROVE  WaitIInv'
<1> DEFINE row == [ends |-> waitNow + WaitDays, elapsed |-> FALSE, paused |-> Null, resumed |-> FALSE, stamp |-> Null]
<1>1. /\ notices.pre = Null /\ notices' = [notices EXCEPT !.pre = waitNow]
      /\ ServicePlan(c, row) /\ UNCHANGED <<waiting, waitNow>>
  BY Zenon DEF create_pre_adverse
<1>2. waitNow \in Int /\ WaitDays \in Int /\ notices \in Notices /\ waitReq \in [WaitClients -> Request]
  BY WaitAssumption DEF WaitIInv, WaitTypes
<1>3. notices' \in Notices /\ notices'.pre = waitNow /\ notices'.pre # Null /\ notices'.adverse = notices.adverse
  BY <1>1, <1>2, NullAssumption, Zenon DEF Notices
<1>4. row \in WaitRow /\ row.ends = notices'.pre + WaitDays /\ ~row.elapsed /\ row.paused = Null /\ row.stamp = Null
  BY <1>1, <1>2, <1>3 DEF WaitRow
<1>5. waitReq' = [waitReq EXCEPT ![c] = [at |-> "write", row |-> row]] /\ stamps' = stamps
  <2>1. [row EXCEPT !.stamp = Null] = row
    BY <1>4, SameStamp, Zenon
  <2>2. waitReq' = [waitReq EXCEPT ![c] = [at |-> "write", row |-> [row EXCEPT !.stamp = Null]]] /\ stamps' = stamps
    BY <1>1, Zenon DEF ServicePlan, Plan
  <2> HIDE DEF row
  <2> QED
    BY <2>1, <2>2, Zenon
<1>6. [at |-> "write", row |-> row] \in Request
  BY <1>4, Zenon DEF Request
<1>7. WaitTypes'
  BY <1>1, <1>2, <1>3, <1>5, <1>6, Zenon DEF WaitIInv, WaitTypes
<1>8. Stored' /\ Acted'
  BY <1>1, <1>3, Zenon DEF WaitIInv, Stored, Acted, Lawful
<1>9. ASSUME NEW d \in WaitClients PROVE Knows(d)'
  <2>1. CASE d = c
    <3> DEFINE r == [at |-> "write", row |-> row]
    <3>1. waitReq'[d] = r
      BY <1>2, <1>5, <2>1, Zenon
    <3>3. /\ waitReq'[d].at = "write" /\ waitReq'[d].row.ends = notices'.pre + WaitDays
          /\ ~waitReq'[d].row.elapsed /\ waitReq'[d].row.paused = Null
      BY <1>4, <3>1
    <3>4. notices'.pre + WaitDays \in Int
      BY <1>2, <1>3
    <3> QED
      BY <1>3, <3>3, <3>4 DEF Knows, Lawful
  <2>2. CASE d # c
    <3>1. waitReq'[d] = waitReq[d]
      BY <1>2, <1>5, <2>2, Zenon
    <3>2. waitReq[d].at # "write" /\ waitReq[d].at # "find" /\ (waitReq[d].at = "adverse" => waitReq[d].none)
      BY <1>1, Zenon DEF WaitIInv, Knows, Lawful, Due
    <3> QED
      BY <3>1, <3>2, Zenon DEF Knows
  <2> QED
    BY <2>1, <2>2, Zenon
<1> QED
  BY <1>7, <1>8, <1>9, Zenon DEF WaitIInv

\* A lawful row becomes the newest one, or loses to a newer one.
LEMMA WriteKeeps ==
    ASSUME WaitIInv, NEW c \in WaitClients, WaitWrite(c)
    PROVE  WaitIInv'
<1> DEFINE row == waitReq[c].row
<1>1. waitReq[c].at = "write" /\ waitReq[c] \in Request /\ waitReq \in [WaitClients -> Request]
  BY Zenon DEF WaitIInv, WaitTypes, WaitWrite
<1>2. row \in WaitRow /\ Lawful(row)
  BY <1>1 DEF WaitIInv, Knows, Request, WaitIdle
<1>3. /\ waitReq' = [waitReq EXCEPT ![c] = WaitIdle] /\ UNCHANGED <<notices, waitNow>>
      /\ \/ waiting' = Newest(row) /\ UNCHANGED stamps
         \/ stamps' = stamps + 1 /\ waiting' = [row EXCEPT !.stamp = stamps + 1]
  BY Zenon DEF WaitWrite
<1>4. stamps \in Int /\ stamps' \in Int
  BY <1>3 DEF WaitIInv, WaitTypes
<1>5. waiting' \in WaitRow /\ Lawful(waiting')
  <2>1. CASE waiting' = Newest(row)
    BY <1>2, <2>1, Zenon DEF Newest, WaitIInv, WaitTypes, Stored
  <2>2. CASE waiting' = [row EXCEPT !.stamp = stamps + 1]
    <3>1. /\ waiting' \in WaitRow /\ waiting'.ends = row.ends
          /\ waiting'.elapsed = row.elapsed /\ waiting'.paused = row.paused
      BY <1>2, <1>4, <2>2, Restamped
    <3> QED
      BY <1>2, <3>1, Zenon DEF Lawful
  <2> QED
    BY <1>3, <2>1, <2>2, Zenon
<1>6. Stored' /\ Acted'
  BY <1>3, <1>5, Zenon DEF WaitIInv, Stored, Acted, Lawful, Due
<1>7. WaitTypes'
  BY <1>1, <1>3, <1>4, <1>5, Zenon DEF WaitIInv, WaitTypes, Request
<1>8. ASSUME NEW d \in WaitClients PROVE Knows(d)'
  <2>1. CASE d = c
    BY <1>1, <1>3, <2>1, Zenon DEF Knows, WaitIdle
  <2>2. CASE d # c
    <3>1. waitReq'[d] = waitReq[d] /\ Knows(d)
      BY <1>1, <1>3, <2>2, Zenon DEF WaitIInv
    <3> QED
      BY <1>3, <1>5, <3>1 DEF Knows, Lawful, Due
  <2> QED
    BY <2>1, <2>2, Zenon
<1> QED
  BY <1>6, <1>7, <1>8, Zenon DEF WaitIInv

\* The adverse notice: refused while the newest row runs.
LEMMA AdverseKeeps ==
    ASSUME WaitIInv, NEW c \in WaitClients, NEW exps, create_adverse(c, exps)
    PROVE  WaitIInv'
<1> DEFINE r == [at |-> "adverse", none |-> waiting = Null]
<1>1. waitReq' = [waitReq EXCEPT ![c] = r] /\ UNCHANGED <<waiting, notices, stamps, waitNow>>
  BY Zenon DEF create_adverse
<1>2. r \in Request /\ stamps' \in Int
  BY <1>1, Zenon DEF Request, WaitIInv, WaitTypes
<1>3. waiting # Null => Due
  <2> SUFFICES ASSUME waiting # Null PROVE Due
    BY Zenon
  <2>1. waiting \in WaitRow /\ Lawful(waiting) /\ (waiting.elapsed \/ waiting.ends <= waitNow)
    BY Zenon DEF WaitIInv, WaitTypes, Stored, create_adverse, MayAct
  <2>2. waiting.ends \in Int /\ waitNow \in Int /\ notices.pre \in Int /\ WaitDays \in Int
    BY <2>1, WaitAssumption DEF WaitIInv, WaitTypes, WaitRow, Notices, Lawful
  <2> QED
    BY <2>1, <2>2 DEF Lawful, Due
<1>4. (~r.none) => Due
  BY <1>3, Zenon
<1> QED
  BY <1>1, <1>2, <1>4, RequestMoves, Zenon

LEMMA AdverseWriteKeeps ==
    ASSUME WaitIInv, NEW c \in WaitClients, CreateAdverseWrite(c)
    PROVE  WaitIInv'
<1> DEFINE sent == [at |-> waitNow, none |-> waitReq[c].none]
<1>1. /\ waitReq[c].at = "adverse" /\ waitReq[c] \in Request /\ waitReq \in [WaitClients -> Request]
      /\ notices \in Notices /\ waitNow \in Int /\ waitReq[c].none \in BOOLEAN
  BY DEF WaitIInv, WaitTypes, CreateAdverseWrite, Request, WaitIdle
<1>2. notices' = [notices EXCEPT !.adverse = IF notices.adverse = Null THEN sent ELSE notices.adverse]
  BY <1>1, Zenon DEF CreateAdverseWrite, Notices
<1>3. /\ notices' \in Notices /\ notices'.pre = notices.pre
      /\ notices'.adverse = IF notices.adverse = Null THEN sent ELSE notices.adverse
  BY <1>1, <1>2, Zenon DEF Notices
<1>4. waitReq' = [waitReq EXCEPT ![c] = WaitIdle] /\ UNCHANGED <<waiting, stamps, waitNow>>
  BY Zenon DEF CreateAdverseWrite
<1>5. WaitTypes'
  BY <1>1, <1>3, <1>4, Zenon DEF WaitIInv, WaitTypes, Request
<1>6. Stored'
  BY <1>3, <1>4, Zenon DEF WaitIInv, Stored, Lawful, Due
<1>7. Acted'
  <2>1. ~waitReq[c].none => Due
    BY <1>1, Zenon DEF WaitIInv, Knows
  <2>2. CASE notices.adverse = Null
    <3>1. notices'.adverse = sent /\ sent.at = waitNow /\ sent.none = waitReq[c].none
      BY <1>3, <2>2, Zenon
    <3> QED
      BY <1>3, <2>1, <3>1, Zenon DEF Acted, Due
  <2>3. CASE notices.adverse # Null
    BY <1>3, <2>3, Zenon DEF WaitIInv, Acted
  <2> QED
    BY <2>2, <2>3, Zenon
<1>8. ASSUME NEW d \in WaitClients PROVE Knows(d)'
  <2>1. CASE d = c
    BY <1>1, <1>4, <2>1, Zenon DEF Knows, WaitIdle
  <2>2. CASE d # c
    <3>1. waitReq'[d] = waitReq[d] /\ Knows(d)
      BY <1>1, <1>4, <2>2, Zenon DEF WaitIInv
    <3> QED
      BY <1>3, <1>4, <3>1, Zenon DEF Knows, Lawful, Due
  <2> QED
    BY <2>1, <2>2, Zenon
<1> QED
  BY <1>5, <1>6, <1>7, <1>8, Zenon DEF WaitIInv

\* The phrase marks the row it looks up the second time, whichever that is by then.
LEMMA FindKeeps ==
    ASSUME WaitIInv, NEW c \in WaitClients,
           check_waiting_period_elapsed(c) \/ _find_waiting_period_evidence(c)
    PROVE  WaitIInv'
<1>1. CASE check_waiting_period_elapsed(c)
  <2> DEFINE r == [at |-> "find", stamp |-> stamps + 1]
  <2>1. waitReq' = [waitReq EXCEPT ![c] = r] /\ UNCHANGED <<waiting, notices, waitNow>> /\ stamps' = stamps + 1
    BY <1>1, Zenon DEF check_waiting_period_elapsed, PhraseRead
  <2>2. r \in Request /\ stamps' \in Int
    BY <2>1 DEF Request, WaitIInv, WaitTypes
  <2>3. waiting \in WaitRow /\ Lawful(waiting) /\ waiting.ends <= waitNow
    BY <1>1, Zenon DEF check_waiting_period_elapsed, PhraseRead, ElapsedAnswer, WaitIInv, WaitTypes, Stored, WaitRow
  <2>4. waiting.ends \in Int /\ waitNow \in Int /\ notices.pre \in Int /\ WaitDays \in Int
    BY <2>3, WaitAssumption DEF WaitIInv, WaitTypes, WaitRow, Notices, Lawful
  <2>5. Due
    BY <2>3, <2>4 DEF Lawful, Due
  <2> QED
    BY <2>1, <2>2, <2>3, <2>5, RequestMoves, Zenon
<1>2. CASE _find_waiting_period_evidence(c)
  <2>1. waitReq[c].at = "find" /\ waitReq[c] \in Request
    BY <1>2, Zenon DEF _find_waiting_period_evidence, WaitIInv, WaitTypes
  <2>2. waiting \in WaitRow /\ Lawful(waiting) /\ Due /\ waitReq[c].stamp \in Int
    BY <2>1 DEF WaitIInv, Knows, Request, WaitIdle
  <2> DEFINE new == [waiting EXCEPT !.elapsed = TRUE, !.stamp = waitReq[c].stamp]
  <2>3. new \in WaitRow /\ new.ends = waiting.ends /\ new.paused = waiting.paused
    BY <2>2, Zenon DEF WaitRow
  <2>4. Lawful(new)
    BY <2>2, <2>3, Zenon DEF Lawful
  <2>5. [at |-> "write", row |-> new] \in Request
    BY <2>3, Zenon DEF Request
  <2>6. /\ waitReq' = [waitReq EXCEPT ![c] = [at |-> "write", row |-> new]]
        /\ UNCHANGED <<waiting, notices, stamps, waitNow>>
    BY <1>2, Zenon DEF _find_waiting_period_evidence
  <2>7. stamps' \in Int
    BY <2>6, Zenon DEF WaitIInv, WaitTypes
  <2> QED
    BY <2>4, <2>5, <2>6, <2>7, RequestMoves, Zenon
<1> QED
  BY <1>1, <1>2, Zenon

LEMMA AbortKeeps ==
    ASSUME WaitIInv, NEW c \in WaitClients, WaitAbort(c)
    PROVE  WaitIInv'
<1>1. waitReq' = [waitReq EXCEPT ![c] = WaitIdle] /\ UNCHANGED <<waiting, notices, stamps, waitNow>>
  BY Zenon DEF WaitAbort
<1>2. WaitIdle \in Request /\ WaitIdle.at = "idle" /\ stamps' \in Int
  BY <1>1, Zenon DEF Request, WaitIdle, WaitIInv, WaitTypes
<1> QED
  BY <1>1, <1>2, RequestMoves, Zenon

LEMMA TickKeeps ==
    ASSUME WaitIInv, WaitTick
    PROVE  WaitIInv'
<1>1. waitNow' = waitNow + 1 /\ waitNow \in Int /\ UNCHANGED <<waiting, notices, stamps, waitReq>>
  BY Zenon DEF WaitTick, WaitIInv, WaitTypes
<1>2. WaitTypes' /\ Acted'
  BY <1>1 DEF WaitIInv, WaitTypes, Acted
<1>3. Due => Due'
  BY <1>1, WaitAssumption DEF Due, WaitIInv, WaitTypes, Notices
<1>4. ASSUME NEW r \in WaitRow, Lawful(r) PROVE Lawful(r)'
  BY <1>1, <1>3, <1>4 DEF Lawful, WaitRow
<1>5. Stored'
  BY <1>1, <1>4, Zenon DEF WaitIInv, WaitTypes, Stored
<1>6. ASSUME NEW d \in WaitClients PROVE Knows(d)'
  <2>1. Knows(d) /\ waitReq[d] \in Request /\ waitReq'[d] = waitReq[d]
    BY <1>1, Zenon DEF WaitIInv, WaitTypes
  <2>2. waitReq[d].at = "write" => waitReq[d].row \in WaitRow
    BY <2>1 DEF Request, WaitIdle
  <2> QED
    BY <1>1, <1>3, <1>4, <2>1, <2>2, Zenon DEF Knows
<1> QED
  BY <1>2, <1>5, <1>6, Zenon DEF WaitIInv

LEMMA WaitStep == WaitIInv /\ [WaitNext]_waitVars => WaitIInv'
<1> SUFFICES ASSUME WaitIInv, [WaitNext]_waitVars PROVE WaitIInv'
  BY Zenon
<1>1. CASE WaitTick
  BY <1>1, TickKeeps, Zenon
<1>2. ASSUME NEW c \in WaitClients,
             \/ ServiceNext(c) \/ PhraseNext(c)
             \/ (\E exps \in Consents : create_adverse(c, exps)) \/ CreateAdverseWrite(c) \/ WaitAbort(c)
      PROVE  WaitIInv'
  BY <1>2, PreAdverseKeeps, WriteKeeps, ReadersPlanLawful, AdverseKeeps, AdverseWriteKeeps, FindKeeps, AbortKeeps, Zenon
     DEF ServiceNext, PhraseNext
<1>3. CASE UNCHANGED waitVars
  BY <1>3, Zenon DEF waitVars, WaitIInv, WaitTypes, Stored, Acted, Knows, Lawful, Due
<1> QED
  BY <1>1, <1>2, <1>3, Zenon DEF WaitNext

LEMMA LawfulIsKept == WaitIInv => MinimumWaitKept
BY DEF WaitIInv, MinimumWaitKept, Stored, Acted, Knows, Lawful, Due, PlannedRow

\* NoticeService and the timing phrases keep the minimum wait for any number of overlapping
\* requests, any statutory length and requests cut off anywhere: no row they store ends, and
\* none says elapsed, before it; nor is an adverse notice that saw a row sent before it.
THEOREM MinimumWait == WaitSpec => []MinimumWaitKept
<1>1. WaitInit => WaitIInv
  BY WaitInitInv, Zenon
<1>2. WaitIInv /\ [WaitNext]_waitVars => WaitIInv'
  BY WaitStep, Zenon
<1>3. WaitIInv => MinimumWaitKept
  BY LawfulIsKept, Zenon
<1> QED
  BY <1>1, <1>2, <1>3, PTL DEF WaitSpec

-----------------------------------------------------------------------------
(* The pausable clock.                                                       *)

Clock == INSTANCE PausableClock WITH
    Days <- WaitDays, remaining <- Remaining, running <- IsRunning, over <- IsOver

ClockStep == [Clock!Next]_<<Remaining, IsRunning, IsOver>>

\* A period that is over is not paused; the phrases also forget the resumption when they pause.
Sound(row, phrases) == row.paused # Null => ~row.elapsed /\ (phrases => ~row.resumed)

\* The row is what one of the handlers makes at time t of w, the newest row: the first
\* one, or w marked elapsed, paused or resumed.
Follows(row, w, t) ==
    \/ w = Null /\ row.ends = t + WaitDays /\ ~row.elapsed /\ row.paused = Null
    \/ /\ w \in WaitRow /\ ~w.elapsed
       /\ \/ w.ends <= t /\ w.paused = Null /\ row.elapsed /\ row.paused = Null /\ row.ends = w.ends
          \/ w.paused = Null /\ ~row.elapsed /\ row.paused = t /\ row.ends = w.ends
          \/ w.paused # Null /\ ~row.elapsed /\ row.paused = Null /\ row.ends = w.ends + (t - w.paused)

\* Stamped by the phrases, and later than the newest row, or still to be stamped.
Latest(row, w, st) == row.stamp # Null => row.stamp = st /\ (w # Null => w.stamp < st)

Expired(w, t) == w \in WaitRow /\ ~w.elapsed /\ w.ends <= t /\ w.paused = Null

\* What a request that is alone has still to do was decided on what is still there.
Current(r, w, t, st, phrases) ==
    \/ r = WaitIdle
    \/ /\ r.at = "write" /\ r.row \in WaitRow
       /\ Follows(r.row, w, t) /\ Sound(r.row, phrases) /\ Latest(r.row, w, st)
    \/ r.at = "find" /\ Expired(w, t) /\ r.stamp = st /\ w.stamp < st

NewestSound(w, st, phrases) == w # Null => w.stamp \in Int /\ w.stamp <= st /\ Sound(w, phrases)

\* The inductive invariant of an implementation alone, beside WaitIInv.
SerialInv(phrases) ==
    /\ NewestSound(waiting, stamps, phrases)
    /\ \A c \in WaitClients : Current(waitReq[c], waiting, waitNow, stamps, phrases)

NoOther(c) == \A d \in WaitClients \ {c} : waitReq[d] = WaitIdle

-----------------------------------------------------------------------------
\* The clock of a period that gets its next row.
LEMMA RowMovesClock ==
    ASSUME waiting \in {Null} \cup WaitRow, waitNow \in Int, waiting' \in WaitRow, waitNow' = waitNow,
           Follows(waiting', waiting, waitNow)
    PROVE  ClockStep
<1>1. WaitDays \in Nat /\ waiting' # Null /\ Null \notin Int
  BY WaitAssumption, NullAssumption, Zenon
<1>2. CASE waiting = Null
  <2>1. waiting'.ends = waitNow + WaitDays /\ ~waiting'.elapsed /\ waiting'.paused = Null
    BY <1>1, <1>2, WaitAssumption, Zenon DEF Follows
  <2>2. Remaining = WaitDays /\ Remaining' = WaitDays
    BY <1>1, <1>2, <2>1 DEF Remaining
  <2>3. ~IsRunning /\ ~IsOver /\ IsRunning' /\ ~IsOver'
    BY <1>1, <1>2, <2>1, Zenon DEF IsRunning, IsOver
  <2> QED
    BY <2>2, <2>3, Zenon DEF ClockStep, Clock!Next, Clock!Run, IsRunning, IsOver
<1>3. CASE waiting # Null
  <2>1. waiting \in WaitRow /\ ~waiting.elapsed /\ waiting.ends \in Int /\ waiting.paused \in {Null} \cup Int
    BY <1>3, Zenon DEF Follows, WaitRow
  <2>2. ~IsOver /\ (IsRunning <=> waiting.paused = Null)
    BY <1>3, <2>1, Zenon DEF IsOver, IsRunning
  <2>3. CASE /\ waiting.ends <= waitNow /\ waiting.paused = Null
             /\ waiting'.elapsed /\ waiting'.paused = Null /\ waiting'.ends = waiting.ends
    <3>1. Remaining = 0 /\ Remaining' = 0
      BY <1>1, <1>3, <2>1, <2>3 DEF Remaining
    <3>2. IsRunning /\ IsRunning' /\ IsOver'
      BY <1>1, <2>2, <2>3, Zenon DEF IsOver, IsRunning
    <3> QED
      BY <2>2, <3>1, <3>2, Zenon DEF ClockStep, Clock!Next, Clock!Finish, IsRunning, IsOver
  <2>4. CASE /\ waiting.paused = Null /\ ~waiting'.elapsed
             /\ waiting'.paused = waitNow /\ waiting'.ends = waiting.ends
    <3>1. Remaining' = Remaining
      BY <1>1, <1>3, <2>1, <2>4, Zenon DEF Remaining
    <3>2. IsRunning /\ ~IsRunning' /\ ~IsOver'
      BY <1>1, <2>2, <2>4, Zenon DEF IsOver, IsRunning
    <3> QED
      BY <2>2, <3>1, <3>2, Zenon DEF ClockStep, Clock!Next, Clock!Pause, IsRunning, IsOver
  <2>5. CASE /\ waiting.paused # Null /\ ~waiting'.elapsed /\ waiting'.paused = Null
             /\ waiting'.ends = waiting.ends + (waitNow - waiting.paused)
    <3>1. waiting.paused \in Int
      BY <2>1, <2>5, Zenon
    <3>2. Remaining = IF waiting.ends < waiting.paused THEN 0 ELSE waiting.ends - waiting.paused
      BY <1>3, <2>1, <2>5, Zenon DEF Remaining
    <3>3. Remaining' = IF waiting'.ends < waitNow THEN 0 ELSE waiting'.ends - waitNow
      BY <1>1, <2>5, Zenon DEF Remaining
    <3>4. Remaining' = Remaining
      BY <2>1, <2>5, <3>1, <3>2, <3>3
    <3>5. ~IsRunning /\ IsRunning' /\ ~IsOver'
      BY <1>1, <2>2, <2>5, Zenon DEF IsOver, IsRunning
    <3> QED
      BY <2>2, <3>4, <3>5, Zenon DEF ClockStep, Clock!Next, Clock!Run, IsRunning, IsOver
  <2> QED
    BY <1>3, <2>3, <2>4, <2>5, Zenon DEF Follows
<1> QED
  BY <1>2, <1>3, Zenon

\* The clock of a period runs while it is not paused, and not below zero.
LEMMA TickMovesClock ==
    ASSUME waiting \in {Null} \cup WaitRow, waitNow \in Int, waitNow' = waitNow + 1, waiting' = waiting
    PROVE  ClockStep
<1>1. WaitDays \in Nat /\ Null \notin Int
  BY WaitAssumption, NullAssumption, Zenon
<1>2. IsRunning' = IsRunning /\ IsOver' = IsOver
  BY Zenon DEF IsRunning, IsOver
<1>3. CASE waiting = Null \/ waiting.paused # Null \/ waiting.elapsed
  <2>1. Remaining' = Remaining
    BY <1>3, Zenon DEF Remaining
  <2> QED
    BY <1>2, <2>1, Zenon DEF ClockStep
<1>4. CASE waiting # Null /\ waiting.paused = Null /\ ~waiting.elapsed
  <2>1. waiting.ends \in Int
    BY <1>4, Zenon DEF WaitRow
  <2>2. Remaining = IF waiting.ends < waitNow THEN 0 ELSE waiting.ends - waitNow
    BY <1>4, Zenon DEF Remaining
  <2>3. Remaining' = IF waiting.ends < waitNow + 1 THEN 0 ELSE waiting.ends - (waitNow + 1)
    BY <1>4, Zenon DEF Remaining
  <2>4. IsRunning
    BY <1>4, Zenon DEF IsRunning
  <2>5. Remaining' = Remaining \/ (Remaining > 0 /\ Remaining' = Remaining - 1)
    BY <2>1, <2>2, <2>3
  <2> QED
    BY <1>2, <2>4, <2>5, Zenon DEF ClockStep, Clock!Next, Clock!Elapse
<1> QED
  BY <1>3, <1>4, Zenon

-----------------------------------------------------------------------------
\* A request that is alone and has decided on what to write leaves the clock alone.
LEMMA DecisionStep ==
    ASSUME WaitIInv, NEW phrases, SerialInv(phrases), NEW c \in WaitClients, NoOther(c), NEW r,
           waitReq' = [waitReq EXCEPT ![c] = r], stamps' \in Int, stamps <= stamps',
           UNCHANGED <<waiting, waitNow>>,
           Current(r, waiting, waitNow, stamps', phrases)
    PROVE  SerialInv(phrases)' /\ ClockStep
<1>1. \A d \in WaitClients : waitReq'[d] = IF d = c THEN r ELSE WaitIdle
  BY Zenon DEF WaitIInv, WaitTypes, NoOther
<1>2. \A d \in WaitClients : Current(waitReq'[d], waiting', waitNow', stamps', phrases)
  BY <1>1, Zenon DEF Current
<1>3. waiting # Null => waiting.stamp \in Int /\ waiting.stamp <= stamps /\ stamps \in Int
  BY Zenon DEF SerialInv, NewestSound, WaitIInv, WaitTypes
<1>4. NewestSound(waiting', stamps', phrases)
  BY <1>3 DEF SerialInv, NewestSound
<1>5. ClockStep
  BY Zenon DEF ClockStep, Remaining, IsRunning, IsOver
<1> QED
  BY <1>2, <1>4, <1>5, Zenon DEF SerialInv

\* The request is over and the newest row is the one it has written.
LEMMA WriteEnds ==
    ASSUME WaitIInv, NEW phrases, NEW c \in WaitClients, NoOther(c),
           waitReq' = [waitReq EXCEPT ![c] = WaitIdle], waitNow' = waitNow,
           waiting' \in WaitRow, waiting'.stamp = stamps', stamps' \in Int,
           Follows(waiting', waiting, waitNow), Sound(waiting', phrases)
    PROVE  SerialInv(phrases)' /\ ClockStep
<1>1. \A d \in WaitClients : waitReq'[d] = WaitIdle
  BY Zenon DEF WaitIInv, WaitTypes, NoOther
<1>2. \A d \in WaitClients : Current(waitReq'[d], waiting', waitNow', stamps', phrases)
  BY <1>1, Zenon DEF Current
<1>3. NewestSound(waiting', stamps', phrases)
  BY DEF NewestSound
<1>4. ClockStep
  BY RowMovesClock, Zenon DEF WaitIInv, WaitTypes
<1> QED
  BY <1>2, <1>3, <1>4, Zenon DEF SerialInv

\* The insert of the row a request alone has decided on.
LEMMA WriteStep ==
    ASSUME WaitIInv, NEW phrases, SerialInv(phrases), NEW c \in WaitClients, NoOther(c), WaitWrite(c)
    PROVE  SerialInv(phrases)' /\ ClockStep
<1> DEFINE row == waitReq[c].row
<1>1. /\ row \in WaitRow /\ Follows(row, waiting, waitNow)
      /\ Sound(row, phrases) /\ Latest(row, waiting, stamps)
  BY DEF SerialInv, Current, WaitWrite, WaitIdle
<1>2. stamps \in Int /\ stamps' \in Int /\ waitNow' = waitNow /\ waitNow \in Int /\ waiting \in {Null} \cup WaitRow
  BY DEF WaitWrite, WaitIInv, WaitTypes
<1>3. CASE row.stamp # Null
  <2>1. waiting' = row /\ row.stamp = stamps /\ stamps' = stamps
    BY <1>1, <1>3, Zenon DEF WaitWrite, Newest, Latest
  <2> QED
    BY <1>1, <1>2, <2>1, WriteEnds, Zenon DEF WaitWrite
<1>4. CASE row.stamp = Null
  <2> DEFINE new == [row EXCEPT !.stamp = stamps + 1]
  <2>1. waiting' = new /\ stamps' = stamps + 1
    BY <1>4, Zenon DEF WaitWrite
  <2>2. /\ new \in WaitRow /\ new.ends = row.ends /\ new.elapsed = row.elapsed /\ new.paused = row.paused
        /\ new.resumed = row.resumed /\ new.stamp = stamps + 1
    BY <1>1, <1>2 DEF WaitRow
  <2>3. Follows(new, waiting, waitNow) /\ Sound(new, phrases)
    BY <1>1, <2>2, Zenon DEF Follows, Sound
  <2> QED
    BY <1>2, <2>1, <2>2, <2>3, WriteEnds, Zenon DEF WaitWrite
<1> QED
  BY <1>3, <1>4, Zenon

LEMMA SerialTickStep ==
    ASSUME WaitIInv, NEW phrases, SerialInv(phrases), SerialTick
    PROVE  SerialInv(phrases)' /\ ClockStep
<1>1. /\ waiting \in {Null} \cup WaitRow /\ waitNow \in Int
      /\ waitNow' = waitNow + 1 /\ UNCHANGED <<waiting, stamps, waitReq>>
  BY Zenon DEF SerialTick, WaitTick, WaitIInv, WaitTypes
<1>2. \A c \in WaitClients : Current(waitReq'[c], waiting', waitNow', stamps', phrases)
  BY <1>1, Zenon DEF SerialTick, Current
<1>3. NewestSound(waiting', stamps', phrases)
  BY <1>1, Zenon DEF SerialInv
<1>4. ClockStep
  BY <1>1, TickMovesClock, Zenon
<1> QED
  BY <1>2, <1>3, <1>4, Zenon DEF SerialInv

\* Both start with the first notice, when there is no row.
LEMMA FirstNoticeStep ==
    ASSUME WaitIInv, NEW phrases, SerialInv(phrases), NEW c \in WaitClients, NoOther(c),
           NEW exps, create_pre_adverse(c, exps)
    PROVE  SerialInv(phrases)' /\ ClockStep
<1> DEFINE first == [ends |-> waitNow + WaitDays, elapsed |-> FALSE, paused |-> Null,
                     resumed |-> FALSE, stamp |-> Null]
           new == [first EXCEPT !.stamp = Null]
           r == [at |-> "write", row |-> new]
<1>1. waiting = Null /\ waitNow \in Int /\ WaitDays \in Int /\ stamps \in Int
  BY WaitAssumption DEF create_pre_adverse, WaitIInv, WaitTypes, Stored, Lawful
<1>2. waitReq' = [waitReq EXCEPT ![c] = r] /\ stamps' = stamps /\ UNCHANGED <<waiting, waitNow>>
  BY Zenon DEF create_pre_adverse, ServicePlan, Plan
<1>3. /\ new \in WaitRow /\ new.ends = waitNow + WaitDays /\ new.elapsed = FALSE
      /\ new.paused = Null /\ new.stamp = Null
  <2>1. first \in WaitRow /\ first.stamp = Null
    BY <1>1 DEF WaitRow
  <2>2. new = first
    BY <2>1, SameStamp, Zenon
  <2> QED
    BY <2>1, <2>2, Zenon
<1>4. Follows(new, waiting, waitNow) /\ Sound(new, phrases) /\ Latest(new, waiting, stamps)
  BY <1>1, <1>3, Zenon DEF Follows, Sound, Latest
<1>5. Current(r, waiting, waitNow, stamps', phrases)
  BY <1>2, <1>3, <1>4, Zenon DEF Current
<1>6. stamps' \in Int /\ stamps <= stamps'
  BY <1>1, <1>2
<1> HIDE DEF r
<1> QED
  BY <1>2, <1>5, <1>6, DecisionStep, Zenon

\* A handler that has read the newest row, of the service or of the phrases, decides on one
\* that follows it.
LEMMA PlanStep ==
    ASSUME WaitIInv, NEW phrases, SerialInv(phrases), NEW c \in WaitClients, NoOther(c),
           NEW row \in WaitRow, Follows(row, waiting, waitNow), Sound(row, phrases),
           ServicePlan(c, row) \/ PhrasePlan(c, row), waiting # Null, UNCHANGED <<waiting, waitNow>>
    PROVE  SerialInv(phrases)' /\ ClockStep
<1>1. stamps \in Int /\ waiting.stamp \in Int /\ waiting.stamp <= stamps
  BY Zenon DEF SerialInv, NewestSound, WaitIInv, WaitTypes
<1>2. ASSUME NEW s \in {Null} \cup Int, waitReq' = [waitReq EXCEPT ![c] = [at |-> "write", row |-> [row EXCEPT !.stamp = s]]],
             stamps' \in Int, stamps <= stamps', s # Null => s = stamps' /\ stamps < s
      PROVE  SerialInv(phrases)' /\ ClockStep
  <2> DEFINE new == [row EXCEPT !.stamp = s]
             r == [at |-> "write", row |-> new]
  <2>1. /\ new \in WaitRow /\ new.ends = row.ends /\ new.elapsed = row.elapsed /\ new.paused = row.paused
        /\ new.resumed = row.resumed /\ new.stamp = s
    BY Zenon DEF WaitRow
  <2>2. Follows(new, waiting, waitNow) /\ Sound(new, phrases) /\ Latest(new, waiting, stamps')
    BY <1>1, <1>2, <2>1 DEF Follows, Sound, Latest
  <2>3. Current(r, waiting, waitNow, stamps', phrases)
    BY <2>1, <2>2, Zenon DEF Current
  <2>4. waitReq' = [waitReq EXCEPT ![c] = r]
    BY <1>2, Zenon
  <2> HIDE DEF r
  <2> QED
    BY <1>2, <2>3, <2>4, DecisionStep, Zenon
<1>3. CASE ServicePlan(c, row)
  <2>1. /\ stamps' = stamps
        /\ waitReq' = [waitReq EXCEPT ![c] = [at |-> "write", row |-> [row EXCEPT !.stamp = Null]]]
    BY <1>3, Zenon DEF ServicePlan, Plan
  <2>2. stamps' \in Int /\ stamps <= stamps'
    BY <1>1, <2>1
  <2> QED
    BY <1>2, <2>1, <2>2, Zenon
<1>4. CASE PhrasePlan(c, row)
  <2>1. /\ stamps' = stamps + 1
        /\ waitReq' = [waitReq EXCEPT ![c] = [at |-> "write", row |-> [row EXCEPT !.stamp = stamps + 1]]]
    BY <1>4, Zenon DEF PhrasePlan, Plan
  <2>2. stamps + 1 \in Int /\ stamps' \in Int /\ stamps <= stamps' /\ stamps < stamps + 1
    BY <1>1, <2>1
  <2> QED
    BY <1>2, <2>1, <2>2, Zenon
<1> QED
  BY <1>3, <1>4, Zenon

-----------------------------------------------------------------------------
LEMMA ServiceStep ==
    ASSUME WaitIInv, SerialInv(FALSE), NEW c \in WaitClients, NoOther(c), ServiceNext(c)
    PROVE  SerialInv(FALSE)' /\ ClockStep
<1>1. waitNow \in Int
  BY Zenon DEF WaitIInv, WaitTypes
<1>2. ASSUME waiting # Null
      PROVE  /\ waiting \in WaitRow /\ waiting.ends \in Int /\ waiting.paused \in {Null} \cup Int
             /\ waiting.elapsed \in BOOLEAN /\ (waiting.paused # Null => ~waiting.elapsed)
  BY <1>2, Zenon DEF WaitIInv, WaitTypes, WaitRow, SerialInv, NewestSound, Sound
<1>3. CASE \E exps \in Consents : create_pre_adverse(c, exps)
  BY <1>3, FirstNoticeStep, Zenon
<1>4. CASE WaitWrite(c)
  BY <1>4, WriteStep, Zenon
<1>5. CASE check_waiting(c)
  <2> DEFINE new == [waiting EXCEPT !.elapsed = TRUE]
  <2>1. waiting # Null /\ ServicePlan(c, new) /\ UNCHANGED <<waiting, waitNow>>
        /\ ~waiting.elapsed /\ waiting.ends <= waitNow /\ waiting.paused = Null
    BY <1>5, Zenon DEF check_waiting, ServiceRead
  <2>2. new \in WaitRow /\ new.ends = waiting.ends /\ new.elapsed = TRUE /\ new.paused = Null
    BY <1>2, <2>1, Zenon DEF WaitRow
  <2>3. Follows(new, waiting, waitNow) /\ Sound(new, FALSE)
    BY <1>2, <2>1, <2>2, Zenon DEF Follows, Sound
  <2> QED
    BY <2>1, <2>2, <2>3, PlanStep, Zenon
<1>6. CASE pause_waiting(c)
  <2> DEFINE new == [waiting EXCEPT !.paused = waitNow]
  <2>1. waiting # Null /\ ServicePlan(c, new) /\ UNCHANGED <<waiting, waitNow>>
        /\ ~waiting.elapsed /\ waiting.paused = Null
    BY <1>6, Zenon DEF pause_waiting, ServiceRead
  <2>2. new \in WaitRow /\ new.ends = waiting.ends /\ new.elapsed = waiting.elapsed /\ new.paused = waitNow
    BY <1>1, <1>2, <2>1, Zenon DEF WaitRow
  <2>3. Follows(new, waiting, waitNow) /\ Sound(new, FALSE)
    BY <1>2, <2>1, <2>2, Zenon DEF Follows, Sound
  <2> QED
    BY <2>1, <2>2, <2>3, PlanStep, Zenon
<1>7. CASE resume_waiting(c)
  <2> DEFINE moved == waiting.ends + (waitNow - waiting.paused)
             new == [waiting EXCEPT !.ends = moved, !.paused = Null, !.resumed = TRUE]
  <2>1. waiting # Null /\ ServicePlan(c, new) /\ UNCHANGED <<waiting, waitNow>> /\ waiting.paused # Null
    BY <1>7, Zenon DEF resume_waiting, ServiceRead
  <2>2. moved \in Int
    BY <1>1, <1>2, <2>1
  <2>3. new \in WaitRow /\ new.ends = moved /\ new.elapsed = waiting.elapsed /\ new.paused = Null
    BY <1>2, <2>1, <2>2, Resumed, Zenon
  <2>4. Follows(new, waiting, waitNow) /\ Sound(new, FALSE)
    BY <1>2, <2>1, <2>3, Zenon DEF Follows, Sound
  <2> QED
    BY <2>1, <2>3, <2>4, PlanStep, Zenon
<1> QED
  BY <1>3, <1>4, <1>5, <1>6, <1>7, Zenon DEF ServiceNext

LEMMA PhraseStep ==
    ASSUME WaitIInv, SerialInv(TRUE), NEW c \in WaitClients, NoOther(c), PhraseNext(c)
    PROVE  SerialInv(TRUE)' /\ ClockStep
<1>1. waitNow \in Int /\ stamps \in Int
  BY Zenon DEF WaitIInv, WaitTypes
<1>2. ASSUME waiting # Null
      PROVE  /\ waiting \in WaitRow /\ waiting.ends \in Int /\ waiting.paused \in {Null} \cup Int
             /\ waiting.elapsed \in BOOLEAN /\ (waiting.paused # Null => is_paused(waiting))
             /\ waiting.stamp \in Int /\ waiting.stamp <= stamps
  BY <1>2, Zenon DEF WaitIInv, WaitTypes, WaitRow, SerialInv, NewestSound, Sound, is_paused
<1>3. CASE \E exps \in Consents : create_pre_adverse(c, exps)
  BY <1>3, FirstNoticeStep, Zenon
<1>4. CASE WaitWrite(c)
  BY <1>4, WriteStep, Zenon
<1>5. CASE check_waiting_period_elapsed(c)
  <2> DEFINE r == [at |-> "find", stamp |-> stamps + 1]
  <2>1. /\ waiting # Null /\ waitReq' = [waitReq EXCEPT ![c] = r] /\ stamps' = stamps + 1
        /\ UNCHANGED <<waiting, waitNow>> /\ ElapsedAnswer(waiting, waitNow) /\ ~waiting.elapsed
    BY <1>5, Zenon DEF check_waiting_period_elapsed, PhraseRead
  <2>2. Expired(waiting, waitNow)
    BY <1>1, <1>2, <2>1, Zenon DEF ElapsedAnswer, Expired
  <2>3. r.at = "find" /\ r.stamp = stamps' /\ waiting.stamp < stamps' /\ stamps' \in Int /\ stamps <= stamps'
    BY <1>1, <1>2, <2>1
  <2>4. Current(r, waiting, waitNow, stamps', TRUE)
    BY <2>2, <2>3, Zenon DEF Current
  <2> HIDE DEF r
  <2> QED
    BY <2>1, <2>3, <2>4, DecisionStep, Zenon
<1>6. CASE _find_waiting_period_evidence(c)
  <2> DEFINE new == [waiting EXCEPT !.elapsed = TRUE, !.stamp = waitReq[c].stamp]
             r == [at |-> "write", row |-> new]
  <2>1. /\ waitReq[c].at = "find" /\ waitReq' = [waitReq EXCEPT ![c] = r]
        /\ UNCHANGED <<waiting, waitNow, stamps>>
    BY <1>6, Zenon DEF _find_waiting_period_evidence
  <2>2. Expired(waiting, waitNow) /\ waitReq[c].stamp = stamps /\ waiting.stamp < stamps
    <3>1. Current(waitReq[c], waiting, waitNow, stamps, TRUE)
      BY Zenon DEF SerialInv
    <3>2. waitReq[c].at # "write" /\ waitReq[c] # WaitIdle
      BY <2>1 DEF WaitIdle
    <3> QED
      BY <3>1, <3>2, Zenon DEF Current
  <2>3. new \in WaitRow /\ new.ends = waiting.ends /\ new.elapsed = TRUE /\ new.paused = Null /\ new.stamp = stamps
    BY <1>1, <2>2, Zenon DEF Expired, WaitRow
  <2>4. Follows(new, waiting, waitNow) /\ Sound(new, TRUE) /\ Latest(new, waiting, stamps')
    BY <2>1, <2>2, <2>3, Zenon DEF Expired, Follows, Sound, Latest
  <2>5. Current(r, waiting, waitNow, stamps', TRUE)
    BY <2>3, <2>4, Zenon DEF Current
  <2>6. stamps' \in Int /\ stamps <= stamps'
    BY <1>1, <2>1
  <2> HIDE DEF r
  <2> QED
    BY <2>1, <2>5, <2>6, DecisionStep, Zenon
<1>7. CASE pause_waiting_period(c)
  <2> DEFINE new == [waiting EXCEPT !.paused = waitNow, !.resumed = FALSE]
  <2>1. waiting # Null /\ PhrasePlan(c, new) /\ UNCHANGED <<waiting, waitNow>>
        /\ ~waiting.elapsed /\ ~is_paused(waiting)
    BY <1>7, Zenon DEF pause_waiting_period, PhraseRead
  <2>2. /\ new \in WaitRow /\ new.ends = waiting.ends /\ new.elapsed = waiting.elapsed
        /\ new.paused = waitNow /\ new.resumed = FALSE
    BY <1>1, <1>2, <2>1, Zenon DEF WaitRow
  <2>3. Follows(new, waiting, waitNow) /\ Sound(new, TRUE)
    BY <1>2, <2>1, <2>2, Zenon DEF Follows, Sound
  <2> QED
    BY <2>1, <2>2, <2>3, PlanStep, Zenon
<1>8. CASE resume_waiting_period(c)
  <2> DEFINE moved == waiting.ends + (waitNow - waiting.paused)
             new == [waiting EXCEPT !.ends = moved, !.paused = Null, !.resumed = TRUE]
  <2>1. /\ waiting # Null /\ PhrasePlan(c, new) /\ UNCHANGED <<waiting, waitNow>>
        /\ waiting.paused # Null /\ ~waiting.elapsed
    BY <1>8, Zenon DEF resume_waiting_period, PhraseRead
  <2>2. moved \in Int
    BY <1>1, <1>2, <2>1
  <2>3. new \in WaitRow /\ new.ends = moved /\ new.elapsed = waiting.elapsed /\ new.paused = Null
    BY <1>2, <2>1, <2>2, Resumed, Zenon
  <2>4. Follows(new, waiting, waitNow) /\ Sound(new, TRUE)
    BY <1>2, <2>1, <2>3, Zenon DEF Follows, Sound
  <2> QED
    BY <2>1, <2>3, <2>4, PlanStep, Zenon
<1> QED
  BY <1>3, <1>4, <1>5, <1>6, <1>7, <1>8, Zenon DEF PhraseNext

LEMMA ClockInit == WaitInit => Clock!Init /\ SerialInv(TRUE) /\ SerialInv(FALSE)
BY Zenon DEF WaitInit, Clock!Init, Remaining, IsRunning, IsOver, SerialInv, NewestSound, Current

LEMMA ClockStutter ==
    ASSUME NEW phrases, SerialInv(phrases), UNCHANGED waitVars
    PROVE  SerialInv(phrases)' /\ ClockStep
<1>1. SerialInv(phrases)'
  BY Zenon DEF waitVars, SerialInv
<1>2. ClockStep
  BY Zenon DEF waitVars, ClockStep, Remaining, IsRunning, IsOver
<1> QED
  BY <1>1, <1>2, Zenon

\* The period NoticeService keeps by itself, one request at a time, is a pausable clock of
\* every statutory length: it runs down only while it is not paused, a resumption goes on
\* with the time that was left, and check_waiting marks it elapsed only when none remains.
THEOREM ServiceImplementsClock == ServiceSpec => Clock!Spec
<1>1. WaitInit => WaitIInv /\ SerialInv(FALSE) /\ Clock!Init
  BY WaitInitInv, ClockInit, Zenon
<1>2. ServiceAlone => WaitNext
  BY Zenon DEF ServiceAlone, SerialTick, WaitNext
<1>3. WaitIInv /\ [ServiceAlone]_waitVars => WaitIInv'
  BY <1>2, WaitStep, Zenon
<1>4. WaitIInv /\ SerialInv(FALSE) /\ [ServiceAlone]_waitVars => SerialInv(FALSE)' /\ ClockStep
  BY ServiceStep, SerialTickStep, ClockStutter, Zenon DEF ServiceAlone, NoOther
<1>5. ClockStep => [Clock!Next]_<<Remaining, IsRunning, IsOver>>
  BY Zenon DEF ClockStep
<1> QED
  BY <1>1, <1>3, <1>4, <1>5, PTL DEF ServiceSpec, Clock!Spec, Clock!clockVars

\* So is the period the timing phrases keep by themselves, although they judge a pause by a
\* mark in the row and look the row up a second time before they mark it elapsed.
THEOREM PhrasesImplementClock == PhrasesSpec => Clock!Spec
<1>1. WaitInit => WaitIInv /\ SerialInv(TRUE) /\ Clock!Init
  BY WaitInitInv, ClockInit, Zenon
<1>2. PhrasesAlone => WaitNext
  BY Zenon DEF PhrasesAlone, SerialTick, WaitNext
<1>3. WaitIInv /\ [PhrasesAlone]_waitVars => WaitIInv'
  BY <1>2, WaitStep, Zenon
<1>4. WaitIInv /\ SerialInv(TRUE) /\ [PhrasesAlone]_waitVars => SerialInv(TRUE)' /\ ClockStep
  BY PhraseStep, SerialTickStep, ClockStutter, Zenon DEF PhrasesAlone, NoOther
<1>5. ClockStep => [Clock!Next]_<<Remaining, IsRunning, IsOver>>
  BY Zenon DEF ClockStep
<1> QED
  BY <1>1, <1>3, <1>4, <1>5, PTL DEF PhrasesSpec, Clock!Spec, Clock!clockVars

-----------------------------------------------------------------------------
(* Calls of a model.                                                         *)

BucketInv == tokens \in Nat /\ tokens <= Capacity /\ since \in Nat /\ since <= FullAge

BreakerInv ==
    /\ failures \in Nat /\ trials \in Nat /\ failureAge \in Nat /\ failureAge <= RecoveryTime
    /\ circuit \in {"closed", "open", "half_open"}
    /\ CountsMatchState

\* A caller that has not yet passed the test of the status, and one that has.
Early == {"idle", "acquire", "sleep", "invoke"}

Labels == Early \cup {"hook", "attempt", "http", "backoff"}

Task == [at : Labels, own : BOOLEAN, attempt : Nat, wait : Int, elapsed : Int]

TaskInv == task \in [Callers -> Task]

InHook(c) == ~task[c].own /\ task[c].at = "hook"

\* Only the caller that changed the status of the shared Calling is in its hook.
OnceInv ==
    /\ backendCalls \in Nat /\ backendCalls <= 1
    /\ shared = "pending" => backendCalls = 0 /\ \A c \in Callers : task[c].own \/ task[c].at \in Early
    /\ \A c \in Callers : InHook(c) => backendCalls = 0 /\ \A d \in Callers : InHook(d) => d = c

-----------------------------------------------------------------------------
(* The bucket.                                                                  *)

LEMMA CeilingCovers ==
    ASSUME NEW n \in Nat, NEW d \in Nat \ {0}
    PROVE  Ceiling(n, d) \in Nat /\ Ceiling(n, d) * d >= n
<1>1. PICK m \in Nat : m = n + d - 1
  OBVIOUS
<1>2. PICK q \in Int : q = m \div d
  OBVIOUS
<1>3. d * q <= m /\ m < d * q + d
  BY <1>2, SMTT(30)
<1>4. q \in Nat
  BY <1>2
<1>5. q * d = d * q /\ d * q \in Nat
  BY <1>4
<1>6. d * q >= n
  BY <1>1, <1>3, <1>5
<1> QED
  BY <1>1, <1>2, <1>4, <1>5, <1>6, Zenon DEF Ceiling

LEMMA FullAgeFills == FullAge \in Nat /\ FullAge * RefillRate >= Capacity
BY CeilingCovers, CallAssumption, Zenon DEF FullAge

LEMMA RefilledBounded == BucketInv => Refilled \in Nat /\ Refilled <= Capacity /\ since * RefillRate \in Nat
<1> SUFFICES ASSUME BucketInv PROVE Refilled \in Nat /\ Refilled <= Capacity /\ since * RefillRate \in Nat
  BY Zenon
<1>1. since * RefillRate \in Nat
  BY CallAssumption DEF BucketInv
<1> QED
  BY <1>1, CallAssumption DEF BucketInv, Refilled, Lower

\* One look at the bucket, with what it takes or hands back.
BucketStep ==
    \/ \E n \in Nat \ {0} : TakeTokens(n) \/ RefuseTokens(n)
    \/ \E n \in 1..Capacity : tokens' = Lower(Capacity, tokens + n) /\ since' = since /\ bucketOp' = "release"
    \/ tokens' = Capacity /\ since' = 0 /\ bucketOp' = "reset"
    \/ since' = Lower(since + 1, FullAge) /\ bucketOp' = "tick" /\ UNCHANGED tokens
    \/ UNCHANGED bucketVars

LEMMA CallsStepBucket == [CallNext]_callVars => BucketStep
<1> SUFFICES ASSUME [CallNext]_callVars PROVE BucketStep
  BY Zenon
<1>1. CASE Tick
  BY <1>1, Zenon DEF Tick, BucketStep
<1>2. ASSUME NEW c \in Callers, Begin(c, TRUE) \/ Begin(c, FALSE) \/ Excluded(c) \/ Cancel(c) PROVE BucketStep
  BY <1>2, Zenon DEF Begin, Excluded, Cancel, BucketStep
<1>3. ASSUME NEW c \in Callers, acquire(c) PROVE BucketStep
  BY <1>3 DEF acquire, BucketStep
<1>4. ASSUME NEW c \in Callers, Wake(c) \/ invoke(c) \/ pre_invocation(c) \/ Admit(c) \/ Reject(c) \/ Answer(c)
      PROVE BucketStep
  BY <1>4, Zenon DEF Wake, invoke, pre_invocation, Admit, Reject, Answer, BucketStep
<1>5. CASE reset
  BY <1>5, Zenon DEF reset, BucketStep
<1>6. ASSUME NEW n \in 1..Capacity, try_acquire(n) \/ release(n) PROVE BucketStep
  <2>1. n \in Nat \ {0}
    BY CallAssumption
  <2> QED
    BY <1>6, <2>1, Zenon DEF try_acquire, release, BucketStep
<1>7. CASE UNCHANGED callVars
  BY <1>7, Zenon DEF callVars, BucketStep
<1> QED
  BY <1>1, <1>2, <1>3, <1>4, <1>5, <1>6, <1>7, Zenon DEF CallNext, CallerStep

LEMMA BucketKeeps == BucketInv /\ BucketStep => BucketInv'
<1> SUFFICES ASSUME BucketInv, BucketStep PROVE BucketInv'
  BY Zenon
<1> USE CallAssumption, FullAgeFills, RefilledBounded
<1>1. CASE \E n \in Nat \ {0} : TakeTokens(n) \/ RefuseTokens(n)
  BY <1>1 DEF BucketInv, TakeTokens, RefuseTokens
<1>2. CASE \E n \in 1..Capacity : tokens' = Lower(Capacity, tokens + n) /\ since' = since /\ bucketOp' = "release"
  BY <1>2 DEF BucketInv, Lower
<1>3. CASE tokens' = Capacity /\ since' = 0 /\ bucketOp' = "reset"
  BY <1>3 DEF BucketInv
<1>4. CASE since' = Lower(since + 1, FullAge) /\ bucketOp' = "tick" /\ UNCHANGED tokens
  BY <1>4 DEF BucketInv, Lower
<1>5. CASE UNCHANGED bucketVars
  BY <1>5, Zenon DEF BucketInv, bucketVars
<1> QED
  BY <1>1, <1>2, <1>3, <1>4, <1>5, Zenon DEF BucketStep

\* Looking at the bucket late is as good as filling it with every tick.
LEMMA BucketStepIsMeterStep == BucketInv /\ BucketStep => [Meter!MeterNext]_<<Refilled, bucketOp>>
<1> SUFFICES ASSUME BucketInv, BucketStep PROVE [Meter!MeterNext]_<<Refilled, bucketOp>>
  BY Zenon
<1> DEFINE earned == since * RefillRate
<1>1. /\ tokens \in Nat /\ Capacity \in Nat /\ RefillRate \in Nat /\ since \in Nat
      /\ earned \in Nat /\ Refilled \in Nat /\ Refilled <= Capacity
      /\ Refilled = Lower(Capacity, tokens + earned)
  BY RefilledBounded, CallAssumption, Zenon DEF BucketInv, Refilled
<1>2. ASSUME since' = 0, tokens' \in Nat, tokens' <= Capacity PROVE Refilled' = tokens'
  <2>1. \A r \in Nat, t \in Nat : t + 0 * r = t
    OBVIOUS
  <2>2. Refilled' = Lower(Capacity, tokens')
    BY <1>2, <2>1, CallAssumption, Zenon DEF Refilled
  <2>3. Lower(Capacity, tokens') = tokens'
    BY <1>2, CallAssumption DEF Lower
  <2> QED
    BY <2>2, <2>3, Zenon
<1>3. CASE \E n \in Nat \ {0} : TakeTokens(n)
  <2>1. PICK n \in Nat \ {0} : TakeTokens(n)
    BY <1>3, Zenon
  <2>2. n \in 1..Refilled /\ Refilled' = Refilled - n /\ bucketOp' = "take"
    BY <1>1, <1>2, <2>1 DEF TakeTokens
  <2> QED
    BY <2>2, Zenon DEF Meter!MeterNext, Meter!Take
<1>4. CASE \E n \in Nat \ {0} : RefuseTokens(n)
  <2>1. Refilled' = Refilled /\ bucketOp' = "refuse"
    BY <1>1, <1>2, <1>4, Zenon DEF RefuseTokens
  <2> QED
    BY <2>1, Zenon DEF Meter!MeterNext, Meter!Refuse
<1>5. CASE \E n \in 1..Capacity : tokens' = Lower(Capacity, tokens + n) /\ since' = since /\ bucketOp' = "release"
  <2>1. PICK n \in 1..Capacity : tokens' = Lower(Capacity, tokens + n) /\ since' = since /\ bucketOp' = "release"
    BY <1>5, Zenon
  <2>2. Refilled' = Lower(Capacity, tokens' + earned)
    BY <2>1, Zenon DEF Refilled
  <2>3. Refilled' = Meter!Capped(Refilled + n)
    <3> HIDE DEF earned
    <3> QED
      BY <1>1, <2>1, <2>2 DEF Lower, Meter!Capped
  <2> QED
    BY <2>1, <2>3, Zenon DEF Meter!MeterNext, Meter!HandBack
<1>6. CASE tokens' = Capacity /\ since' = 0 /\ bucketOp' = "reset"
  BY <1>1, <1>2, <1>6 DEF Meter!MeterNext, Meter!Restart
<1>7. CASE since' = Lower(since + 1, FullAge) /\ bucketOp' = "tick" /\ UNCHANGED tokens
  <2>1. CASE since + 1 <= FullAge
    <3>1. since' * RefillRate = earned + RefillRate
      BY <1>1, <1>7, <2>1, FullAgeFills DEF Lower
    <3>2. Refilled' = Lower(Capacity, tokens + (earned + RefillRate))
      BY <1>7, <3>1, Zenon DEF Refilled
    <3>3. Refilled' = Meter!Capped(Refilled + RefillRate)
      <4> HIDE DEF earned
      <4> QED
        BY <1>1, <3>2 DEF Lower, Meter!Capped
    <3> QED
      BY <1>7, <3>3, Zenon DEF Meter!MeterNext, Meter!Rise
  <2>2. CASE ~(since + 1 <= FullAge)
    <3>1. since = FullAge /\ since' = FullAge
      BY <1>1, <1>7, <2>2, FullAgeFills DEF Lower, BucketInv
    <3>2. earned >= Capacity /\ since' * RefillRate = earned
      BY <3>1, FullAgeFills, Zenon
    <3>3. Refilled' = Capacity /\ Refilled = Capacity
      <4>1. Refilled' = Lower(Capacity, tokens + earned)
        BY <1>7, <3>2, Zenon DEF Refilled
      <4> HIDE DEF earned
      <4> QED
        BY <1>1, <3>2, <4>1 DEF Lower
    <3>4. Refilled' = Meter!Capped(Refilled + RefillRate)
      BY <1>1, <3>3, CallAssumption DEF Meter!Capped
    <3> QED
      BY <1>7, <3>4, Zenon DEF Meter!MeterNext, Meter!Rise
  <2> QED
    BY <2>1, <2>2, Zenon
<1>8. CASE UNCHANGED bucketVars
  BY <1>8, Zenon DEF bucketVars, Refilled
<1> QED
  BY <1>3, <1>4, <1>5, <1>6, <1>7, <1>8, Zenon DEF BucketStep

\* TokenBucket refills only when it is looked at, and yet implements the meter that rises
\* with the clock, for every capacity and rate: no order of acquisitions, refusals,
\* releases and resets grants a token time has not earned.
THEOREM BucketImplementsMeter == CallSpec => BucketIsMeter
<1>1. CallInit => BucketInv /\ Meter!MeterInit
  BY CallAssumption, FullAgeFills DEF CallInit, BucketInv, Meter!MeterInit, Refilled, Lower
<1>2. BucketInv /\ [CallNext]_callVars => BucketInv'
  BY CallsStepBucket, BucketKeeps, Zenon
<1>3. BucketInv /\ [CallNext]_callVars => [Meter!MeterNext]_<<Refilled, bucketOp>>
  BY CallsStepBucket, BucketStepIsMeterStep, Zenon
<1> QED
  BY <1>1, <1>2, <1>3, PTL DEF CallSpec, BucketIsMeter, Meter!MeterSpec

-----------------------------------------------------------------------------
(* The callers.                                                                 *)

LEMMA LabelsExist == {"invoke", "sleep", "backoff"} \subseteq Labels
BY Zenon DEF Labels, Early

\* What the actions make of a caller's record.
Located(t, l) == [t EXCEPT !.at = l]
Owned(t, l, o) == [t EXCEPT !.at = l, !.own = o]
WaitingCallers(t, l, i) == [t EXCEPT !.at = l, !.wait = i]
Admitted(t, l, i) == [t EXCEPT !.at = l, !.elapsed = i]
Retried(t, l, i, n) == [t EXCEPT !.at = l, !.wait = i, !.attempt = n]

\* It is a caller's record, at this place.
IsAt(u, l) == u \in Task /\ u.at = l

LEMMA LocatedAt ==
    ASSUME NEW t \in Task, NEW l \in Labels PROVE IsAt(Located(t, l), l) /\ Located(t, l).own = t.own
BY Zenon DEF Task, Located, IsAt

LEMMA OwnedAt ==
    ASSUME NEW t \in Task, NEW l \in Labels, NEW o \in BOOLEAN PROVE IsAt(Owned(t, l, o), l)
BY Zenon DEF Task, Owned, IsAt

LEMMA WaitingAt ==
    ASSUME NEW t \in Task, NEW l \in Labels, NEW i \in Int PROVE IsAt(WaitingCallers(t, l, i), l)
BY Zenon DEF Task, WaitingCallers, IsAt

LEMMA AdmittedAt ==
    ASSUME NEW t \in Task, NEW l \in Labels, NEW i \in Int PROVE IsAt(Admitted(t, l, i), l)
BY Zenon DEF Task, Admitted, IsAt

LEMMA RetriedAt ==
    ASSUME NEW t \in Task, NEW l \in Labels, NEW i \in Int, NEW n \in Nat
    PROVE  IsAt(Retried(t, l, i, n), l) /\ Retried(t, l, i, n).own = t.own
BY Zenon DEF Task, Retried, IsAt

LEMMA IdleTask == Idle \in Task /\ Idle.at = "idle" /\ Idle.own = TRUE
BY DEF Idle, Task, Labels, Early

\* A caller moves to this place without touching the shared Calling.
Moves(c, t) == task' = [task EXCEPT ![c] = t]

LEMMA MovesTypes ==
    ASSUME TaskInv, NEW c \in Callers, NEW t \in Task, Moves(c, t)
    PROVE  TaskInv' /\ \A d \in Callers : task'[d] = IF d = c THEN t ELSE task[d]
BY Zenon DEF TaskInv, Moves

\* Whatever a caller does that is not entering the hook, or leaving it for the backend.
LEMMA MoveKeeps ==
    ASSUME TaskInv, OnceInv, NEW c \in Callers, NEW t \in Task, Moves(c, t),
           t.own \/ t.at # "hook",
           shared' = "pending" => shared = "pending" /\ (t.own \/ t.at \in Early),
           UNCHANGED backendCalls
    PROVE  TaskInv' /\ OnceInv'
<1>1. TaskInv' /\ \A d \in Callers : task'[d] = IF d = c THEN t ELSE task[d]
  BY MovesTypes, Zenon
<1>2. \A d \in Callers : InHook(d)' => InHook(d)
  BY <1>1, Zenon DEF InHook
<1>3. shared' = "pending" => \A d \in Callers : task'[d].own \/ task'[d].at \in Early
  BY <1>1, Zenon DEF OnceInv
<1> QED
  BY <1>1, <1>2, <1>3, Zenon DEF OnceInv

LEMMA ReturnKeeps ==
    ASSUME TaskInv, OnceInv, NEW c \in Callers, NEW s, Return(c, s), task[c].own \/ s # "pending" \/ s = shared
    PROVE  TaskInv' /\ OnceInv'
<1>1. Moves(c, Idle) /\ UNCHANGED backendCalls /\ shared' = IF task[c].own THEN shared ELSE s
  BY Zenon DEF Return, Moves
<1>2. shared' = "pending" => shared = "pending"
  BY <1>1, Zenon
<1> QED
  BY <1>1, <1>2, IdleTask, MoveKeeps, Zenon

LEMMA BeginKeeps ==
    ASSUME TaskInv, OnceInv, NEW c \in Callers, NEW own \in BOOLEAN, Begin(c, own)
    PROVE  TaskInv' /\ OnceInv'
<1> DEFINE l == IF limited THEN "acquire" ELSE "invoke"
<1> DEFINE t == Owned(task[c], l, own)
<1>1. l \in Labels /\ l \in Early /\ task[c] \in Task
  BY Zenon DEF Labels, Early, TaskInv
<1>2. Moves(c, t) /\ UNCHANGED <<shared, backendCalls>>
  BY <1>1, Zenon DEF Begin, Moves, sharedVars, Owned
<1>3. t \in Task /\ t.at = l
  <2> HIDE DEF l
  <2> QED
    BY <1>1, OwnedAt, Zenon DEF IsAt
<1> QED
  BY <1>1, <1>2, <1>3, MoveKeeps, Zenon DEF Early

LEMMA AcquireKeeps ==
    ASSUME TaskInv, OnceInv, BucketInv, NEW c \in Callers, acquire(c)
    PROVE  TaskInv' /\ OnceInv'
<1>1. task[c] \in Task /\ UNCHANGED <<shared, backendCalls>>
  BY Zenon DEF TaskInv, acquire, sharedVars
<1>2. CASE task' = [task EXCEPT ![c].at = "invoke", ![c].elapsed = 0]
  <2> DEFINE t == Admitted(task[c], "invoke", 0)
  <2>1. Moves(c, t)
    BY <1>1, <1>2, Zenon DEF Moves, Admitted
  <2>2. t \in Task /\ t.at = "invoke"
    BY <1>1, AdmittedAt, LabelsExist DEF IsAt
  <2> QED
    BY <1>1, <2>1, <2>2, MoveKeeps, Zenon DEF Early
<1>3. CASE task' = [task EXCEPT ![c] = Idle]
  BY <1>1, <1>3, IdleTask, MoveKeeps, Zenon DEF Moves
<1>4. CASE Sleep(c, "sleep", Ceiling(1 - Refilled, RefillRate))
  <2> DEFINE w == Ceiling(1 - Refilled, RefillRate)
  <2> DEFINE t == WaitingCallers(task[c], "sleep", w)
  <2>1. w \in Int
    BY RefilledBounded, CallAssumption DEF Ceiling
  <2>2. Moves(c, t)
    BY <1>1, <1>4, Zenon DEF Moves, Sleep, WaitingCallers
  <2>3. t \in Task /\ t.at = "sleep"
    BY <1>1, <2>1, WaitingAt, LabelsExist, Zenon DEF IsAt
  <2> QED
    BY <1>1, <2>2, <2>3, MoveKeeps, Zenon DEF Early
<1> QED
  BY <1>2, <1>3, <1>4, Zenon DEF acquire

\* A caller goes on to a later place than the test of the status.
LEMMA GoKeeps ==
    ASSUME TaskInv, OnceInv, NEW c \in Callers, NEW l \in Labels, GoTo(c, l), UNCHANGED <<shared, backendCalls>>,
           l # "hook", l \in Early \/ task[c].at \notin Early
    PROVE  TaskInv' /\ OnceInv'
<1> DEFINE t == Located(task[c], l)
<1>1. task[c] \in Task
  BY Zenon DEF TaskInv
<1>2. Moves(c, t)
  BY <1>1, Zenon DEF GoTo, Moves, Located
<1>3. t \in Task /\ t.at = l /\ t.own = task[c].own
  BY <1>1, LocatedAt, Zenon DEF IsAt
<1>4. shared = "pending" => t.own \/ t.at \in Early
  BY <1>3, Zenon DEF OnceInv
<1> QED
  BY <1>2, <1>3, <1>4, MoveKeeps, Zenon

LEMMA RetryKeeps ==
    ASSUME TaskInv, OnceInv, NEW c \in Callers, Retry(c), task[c].at \notin Early
    PROVE  TaskInv' /\ OnceInv'
<1>1. CASE Return(c, "failed")
  BY <1>1, ReturnKeeps, Zenon
<1>2. CASE BackOff(c, task[c].attempt) /\ UNCHANGED sharedVars
  <2>1. task[c] \in Task /\ task[c].attempt \in Nat
    BY Zenon DEF TaskInv, Task
  <2>2. PICK d \in Ceiling(Delay(task[c].attempt), 2)..Delay(task[c].attempt) :
          task' = [task EXCEPT ![c].at = "backoff", ![c].wait = d, ![c].attempt = task[c].attempt + 1]
    BY <1>2, Zenon DEF BackOff
  <2> DEFINE t == Retried(task[c], "backoff", d, task[c].attempt + 1)
  <2>3. d \in Int /\ task[c].attempt + 1 \in Nat
    BY <2>1, SMTT(20)
  <2>4. Moves(c, t)
    BY <2>1, <2>2, Zenon DEF Moves, Retried
  <2>5. t \in Task /\ t.at = "backoff" /\ t.own = task[c].own
    <3>1. "backoff" \in Labels
      BY LabelsExist, Zenon
    <3>2. IsAt(t, "backoff") /\ t.own = task[c].own
      BY <2>1, <2>3, <3>1, RetriedAt, Zenon
    <3> QED
      BY <3>2, Zenon DEF IsAt
  <2>6. shared' = "pending" => shared = "pending" /\ (t.own \/ t.at \in Early)
    BY <1>2, <2>5, Zenon DEF OnceInv, sharedVars
  <2> QED
    BY <1>2, <2>4, <2>5, <2>6, MoveKeeps, Zenon DEF sharedVars
<1> QED
  BY <1>1, <1>2, Zenon DEF Retry

\* The first to find the shared Calling pending enters its hook, and makes it not pending.
LEMMA InvokeKeeps ==
    ASSUME TaskInv, OnceInv, NEW c \in Callers, invoke(c)
    PROVE  TaskInv' /\ OnceInv'
<1>1. task[c] \in Task /\ "hook" \in Labels
  BY Zenon DEF TaskInv, Labels
<1>2. CASE ~task[c].own /\ shared # "pending"
  BY <1>2, ReturnKeeps, Zenon DEF invoke
<1>3. CASE ~(~task[c].own /\ shared # "pending")
  <2> DEFINE t == Located(task[c], "hook")
  <2>1. Moves(c, t) /\ UNCHANGED backendCalls /\ shared' = IF task[c].own THEN shared ELSE "processing"
    BY <1>1, <1>3, Zenon DEF invoke, GoTo, Moves, Located
  <2>2. t \in Task /\ t.at = "hook" /\ t.own = task[c].own
    BY <1>1, LocatedAt, Zenon DEF IsAt
  <2>3. CASE task[c].own
    <3>1. shared' = shared /\ t.own
      BY <2>1, <2>2, <2>3, Zenon
    <3> QED
      BY <2>1, <2>2, <3>1, MoveKeeps, Zenon
  <2>4. CASE ~task[c].own
    <3>1. shared = "pending" /\ shared' = "processing" /\ backendCalls = 0 /\ backendCalls' = 0
      BY <1>3, <2>1, <2>4, Zenon DEF OnceInv
    <3>2. TaskInv' /\ \A d \in Callers : task'[d] = IF d = c THEN t ELSE task[d]
      BY <2>1, <2>2, MovesTypes, Zenon
    <3>3. \A d \in Callers : ~InHook(d)
      BY <3>1, Zenon DEF OnceInv, InHook, Early
    <3>4. \A d \in Callers : InHook(d)' => d = c
      BY <3>2, <3>3, Zenon DEF InHook
    <3> QED
      BY <3>1, <3>2, <3>4, Zenon DEF OnceInv
  <2> QED
    BY <2>3, <2>4, Zenon
<1> QED
  BY <1>2, <1>3, Zenon

\* The only caller in the hook of the shared Calling leaves it for the backend.
LEMMA HookKeeps ==
    ASSUME TaskInv, OnceInv, NEW c \in Callers, pre_invocation(c)
    PROVE  TaskInv' /\ OnceInv'
<1>1. task[c] \in Task /\ "attempt" \in Labels /\ task[c].at = "hook" /\ task[c].at \notin Early
  BY Zenon DEF TaskInv, Labels, Early, pre_invocation
<1>2. CASE Return(c, "failed")
  BY <1>2, ReturnKeeps, Zenon
<1>3. CASE /\ GoTo(c, "attempt") /\ UNCHANGED shared
           /\ backendCalls' = IF task[c].own THEN backendCalls ELSE Lower(backendCalls + 1, 2)
  <2>1. CASE task[c].own
    BY <1>1, <1>3, <2>1, GoKeeps, Zenon
  <2>2. CASE ~task[c].own
    <3> DEFINE t == Located(task[c], "attempt")
    <3>1. Moves(c, t)
      BY <1>1, <1>3, Zenon DEF GoTo, Moves, Located
    <3>2. t \in Task /\ t.at = "attempt"
      BY <1>1, LocatedAt, Zenon DEF IsAt
    <3>3. TaskInv' /\ \A d \in Callers : task'[d] = IF d = c THEN t ELSE task[d]
      BY <3>1, <3>2, MovesTypes, Zenon
    <3>4. backendCalls = 0 /\ \A d \in Callers : InHook(d) => d = c
      BY <1>1, <2>2, Zenon DEF OnceInv, InHook
    <3>5. backendCalls' = 1
      BY <1>3, <2>2, <3>4 DEF Lower
    <3>6. shared' # "pending"
      BY <1>1, <1>3, <2>2, Zenon DEF OnceInv
    <3>7. \A d \in Callers : ~InHook(d)'
      BY <3>2, <3>3, <3>4, Zenon DEF InHook
    <3> QED
      BY <3>3, <3>5, <3>6, <3>7 DEF OnceInv
  <2> QED
    BY <2>1, <2>2, Zenon
<1> QED
  BY <1>2, <1>3, Zenon DEF pre_invocation

LEMMA OlderKeeps ==
    ASSUME NEW t \in Task PROVE Older(t) \in Task /\ Older(t).at = t.at /\ Older(t).own = t.own
<1>1. PICK w \in Int : w = IF t.wait > 0 THEN t.wait - 1 ELSE 0
  BY DEF Task
<1>2. PICK e \in Int : e = IF t.at \in {"acquire", "sleep"} THEN Lower(t.elapsed + 1, InvokeTimeout + 1) ELSE t.elapsed
  BY CallAssumption DEF Task, Lower
<1>3. Older(t) = [t EXCEPT !.wait = w, !.elapsed = e]
  BY <1>1, <1>2, Zenon DEF Older, Task
<1> QED
  BY <1>3, Zenon DEF Task

LEMMA AgeKeeps ==
    ASSUME TaskInv, OnceInv, Tick PROVE TaskInv' /\ OnceInv'
<1>1. task' = [c \in Callers |-> Older(task[c])] /\ UNCHANGED <<shared, backendCalls>>
  BY Zenon DEF Tick, sharedVars
<1>2. \A c \in Callers : task'[c] \in Task /\ task'[c].at = task[c].at /\ task'[c].own = task[c].own
  BY <1>1, OlderKeeps, Zenon DEF TaskInv
<1>3. TaskInv'
  BY <1>1, <1>2, Zenon DEF TaskInv
<1>4. \A c \in Callers : InHook(c)' <=> InHook(c)
  BY <1>2, Zenon DEF InHook
<1> QED
  BY <1>1, <1>2, <1>3, <1>4, Zenon DEF OnceInv

LEMMA OnceStep == BucketInv /\ TaskInv /\ OnceInv /\ [CallNext]_callVars => TaskInv' /\ OnceInv'
<1> SUFFICES ASSUME BucketInv, TaskInv, OnceInv, [CallNext]_callVars PROVE TaskInv' /\ OnceInv'
  BY Zenon
<1> USE DEF sharedVars
<1>1. CASE Tick
  BY <1>1, AgeKeeps, Zenon
<1>2. ASSUME NEW c \in Callers, Begin(c, TRUE) \/ Begin(c, FALSE) PROVE TaskInv' /\ OnceInv'
  BY <1>2, BeginKeeps, Zenon
<1>3. ASSUME NEW c \in Callers, acquire(c) \/ invoke(c) \/ pre_invocation(c) PROVE TaskInv' /\ OnceInv'
  BY <1>3, AcquireKeeps, InvokeKeeps, HookKeeps, Zenon
<1>4. ASSUME NEW c \in Callers, Wake(c) PROVE TaskInv' /\ OnceInv'
  <2>1. GoTo(c, "acquire") \/ (GoTo(c, "attempt") /\ task[c].at \notin Early)
    BY <1>4, Zenon DEF Wake, Early
  <2>2. "acquire" \in Labels /\ "attempt" \in Labels /\ "acquire" \in Early
    BY Zenon DEF Labels, Early
  <2> QED
    BY <1>4, <2>1, <2>2, GoKeeps, Zenon DEF Wake
<1>5. ASSUME NEW c \in Callers, Admit(c) PROVE TaskInv' /\ OnceInv'
  <2>1. "http" \in Labels /\ GoTo(c, "http") /\ task[c].at \notin Early
    BY <1>5, Zenon DEF Admit, Labels, Early
  <2> QED
    BY <1>5, <2>1, GoKeeps, Zenon DEF Admit
<1>6. ASSUME NEW c \in Callers, Reject(c) PROVE TaskInv' /\ OnceInv'
  BY <1>6, RetryKeeps, Zenon DEF Reject, Early
<1>7. ASSUME NEW c \in Callers, Answer(c) PROVE TaskInv' /\ OnceInv'
  BY <1>7, RetryKeeps, ReturnKeeps, Zenon DEF Answer, Early
<1>8. ASSUME NEW c \in Callers, Excluded(c) \/ Cancel(c) PROVE TaskInv' /\ OnceInv'
  BY <1>8, ReturnKeeps, Zenon DEF Excluded, Cancel
<1>9. CASE UNCHANGED <<task, sharedVars>>
  BY <1>9, Zenon DEF TaskInv, OnceInv, InHook
<1>10. (reset \/ (\E n \in 1..Capacity : try_acquire(n) \/ release(n)) \/ UNCHANGED callVars) => UNCHANGED <<task, sharedVars>>
  BY Zenon DEF reset, try_acquire, release, NoCaller, callVars
<1> QED
  BY <1>1, <1>2, <1>3, <1>4, <1>5, <1>6, <1>7, <1>8, <1>9, <1>10, Zenon DEF CallNext, CallerStep

\* However many tasks invoke one Calling, and whatever its hooks, the limiter, the breaker,
\* retries and cancellations do, Calling.invoke reaches the backend at most once.
THEOREM CallingCalledOnce == CallSpec => []CalledOnce
<1>1. CallInit => BucketInv /\ TaskInv /\ OnceInv
  <2> SUFFICES ASSUME CallInit PROVE BucketInv /\ TaskInv /\ OnceInv
    BY Zenon
  <2>1. BucketInv
    BY CallAssumption, FullAgeFills DEF CallInit, BucketInv
  <2>2. TaskInv /\ \A c \in Callers : task[c].own /\ ~InHook(c)
    BY IdleTask, Zenon DEF CallInit, TaskInv, InHook
  <2> QED
    BY <2>1, <2>2 DEF CallInit, OnceInv
<1>2. BucketInv /\ TaskInv /\ OnceInv /\ [CallNext]_callVars => (BucketInv /\ TaskInv /\ OnceInv)'
  BY CallsStepBucket, BucketKeeps, OnceStep, Zenon
<1>3. OnceInv => CalledOnce
  BY Zenon DEF OnceInv, CalledOnce
<1> QED
  BY <1>1, <1>2, <1>3, PTL DEF CallSpec

-----------------------------------------------------------------------------
(* The breaker.                                                                 *)

\* A call that is let through.
Let ==
    IF ~guarded \/ circuit = "closed" THEN UNCHANGED breakerVars
    ELSE LET used == IF circuit = "open" THEN 0 ELSE trials
         IN  /\ MayTry /\ used < HalfOpenMaxCalls
             /\ circuit' = "half_open" /\ trials' = used + 1
             /\ UNCHANGED <<failures, failureAge>>

Age == failureAge' = Lower(failureAge + 1, RecoveryTime) /\ UNCHANGED <<circuit, failures, trials>>

BreakerStep == guarded' = guarded /\ (Let \/ RecordSuccess \/ RecordFailure \/ Age \/ UNCHANGED breakerVars)

LEMMA CallsStepBreaker == [CallNext]_callVars => BreakerStep
<1> SUFFICES ASSUME [CallNext]_callVars PROVE BreakerStep
  BY Zenon
<1>1. CASE Tick
  BY <1>1, Zenon DEF Tick, BreakerStep, Age
<1>2. ASSUME NEW c \in Callers, Begin(c, TRUE) \/ Begin(c, FALSE) \/ Excluded(c) \/ Cancel(c) PROVE BreakerStep
  BY <1>2, Zenon DEF Begin, Excluded, Cancel, BreakerStep
<1>3. ASSUME NEW c \in Callers, acquire(c) \/ Wake(c) \/ invoke(c) \/ pre_invocation(c) \/ Reject(c) PROVE BreakerStep
  BY <1>3, Zenon DEF acquire, Wake, invoke, pre_invocation, Reject, BreakerStep
<1>4. ASSUME NEW c \in Callers, Admit(c) PROVE BreakerStep
  BY <1>4, Zenon DEF Admit, Let, BreakerStep
<1>5. ASSUME NEW c \in Callers, Answer(c) PROVE BreakerStep
  BY <1>5, Zenon DEF Answer, BreakerStep
<1>6. CASE reset \/ (\E n \in 1..Capacity : try_acquire(n) \/ release(n)) \/ UNCHANGED callVars
  BY <1>6, Zenon DEF reset, try_acquire, release, NoCaller, callVars, BreakerStep
<1> QED
  BY <1>1, <1>2, <1>3, <1>4, <1>5, <1>6, Zenon DEF CallNext, CallerStep

LEMMA BreakerKeeps == BreakerInv /\ BreakerStep => BreakerInv'
<1> SUFFICES ASSUME BreakerInv, BreakerStep PROVE BreakerInv'
  BY Zenon
<1> USE CallAssumption DEF BreakerInv, CountsMatchState, BreakerStep
<1>1. CASE Let
  BY <1>1 DEF Let, breakerVars
<1>2. CASE RecordSuccess
  BY <1>2 DEF RecordSuccess, breakerVars
<1>3. CASE RecordFailure
  BY <1>3 DEF RecordFailure, Lower, breakerVars
<1>4. CASE Age
  BY <1>4 DEF Age, Lower
<1>5. CASE UNCHANGED breakerVars
  BY <1>5, Zenon DEF breakerVars
<1> QED
  BY <1>1, <1>2, <1>3, <1>4, <1>5, Zenon

\* The circuit changes as the protocol says.
LEMMA CircuitMoves ==
    BreakerInv /\ BreakerStep =>
       /\ circuit = "closed" /\ circuit' # "closed" => circuit' = "open" /\ failures' >= FailureThreshold
       /\ circuit = "open" /\ circuit' # "open" => circuit' = "half_open" /\ failureAge = RecoveryTime
<1> USE CallAssumption DEF BreakerInv, BreakerStep
<1> SUFFICES ASSUME BreakerInv, BreakerStep
             PROVE  /\ circuit = "closed" /\ circuit' # "closed" => circuit' = "open" /\ failures' >= FailureThreshold
                    /\ circuit = "open" /\ circuit' # "open" => circuit' = "half_open" /\ failureAge = RecoveryTime
  BY Zenon
<1>1. CASE Let
  BY <1>1 DEF Let, MayTry, breakerVars
<1>2. CASE RecordSuccess
  BY <1>2, Zenon DEF RecordSuccess, breakerVars
<1>3. CASE RecordFailure
  BY <1>3, Zenon DEF RecordFailure, breakerVars
<1>4. CASE Age \/ UNCHANGED breakerVars
  BY <1>4, Zenon DEF Age, breakerVars
<1> QED
  BY <1>1, <1>2, <1>3, <1>4, Zenon

\* Only Admit lets a call reach the service.
LEMMA OnlyAdmitCalls ==
    ASSUME TaskInv, [CallNext]_callVars, NEW c \in Callers, task[c].at = "attempt", task'[c].at = "http"
    PROVE  Admit(c)
<1> USE DEF TaskInv
<1>1. CASE Tick
  BY <1>1, OlderKeeps, Zenon DEF Tick
<1>2. CASE task' = task
  BY <1>2, Zenon
<1>3. ASSUME NEW d \in Callers, NEW t, Moves(d, t), t.at # "http" \/ d # c PROVE FALSE
  BY <1>3, Zenon DEF Moves
<1>4. ASSUME NEW d \in Callers, NEW l \in Labels \ {"http"}, GoTo(d, l) PROVE FALSE
  <2>1. Moves(d, Located(task[d], l)) /\ Located(task[d], l).at = l
    BY <1>4, LocatedAt, Zenon DEF GoTo, Moves, Located, IsAt
  <2> QED
    BY <1>3, <2>1, Zenon
<1>5. ASSUME NEW d \in Callers, NEW s, Return(d, s) PROVE FALSE
  BY <1>3, <1>5, IdleTask, Zenon DEF Return, Moves
<1>6. ASSUME NEW d \in Callers, Retry(d) PROVE FALSE
  <2>1. CASE BackOff(d, task[d].attempt)
    <3>1. task[d] \in Task /\ task[d].attempt \in Nat
      BY Zenon DEF Task
    <3>2. PICK w \in Ceiling(Delay(task[d].attempt), 2)..Delay(task[d].attempt) :
            task' = [task EXCEPT ![d].at = "backoff", ![d].wait = w, ![d].attempt = task[d].attempt + 1]
      BY <2>1, Zenon DEF BackOff
    <3>3. Moves(d, Retried(task[d], "backoff", w, task[d].attempt + 1))
      BY <3>1, <3>2, Zenon DEF Moves, Retried
    <3>4. Retried(task[d], "backoff", w, task[d].attempt + 1).at = "backoff"
      <4>1. w \in Int /\ task[d].attempt + 1 \in Nat
        BY <3>1, SMTT(20)
      <4>2. "backoff" \in Labels
        BY LabelsExist, Zenon
      <4>3. IsAt(Retried(task[d], "backoff", w, task[d].attempt + 1), "backoff")
        BY <3>1, <4>1, <4>2, RetriedAt, Zenon
      <4> QED
        BY <4>3, Zenon DEF IsAt
    <3> QED
      BY <1>3, <3>3, <3>4, Zenon
  <2> QED
    BY <1>5, <1>6, <2>1, Zenon DEF Retry
<1>8. ASSUME NEW d \in Callers, Begin(d, TRUE) \/ Begin(d, FALSE) \/ acquire(d) PROVE FALSE
  <2>1. d # c
    BY <1>8, Zenon DEF Begin, acquire
  <2>2. task'[c] = task[c]
    BY <1>8, <2>1, Zenon DEF Begin, acquire, Sleep
  <2> QED
    BY <2>2, Zenon
<1>9. ASSUME NEW d \in Callers, Wake(d) \/ invoke(d) \/ pre_invocation(d) PROVE FALSE
  BY <1>4, <1>5, <1>9, Zenon DEF Wake, invoke, pre_invocation, Labels, Early
<1>10. ASSUME NEW d \in Callers, Reject(d) \/ Answer(d) \/ Excluded(d) \/ Cancel(d) PROVE FALSE
  BY <1>5, <1>6, <1>10, Zenon DEF Reject, Answer, Excluded, Cancel
<1>11. ASSUME NEW d \in Callers, Admit(d) PROVE d = c
  BY <1>11, Zenon DEF Admit, GoTo
<1>12. (reset \/ (\E n \in 1..Capacity : try_acquire(n) \/ release(n)) \/ UNCHANGED callVars) => task' = task
  BY Zenon DEF reset, try_acquire, release, NoCaller, callVars
<1> QED
  BY <1>1, <1>2, <1>8, <1>9, <1>10, <1>11, <1>12, Zenon DEF CallNext, CallerStep

\* The breaker for every threshold, recovery time and number of callers with late answers:
\* in CLOSED fewer failures are on record than the threshold, HALF_OPEN has let a trial through.
THEOREM BreakerCounts == CallSpec => []CountsMatchState
<1>1. CallInit => BreakerInv
  BY CallAssumption DEF CallInit, BreakerInv, CountsMatchState
<1>2. BreakerInv /\ [CallNext]_callVars => BreakerInv'
  BY CallsStepBreaker, BreakerKeeps, Zenon
<1>3. BreakerInv => CountsMatchState
  BY Zenon DEF BreakerInv
<1> QED
  BY <1>1, <1>2, <1>3, PTL DEF CallSpec

\* CircuitBreaker moves only along its protocol, and no request reaches the service while
\* the circuit is open, however many callers retry at once.
THEOREM BreakerKeepsProtocol == CallSpec => BreakerProtocol
<1> DEFINE Protocol ==
      /\ circuit = "closed" /\ circuit' # "closed" => circuit' = "open" /\ failures' >= FailureThreshold
      /\ circuit = "open" /\ circuit' # "open" => circuit' = "half_open" /\ failureAge = RecoveryTime
      /\ \A c \in Callers : task[c].at = "attempt" /\ task'[c].at = "http" /\ guarded => circuit' # "open"
<1> DEFINE Inv == BucketInv /\ TaskInv /\ OnceInv /\ BreakerInv
<1>1. CallInit => Inv
  <2> SUFFICES ASSUME CallInit PROVE Inv
    BY Zenon
  <2>1. BucketInv
    BY CallAssumption, FullAgeFills DEF CallInit, BucketInv
  <2>2. TaskInv /\ \A c \in Callers : task[c].own /\ ~InHook(c)
    BY IdleTask, Zenon DEF CallInit, TaskInv, InHook
  <2>3. OnceInv
    BY <2>2 DEF CallInit, OnceInv
  <2>4. BreakerInv
    BY CallAssumption DEF CallInit, BreakerInv, CountsMatchState
  <2> QED
    BY <2>1, <2>2, <2>3, <2>4, Zenon
<1>2. Inv /\ [CallNext]_callVars => Inv'
  BY CallsStepBucket, BucketKeeps, OnceStep, CallsStepBreaker, BreakerKeeps, Zenon
<1>3. Inv /\ [CallNext]_callVars => [Protocol]_callVars
  <2> SUFFICES ASSUME Inv, [CallNext]_callVars PROVE Protocol
    BY Zenon
  <2>1. BreakerStep
    BY CallsStepBreaker, Zenon
  <2>2. ASSUME NEW c \in Callers, task[c].at = "attempt", task'[c].at = "http", guarded PROVE circuit' # "open"
    <3>1. Admit(c)
      BY <2>2, OnlyAdmitCalls, Zenon
    <3> QED
      BY <2>2, <3>1, Zenon DEF Admit, breakerVars
  <2> QED
    BY <2>1, <2>2, CircuitMoves, Zenon
<1> QED
  BY <1>1, <1>2, <1>3, PTL DEF CallSpec, BreakerProtocol
=============================================================================
