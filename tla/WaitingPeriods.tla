---------------------------- MODULE WaitingPeriods ----------------------------
(***************************************************************************)
(* The waiting period between a pre-adverse and an adverse action notice,   *)
(* for one notice.  Two pieces of code maintain it on the same evidence     *)
(* rows: NoticeService and the timing phrases.  Every change appends a row; *)
(* the newest by collected_at is the only one ever read, and it is all the  *)
(* model keeps.  A handler reads, takes the time, and writes in a later     *)
(* step, on the strength of what it read.                                   *)
(***************************************************************************)
EXTENDS Rows

CONSTANTS
    WaitClients,   \* concurrent requests
    WaitDays,      \* the required days of the jurisdiction
    MaxWaitTime,   \* bound: the clock
    MaxWaitRows    \* bound: evidence rows

\* The content of a waiting period row; stamp is its collected_at.
WaitRow == [ends : Int, elapsed : BOOLEAN, paused : {Null} \cup Int, resumed : BOOLEAN, stamp : {Null} \cup Int]

ASSUME WaitAssumption ==
    WaitDays \in Nat /\ MaxWaitTime \in Nat /\ MaxWaitRows \in Nat /\ Null \notin WaitRow

VARIABLES
    waiting,    \* the newest waiting period row, Null before the first
    notices,    \* what was sent: pre and adverse, with the time
    stamps,     \* readings of collected_at so far; each is later than the ones before
    waitReq,    \* waitReq[c]: what c has still to write
    waitNow

waitVars == <<waiting, notices, stamps, waitReq, waitNow>>

WaitIdle == [at |-> "idle"]

WaitInit ==
    /\ waiting = Null
    /\ notices = [pre |-> Null, adverse |-> Null]
    /\ stamps = 0
    /\ waitReq = [c \in WaitClients |-> WaitIdle]
    /\ waitNow = 0

-----------------------------------------------------------------------------
\* ORDER BY collected_at DESC: a row stamped earlier than the newest is never read.
Newest(row) == IF waiting = Null \/ waiting.stamp < row.stamp THEN row ELSE waiting

\* The phrases stamp the row with the time they took after reading, the service when it is
\* inserted.
Plan(c, row) ==
    /\ stamps < MaxWaitRows
    /\ waitReq' = [waitReq EXCEPT ![c] = [at |-> "write", row |-> row]]

PhrasePlan(c, row) == Plan(c, [row EXCEPT !.stamp = stamps + 1]) /\ stamps' = stamps + 1

ServicePlan(c, row) == Plan(c, [row EXCEPT !.stamp = Null]) /\ UNCHANGED stamps

\* The insert of the row, directly or through supersede_evidence, whose chain entry is the
\* matter of EvidenceChain.
WaitWrite(c) ==
    /\ waitReq[c].at = "write"
    /\ LET row == waitReq[c].row
       IN  IF row.stamp # Null
           THEN waiting' = Newest(row) /\ UNCHANGED stamps
           ELSE /\ stamps < MaxWaitRows
                /\ stamps' = stamps + 1
                /\ waiting' = [row EXCEPT !.stamp = stamps + 1]
    /\ waitReq' = [waitReq EXCEPT ![c] = WaitIdle]
    /\ UNCHANGED <<notices, waitNow>>

\* A request is cut off between two statements.
WaitAbort(c) ==
    /\ waitReq[c] # WaitIdle
    /\ waitReq' = [waitReq EXCEPT ![c] = WaitIdle]
    /\ UNCHANGED <<waiting, notices, stamps, waitNow>>

-----------------------------------------------------------------------------
(* NoticeService.                                                            *)

\* tokens: the expiry of every token of the subject and scope that is not revoked
_verify_consent(tokens) == \E e \in tokens : e # Null => e > waitNow

create_pre_adverse(c, tokens) ==
    /\ waitReq[c] = WaitIdle
    /\ _verify_consent(tokens)
    /\ notices.pre = Null
    /\ notices' = [notices EXCEPT !.pre = waitNow]
    /\ ServicePlan(c, [ends |-> waitNow + WaitDays, elapsed |-> FALSE, paused |-> Null,
                       resumed |-> FALSE, stamp |-> Null])
    /\ UNCHANGED <<waiting, waitNow>>

\* Without a waiting period row nothing is refused.
MayAct(row, now) == row # Null => row.elapsed \/ row.ends <= now

create_adverse(c, tokens) ==
    /\ waitReq[c] = WaitIdle
    /\ _verify_consent(tokens)
    /\ notices.pre # Null
    /\ MayAct(waiting, waitNow)
    /\ waitReq' = [waitReq EXCEPT ![c] = [at |-> "adverse", none |-> waiting = Null]]
    /\ UNCHANGED <<waiting, notices, stamps, waitNow>>

CreateAdverseWrite(c) ==
    /\ waitReq[c].at = "adverse"
    /\ notices' = [notices EXCEPT !.adverse =
          IF @ = Null THEN [at |-> waitNow, none |-> waitReq[c].none] ELSE @]
    /\ waitReq' = [waitReq EXCEPT ![c] = WaitIdle]
    /\ UNCHANGED <<waiting, stamps, waitNow>>

ServiceRead(c) == waitReq[c] = WaitIdle /\ waiting # Null /\ UNCHANGED <<waiting, notices, waitNow>>

check_waiting(c) ==
    /\ ServiceRead(c)
    /\ ~waiting.elapsed /\ waiting.ends <= waitNow /\ waiting.paused = Null
    /\ ServicePlan(c, [waiting EXCEPT !.elapsed = TRUE])

pause_waiting(c) ==
    /\ ServiceRead(c)
    /\ ~waiting.elapsed /\ waiting.paused = Null
    /\ ServicePlan(c, [waiting EXCEPT !.paused = waitNow])

\* Mutant: the end is moved from the moment of the pause.
resume_waiting_FromPause(c) ==
    /\ ServiceRead(c)
    /\ waiting.paused # Null
    /\ ServicePlan(c, [waiting EXCEPT !.ends = waiting.paused + 1, !.paused = Null, !.resumed = TRUE])

\* The end moves by the length of the pause.
resume_waiting(c) ==
    /\ ServiceRead(c)
    /\ waiting.paused # Null
    /\ ServicePlan(c, [waiting EXCEPT !.ends = @ + (waitNow - waiting.paused),
                                      !.paused = Null, !.resumed = TRUE])

-----------------------------------------------------------------------------
(* The timing phrases.                                                       *)

\* Paused unless a resumption is noted in the same row.
is_paused(row) == row.paused # Null /\ ~row.resumed

PhraseRead(c) == waitReq[c] = WaitIdle /\ waiting # Null /\ UNCHANGED <<waiting, notices, waitNow>>

pause_waiting_period(c) ==
    /\ PhraseRead(c)
    /\ ~is_paused(waiting) /\ ~waiting.elapsed
    /\ PhrasePlan(c, [waiting EXCEPT !.paused = waitNow, !.resumed = FALSE])

resume_waiting_period(c) ==
    /\ PhraseRead(c)
    /\ waiting.paused # Null /\ ~waiting.elapsed
    /\ PhrasePlan(c, [waiting EXCEPT !.ends = @ + (waitNow - waiting.paused),
                                     !.paused = Null, !.resumed = TRUE])

\* What check_waiting_period_elapsed answers for the row it read at time now.
ElapsedAnswer(row, now) == row.elapsed \/ (now >= row.ends /\ ~is_paused(row))

\* Mutant: a paused period elapses too.
check_waiting_period_elapsed_Paused(c) ==
    /\ PhraseRead(c)
    /\ waitNow >= waiting.ends /\ ~waiting.elapsed
    /\ stamps < MaxWaitRows
    /\ stamps' = stamps + 1
    /\ waitReq' = [waitReq EXCEPT ![c] = [at |-> "find", stamp |-> stamps + 1]]

\* auto_mark_elapsed: the row is looked up a second time before it is superseded.
check_waiting_period_elapsed(c) ==
    /\ PhraseRead(c)
    /\ ElapsedAnswer(waiting, waitNow) /\ ~waiting.elapsed
    /\ stamps < MaxWaitRows
    /\ stamps' = stamps + 1
    /\ waitReq' = [waitReq EXCEPT ![c] = [at |-> "find", stamp |-> stamps + 1]]

_find_waiting_period_evidence(c) ==
    /\ waitReq[c].at = "find"
    /\ waitReq' = [waitReq EXCEPT ![c] = [at |-> "write",
          row |-> [waiting EXCEPT !.elapsed = TRUE, !.stamp = waitReq[c].stamp]]]
    /\ UNCHANGED <<waiting, notices, stamps, waitNow>>

WaitTick ==
    /\ waitNow < MaxWaitTime
    /\ waitNow' = waitNow + 1
    /\ UNCHANGED <<waiting, notices, stamps, waitReq>>

-----------------------------------------------------------------------------
Consents == {{}, {Null}, {1}}

ServiceNext(c) ==
    \/ (\E tokens \in Consents : create_pre_adverse(c, tokens)) \/ WaitWrite(c)
    \/ check_waiting(c) \/ pause_waiting(c) \/ resume_waiting(c)

PhraseNext(c) ==
    \/ (\E tokens \in Consents : create_pre_adverse(c, tokens)) \/ WaitWrite(c) \/ _find_waiting_period_evidence(c)
    \/ check_waiting_period_elapsed(c) \/ pause_waiting_period(c) \/ resume_waiting_period(c)

\* Requests of both kinds overlap and may be cut off.
WaitNext ==
    \/ \E c \in WaitClients :
          \/ ServiceNext(c) \/ PhraseNext(c)
          \/ (\E tokens \in Consents : create_adverse(c, tokens)) \/ CreateAdverseWrite(c) \/ WaitAbort(c)
    \/ WaitTick

WaitSpec == WaitInit /\ [][WaitNext]_waitVars

\* One of the two alone, one request at a time, each within one unit of the clock.
SerialTick == WaitTick /\ \A c \in WaitClients : waitReq[c] = WaitIdle

ServiceAlone ==
    \/ \E c \in WaitClients : ServiceNext(c) /\ \A d \in WaitClients \ {c} : waitReq[d] = WaitIdle
    \/ SerialTick

PhrasesAlone ==
    \/ \E c \in WaitClients : PhraseNext(c) /\ \A d \in WaitClients \ {c} : waitReq[d] = WaitIdle
    \/ SerialTick

ServiceSpec == WaitInit /\ [][ServiceAlone]_waitVars

PhrasesSpec == WaitInit /\ [][PhrasesAlone]_waitVars

-----------------------------------------------------------------------------
(* The period as a pausable clock.                                           *)

Remaining ==
    IF waiting = Null THEN WaitDays
    ELSE LET upto == IF waiting.paused # Null THEN waiting.paused ELSE waitNow
         IN  IF waiting.elapsed \/ waiting.ends < upto THEN 0 ELSE waiting.ends - upto

IsRunning == waiting # Null /\ (waiting.paused = Null \/ waiting.elapsed)

IsOver == waiting # Null /\ waiting.elapsed

PlannedRow(c) == IF waitReq[c].at = "write" THEN {waitReq[c].row} ELSE {}

\* However the two implementations, their overlapping requests and requests cut off half-way
\* interfere, the statutory minimum stands: every row, stored or about to be, ends at least
\* WaitDays after the pre-adverse notice, no row says elapsed before that moment, and an
\* adverse notice that found a waiting period row is not sent before it.
MinimumWaitKept ==
    /\ \A row \in (IF waiting = Null THEN {} ELSE {waiting}) \cup UNION {PlannedRow(c) : c \in WaitClients} :
          /\ notices.pre # Null
          /\ row.ends >= notices.pre + WaitDays
          /\ row.elapsed => waitNow >= notices.pre + WaitDays
    /\ (notices.adverse # Null /\ ~notices.adverse.none) => notices.adverse.at >= notices.pre + WaitDays
=============================================================================
