------------------------------ MODULE CoreChecks ------------------------------
(***************************************************************************)
(* The requirements of the core vocabulary that look at a table of reviews, *)
(* audits or screenings, its arithmetic on amounts, and the break-glass     *)
(* certificate, whose notifications are queued one statement at a time.     *)
(* Rows arrive in any order of their time stamps, as a late import does;    *)
(* the time stamp of an unfinished one is NULL.  Two units of time are a    *)
(* day.                                                                     *)
(***************************************************************************)
EXTENDS Rows, Sequences

CONSTANTS
    MaxCoreTime,   \* bound: the clock, in half days
    MaxHistory,    \* bound: rows of the table
    Parties        \* notified parties of a break-glass certificate, in order

VARIABLES
    history,   \* the rows about one resource: <<time stamp, status>>
    coreNow,
    glass      \* the break-glass certificate and the notifications queued for it

coreVars == <<history, coreNow, glass>>

NoGlass == [attestation |-> FALSE, certificate |-> FALSE, queued |-> <<>>, returned |-> FALSE, cut |-> FALSE]

CoreInit == history = {} /\ coreNow = 0 /\ glass = NoGlass

Times == 0..MaxCoreTime

\* Reviews and screenings of other code; finished ones carry the time
row_recorded(at, status) ==
    /\ Cardinality(history) < MaxHistory
    /\ (at = Null) <=> (status = "pending")
    /\ at # Null => at <= coreNow
    /\ history' = history \cup {<<at, status>>}
    /\ UNCHANGED <<coreNow, glass>>

CoreTick ==
    /\ coreNow < MaxCoreTime
    /\ coreNow' = coreNow + 1
    /\ UNCHANGED <<history, glass>>

-----------------------------------------------------------------------------
Finished == {r \in history : r[1] # Null}
Latest(rows) == {r \in rows : \A q \in rows : q[1] <= r[1]}

\* ORDER BY at DESC NULLS LAST LIMIT 1: the rows it may return
NullsLast == IF Finished # {} THEN Latest(Finished) ELSE history

\* ORDER BY at DESC LIMIT 1: NULL is the greatest value
NullsFirst == IF history # Finished THEN history \ Finished ELSE Latest(Finished)

\* The requirements below are met when every row the query may return is accepted.
require_alternative_reviewed == NullsLast # {} /\ \A r \in NullsLast : r[2] \in {"good", "waived"}

require_sox_compliance_review == NullsFirst # {} /\ \A r \in NullsFirst : r[2] = "good"

\* A screening is satisfied unless it failed, is pending, or scored above the maximum.
require_fraud_screening_pass(score, max_score) ==
    /\ NullsFirst # {}
    /\ \A r \in NullsFirst : r[2] \notin {"bad", "pending"}
    /\ score # Null => score <= max_score

verify_audit_complete == NullsLast # {} /\ \A r \in NullsLast : r[2] = "good"

\* Whole days, rounded down
DaysSince(t) == (coreNow - t) \div 2

LatestComplete == Latest({r \in Finished : r[2] = "good"})

verify_audit_current(max_age_days) ==
    LatestComplete # {} /\ \A r \in LatestComplete : DaysSince(r[1]) <= max_age_days

\* Deleted evidence is not found; collected_at, or else created_at, to the instant
verify_evidence_freshness(row, max_age) ==
    /\ row # Null /\ ~row.deleted
    /\ LET at == IF row.collected_at # Null THEN row.collected_at ELSE row.created_at
       IN  at # Null /\ coreNow - at <= max_age

require_provenance_documented(row, source, transformation) ==
    /\ row # Null
    /\ source => row.source
    /\ transformation => row.transformation

\* The key as the table has it; what the library answers about signature and data is valid.
verify_signature_valid(key, algorithm, valid) ==
    /\ key # Null
    /\ key.status \in {"active", "archived"}
    /\ key.algorithm = algorithm /\ key.material /\ algorithm = "ed25519"
    /\ valid

verify_signer_identity(roles, expected) == expected \in roles

verify_values_match(a, b) == a = b

require_value_within_limit(value, limit) == ~(value > limit)

\* A registered schema, and facts it accepts
require_facts_schema_valid(registry, version, accepted) == version \in registry /\ accepted

Bands == <<<<"standard", 0>>, <<"elevated", 10000>>, <<"high", 50000>>, <<"critical", 250000>>>>

\* One turn of the loop of derive_amount_band
BandAfter(amount, selected, i) ==
    IF amount >= Bands[i][2]
    THEN [band |-> Bands[i][1], next |-> IF i < Len(Bands) THEN Bands[i + 1][2] ELSE Null]
    ELSE selected

derive_amount_band(amount) ==
    LET band[i \in 0..Len(Bands)] ==
            IF i = 0 THEN [band |-> Bands[1][1], next |-> Null] ELSE BandAfter(amount, band[i - 1], i)
    IN  band[Len(Bands)]

-----------------------------------------------------------------------------
\* Refused without an attestation of 50 characters, a subject, an actor and a tenant
invoke_break_glass(attestation, subject, actor) ==
    /\ glass = NoGlass
    /\ attestation /\ subject /\ actor
    /\ glass' = [glass EXCEPT !.attestation = attestation, !.certificate = TRUE]
    /\ UNCHANGED <<history, coreNow>>

\* One INSERT of the loop; the phrase returns after the last one.
queue_break_glass_notifications ==
    /\ glass.certificate /\ ~glass.cut /\ Len(glass.queued) < Len(Parties)
    /\ glass' = [glass EXCEPT !.queued = Append(@, Parties[Len(@) + 1]),
                              !.returned = Len(glass.queued) + 1 = Len(Parties)]
    /\ UNCHANGED <<history, coreNow>>

\* A statement fails or the process stops.
break_glass_cut ==
    /\ glass.certificate /\ ~glass.cut /\ ~glass.returned
    /\ glass' = [glass EXCEPT !.cut = TRUE]
    /\ UNCHANGED <<history, coreNow>>

CoreNext ==
    \/ \E at \in Times \cup {Null}, status \in {"good", "waived", "bad", "pending"} : row_recorded(at, status)
    \/ CoreTick
    \/ \E attestation, subject, actor \in BOOLEAN : invoke_break_glass(attestation, subject, actor)
    \/ queue_break_glass_notifications
    \/ break_glass_cut

-----------------------------------------------------------------------------
\* The audit checks agree with each other and with the review checks on the same rows.  A
\* complete audit is current for an age without limit; a current one is complete unless an
\* audit that is not complete finished at the same time or later; a control with an unfinished
\* review is not compliant although an alternative with one stays reviewed; rounding age down
\* to days accepts an audit at most a day after its expiry and refuses none before.
AuditChecksAgree ==
    /\ verify_audit_complete => verify_audit_current(MaxCoreTime)
    /\ (verify_audit_current(MaxCoreTime) /\ ~verify_audit_complete) =>
          \E bad \in Finished, r \in LatestComplete : bad[2] # "good" /\ bad[1] >= r[1]
    /\ require_sox_compliance_review => verify_audit_complete /\ require_alternative_reviewed
    /\ verify_audit_complete => require_alternative_reviewed
    /\ <<Null, "pending">> \in history =>
          ~require_sox_compliance_review /\ ~require_fraud_screening_pass(Null, 0)
    /\ \A days \in 0..MaxCoreTime : \A r \in LatestComplete :
          /\ coreNow <= r[1] + 2 * days => verify_audit_current(days)
          /\ verify_audit_current(days) => coreNow < r[1] + 2 * (days + 1)
          /\ verify_evidence_freshness([deleted |-> FALSE, collected_at |-> r[1], created_at |-> Null], 2 * days)
                => verify_audit_current(days)

Edges == UNION {{Bands[i][2] - 1, Bands[i][2], Bands[i][2] + 1} : i \in DOMAIN Bands} \cap Nat

\* The loop of derive_amount_band finds the one band the amount lies in: its threshold is
\* reached, the next one is not, and next_band_at says where that is.
BandIsExact ==
    coreNow = 1 => \A amount \in Edges :
        LET answer == derive_amount_band(amount)
        IN  \E i \in DOMAIN Bands :
                /\ answer.band = Bands[i][1]
                /\ require_value_within_limit(Bands[i][2], amount)
                /\ IF i = Len(Bands) THEN answer.next = Null
                   ELSE answer.next = Bands[i + 1][2] /\ ~require_value_within_limit(answer.next, amount)

\* A break-glass invocation that returned has told every party, one that was cut off has told
\* a first part of them, and nobody is told of a certificate that was not stored.
BreakGlassIsAnnounced ==
    /\ glass.returned => glass.queued = Parties
    /\ glass.queued # <<>> => glass.certificate
    /\ glass.queued = SubSeq(Parties, 1, Len(glass.queued))
=============================================================================
