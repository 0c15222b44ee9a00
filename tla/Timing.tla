-------------------------------- MODULE Timing --------------------------------
(***************************************************************************)
(* The timing vocabulary besides the waiting period: business days, the     *)
(* table of statutory periods, checks against the clock, and what is known  *)
(* of the delivery and acknowledgment of one notice.  Days are integers, 0  *)
(* a Monday.                                                                *)
(***************************************************************************)
EXTENDS Rows, Sequences

CONSTANTS
    MaxDay,          \* bound: the days enumerated
    MaxDeliveries    \* bound: delivery attempts and acknowledgments

VARIABLES
    timeIn,        \* the inputs of the pure checks
    deliveries,    \* notice.delivery rows, in the order of collected_at
    acks,          \* notice.acknowledgment rows
    notice_deliveries   \* the table verify_notice_delivered reads

timingVars == <<timeIn, deliveries, acks, notice_deliveries>>

TimingRest ==
    /\ timeIn = [day |-> 0, n |-> 0]
    /\ deliveries = <<>>
    /\ acks = <<>>
    /\ notice_deliveries = {}

TimingInit ==
    /\ timeIn \in [day : 0..MaxDay, n : -MaxDay..MaxDay]
    /\ deliveries = <<>>
    /\ acks = <<>>
    /\ notice_deliveries = {}

-----------------------------------------------------------------------------
(* compute_business_days                                                     *)

_is_business_day(d) == d % 7 < 5

\* The loop: step one day, count it off when it is a business day.
RECURSIVE AddLoop(_, _, _)
AddLoop(current, direction, remaining) ==
    IF remaining = 0 THEN current
    ELSE LET next == current + direction
         IN  AddLoop(next, direction, IF _is_business_day(next) THEN remaining - 1 ELSE remaining)

_add_business_days(start, days) ==
    IF days >= 0 THEN AddLoop(start, 1, days) ELSE AddLoop(start, -1, -days)

RECURSIVE CountLoop(_, _)
CountLoop(current, end) ==
    IF current >= end THEN 0
    ELSE (IF _is_business_day(current) THEN 1 ELSE 0) + CountLoop(current + 1, end)

\* Mutant: the end day counts too.
_count_business_days_Inclusive(start, end) == IF start >= end THEN 0 ELSE CountLoop(start, end + 1)

_count_business_days(start, end) == IF start >= end THEN 0 ELSE CountLoop(start, end)

\* A range, or a start and a number of days; anything else has no answer.
compute_business_days(start, end, days) ==
    CASE start # Null /\ end # Null ->
            [date |-> Null, business |-> _count_business_days(start, end), calendar |-> end - start]
      [] start # Null /\ end = Null /\ days # Null ->
            LET d == _add_business_days(start, days)
            IN  [date |-> d, business |-> IF days < 0 THEN -days ELSE days,
                 calendar |-> IF d < start THEN start - d ELSE d - start]
      [] OTHER -> [date |-> Null, business |-> Null, calendar |-> Null]

-----------------------------------------------------------------------------
(* Checks against the clock.                                                 *)

require_minimum_elapsed(now, occurred, minimum) == now - occurred >= minimum

require_deadline_not_passed(now, deadline) == deadline - now >= 0

verify_sla_met(now, started, completed, target) ==
    (IF completed # Null THEN completed ELSE now) - started <= target

\* _DEFAULT_CONSTRAINTS
StatutoryDays ==
    [adverse_action |-> [federal |-> 5, california |-> 7, nyc |-> 5, new_york_state |-> 5],
     termination_notice |-> [federal |-> 60, california |-> 60, nyc |-> 90],
     dispute_response |-> [federal |-> 30, california |-> 30]]

get_timing_constraints(context, jurisdiction) ==
    IF context \notin DOMAIN StatutoryDays THEN Null
    ELSE LET table == StatutoryDays[context]
         IN  IF jurisdiction \in DOMAIN table THEN table[jurisdiction] ELSE table["federal"]

\* NoticeService's own table
WAITING_PERIODS == [federal |-> 5, ca |-> 7, nyc |-> 5, default |-> 5]

NoticeWaitingDays(jurisdiction) ==
    IF jurisdiction \in DOMAIN WAITING_PERIODS THEN WAITING_PERIODS[jurisdiction]
    ELSE WAITING_PERIODS["default"]

-----------------------------------------------------------------------------
(* Delivery and acknowledgment.                                              *)

DeliveryStatuses == {"pending", "sent", "delivered", "bounced", "failed"}

record_delivery(status) ==
    /\ Len(deliveries) < MaxDeliveries
    /\ deliveries' = Append(deliveries, status)
    /\ UNCHANGED <<timeIn, acks, notice_deliveries>>

\* The notice exists; every call adds a row.
record_acknowledgment(method) ==
    /\ Len(acks) < MaxDeliveries
    /\ acks' = Append(acks, method)
    /\ UNCHANGED <<timeIn, deliveries, notice_deliveries>>

\* The phrase's enumeration has no pending: an unknown status reads as failed.
_parse_status(s) == IF s \in {"sent", "delivered", "bounced", "failed"} THEN s ELSE "failed"

\* Newest first
Reversed(s) == [i \in DOMAIN s |-> s[Len(s) + 1 - i]]

get_delivery_attempts(rows) ==
    LET attempts == [i \in DOMAIN rows |-> _parse_status(Reversed(rows)[i])]
    IN  [attempts |-> attempts,
         latest_status |-> IF rows = <<>> THEN Null ELSE attempts[1],
         delivered |-> \E i \in DOMAIN attempts : attempts[i] = "delivered"]

\* NoticeService lists the oldest first, and returns some acknowledgment: no ORDER BY.
get_deliveries(rows) == rows

_get_acknowledgment(rows) == IF rows = <<>> THEN {Null} ELSE {rows[i] : i \in DOMAIN rows}

\* The timing phrase returns the newest one.
get_acknowledgment(rows) == IF rows = <<>> THEN Null ELSE rows[Len(rows)]

\* Written by the delivery providers: delivered_at is set when the status is delivered.
notice_delivery_inserted(status, channel) ==
    /\ Cardinality(notice_deliveries) < MaxDeliveries
    /\ LET id == Cardinality(notice_deliveries) + 1
       IN  notice_deliveries' = notice_deliveries \cup
              {[id |-> id, status |-> status, channel |-> channel,
                delivered_at |-> IF status = "delivered" THEN id ELSE 0]}
    /\ UNCHANGED <<timeIn, deliveries, acks>>

\* Mutant: ORDER BY id DESC, the row written last.
LatestDelivery_ByRow(rows) == {r \in rows : \A o \in rows : o.id <= r.id}

\* ORDER BY delivered_at DESC NULLS LAST LIMIT 1
LatestDelivery(rows) == {r \in rows : \A o \in rows : o.delivered_at <= r.delivered_at}

\* The answers verify_notice_delivered may give
verify_notice_delivered(required_channel) ==
    IF notice_deliveries = {} THEN {FALSE}
    ELSE {/\ required_channel # Null => r.channel = required_channel
          /\ r.status = "delivered" : r \in LatestDelivery(notice_deliveries)}

\* The type of the evidence row must start with "notice."; its suffix names the notice.
get_notice(evidence_type) ==
    CASE evidence_type \in {"notice.pre_adverse_action", "notice.adverse_action"} -> "named"
      [] evidence_type \in {"notice.delivery", "notice.waiting_period"} -> "generic"
      [] evidence_type = "notice.acknowledgment" -> "untyped"
      [] OTHER -> "not found"

\* Only the notice's own row is looked at.
require_notice_delivered(delivery_status) == delivery_status = "delivered"

TimingNext ==
    /\ timeIn = [day |-> 0, n |-> 0]
    /\ \/ \E s \in DeliveryStatuses : record_delivery(s)
       \/ \E a \in {"email", "portal"} : record_acknowledgment(a)
       \/ \E s \in {"pending", "delivered", "failed"}, ch \in {"email", "postal"} : notice_delivery_inserted(s, ch)

-----------------------------------------------------------------------------
BusinessIn(lo, hi) == Cardinality({d \in lo..hi : _is_business_day(d)})

\* The two loops of compute_business_days compute what they stand for: adding n lands on the
\* first business day with n business days behind it, on either side of the start; counting
\* gives the business days of the half-open range, and undoes adding.
BusinessDaysExact ==
    LET s == timeIn.day
        n == timeIn.n
        d == compute_business_days(s, Null, n).date
        counted == compute_business_days(s, s + n, Null).business
    IN  /\ n = 0 => d = s
        /\ n > 0 => _is_business_day(d) /\ BusinessIn(s + 1, d) = n
        /\ n < 0 => _is_business_day(d) /\ BusinessIn(d, s - 1) = -n
        /\ counted = BusinessIn(s, s + n - 1)
        /\ (n >= 0 /\ _is_business_day(s)) => _count_business_days(s, d) = n
        /\ _is_business_day(s) => _add_business_days(d, -n) = s

\* A period that must have passed and a deadline that must not have passed split the time
\* line and share exactly one instant, and an SLA is met as long as its deadline has not
\* passed.  The statutory table and the table of NoticeService give a jurisdiction that both
\* know the same waiting days, and neither falls below the federal minimum.
TimingBoundaries ==
    LET now == timeIn.day
        d == timeIn.n
    IN  /\ require_minimum_elapsed(now, 0, d) \/ require_deadline_not_passed(now, d)
        /\ (require_minimum_elapsed(now, 0, d) /\ require_deadline_not_passed(now, d)) <=> now = d
        /\ verify_sla_met(now, 0, Null, d) <=> require_deadline_not_passed(now, d)
        /\ verify_sla_met(now, 0, d, d)
        /\ \A j \in {"federal", "california", "ca", "nyc", "new_york_state", "texas"} :
              LET statutory == get_timing_constraints("adverse_action", j)
                  notice == NoticeWaitingDays(j)
              IN  /\ statutory >= get_timing_constraints("adverse_action", "federal")
                  /\ notice >= NoticeWaitingDays("federal")
                  /\ (j \in DOMAIN StatutoryDays["adverse_action"] /\ j \in DOMAIN WAITING_PERIODS)
                        => statutory = notice

\* The phrases and NoticeService read the same rows: both list every attempt once, in
\* opposite orders, a notice counts as delivered once any attempt was, whatever was recorded
\* after it, and the phrase's acknowledgment is among those the service may return.
\* verify_notice_delivered says yes exactly when some row was delivered, and for a required
\* channel only when one was delivered on it.  NoticeService files a notice as "notice" with
\* status "sent": neither get_notice nor require_notice_delivered accepts such a row, whatever
\* is recorded about it.
DeliveryViewsAgree ==
    LET p == get_delivery_attempts(deliveries)
        s == get_deliveries(deliveries)
    IN  /\ \A i \in DOMAIN s : p.attempts[Len(s) + 1 - i] \in {s[i], "failed"}
        /\ p.delivered <=> \E i \in DOMAIN s : s[i] = "delivered"
        /\ get_acknowledgment(acks) \in _get_acknowledgment(acks)
        /\ \A answer \in verify_notice_delivered(Null) :
              answer <=> \E r \in notice_deliveries : r.status = "delivered"
        /\ \A ch \in {"email", "postal"} : TRUE \in verify_notice_delivered(ch) =>
              \E r \in notice_deliveries : r.status = "delivered" /\ r.channel = ch
        /\ get_notice("notice") = "not found" /\ ~require_notice_delivered("sent")
=============================================================================
