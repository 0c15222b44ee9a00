--------------------------- MODULE FreshnessChecks ---------------------------
(***************************************************************************)
(* Ages, deadlines and repeated actions: the freshness and the pattern      *)
(* vocabularies.  A pattern requirement counts recorded actions of the last *)
(* lookback days; the action it guards is recorded afterwards, by the       *)
(* caller, so that requests overlap between the count and the record.       *)
(***************************************************************************)
EXTENDS Rows, Sequences, FiniteSetsExt

CONSTANTS
    PatternClients,   \* concurrent requests
    Lookback,         \* lookback_days
    Threshold,
    MaxToday,         \* bound: days
    MaxActs           \* bound: recorded actions

VARIABLES
    acts,         \* day and type of each action recorded as evidence
    checked,      \* per request: the action type whose requirement it met and has not done, or Null
    today

freshVars == <<acts, checked, today>>

FreshInit == acts = <<>> /\ checked = [c \in PatternClients |-> Null] /\ today = 0

ActionTypes == {"POSTING_BYPASS", "SALARY_EXCEPTION"}

NextDay ==
    /\ today < MaxToday
    /\ today' = today + 1
    /\ UNCHANGED <<acts, checked>>

InWindow(type, day, days) ==
    {i \in DOMAIN acts : acts[i].type = type /\ acts[i].day >= day - days /\ acts[i].day <= day}

\* The window is closed at both ends.
derive_prior_action_count(type, days) == Cardinality(InWindow(type, today, days))

check_pattern_threshold(type, days, threshold) == derive_prior_action_count(type, days) >= threshold

\* The counts with an action type of their own
check_prior_bypasses(days) == derive_prior_action_count("APP_BYPASS", days)
check_prior_escalations(days) == derive_prior_action_count("PRIVILEGE_ESCALATION", days)
check_prior_exemptions(days) == derive_prior_action_count("MFA_EXEMPTION", days)

\* Over the last 365 days
derive_manager_bypass_count_12m(threshold) == check_pattern_threshold("POSTING_BYPASS", 365, threshold)
derive_manager_salary_exception_count_12m(threshold) == check_pattern_threshold("SALARY_EXCEPTION", 365, threshold)

require_no_adverse_pattern(c, type) ==
    /\ checked[c] = Null
    /\ ~check_pattern_threshold(type, Lookback, Threshold)
    /\ checked' = [checked EXCEPT ![c] = type]
    /\ UNCHANGED <<acts, today>>

\* The guarded action happens and is recorded.
action_recorded(c) ==
    /\ checked[c] # Null /\ Len(acts) < MaxActs
    /\ acts' = Append(acts, [day |-> today, type |-> checked[c]])
    /\ checked' = [checked EXCEPT ![c] = Null]
    /\ UNCHANGED today

\* The amounts of a metric are rows of a table of their own.
derive_cumulative_amount(rows, metric, days, threshold) ==
    LET total == MapThenSumSet(LAMBDA j : rows[j].amount, {j \in DOMAIN rows : rows[j].metric = metric
                                                           /\ rows[j].day >= today - days /\ rows[j].day <= today})
    IN  [total |-> total, exceeds |-> threshold # Null /\ total >= threshold]

derive_cumulative_exception_amount(rows, days, threshold) == derive_cumulative_amount(rows, "exception", days, threshold)
derive_cumulative_reallocation_amount(rows, days, threshold) == derive_cumulative_amount(rows, "reallocation", days, threshold)

-----------------------------------------------------------------------------
\* Ages in days, of the report, review or analysis
check_equity_staleness(age, max_age) == age > max_age
check_legal_review_freshness(age, max_age) == age <= max_age
verify_credit_freshness(age, max_age) == age <= max_age
check_privilege_review(age, period) == age = Null \/ age > period

require_not_expired(age, max_age) == ~(age > max_age)

require_recertification_current(age, period) == ~check_privilege_review(age, period)

StatusByAge(age, stale, window) ==
    IF age > window THEN "expired" ELSE IF age > stale THEN "stale" ELSE "fresh"

check_receipt_freshness(age, stale, window) == StatusByAge(age, stale, window)

\* An assessment without a date counts as made today.
check_tia_freshness(age, stale, max_age) == StatusByAge(IF age = Null THEN 0 ELSE age, stale, max_age)

derive_extension_days(current, requested, maximum) ==
    IF requested < current THEN Null
    ELSE [days |-> requested - current, exceeds |-> requested - current > maximum]

FilingDeadlines ==
    [k10_LAF |-> 60, k10_AF |-> 75, k10_NAF |-> 90, q10_LAF |-> 40, q10_AF |-> 40, q10_NAF |-> 45,
     k8 |-> 4, tax_federal |-> 90]

\* Days remaining are counted from the effective date, not from today.
derive_filing_deadline(effective, type, override) ==
    LET deadline == IF override # Null THEN override ELSE effective + FilingDeadlines[type]
    IN  [deadline |-> deadline, remaining |-> deadline - effective]

MonthLength(leap) == <<31, IF leap THEN 29 ELSE 28, 31, 30, 31, 30, 31, 31, 30, 31, 30, 31>>

\* Day of the year of a date
DayOfYear(leap, month, day) ==
    LET before[k \in 0..12] == IF k = 0 THEN 0 ELSE before[k - 1] + MonthLength(leap)[k]
    IN  before[month - 1] + day

_get_quarter_end(leap, month) ==
    IF month <= 3 THEN <<DayOfYear(leap, 3, 31), 1>>
    ELSE IF month <= 6 THEN <<DayOfYear(leap, 6, 30), 2>>
    ELSE IF month <= 9 THEN <<DayOfYear(leap, 9, 30), 3>>
    ELSE <<DayOfYear(leap, 12, 31), 4>>

derive_quarter_end(leap, month, day) ==
    LET remaining == _get_quarter_end(leap, month)[1] - DayOfYear(leap, month, day)
    IN  IF remaining < 0 THEN 0 ELSE remaining

Severities == <<"low", "medium", "high", "critical">>

\* _DEADLINE_HOURS: the hours by severity, for an incident and jurisdiction of the table
DeadlineHours ==
    [breach_EU |-> <<72, 72, 72, 72>>, breach_HIPAA |-> <<1440, 1440, 168, 24>>, cyber_SEC |-> <<96, 96, 96, 96>>,
     breach_CA |-> <<72, 72, 72, 24>>, breach_NY |-> <<72, 72, 72, 24>>, breach_US |-> <<1080, 720, 168, 72>>]

DefaultBySeverity == <<720, 168, 72, 24>>

derive_regulatory_deadline(case, severity) ==
    IF severity \notin DOMAIN Severities THEN 168
    ELSE IF case \in DOMAIN DeadlineHours THEN DeadlineHours[case][severity]
    ELSE DefaultBySeverity[severity]

FreshNext ==
    \/ NextDay
    \/ \E c \in PatternClients : action_recorded(c) \/ \E type \in ActionTypes : require_no_adverse_pattern(c, type)

-----------------------------------------------------------------------------
\* The pattern requirement bounds what it guards: in no window of lookback days are there more
\* guarded actions of a type than threshold - 1 and one for every request that had passed the
\* check before the others acted.  One request at a time keeps below the threshold.
PatternIsBounded ==
    \A day \in 0..today, type \in ActionTypes :
        Cardinality(InWindow(type, day, Lookback)) <= Threshold - 1 + Cardinality(PatternClients)

\* A day more of lookback adds that day's actions of the type and nothing else, in the counts,
\* in the twelve-month thresholds of a manager and in the amounts.
WindowsNest ==
    /\ \A type \in ActionTypes, days \in 0..Lookback :
          derive_prior_action_count(type, days + 1) =
              derive_prior_action_count(type, days) + derive_prior_action_count(type, today) -
              Cardinality({i \in DOMAIN acts : acts[i].type = type /\ acts[i].day # today - days - 1})
    /\ \A t \in 1..Threshold :
          /\ check_pattern_threshold("POSTING_BYPASS", Lookback, t) => derive_manager_bypass_count_12m(t)
          /\ check_pattern_threshold("SALARY_EXCEPTION", Lookback, t) => derive_manager_salary_exception_count_12m(t)
    /\ LET rows == [i \in DOMAIN acts |-> [metric |-> IF acts[i].type = "SALARY_EXCEPTION" THEN "exception" ELSE "reallocation",
                                           day |-> acts[i].day, amount |-> i]]
       IN  \A days \in 0..Lookback :
              derive_cumulative_exception_amount(rows, days, Null).total + derive_cumulative_reallocation_amount(rows, days, Null).total
                  = MapThenSumSet(LAMBDA i : i, InWindow("SALARY_EXCEPTION", today, days) \cup InWindow("POSTING_BYPASS", today, days))

\* The age checks of the vocabulary draw the line at the same day: what is not stale for one is
\* fresh for the others and passes require_not_expired, the last day included; an expired
\* receipt or assessment is one that is no longer fresh at all; without a date a review is due
\* while an assessment counts as fresh.
AgesAgree ==
    today = 1 => \A age, limit \in 0..MaxToday :
        LET fresh == ~check_equity_staleness(age, limit)
        IN  /\ fresh = check_legal_review_freshness(age, limit)
            /\ fresh = verify_credit_freshness(age, limit)
            /\ fresh = require_not_expired(age, limit)
            /\ fresh = require_recertification_current(age, limit)
            /\ \A stale \in 0..limit :
                  /\ check_receipt_freshness(age, stale, limit) = check_tia_freshness(age, stale, limit)
                  /\ (check_receipt_freshness(age, stale, limit) = "expired") <=> ~fresh
                  /\ (check_receipt_freshness(age, stale, limit) = "fresh") <=> require_not_expired(age, stale)
            /\ check_tia_freshness(Null, 0, limit) = "fresh" /\ ~require_recertification_current(Null, limit)

\* Every day of a year belongs to one quarter whose end is the first quarter end not before
\* it, in leap years too, and the days remaining never have to be cut off at zero; a graver
\* incident never has more time to report.
DeadlinesExact ==
    (today = 1 /\ acts = <<>>) =>
    /\ \A leap \in BOOLEAN, month \in 1..12 : \A day \in 1..MonthLength(leap)[month] :
          LET end == _get_quarter_end(leap, month)
              ends == {DayOfYear(leap, 3, 31), DayOfYear(leap, 6, 30), DayOfYear(leap, 9, 30), DayOfYear(leap, 12, 31)}
              here == DayOfYear(leap, month, day)
          IN  /\ end[1] \in ends /\ end[1] >= here
              /\ \A e \in ends : e >= here => e >= end[1]
              /\ derive_quarter_end(leap, month, day) = end[1] - here
              /\ end[2] = Cardinality({e \in ends : e <= end[1]})
    /\ \A case \in DOMAIN DeadlineHours \cup {"other"}, s \in 1..3 :
          derive_regulatory_deadline(case, s + 1) <= derive_regulatory_deadline(case, s)
    /\ \A type \in DOMAIN FilingDeadlines, e \in 0..3 :
          derive_filing_deadline(e, type, Null).remaining = FilingDeadlines[type]
=============================================================================
