------------------------------ MODULE Metering ------------------------------
(* What the platform measures of itself.

   Usage metering and quotas (canon services/metering): the meter keeps usage
   records in memory until a flush writes them to the database, and the enforcer
   keeps, per tenant, what happened in the last minute and hour.  One tenant; a
   tick is a minute and an hour is HourTicks of them.  A record is its number, and
   the units it costs are UnitsOf its kind.

   Service level objectives (canon utils/slo.py): an indicator keeps the
   measurements of a window and computes a percentile or a rate from them, and a
   budget counts how many checks missed the objective.  Values are small numbers,
   rates are percents.                                                         *)
EXTENDS Integers, Sequences, FiniteSets, Functions, TLC

CONSTANTS Flushers, Meters, Limits, UnitLimit, HourTicks, MaxRecords, MaxUsage

ASSUME MeterAssumption ==
    /\ IsFiniteSet(Meters) /\ Meters # {} /\ Limits \subseteq Nat
    /\ UnitLimit \in Nat /\ HourTicks \in Nat /\ MaxRecords \in Nat \ {0}

\* Gates are checked and counted as policies are.
Kinds == {"policy", "decision"}

\* _compute_units: the base costs.
UnitsOf(kind) == IF kind = "decision" THEN 5 ELSE 2

VARIABLES
    usageRecords, \* _records: the numbers of the records in memory
    issued,       \* how many records were made
    batch,        \* what each flusher still has to write
    stored,       \* the records in the database, in order
    trimmed,      \* records dropped because memory was full
    abandoned,    \* records of a flush that was cancelled
    limit,        \* the tenant's operations per minute
    events,       \* the operations of each kind the minute's window holds, by age
    unitEvents,   \* the same of the hour's window of compute units
    meterTask     \* what each evaluation is doing

flushVars == <<usageRecords, issued, batch, stored, trimmed, abandoned>>
quotaVars == <<limit, events, unitEvents, meterTask>>
meterVars == <<flushVars, quotaVars>>

MeterInit ==
    /\ usageRecords = <<>> /\ issued = 0
    /\ batch = [f \in Flushers |-> <<>>] /\ stored = <<>> /\ trimmed = {} /\ abandoned = {}

Empty(window) == [age \in 0..window |-> 0]

QuotaInit ==
    /\ limit \in Limits
    /\ events = [k \in Kinds |-> Empty(1)] /\ unitEvents = [k \in Kinds |-> Empty(HourTicks)]
    /\ meterTask = [m \in Meters |-> "idle"]

\* The last MaxRecords of a sequence.
Newest(s) == IF Len(s) > MaxRecords THEN SubSeq(s, Len(s) - MaxRecords + 1, Len(s)) ELSE s

\* _store_record: append and trim, under the lock.
_store_record ==
    /\ issued < MaxUsage /\ issued' = issued + 1
    /\ LET all == Append(usageRecords, issued + 1) IN
        /\ usageRecords' = Newest(all)
        /\ trimmed' = trimmed \cup (Range(all) \ Range(Newest(all)))
    /\ UNCHANGED <<batch, stored, abandoned>>

\* flush_to_db takes everything under the lock ...
BeginFlush_KeepsRecords(f) ==
    /\ batch[f] = <<>> /\ usageRecords # <<>>
    /\ batch' = [batch EXCEPT ![f] = usageRecords]
    /\ UNCHANGED <<usageRecords, issued, stored, trimmed, abandoned>>

BeginFlush(f) ==
    /\ batch[f] = <<>> /\ usageRecords # <<>>
    /\ batch' = [batch EXCEPT ![f] = usageRecords]
    /\ usageRecords' = <<>>
    /\ UNCHANGED <<issued, stored, trimmed, abandoned>>

FlushOne(f) ==
    /\ batch[f] # <<>>
    /\ \/ stored' = Append(stored, Head(batch[f])) /\ UNCHANGED usageRecords
       \/ usageRecords' = Append(usageRecords, Head(batch[f])) /\ UNCHANGED stored
    /\ batch' = [batch EXCEPT ![f] = Tail(@)]
    /\ UNCHANGED <<issued, trimmed, abandoned>>

\* A cancelled flush leaves the rest of its batch nowhere.
CancelFlush(f) ==
    /\ batch[f] # <<>>
    /\ abandoned' = abandoned \cup Range(batch[f])
    /\ batch' = [batch EXCEPT ![f] = <<>>]
    /\ UNCHANGED <<usageRecords, issued, stored, trimmed>>

MeterNext ==
    \/ _store_record
    \/ \E f \in Flushers : BeginFlush(f) \/ FlushOne(f) \/ CancelFlush(f)

-----------------------------------------------------------------------------
\* The windows that the quota's lists are after _cleanup: an entry as old as the
\* window is still in it, an older one is not.
_cleanup(window) == [age \in DOMAIN window |-> IF age = 0 THEN 0 ELSE window[age - 1]]

Count(window) ==
    LET upto[age \in DOMAIN window] == IF age = 0 THEN window[0] ELSE window[age] + upto[age - 1]
    IN  upto[Cardinality(DOMAIN window) - 1]

compute_units_used ==
    UnitsOf("policy") * Count(unitEvents["policy"]) + UnitsOf("decision") * Count(unitEvents["decision"])

\* check_policy, check_decision: below the rate, and for a decision the estimated
\* units still fit into the hour.
Check(kind) ==
    /\ Count(events[kind]) < limit
    /\ kind = "decision" => compute_units_used + UnitsOf(kind) <= UnitLimit

\* An evaluation checks first, runs, and records what it was afterwards.
Admitted(m, kind) ==
    /\ meterTask[m] = "idle" /\ Check(kind)
    /\ meterTask' = [meterTask EXCEPT ![m] = kind]
    /\ UNCHANGED <<limit, events, unitEvents>>

\* record_policy, record_decision.
RecordUse(m) ==
    /\ meterTask[m] \in Kinds
    /\ events' = [events EXCEPT ![meterTask[m]][0] = @ + 1]
    /\ unitEvents' = [unitEvents EXCEPT ![meterTask[m]][0] = @ + 1]
    /\ meterTask' = [meterTask EXCEPT ![m] = "idle"]
    /\ UNCHANGED limit

\* set_tenant_config replaces the limits of a tenant in use as well.
set_tenant_config(n) ==
    /\ limit' = n /\ n # limit
    /\ UNCHANGED <<events, unitEvents, meterTask>>

QuotaTick ==
    /\ events' = [k \in Kinds |-> _cleanup(events[k])]
    /\ unitEvents' = [k \in Kinds |-> _cleanup(unitEvents[k])]
    /\ UNCHANGED <<limit, meterTask>>

QuotaNext ==
    \/ QuotaTick
    \/ \E n \in Limits : set_tenant_config(n)
    \/ \E m \in Meters : RecordUse(m) \/ \E k \in Kinds : Admitted(m, k)

-----------------------------------------------------------------------------
MeterSpec ==
    /\ MeterInit /\ QuotaInit
    /\ [][(MeterNext /\ UNCHANGED quotaVars) \/ (QuotaNext /\ UNCHANGED flushVars)]_meterVars

\* The records in memory, in the batches and in the database.
Held == Range(usageRecords) \cup Range(stored) \cup (UNION {Range(batch[f]) : f \in Flushers})

(* No usage is billed twice and none disappears unnoticed: every record made is
   exactly once in memory, in one flusher's batch or in the database, or was
   trimmed from a full memory or left by a cancelled flush - with several
   flushes, failing writes and new records in any order.                       *)
UsageConserved ==
    /\ IsInjective(usageRecords) /\ IsInjective(stored) /\ Range(usageRecords) \cap Range(stored) = {}
    /\ \A f \in Flushers :
        /\ IsInjective(batch[f]) /\ Range(batch[f]) \cap (Range(usageRecords) \cup Range(stored)) = {}
        /\ \A g \in Flushers \ {f} : Range(batch[f]) \cap Range(batch[g]) = {}
    /\ Held \cup trimmed \cup abandoned = 1..issued
    /\ Held \cap (trimmed \cup abandoned) = {}

(* Quotas hold although they are checked before an evaluation and counted after
   it: the last minute holds at most a rate the tenant had and one operation for
   every other evaluation that was under way, and the decisions of the last hour
   exceed the units by no more than those evaluations.  (Gates and policies are
   counted among the units but not checked against them.)                      *)
QuotasHold ==
    LET Others == Cardinality(Meters) - 1 IN
    /\ \A k \in Kinds : \E n \in Limits : Count(events[k]) <= n + Others
    /\ UnitsOf("decision") * Count(unitEvents["decision"]) <= UnitLimit + UnitsOf("decision") * Others

-----------------------------------------------------------------------------
(* Service levels *)

CONSTANTS Measures, Window, MaxMeasurements, LatencyTarget, AvailabilityTargets

Latency == {"p50", "p95", "p99"}

VARIABLES
    measurements, \* the indicator's measurements: age and value
    violations,   \* the budget's missed checks ...
    totalChecks,  \* ... of all
    target        \* the availability objective, in percent

sliVars == <<measurements>>
budgetVars == <<violations, totalChecks, target>>

SliInit == measurements = <<>>
BudgetInit == violations = 0 /\ totalChecks = 0 /\ target = 99

\* A budget is made for an objective.
MakeBudget(wanted) ==
    /\ totalChecks = 0 /\ target # wanted
    /\ target' = wanted
    /\ UNCHANGED <<violations, totalChecks>>

\* SLO.check: latencies and error rates are to stay at or below the target.
check(metric, value, wanted) == IF metric \in Latency THEN value <= wanted ELSE value >= wanted

\* SLI.record drops what has left the window; nothing else does.
record(value) ==
    /\ Len(measurements) < MaxMeasurements
    /\ measurements' = SelectSeq(Append(measurements, [age |-> 0, value |-> value]), LAMBDA x : x.age <= Window)

Values == [i \in 1..Len(measurements) |-> measurements[i].value]

\* _percentile: the value at the rounded-down position of the sorted values.
_percentile(p) ==
    LET sorted == SortSeq(Values, <) n == Len(Values) idx == (n * p) \div 100
    IN  sorted[(IF idx < n - 1 THEN idx ELSE n - 1) + 1]

\* current_value and is_met of a latency indicator.
is_met(metric) ==
    check(metric, _percentile(CASE metric = "p50" -> 50 [] metric = "p95" -> 95 [] metric = "p99" -> 99), LatencyTarget)

\* SLOBudget.record_check of an availability objective: the value is a percent.
record_check(value) ==
    /\ totalChecks < MaxMeasurements
    /\ totalChecks' = totalChecks + 1
    /\ violations' = IF check("availability", value, target) THEN violations ELSE violations + 1
    /\ UNCHANGED target

\* budget_remaining: an objective of 100 percent allows no error, and its budget is
\* gone with the first check whatever that shows.
budget_remaining ==
    LET allowed == 100 - target
        consumed == IF allowed > 0 THEN (violations * 100 * 100) \div (totalChecks * allowed) ELSE 100
    IN  IF totalChecks = 0 THEN 100 ELSE IF consumed > 100 THEN 0 ELSE 100 - consumed

is_exhausted == budget_remaining <= 0

ResetBudget ==
    /\ totalChecks > 0
    /\ violations' = 0 /\ totalChecks' = 0
    /\ UNCHANGED target

SloTick ==
    /\ \E i \in 1..Len(measurements) : measurements[i].age <= Window
    /\ measurements' = [i \in 1..Len(measurements) |->
                        [measurements[i] EXCEPT !.age = IF @ > Window THEN @ ELSE @ + 1]]

SliNext == SloTick \/ \E v \in Measures : record(v)

BudgetNext ==
    \/ ResetBudget
    \/ \E t \in AvailabilityTargets : MakeBudget(t)
    \/ \E v \in {0, 99, 100} : record_check(v)

-----------------------------------------------------------------------------
AtMost(v) == Cardinality({i \in 1..Len(Values) : Values[i] <= v})

Below(v) == Cardinality({i \in 1..Len(Values) : Values[i] < v})

(* The percentile reported is one: at least p percent of the measurements are at
   or below it and at most p percent are below it, for every p in use and any
   number of measurements - so an objective is met only if p percent met it.   *)
PercentileExact ==
    measurements # <<>> =>
        /\ \A p \in {50, 95, 99} :
            /\ AtMost(_percentile(p)) * 100 >= p * Len(Values)
            /\ Below(_percentile(p)) * 100 <= p * Len(Values)
        /\ is_met("p99") => is_met("p95")
        /\ is_met("p95") => is_met("p50")

(* An error budget is used up exactly when the share of missed checks reaches the
   share the objective allows - except that an objective of 100 percent has no
   budget from the first check on.                                             *)
BudgetExact ==
    totalChecks > 0 =>
        (is_exhausted <=> (target = 100 \/ violations * 100 >= (100 - target) * totalChecks))

(* Usage is counted once and quotas hold, with flushes, failing writes and evaluations
   in any order.                                                               *)
UsageAccounted == UsageConserved /\ QuotasHold
=============================================================================
