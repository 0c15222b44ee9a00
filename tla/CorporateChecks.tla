--------------------------- MODULE CorporateChecks ---------------------------
(***************************************************************************)
(* Deals, deployments and infrastructure: readiness is derived from the     *)
(* rows of all conditions, findings and components of a deal; a deployment  *)
(* passes gates over rows that age, are renewed and are withdrawn.          *)
(***************************************************************************)
EXTENDS Rows, Sequences, FiniteSetsExt

CONSTANTS
    DealItems,      \* conditions, findings, components of a deal
    MaxDeployNow,   \* bound: time
    MaxDeployRows   \* bound: approvals, and tests, of a deployment

VARIABLES
    conditions,   \* closing_conditions: condition -> status, Null if there is none
    material,     \* the material ones
    dealFindings, \* conditional_findings: finding -> status
    components,   \* carve_out_components: component -> status
    issues,       \* components with blocking issues
    approvalRows, \* deployment_approvals of a deployment, in the order written
    testRows,     \* deployment_rollback_tests
    heartbeat,    \* of the monitor of the resource, Null before the first
    deployNow

dealVars == <<conditions, material, dealFindings, components, issues>>
deployVars == <<approvalRows, testRows, heartbeat, deployNow>>
corporateVars == <<dealVars, deployVars>>

CorporateInit ==
    /\ conditions = [x \in DealItems |-> Null] /\ material \in SUBSET DealItems
    /\ dealFindings = [x \in DealItems |-> Null]
    /\ components = [x \in DealItems |-> Null] /\ issues = {}
    /\ approvalRows = <<>> /\ testRows = <<>> /\ heartbeat = Null /\ deployNow = 0

\* Nothing happens in the deal.
CorporateRest == CorporateInit /\ material = DealItems

-----------------------------------------------------------------------------
ConditionStatuses == {"satisfied", "waived", "in_progress", "pending", "failed", "expired"}
FindingStatuses == {"open", "in_progress", "remediated", "waived", "blocked", "deferred_to_closing"}
ComponentStatuses == {"not_started", "planning", "in_progress", "ready_for_review", "approved", "blocked", "not_applicable"}

condition_written(x, status) ==
    /\ conditions' = [conditions EXCEPT ![x] = status]
    /\ UNCHANGED <<material, dealFindings, components, issues, deployVars>>

finding_written(x, status) ==
    /\ dealFindings' = [dealFindings EXCEPT ![x] = status]
    /\ UNCHANGED <<conditions, material, components, issues, deployVars>>

component_written(x, status, blocked) ==
    /\ components' = [components EXCEPT ![x] = status]
    /\ issues' = IF blocked THEN issues \cup {x} ELSE issues \ {x}
    /\ UNCHANGED <<conditions, material, dealFindings, deployVars>>

WithStatus(rows, statuses) == {x \in DealItems : rows[x] # Null /\ rows[x] \in statuses}

\* Failed and expired conditions block, pending ones if they are material.
BlockingConditions ==
    WithStatus(conditions, {"failed", "expired"}) \cup (WithStatus(conditions, {"in_progress", "pending"}) \cap material)

derive_condition_satisfaction_status ==
    [all_satisfied |-> BlockingConditions = {},
     satisfied |-> Cardinality(WithStatus(conditions, {"satisfied"})),
     waived |-> Cardinality(WithStatus(conditions, {"waived"})),
     failed |-> Cardinality(WithStatus(conditions, {"failed", "expired"})),
     pending |-> Cardinality(WithStatus(conditions, {"in_progress", "pending"}))]

BlockingFindings == WithStatus(dealFindings, {"open", "in_progress", "blocked"})

derive_conditional_findings_addressed == BlockingFindings = {}

\* The standard components are required besides the ones with a row; here all are standard.
MissingComponents == DealItems \ WithStatus(components, {"approved", "not_applicable"})

\* Mutant: issues are not looked at once all is approved.
derive_carve_out_readiness_NoIssues(needed) ==
    IF \A x \in DealItems : components[x] = Null THEN ~needed ELSE MissingComponents = {}

\* A deal that needs no carve-out is ready.
derive_carve_out_readiness(needed) ==
    IF \A x \in DealItems : components[x] = Null THEN ~needed
    ELSE MissingComponents = {} /\ issues = {}

CleanTeamTriggers == {"competitive_pricing", "customer_lists"}

derive_clean_team_required(categories, competitor) ==
    categories \cap CleanTeamTriggers # {} \/ ("employee_compensation" \in categories /\ competitor)

-----------------------------------------------------------------------------
\* A row is written without a date until it is decided.
approval_written(status) ==
    /\ Len(approvalRows) < MaxDeployRows
    /\ approvalRows' = Append(approvalRows, [status |-> status, at |-> IF status = "pending" THEN Null ELSE deployNow])
    /\ UNCHANGED <<dealVars, testRows, heartbeat, deployNow>>

test_written(status) ==
    /\ Len(testRows) < MaxDeployRows
    /\ testRows' = Append(testRows, [status |-> status, at |-> IF status = "not_tested" THEN Null ELSE deployNow])
    /\ UNCHANGED <<dealVars, approvalRows, heartbeat, deployNow>>

monitor_beats ==
    /\ heartbeat' = deployNow
    /\ UNCHANGED <<dealVars, approvalRows, testRows, deployNow>>

DeployTick ==
    /\ deployNow < MaxDeployNow
    /\ deployNow' = deployNow + 1
    /\ UNCHANGED <<dealVars, approvalRows, testRows, heartbeat>>

\* ORDER BY a time DESC LIMIT 1: rows without a time come first; of equal ones any
FirstByTime(rows) ==
    LET undated == {i \in DOMAIN rows : rows[i].at = Null}
    IN  {rows[i] : i \in IF undated # {} THEN undated
                         ELSE {j \in DOMAIN rows : \A k \in DOMAIN rows : rows[k].at <= rows[j].at}}

\* The possible answers: an undecided row hides the decided ones.
require_deployment_approval == {r.status = "approved" : r \in FirstByTime(approvalRows)}

Fresh(at, age) == at # Null => deployNow - at <= age

require_rollback_tested(max_age) == {r.status = "passed" /\ Fresh(r.at, max_age) : r \in FirstByTime(testRows)}

\* Without a heartbeat an active monitor passes.
require_monitoring_active(status, max_age) == status = "active" /\ Fresh(heartbeat, max_age)

require_production_environment(env) == env # Null /\ env = "production"

\* Any verification that is on record, its expiry included
require_backup_verified(expires) == expires # Null => expires >= deployNow

\* By age in whole hours
require_infra_backup_verified(at, max_age) == at # Null /\ deployNow - at <= max_age

verify_backup_complete(completed, oldest) == (oldest # Null /\ completed # Null) => completed >= oldest

verify_rollback_plan_present(plan, require_tested) == plan # Null /\ (require_tested => plan)

-----------------------------------------------------------------------------
\* low, medium, high, critical are 0..3.
derive_rows_read_band(rows) == IF rows < 1000 THEN 0 ELSE IF rows < 10000 THEN 1 ELSE IF rows < 100000 THEN 2 ELSE 3
is_bulk_query(rows) == rows >= 10000

\* labels of the domain, and whether the one before the last is like "co"
derive_subdomain_depth(labels, second_level) ==
    IF labels <= 2 \/ (labels = 3 /\ second_level) THEN 0 ELSE labels - 2

\* The infrastructure phrases below answer from fixed figures.
derive_data_loss_risk(backup, rpo, lag, critical) ==
    IF ~backup /\ critical THEN 3
    ELSE IF rpo > 3600 \/ lag > 300 THEN 2 ELSE IF rpo > 900 \/ lag > 60 THEN 1 ELSE 0

check_dr_test_cooldown(last, now, cooldown) == last # Null /\ now - last < cooldown
derive_degraded_hours_last_30d(hours, sla) == hours > sla
derive_utilization_volatility(percent, threshold) == percent > threshold
derive_write_acceptance_mode(degraded, fallback) ==
    IF ~degraded THEN "strict" ELSE IF fallback THEN "relaxed" ELSE "emergency"
verify_traffic_drained(connections) == connections = 0

\* The first group of prefixes that matches
derive_tag_risk_class(immutable, protected, ephemeral) ==
    IF immutable THEN "immutable" ELSE IF protected THEN "protected" ELSE IF ephemeral THEN "ephemeral" ELSE "mutable"

ConditionNext == \E x \in DealItems, status \in ConditionStatuses : condition_written(x, status)

DealNext ==
    \/ \E x \in DealItems, status \in FindingStatuses : finding_written(x, status)
    \/ \E x \in DealItems, status \in ComponentStatuses, blocked \in BOOLEAN : component_written(x, status, blocked)

DeployNext ==
    \/ \E status \in {"pending", "approved", "rejected"} : approval_written(status)
    \/ \E status \in {"not_tested", "passed", "failed"} : test_written(status)
    \/ monitor_beats
    \/ DeployTick

-----------------------------------------------------------------------------
\* The derivation agrees with the rows it counts: every condition is counted once, a failed or
\* expired one always stops the deal, and a deal that may close has at most conditions pending
\* that are not material.
ConditionsAddUp ==
    LET d == derive_condition_satisfaction_status
    IN  /\ d.satisfied + d.waived + d.failed + d.pending = Cardinality({x \in DealItems : conditions[x] # Null})
        /\ d.all_satisfied => d.failed = 0 /\ d.pending <= Cardinality(DealItems \ material)
        /\ (d.failed = 0 /\ d.pending = 0) => d.all_satisfied

\* A carve-out that is ready has every standard component approved or not applicable and no
\* issue open, and it cannot lose its readiness except by a step that takes one of them back.
ReadyIsReal ==
    LET ready == derive_carve_out_readiness(TRUE)
    IN  /\ ready => issues = {} /\ \A x \in DealItems : components[x] \in {"approved", "not_applicable"}
        /\ (ready /\ ~ready') => \E x \in DealItems : components'[x] \notin {"approved", "not_applicable"} \/ x \in issues'
        /\ (derive_conditional_findings_addressed /\ ~derive_conditional_findings_addressed') =>
               \E x \in DealItems : dealFindings'[x] \in {"open", "in_progress", "blocked"}

\* The last decision counts: when all approvals are decided at different times the answer is
\* that of the latest, an undecided row withdraws the approval until it is decided elsewhere, a
\* passed test wears off with age, and nothing but a new row restores it.
LatestDecisionCounts ==
    /\ \A i \in DOMAIN approvalRows :
          ((\A j \in DOMAIN approvalRows : approvalRows[j].at # Null) /\
           (\A j \in DOMAIN approvalRows \ {i} : approvalRows[j].at < approvalRows[i].at) =>
              require_deployment_approval = {approvalRows[i].status = "approved"})
    /\ (\E i \in DOMAIN approvalRows : approvalRows[i].status = "pending") => require_deployment_approval = {FALSE}
    /\ TRUE \in require_rollback_tested(1) => \E i \in DOMAIN testRows : testRows[i].status = "passed" /\ testRows[i].at >= deployNow - 1
    /\ TRUE \in require_deployment_approval => \E i \in DOMAIN approvalRows : approvalRows[i].status = "approved"

\* A gate that closed by ageing does not open again by itself: when only time passes, a test or a
\* monitor that failed its age limit keeps failing it, and the two backup checks do too.
AgeingIsFinal ==
    (deployNow' > deployNow) =>
       /\ (TRUE \in require_rollback_tested(1))' => TRUE \in require_rollback_tested(1)
       /\ require_monitoring_active("active", 1)' => require_monitoring_active("active", 1)
       /\ \A at \in 0..MaxDeployNow :
             /\ require_backup_verified(at)' => require_backup_verified(at)
             /\ (require_infra_backup_verified(at, 1) /\ at <= deployNow)' => require_infra_backup_verified(at, 1)
=============================================================================
