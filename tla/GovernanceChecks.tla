--------------------------- MODULE GovernanceChecks ---------------------------
(***************************************************************************)
(* Legal, incident, data protection, AI governance and export control.      *)
(* The phrases read rows that others write; a legal hold may be placed or   *)
(* released between the clearance a caller asked for and the deletion the   *)
(* clearance was for.  select_one has no order: where a table may hold      *)
(* several matching rows its answer is one of them.                         *)
(***************************************************************************)
EXTENDS Rows, Sequences, FiniteSetsExt

CONSTANTS
    LegalClients,     \* concurrent callers
    MaxHolds,         \* bound: holds on the resource
    MaxLegalNow       \* bound: time

VARIABLES
    holds,        \* legal_holds of one resource, in the order they were placed
    clearances,   \* per caller: the clearance it holds, or Null
    deletions,    \* the clearances that were used
    locks,        \* criteria_locks of one workflow
    incident,     \* rows of an incident in the tables of the incident vocabulary
    legalNow

legalVars == <<holds, clearances, deletions, locks, incident, legalNow>>

ResourceTypes == {"document", "mailbox"}

LegalInit ==
    /\ holds = <<>> /\ deletions = {} /\ locks = <<>> /\ legalNow = 0
    /\ clearances = [c \in LegalClients |-> Null]
    /\ incident = [status |-> Null, containment |-> Null, verification |-> Null, cause |-> Null]

hold_placed(type) ==
    /\ Len(holds) < MaxHolds
    /\ holds' = Append(holds, [type |-> type, status |-> "active"])
    /\ UNCHANGED <<clearances, deletions, locks, incident, legalNow>>

hold_released(i) ==
    /\ holds[i].status = "active"
    /\ holds' = [holds EXCEPT ![i].status = "released"]
    /\ UNCHANGED <<clearances, deletions, locks, incident, legalNow>>

ActiveHolds(type) == {i \in DOMAIN holds : holds[i].status = "active" /\ (type # Null => holds[i].type = type)}

require_legal_hold_active(type) == ActiveHolds(type) # {}
require_modification_clearance == ActiveHolds(Null) = {}

DeletionClear(type) == ActiveHolds(type) = {}

\* Mutant: the newest hold alone decides.
require_deletion_clearance_Newest(c, type) ==
    /\ clearances[c] = Null
    /\ holds = <<>> \/ Len(holds) \notin ActiveHolds(type)
    /\ clearances' = [clearances EXCEPT ![c] = [type |-> type, seen |-> Len(holds)]]
    /\ UNCHANGED <<holds, deletions, locks, incident, legalNow>>

\* type is Null when the caller gives none.
require_deletion_clearance(c, type) ==
    /\ clearances[c] = Null
    /\ DeletionClear(type)
    /\ clearances' = [clearances EXCEPT ![c] = [type |-> type, seen |-> Len(holds)]]
    /\ UNCHANGED <<holds, deletions, locks, incident, legalNow>>

\* The caller deletes what it was cleared for.
resource_deleted(c) ==
    /\ clearances[c] # Null
    /\ deletions' = deletions \cup {clearances[c]}
    /\ clearances' = [clearances EXCEPT ![c] = Null]
    /\ UNCHANGED <<holds, locks, incident, legalNow>>

-----------------------------------------------------------------------------
CriteriaHash(criteria, time) == <<criteria, time>>

\* Refused without criteria; an insert, also when the workflow has a lock
lock_criteria(criteria) ==
    /\ criteria # {} /\ Len(locks) < MaxHolds
    /\ locks' = Append(locks, [criteria |-> criteria, locked_at |-> legalNow, hash |-> CriteriaHash(criteria, legalNow)])
    /\ UNCHANGED <<holds, clearances, deletions, incident, legalNow>>

LegalTick ==
    /\ legalNow < MaxLegalNow
    /\ legalNow' = legalNow + 1
    /\ UNCHANGED <<holds, clearances, deletions, locks, incident>>

-----------------------------------------------------------------------------
IncidentStatuses == {"draft", "declared", "investigating", "contained", "resolved", "closed"}
ContainmentStatuses == {"not_contained", "partial", "contained", "unknown"}

\* The four tables are written independently.
incident_written(field, value) ==
    /\ incident' = [incident EXCEPT ![field] = value]
    /\ UNCHANGED <<holds, clearances, deletions, locks, legalNow>>

require_incident_declared == incident.status # Null /\ incident.status # "draft"
require_incident_closed == incident.status # Null /\ incident.status = "closed"

\* The record of the containment, and not of its verification
require_containment_verified ==
    incident.containment # Null /\ incident.containment \notin {"not_contained", "unknown", "partial"}

verify_containment_verified == incident.verification # Null /\ incident.verification = "verified"
verify_root_cause_identified == incident.cause # Null /\ incident.cause = "identified"
require_root_cause_identified == verify_root_cause_identified

-----------------------------------------------------------------------------
\* Valid through the instant of expiry; Null never expires
ValidAt(expires, now) == expires # Null => expires >= now

\* ORDER BY effective_date DESC: the latest active agreement, without a date first
verify_nda_status(rows, now) ==
    LET active == {r \in rows : r.status = "active"}
        first == IF \E r \in active : r.effective = Null THEN {r \in active : r.effective = Null}
                 ELSE {r \in active : \A s \in active : s.effective <= r.effective}
    IN  {r # Null /\ ValidAt(r.expires, now) : r \in IF first = {} THEN {Null} ELSE first}

require_nda_valid(rows, now) == verify_nda_status(rows, now)

verify_clean_team_membership(row) == row # Null /\ row = "active"
require_clean_team_for_competitive_intel(row) == verify_clean_team_membership(row)

require_legal_review_complete(rows) == "completed" \in rows

\* Completed reviews come first, those without a date last
verify_privileged_review_complete(row) == row # Null /\ row \in {"complete", "waived"}
require_appeal_exhausted(row) == row # Null /\ row \notin {"pending", "available"}
require_proceedings_closed(row) == row # Null /\ row \notin {"open", "stayed"}
verify_appeal_channel_available(row) == row # Null

require_processor_terms_verified(row, now) == row # Null /\ row.status = "verified" /\ ValidAt(row.expires, now)

\* Not found, in progress, expired or complete, whatever else the status says
verify_bias_assessment_complete(row, now) == row # Null /\ row.status # "in_progress" /\ ValidAt(row.expires, now)

require_bias_assessment_documented(rows) == "complete" \in rows
require_human_review_present(rows) == "completed" \in rows
verify_human_review_complete(row) == row # Null /\ row # "pending"

require_human_review_for_high_risk(risk, reviews) ==
    risk # Null /\ (risk \in {"high", "critical"} => "approved" \in reviews)

\* The comparison is recorded as evidence when the configuration exists.
verify_same_tool(expected, actual) == [passed |-> expected # Null /\ expected = actual, evidence |-> expected # Null]

-----------------------------------------------------------------------------

\* contains is Null without a registry row
require_pii_classification(contains, target) == contains # Null /\ (contains => target > 1)
require_pci_classification(contains, target) == contains # Null /\ (contains => target > 2)
require_phi_classification(contains, target) == contains # Null /\ (contains => target > 2)
require_data_classification_assigned(level) == level # Null

\* The standards by strength are 0..4; a channel that is encrypted with no standard passes.
meets_minimum(standard, minimum) == standard >= minimum

require_encrypted_transmission(channel, minimum) ==
    /\ channel # Null /\ channel.status = "encrypted"
    /\ channel.standard # Null => meets_minimum(channel.standard, minimum)

require_limited_audience(level, unlimited) ==
    unlimited => level # Null /\ level <= 2

require_internal_publication(restriction) == restriction = Null \/ restriction = "none"

\* Exempt without a schedule, and under hold however late
require_retention_compliance(row, now) == row = Null \/ row.hold \/ ValidAt(row.expires, now)

verify_data_minimization(allowed, requested) == allowed = Null \/ requested \subseteq allowed
verify_purpose_limitation(row, use) == row # Null /\ (use = row.purpose \/ use \in row.allowed)

-----------------------------------------------------------------------------
PROHIBITED_DESTINATIONS == {"CU", "IR", "KP", "SY"}
CountryCodes == {"CU", "IR", "KP", "SY", "GB", "KR"}
COUNTRY_ALIASES == [UK |-> "GB", DPRK |-> "KP", NORTH_KOREA |-> "KP", KOREA |-> "KR"]

Normalized(country) == IF country \in DOMAIN COUNTRY_ALIASES THEN COUNTRY_ALIASES[country] ELSE country

validate_destination_country(country) ==
    [valid |-> Normalized(country) \in CountryCodes,
     prohibited |-> Normalized(country) \in CountryCodes /\ Normalized(country) \in PROHIBITED_DESTINATIONS]

\* Compares the code as it is given
require_allowed_destination(country) == country \notin PROHIBITED_DESTINATIONS

require_export_clearance(cleared, destination) == cleared # Null /\ (cleared # "" => cleared = destination)

check_military_end_use_license_obtained(row, now) == row # Null /\ ValidAt(row.expires, now)

\* A full chain for a full chain, no older than the validity; lists are the ones that cleared.
check_enhanced_government_screening_complete(row, full, now, validity) ==
    /\ row # Null /\ (row.at # Null => row.at >= now - validity)
    /\ full => row.full
    /\ {"ofac", "entity", "denied", "unverified", "debarred"} \subseteq row.lists

\* Nothing is cleared, approved or authorized outside the mock mode.
verify_ofac_clearance(mock) == mock
verify_bis_approval(mock) == mock
verify_itar_authorization(mock) == mock

HoldNext ==
    \/ \E type \in ResourceTypes : hold_placed(type)
    \/ \E i \in DOMAIN holds : hold_released(i)
    \/ \E c \in LegalClients : resource_deleted(c) \/ \E type \in ResourceTypes \cup {Null} : require_deletion_clearance(c, type)

LockNext == LegalTick \/ \E criteria \in SUBSET {"x", "y"} : lock_criteria(criteria)

IncidentNext ==
    \/ \E value \in IncidentStatuses : incident_written("status", value)
    \/ \E value \in ContainmentStatuses : incident_written("containment", value)
    \/ \E value \in {"pending", "verified", "failed", "not_applicable"} : incident_written("verification", value)
    \/ \E value \in {"identified", "in_progress", "unknown", "not_applicable"} : incident_written("cause", value)

-----------------------------------------------------------------------------
\* A hold that was in force when a clearance was given, and has not been released since, never
\* covers what was deleted with the clearance, however many holds came and went; a hold placed
\* after the clearance is not noticed.
HeldIsNotDeleted ==
    \A d \in deletions : \A i \in 1..d.seen :
        (holds[i].status = "active") => (d.type # Null /\ holds[i].type # d.type)

\* The three questions about holds have consistent answers: a resource that may be modified may
\* be deleted, and a deletion of a type is cleared exactly when no hold of the type is found.
HoldAnswersAgree ==
    /\ require_modification_clearance => \A type \in ResourceTypes : DeletionClear(type)
    /\ DeletionClear(Null) <=> require_modification_clearance
    /\ \A type \in ResourceTypes \cup {Null} : require_legal_hold_active(type) <=> ~DeletionClear(type)

\* Every lock of criteria can be checked afterwards: its hash is the one of its own criteria and
\* time, and two locks of the same criteria at different times are told apart.
LocksAreDistinct ==
    \A i, j \in DOMAIN locks :
        (locks[i].hash = locks[j].hash) <=> (locks[i].criteria = locks[j].criteria /\ locks[i].locked_at = locks[j].locked_at)

\* The gates of an incident are ordered: what passes the last gate passes the first, and a
\* requirement never passes where the verification it rests on fails.
IncidentGatesNest ==
    /\ require_incident_closed => require_incident_declared
    /\ require_root_cause_identified => verify_root_cause_identified
    /\ (incident.status = Null) => ~require_incident_declared

\* Protection is ordered: a stricter classification, a stronger standard, a narrower audience or
\* a smaller request never turns a passing check into a refusal; health and card data need at
\* least what personal data needs, and more than an internal classification; a code has one
\* answer whichever phrase is asked, aliases resolved first.
ProtectionOrdered ==
    legalNow = 1 =>
    /\ \A target \in 1..3 :
          /\ require_pii_classification(TRUE, target) => require_pii_classification(TRUE, target + 1)
          /\ require_phi_classification(TRUE, target) => target > 2 /\ require_pii_classification(TRUE, target)
          /\ require_pci_classification(TRUE, target) <=> require_phi_classification(TRUE, target)
    /\ \A standard \in 0..3, minimum \in 0..4 :
          require_encrypted_transmission([status |-> "encrypted", standard |-> standard], minimum) =>
              require_encrypted_transmission([status |-> "encrypted", standard |-> standard + 1], minimum)
    /\ \A level \in 1..4 \cup {Null} : require_limited_audience(level, TRUE) => require_limited_audience(level, FALSE)
    /\ \A allowed, requested, smaller \in SUBSET {"a", "b"} :
          (verify_data_minimization(allowed, requested) /\ smaller \subseteq requested) => verify_data_minimization(allowed, smaller)
    /\ \A country \in CountryCodes : validate_destination_country(country).prohibited <=> ~require_allowed_destination(country)
    /\ \A alias \in DOMAIN COUNTRY_ALIASES :
          validate_destination_country(alias).prohibited <=> ~require_allowed_destination(Normalized(alias))
=============================================================================
