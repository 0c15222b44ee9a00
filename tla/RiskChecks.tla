------------------------------ MODULE RiskChecks ------------------------------
(***************************************************************************)
(* Scope, identity, justification and controls: what was agreed on is kept  *)
(* as a hash of a list, and what is present is compared with what is        *)
(* required.  A list of items is sorted before it is hashed, so a hash is   *)
(* the number of times each item occurs.  Present items come and go.        *)
(***************************************************************************)
EXTENDS Rows, Sequences

CONSTANTS
    Items,      \* targets, members, records, events, data types, controls
    MaxItems    \* bound: length of a list

VARIABLES
    manifest,   \* the hash of the agreed list, with its exclusions
    current,    \* the list as it is now
    agreed,     \* the list the manifest was made of
    required,   \* required controls, events or data types
    present     \* what the tables show as present

riskVars == <<manifest, current, agreed, required, present>>

RiskInit ==
    /\ manifest = Null /\ current = <<>> /\ agreed = <<>>
    /\ required = {} /\ present = {}

Sorted(list) == [x \in Items |-> Cardinality({i \in DOMAIN list : list[i] = x})]

ManifestHash(targets, exclusions) == <<"targets", Sorted(targets), "exclusions", Sorted(exclusions)>>

create_scope_manifest(exclusions) ==
    /\ manifest = Null
    /\ manifest' = ManifestHash(current, exclusions)
    /\ agreed' = current
    /\ UNCHANGED <<current, required, present>>

item_added(x, i) ==
    /\ Len(current) < MaxItems
    /\ current' = SubSeq(current, 1, i) \o <<x>> \o SubSeq(current, i + 1, Len(current))
    /\ UNCHANGED <<manifest, agreed, required, present>>

item_removed(i) ==
    /\ current' = SubSeq(current, 1, i - 1) \o SubSeq(current, i + 1, Len(current))
    /\ UNCHANGED <<manifest, agreed, required, present>>

\* The exclusions are not given, and hashed as none.
verify_scope_manifest(expected) == expected # Null /\ ManifestHash(current, <<>>) = expected

verify_dataset_snapshot_match(expected) == Sorted(current) = expected

verify_group_membership_snapshot(expected, baseline) ==
    [matches |-> Sorted(current) = expected, delta |-> IF baseline = Null THEN 0 ELSE Len(current) - baseline]

\* Targets are given and none of them is a word like "all"
verify_scope_definition(targets, vague) == targets # {} /\ targets \cap vague = {}

require_scope_valid(targets, vague) == verify_scope_definition(targets, vague)

\* An allowlist each, compared in lower case
verify_destination_allowed(item, allowlist) == item \in allowlist
verify_channel_allowed(item, allowlist) == item \in allowlist
check_environment_scope(item, allowlist) == item \in allowlist

\* Everything that is required was notified
verify_stakeholder_notification_complete(targets, notified) == targets \ notified = {}

derive_scope_minimization(requested, minimum) ==
    [minimal |-> requested \ minimum = {} /\ minimum \ requested = {},
     remove |-> requested \ minimum]

-----------------------------------------------------------------------------
requirement_changed(x) ==
    /\ required' = (required \ {x}) \cup ({x} \ required)
    /\ UNCHANGED <<manifest, current, agreed, present>>

present_changed(x) ==
    /\ present' = (present \ {x}) \cup ({x} \ present)
    /\ UNCHANGED <<manifest, current, agreed, required>>

\* Without a requirement a tool's controls are satisfied.
verify_required_controls_for_tool == required \ present = {}

\* A profile that exists; without required types it is valid
verify_sanitization_profile(profile) == profile /\ required \ present = {}

Percent(part, whole) == (100 * Cardinality(part)) \div Cardinality(whole)

\* unknown, minimal, partial and full equivalence are 0, 1, 2, 3.
_derive_coverage(logged, needed) ==
    IF needed = {} THEN 0
    ELSE CASE Percent(logged, needed) >= 100 -> 3
           [] Percent(logged, needed) >= 80 -> 2
           [] Percent(logged, needed) >= 50 -> 1
           [] OTHER -> 0

derive_compensating_logging_coverage ==
    IF required = {} \/ present = {} THEN 0 ELSE _derive_coverage(present \cap required, required)

\* weak, moderate, strong are 0, 1, 2; the vectors of the vulnerability are required, the
\* mitigated ones present.
_derive_strength(percent) == IF percent >= 80 THEN 2 ELSE IF percent >= 50 THEN 1 ELSE 0

assess_control_coverage ==
    IF required = {} THEN [strength |-> 0, gaps |-> 1]
    ELSE [strength |-> _derive_strength(Percent(required \cap present, required)),
          gaps |-> Cardinality(required \ present)]

\* inadequate, partial, equivalent are 0, 1, 2.
_derive_equivalence(score) == IF score >= 80 THEN 2 ELSE IF score >= 50 THEN 1 ELSE 0

\* In percent.  The score of a mapping row if there is one; else half for the shared vectors,
\* 30 for detection and 20 for automation, in tenths of the original control's, at most ten
derive_control_equivalence_score(mapping, detection, automation) ==
    IF mapping # Null THEN _derive_equivalence(mapping) ELSE
    LET score == (IF required = {} THEN 0 ELSE (50 * Cardinality(required \cap present)) \div Cardinality(required))
                 + 3 * detection + 2 * automation
    IN  _derive_equivalence(score)

\* A vulnerability of the KEV catalogue, or one with a known exploit
check_exploitability_status(kev, maturity) == kev \/ maturity \in {"weaponized", "poc"}

\* The four elements, and those the tenant requires besides
validate_business_justification(elements) ==
    {"reason", "impact", "plan", "owner"} \subseteq elements /\ required \ present = {}

require_justification_documented(elements) == validate_business_justification(elements)

\* Legal requirement, regulatory, business convenience, cosmetic: the class with most
\* indicators, the first of them on a tie, business convenience without any
classify_justification(found) ==
    IF \A k \in 1..4 : found[k] = 0 THEN 3
    ELSE CHOOSE k \in 1..4 : /\ \A j \in 1..4 : found[j] <= found[k]
                             /\ \A j \in 1..(k - 1) : found[j] < found[k]

\* A rule of the tenant that matches the text overrides both the class and the escalation.
requires_escalation(found, rule) ==
    IF rule # Null THEN rule ELSE classify_justification(found) \in {3, 4}

\* The tenant's rows, else the built-in table, else a default that requires evidence and
\* escalates
RowsTableOrDefault(rows, table, key) ==
    IF rows # {} THEN rows ELSE IF key \in DOMAIN table THEN table[key] ELSE {"default"}

map_reason_code_to_evidence(rows, table, key) == RowsTableOrDefault(rows, table, key)
map_waiver_reason_to_evidence(rows, table, key) == RowsTableOrDefault(rows, table, key)
require_type_specific_evidence(rows, table, key) == RowsTableOrDefault(rows, table, key)

-----------------------------------------------------------------------------
SensitivityRisk == [public |-> 0, internal |-> 1, confidential |-> 2, restricted |-> 3, pii |-> 3, phi |-> 4, pci |-> 4]
ScopeTypeModifier == [read |-> 0, write |-> 1, delete |-> 2, admin |-> 3, bulk_export |-> 3]

\* low, medium, high, critical are 0..3.
_calculate_risk_level(total) == IF total >= 6 THEN 3 ELSE IF total >= 4 THEN 2 ELSE IF total >= 2 THEN 1 ELSE 0

\* An unknown scope is high.
assess_scope_risk_level(sensitivity, type, breadth) ==
    IF sensitivity = Null THEN 2
    ELSE _calculate_risk_level(SensitivityRisk[sensitivity] + ScopeTypeModifier[type]
                               + (IF breadth > 1000 THEN 2 ELSE IF breadth > 100 THEN 1 ELSE 0))

\* none, basic, strong, hardware are 0..3.
_determine_posture_from_factors(factors) ==
    IF factors = {} THEN 0 ELSE IF "fido2" \in factors THEN 3 ELSE IF Cardinality(factors) >= 2 THEN 2 ELSE 1

verify_strong_auth_posture(factors, needed) == _determine_posture_from_factors(factors) >= needed

require_strong_auth(factors, needed) == verify_strong_auth_posture(factors, needed)

verify_assurance_equivalent(source, target) ==
    [equivalent |-> source >= target, gap |-> IF target > source THEN target - source ELSE 0]

\* The attestation row found, its expiry included
verify_idp_posture_attestation(row, needed, now) ==
    row # Null /\ (row.expires_at # Null => row.expires_at >= now) /\ row.level >= needed

\* untrusted, standard, elevated, system are 0..3.
_determine_trust_level(source, method) ==
    IF source = "system" /\ method = "mtls" THEN 3
    ELSE IF method \in {"mtls", "oauth_strong"} THEN 2 ELSE IF method \in {"oauth", "session"} THEN 1 ELSE 0

verify_request_source_authenticated(row, now) ==
    IF row = Null THEN 0
    ELSE IF row.expires_at # Null /\ row.expires_at < now THEN 0 ELSE _determine_trust_level(row.source, row.method)

\* Without a certificate row the level is 0.
get_ca_level(stored) == IF stored = Null THEN 0 ELSE IF stored < 1 THEN 0 ELSE IF stored > 3 THEN 3 ELSE stored

ManifestNext ==
    \/ \E exclusions \in {<<>>} \cup {<<x>> : x \in Items} : create_scope_manifest(exclusions)
    \/ \E x \in Items, i \in 0..Len(current) : item_added(x, i)
    \/ \E i \in DOMAIN current : item_removed(i)

ControlNext == \E x \in Items : requirement_changed(x) \/ present_changed(x)

-----------------------------------------------------------------------------
Reordered == Sorted(current) = Sorted(agreed)

\* Snapshots find drift: after any sequence of insertions and removals a manifest made without
\* exclusions verifies exactly when the same targets are there the same number of times in
\* whatever order, a data set or group with the hash of the agreed list is that list, and a
\* membership that matches has no member more or less.
DriftIsFound ==
    manifest # Null =>
        /\ manifest[4] = Sorted(<<>>) => (verify_scope_manifest(manifest) <=> Reordered)
        /\ verify_dataset_snapshot_match(manifest[2]) <=> Reordered
        /\ LET group == verify_group_membership_snapshot(manifest[2], Len(agreed))
           IN  group.matches <=> Reordered /\ (group.matches => group.delta = 0)

\* What is present only helps: adding a control, event or vector never weakens coverage, strength, equivalence
\* or a requirement that was met, and full coverage means that nothing required is missing.
MoreIsNotWeaker ==
    (present # present' /\ present \subseteq present' /\ required' = required) =>
       /\ derive_compensating_logging_coverage <= derive_compensating_logging_coverage'
       /\ assess_control_coverage.strength <= assess_control_coverage'.strength
       /\ assess_control_coverage.gaps >= assess_control_coverage'.gaps
       /\ derive_control_equivalence_score(Null, 10, 0) <= derive_control_equivalence_score(Null, 10, 0)'
       /\ verify_required_controls_for_tool => verify_required_controls_for_tool'
       /\ derive_compensating_logging_coverage = 3 => verify_required_controls_for_tool /\ assess_control_coverage.gaps = 0

Factors == {"password", "totp", "fido2"}

\* The scores are monotone: a further authentication factor never lowers the posture, a more
\* sensitive or wider scope never lowers the risk, and a justification with strictly more legal
\* than convenience indicators is not escalated for the latter.
ScoresMonotone ==
    present = Items =>
    /\ \A f \in SUBSET Factors, x \in Factors, needed \in 0..3 :
          require_strong_auth(f, needed) => require_strong_auth(f \cup {x}, needed)
    /\ require_strong_auth({"fido2"}, 3) /\ ~require_strong_auth(Factors \ {"fido2"}, 3)
    /\ \A s, t \in DOMAIN SensitivityRisk, y \in DOMAIN ScopeTypeModifier, b, c \in {1, 100, 101, 1000, 1001} :
          (SensitivityRisk[s] <= SensitivityRisk[t] /\ b <= c) =>
              assess_scope_risk_level(s, y, b) <= assess_scope_risk_level(t, y, c)
    /\ \A found \in [1..4 -> 0..2] :
          /\ (\A k \in 1..4 : found[k] = 0) => requires_escalation(found, Null)
          /\ requires_escalation(found, Null) =>
                (\A k \in 1..4 : found[k] = 0) \/ \E k \in {3, 4} : found[k] > found[1] /\ found[k] > found[2]
    /\ \A source, target \in 1..3 : LET a == verify_assurance_equivalent(source, target) IN a.equivalent <=> a.gap = 0
=============================================================================
