------------------------------- MODULE MCChecks -------------------------------
(* The checking phrases: each vocabulary by itself, the others at rest; and what   *)
(* holds of them side by side, for a charter that combines gates of several packages. *)
EXTENDS Timing, PolicyChecks, CoreChecks, AuthorizationChecks, FreshnessChecks, RiskChecks,
        GovernanceChecks, CorporateChecks, DocumentGrants, TLC

CONSTANTS Parts, p1, p2, d1, d2

\* Two phases of one run; the first grants two documents, one of them for a limited time
TwoPhaseGrants ==
    [p \in {p1, p2} |->
        IF p = p1 THEN {[doc |-> d1, timed |-> FALSE], [doc |-> d2, timed |-> TRUE]} ELSE {}]

Symmetry == Permutations(Users) \cup Permutations(LegalClients)

VARIABLE part

NotifiedParties == <<"Legal", "ER", "Audit">>

MCInit ==
    /\ part \in Parts
    /\ IF part = "timing" THEN TimingInit ELSE TimingRest
    /\ IF part = "policy" THEN PolicyCheckInit ELSE PolicyCheckRest
    /\ CoreInit /\ AuthInit /\ FreshInit /\ RiskInit /\ LegalInit /\ Init
    /\ IF part = "conditions" THEN CorporateInit ELSE CorporateRest

\* Every vocabulary other than this one is at rest.
Only(own) ==
    /\ IF own = "timing" THEN TRUE ELSE UNCHANGED timingVars
    /\ IF own = "policy" THEN TRUE ELSE UNCHANGED policyCheckVars
    /\ IF own = "core" THEN TRUE ELSE UNCHANGED coreVars
    /\ IF own = "auth" THEN TRUE ELSE UNCHANGED authVars
    /\ IF own = "fresh" THEN TRUE ELSE UNCHANGED freshVars
    /\ IF own = "risk" THEN TRUE ELSE UNCHANGED riskVars
    /\ IF own = "legal" THEN TRUE ELSE UNCHANGED legalVars
    /\ IF own = "corporate" THEN TRUE ELSE UNCHANGED corporateVars
    /\ IF own = "grants" THEN TRUE ELSE UNCHANGED vars
    /\ UNCHANGED part

MCNext ==
    \/ part = "timing" /\ TimingNext /\ Only("timing")
    \/ part = "policy" /\ PolicyCheckNext /\ Only("policy")
    \/ part = "core" /\ CoreNext /\ Only("core")
    \/ part = "delegation" /\ DelegationNext /\ Only("auth")
    \/ part = "approvals" /\ ApprovalNext /\ Only("auth")
    \/ part = "duties" /\ DutiesNext /\ Only("auth")
    \/ part = "pattern" /\ FreshNext /\ Only("fresh")
    \/ part = "scope" /\ ManifestNext /\ Only("risk")
    \/ part = "controls" /\ ControlNext /\ Only("risk")
    \/ part = "holds" /\ HoldNext /\ Only("legal")
    \/ part = "locks" /\ LockNext /\ Only("legal")
    \/ part = "incident" /\ IncidentNext /\ Only("legal")
    \/ part = "conditions" /\ ConditionNext /\ Only("corporate")
    \/ part = "deal" /\ DealNext /\ Only("corporate")
    \/ part = "deploy" /\ DeployNext /\ Only("corporate")
    \/ part = "grants" /\ Next /\ Only("grants")

MCSpec == MCInit /\ [][MCNext]_<<timingVars, policyCheckVars, coreVars, authVars, freshVars, riskVars,
                            legalVars, corporateVars, vars, part>>

-----------------------------------------------------------------------------
(* The gates side by side *)

\* The answer of each gate about a subject no table has a row for
WithNothingOnRecord ==
    [require_alternative_reviewed |-> require_alternative_reviewed,
     require_sox_compliance_review |-> require_sox_compliance_review,
     verify_values_match |-> verify_values_match(Null, "x"),
     require_fraud_screening_pass |-> require_fraud_screening_pass(Null, 0),
     require_provenance_documented |-> require_provenance_documented(Null, FALSE, FALSE),
     require_facts_schema_valid |-> require_facts_schema_valid({}, "v1", TRUE),
     verify_signature_valid |-> verify_signature_valid(Null, "ed25519", TRUE),
     verify_signer_identity |-> verify_signer_identity({}, "signer"),
     verify_approval_chain_complete |-> verify_approval_chain_complete(Null),
     require_release_clearance |-> require_release_clearance(Null, "top_secret"),
     require_access_justification |-> require_access_justification(Null),
     require_segregation_analysis |-> require_segregation_analysis(Null),
     check_er_clearance |-> check_er_clearance({}),
     require_scope_valid |-> require_scope_valid({}, {}),
     verify_destination_allowed |-> verify_destination_allowed("x", {}),
     verify_channel_allowed |-> verify_channel_allowed("x", {}),
     check_environment_scope |-> check_environment_scope("x", {}),
     verify_sanitization_profile |-> verify_sanitization_profile(FALSE),
     require_justification_documented |-> require_justification_documented({}),
     verify_idp_posture_attestation |-> verify_idp_posture_attestation(Null, 0, 0),
     require_nda_valid |-> TRUE \in require_nda_valid({}, 0),
     require_clean_team |-> require_clean_team_for_competitive_intel(Null),
     require_legal_review_complete |-> require_legal_review_complete({}),
     verify_privileged_review_complete |-> verify_privileged_review_complete(Null),
     require_appeal_exhausted |-> require_appeal_exhausted(Null),
     require_proceedings_closed |-> require_proceedings_closed(Null),
     verify_appeal_channel_available |-> verify_appeal_channel_available(Null),
     require_containment_verified |-> require_containment_verified,
     verify_containment_verified |-> verify_containment_verified,
     require_bias_assessment_documented |-> require_bias_assessment_documented({}),
     require_human_review_present |-> require_human_review_present({}),
     verify_human_review_complete |-> verify_human_review_complete(Null),
     require_human_review_for_high_risk |-> require_human_review_for_high_risk(Null, {"approved"}),
     verify_same_tool |-> verify_same_tool(Null, Null).passed,
     require_data_classification_assigned |-> require_data_classification_assigned(Null),
     require_internal_publication |-> require_internal_publication(Null),
     require_retention_compliance |-> require_retention_compliance(Null, 0),
     verify_data_minimization |-> verify_data_minimization(Null, {"a"}),
     verify_purpose_limitation |-> verify_purpose_limitation(Null, "a"),
     require_export_clearance |-> require_export_clearance(Null, "GB"),
     check_enhanced_screening |-> check_enhanced_government_screening_complete(Null, FALSE, 0, 0),
     verify_ofac_clearance |-> verify_ofac_clearance(FALSE),
     verify_bis_approval |-> verify_bis_approval(FALSE),
     verify_itar_authorization |-> verify_itar_authorization(FALSE),
     require_production_environment |-> require_production_environment(Null),
     verify_rollback_plan_present |-> verify_rollback_plan_present(Null, FALSE)]

\* A state of the deployment part, where the other tables are empty
NothingOnRecord == deployNow = 1 /\ approvalRows = <<>> /\ testRows = <<>>

\* The gates fail closed: about a subject without a record all of them refuse, but for the four
\* that ask whether something stands in the way (an open case, a restriction, a schedule, an
\* allowance of fields).  An empty history of actions counts as none.
GatesFailClosed ==
    NothingOnRecord =>
    /\ {gate \in DOMAIN WithNothingOnRecord : WithNothingOnRecord[gate]} =
          {"check_er_clearance", "require_internal_publication", "require_retention_compliance", "verify_data_minimization"}
    /\ \A days \in 0..Lookback :
          check_prior_bypasses(days) + check_prior_escalations(days) + check_prior_exemptions(days) = 0

ExpiringRow(expires) == [status |-> "verified", expires |-> expires, hold |-> FALSE]

\* Is a record with this expiry good now?  Each vocabulary compares for itself.
GoodUntil(expires) ==
    [licence |-> check_military_end_use_license_obtained(ExpiringRow(expires), authNow),
     processor |-> require_processor_terms_verified(ExpiringRow(expires), authNow),
     bias |-> verify_bias_assessment_complete(ExpiringRow(expires), authNow),
     retention |-> require_retention_compliance(ExpiringRow(expires), authNow),
     nda |-> TRUE \in verify_nda_status({[status |-> "active", effective |-> 0, expires |-> expires]}, authNow),
     posture |-> verify_idp_posture_attestation([expires_at |-> expires, level |-> 1], 1, authNow),
     source |-> verify_request_source_authenticated([expires_at |-> expires, source |-> "user", method |-> "oauth"], authNow) > 0,
     window |-> require_time_bounded_access([revoked |-> FALSE, starts_at |-> Null, expires_at |-> expires], 0, authNow),
     justification |-> require_access_justification([approved |-> TRUE, expires_at |-> expires])]

\* Expiry is the same in every vocabulary: a record is good up to and including the instant it
\* expires and without an expiry for ever; only an access justification is over at the instant
\* itself, when the access window it is for is still open.
ExpiryAgrees ==
    authNow > 0 /\ delegations = {} => \A expires \in Expiries :
        LET good == expires = Null \/ expires >= authNow
        IN  \A record \in DOMAIN GoodUntil(expires) :
                GoodUntil(expires)[record] <=> good /\ (record = "justification" => expires # authNow)

ReadRows == {0, 999, 1000, 9999, 10000, 99999, 100000}
Seconds == {0, 60, 61, 300, 301, 900, 901, 3600, 3601}

\* Levels and bands go one way, on both sides of every threshold: reading more rows never lowers
\* the band, and the band tells bulk queries apart; a longer recovery objective or lag, a
\* critical system or a missing backup never lowers the risk of data loss; a higher clearance
\* releases whatever a lower one does, and two levels that clear each other are the same.
LevelsOrdered ==
    NothingOnRecord =>
    /\ \A r, s \in ReadRows :
          /\ r <= s => derive_rows_read_band(r) <= derive_rows_read_band(s)
          /\ is_bulk_query(r) <=> derive_rows_read_band(r) >= 2
    /\ \A rpo, more \in Seconds, lag, later \in Seconds, critical \in BOOLEAN :
          (rpo <= more /\ lag <= later) =>
              /\ derive_data_loss_risk(TRUE, rpo, lag, critical) <= derive_data_loss_risk(FALSE, more, later, TRUE)
              /\ derive_data_loss_risk(TRUE, rpo, lag, critical) <= derive_data_loss_risk(TRUE, more, later, critical)
    /\ \A low, mid, high \in DOMAIN ClearanceLevel :
          /\ require_release_clearance(low, mid) /\ require_release_clearance(mid, high) => require_release_clearance(low, high)
          /\ require_release_clearance(low, mid) /\ require_release_clearance(mid, low) => low = mid
    /\ \A stored \in -1..5 :
          /\ get_ca_level(stored) \in 0..3 /\ get_ca_level(stored) <= get_ca_level(stored + 1)
          /\ get_ca_level(Null) <= get_ca_level(stored)
    /\ \A labels \in 1..5, second_level \in BOOLEAN :
          derive_subdomain_depth(labels, second_level) <= derive_subdomain_depth(labels + 1, second_level)
    /\ \A n, more, limit \in 0..2 : n <= more =>
          /\ derive_degraded_hours_last_30d(n, limit) => derive_degraded_hours_last_30d(more, limit)
          /\ derive_utilization_volatility(n, limit) => derive_utilization_volatility(more, limit)
          /\ verify_traffic_drained(more) => verify_traffic_drained(n)
    /\ \A fallback \in BOOLEAN : derive_write_acceptance_mode(FALSE, fallback) # derive_write_acceptance_mode(TRUE, fallback)
    /\ \A p, e \in BOOLEAN : derive_tag_risk_class(TRUE, p, e) = derive_tag_risk_class(TRUE, ~p, ~e)
    /\ \A current_days, requested, maximum \in 0..3 :
          LET e == derive_extension_days(current_days, requested, maximum)
          IN  /\ (e = Null) <=> requested < current_days
              /\ e # Null => e.exceeds = (requested > current_days + maximum)

\* What is on record only helps: one more review, notification, allowed use or category of
\* evidence never turns a gate that passed into a refusal, and one more sensitive category never
\* lifts the need for a clean team; evidence is always asked for, whatever the tables have.
RecordsOnlyHelp ==
    NothingOnRecord =>
    /\ \A rows \in SUBSET {"completed", "complete", "approved", "pending"} :
          \A more \in SUBSET {"completed", "complete", "approved", "pending"} : rows \subseteq more =>
              /\ require_legal_review_complete(rows) => require_legal_review_complete(more)
              /\ require_bias_assessment_documented(rows) => require_bias_assessment_documented(more)
              /\ require_human_review_present(rows) => require_human_review_present(more)
              /\ \A risk \in {"low", "high", "critical"} :
                    require_human_review_for_high_risk(risk, rows) => require_human_review_for_high_risk(risk, more)
    /\ \A requested, minimum, notified \in SUBSET {"a", "b"} :
          LET scope == derive_scope_minimization(requested, minimum)
          IN  /\ requested \ scope.remove \subseteq minimum
              /\ scope.minimal => verify_stakeholder_notification_complete(minimum, requested)
              /\ verify_stakeholder_notification_complete(requested, notified) =>
                    verify_stakeholder_notification_complete(requested, notified \cup minimum)
    /\ \A uses \in SUBSET {"a", "b"}, use \in {"a", "b"} :
          verify_purpose_limitation([purpose |-> "a", allowed |-> uses], use) =>
              verify_purpose_limitation([purpose |-> "a", allowed |-> uses \cup {"b"}], use)
    /\ \A categories \in SUBSET (CleanTeamTriggers \cup {"employee_compensation", "other"}) :
          /\ derive_clean_team_required(categories, FALSE) => derive_clean_team_required(categories, TRUE)
          /\ \A x \in CleanTeamTriggers : derive_clean_team_required(categories \cup {x}, FALSE)
    /\ \A rows \in SUBSET {"e1", "e2"}, key \in {"known", "unknown"} :
          LET table == [known |-> {"e3"}]
          IN  /\ map_reason_code_to_evidence(rows, table, key) # {}
              /\ map_waiver_reason_to_evidence(rows, table, key) # {}
              /\ require_type_specific_evidence(rows, table, key) # {}
    /\ \A last, at, cooldown \in 0..3 :
          (last <= at /\ check_dr_test_cooldown(last, at + 1, cooldown)) => check_dr_test_cooldown(last, at, cooldown)
    /\ \A completed, oldest, later \in 0..2 :
          verify_backup_complete(completed, oldest) => verify_backup_complete(completed + later, oldest)
    /\ \A kev \in BOOLEAN, maturity \in {"none", "poc", "weaponized"} :
          check_exploitability_status(kev, maturity) => check_exploitability_status(TRUE, maturity) /\ check_exploitability_status(kev, "weaponized")

-----------------------------------------------------------------------------
(* What the vocabularies have in common *)

\* Phrases that answer the same question from the same rows agree: on deliveries of a notice
\* (Timing), on policies in force, on audits and reviews, on approvals, on the age of a record,
\* on legal holds, and on expiry in every vocabulary.  Each conjunct states its documented edge.
PhrasesAgree ==
    DeliveryViewsAgree /\ InForceAgrees /\ AuditChecksAgree /\ ApprovalsAgree /\ AgesAgree
    /\ HoldAnswersAgree /\ ExpiryAgrees

\* What a phrase computes is what its definition says, on both sides of every boundary: business
\* days and statutory periods, amount bands, segregation of duties, access windows, look-back
\* windows, quarter ends, closing conditions and the latest approval.
ComputationsExact ==
    BusinessDaysExact /\ TimingBoundaries /\ BandIsExact /\ SeparationExact /\ AccessWindow
    /\ WindowsNest /\ DeadlinesExact /\ ConditionsAddUp /\ LatestDecisionCounts

\* With nothing on record the gates refuse, and from there more of what a phrase asks for moves its
\* answer one way: predicates, evidence and exceptions of a policy, factors and scopes of a score,
\* classifications, levels and bands, and records of any kind about the subject; the gates of an
\* incident are nested.
AnswersMonotone ==
    GatesFailClosed /\ MoreInformationNarrows /\ RiskAndExceptionsMonotone /\ ScoresMonotone
    /\ ProtectionOrdered /\ LevelsOrdered /\ RecordsOnlyHelp /\ IncidentGatesNest

\* What is done on the strength of a check stays within it, however requests interleave between
\* the check and the act: deletions and holds, guarded actions and their pattern threshold, the
\* parties told of a break-glass invocation, locks of criteria, and scopes that drift.
GuardedActionsCovered ==
    HeldIsNotDeleted /\ PatternIsBounded /\ BreakGlassIsAnnounced /\ LocksAreDistinct /\ DriftIsFound

\* No step opens a gate it has no business opening: adding a control weakens nothing, readiness of
\* a carve-out is lost only by taking a component back, and time alone opens no gate that closed.
StepsMoveOneWay == [][MoreIsNotWeaker /\ ReadyIsReal /\ AgeingIsFinal]_<<riskVars, corporateVars>>
=============================================================================
