----------------------------- MODULE PolicyChecks -----------------------------
(***************************************************************************)
(* The questions the policy vocabulary answers about one policy: whether it *)
(* is in force, which version is current, what it decides, whether an       *)
(* exception overrides it, and the risk tier of a decision.  The rows are   *)
(* written by other code; two versions of the definition are enough to tell *)
(* the queries apart.                                                       *)
(***************************************************************************)
EXTENDS Rows

CONSTANTS
    PredicateValues,   \* values a predicate of a conditional policy may have
    PolicyTimes        \* instants of the clock and of effective periods

VARIABLES
    definitions,   \* versions 1 and 2, in the order of creation, Null when absent
    policyNow

policyCheckVars == <<definitions, policyNow>>

DefinitionRows ==
    [status : {"draft", "active", "retired"}, from : {Null} \cup PolicyTimes, until : {Null} \cup PolicyTimes]

PolicyCheckRest == definitions = <<Null, Null>> /\ policyNow = 1

PolicyCheckInit ==
    /\ definitions = <<Null, Null>>
    /\ policyNow \in PolicyTimes

\* Created, activated, retired or given another period by other code
definition_changed(v, row) ==
    /\ (v = 2) => (definitions[1] # Null)
    /\ definitions' = [definitions EXCEPT ![v] = row]
    /\ UNCHANGED policyNow

-----------------------------------------------------------------------------
Versions == {v \in 1..2 : definitions[v] # Null}
ActiveVersions == {v \in Versions : definitions[v].status = "active"}
Last(S) == CHOOSE v \in S : \A w \in S : w <= v

\* The row created last, whatever its status; the last instant is included.
require_policy_active ==
    /\ Versions # {}
    /\ LET row == definitions[Last(Versions)]
       IN  /\ row.status = "active"
           /\ row.from # Null => policyNow >= row.from
           /\ row.until # Null => policyNow <= row.until

\* The last instant is not included.
InPeriod(row) ==
    /\ row.from # Null => row.from <= policyNow
    /\ row.until # Null => row.until > policyNow

ClassificationOrder == [public |-> 1, internal |-> 2, confidential |-> 3, restricted |-> 4]

\* The WHERE clause (resource_types is another list like action_types), then the filter on
\* classification and kind of actor; what a policy leaves out applies to all.
get_applicable_policies(policy, request) ==
    {v \in ActiveVersions :
        /\ InPeriod(definitions[v])
        /\ request.jurisdiction # Null => policy.jurisdiction \in {Null, "*", request.jurisdiction}
        /\ request.action # Null /\ policy.actions # {} => {request.action, "*"} \cap policy.actions # {}
        /\ policy.classification # Null /\ request.classification # Null =>
              ClassificationOrder[policy.classification] <= ClassificationOrder[request.classification]
        /\ policy.actors # {} /\ request.actor # Null => request.actor \in policy.actors}

\* ORDER BY version DESC among the active ones
require_policy_version_current(v) == ActiveVersions # {} /\ v = Last(ActiveVersions)

\* A deny reason outweighs allow.
evaluate_policy(allow, deny_reasons) == IF allow /\ deny_reasons = {} THEN "allow" ELSE "deny"

require_policy_pass(allow, deny_reasons) == evaluate_policy(allow, deny_reasons) # "deny"

\* conditions[k] is the set of accepted values; a predicate that is not given is passed over.
PredicatesFailed(conditions, predicates) ==
    {k \in DOMAIN conditions : k \in DOMAIN predicates /\ predicates[k] \notin conditions[k]}

evaluate_conditional_policy(conditions, predicates, allow, deny_reasons) ==
    IF ActiveVersions = {} \/ PredicatesFailed(conditions, predicates) # {} THEN Null
    ELSE evaluate_policy(allow, deny_reasons)

\* A general exception, or one that names the subject, the resource or the action asked about
ExceptionApplies(row, asked) ==
    \/ row.subject = Null /\ row.resource = Null /\ row.action = Null
    \/ \E k \in {"subject", "resource", "action"} : asked[k] # Null /\ row[k] = asked[k]

verify_policy_not_overridden(exceptions, asked) ==
    ~\E row \in exceptions : /\ row.expires_at # Null => row.expires_at > policyNow
                             /\ ExceptionApplies(row, asked)

Tier == [low |-> 1, medium |-> 2, high |-> 3]

\* Mutant: exactly three pieces of evidence make the tier high.
derive_risk_tier_Exactly(type, evidence) ==
    IF type = "high" \/ Cardinality(evidence) = 3 \/ \E e \in evidence : e[1] = "grave" THEN "high"
    ELSE IF type = "medium" THEN "medium" ELSE "low"

\* type is the class of the decision type, evidence a set of <<kind, id>>.
derive_risk_tier(type, evidence) ==
    IF type = "high" \/ Cardinality(evidence) >= 3 \/ \E e \in evidence : e[1] = "grave" THEN "high"
    ELSE IF type = "medium" THEN "medium" ELSE "low"

PolicyCheckNext == \E v \in 1..2, row \in DefinitionRows : definition_changed(v, row)

-----------------------------------------------------------------------------
AnyPolicy == [jurisdiction |-> Null, actions |-> {}, classification |-> Null, actors |-> {}]
AnyRequest == [jurisdiction |-> Null, action |-> Null, classification |-> Null, actor |-> Null]

\* The queries that say whether a policy is in force agree up to two documented edges.  A
\* policy require_policy_active accepts is among the applicable ones, except at the last
\* instant of its period; an applicable version is refused by require_policy_active only
\* when a newer version is not active; the current version is an active one; and an
\* applicable policy is always one evaluate_conditional_policy decides on.
InForceAgrees ==
    LET applicable == get_applicable_policies(AnyPolicy, AnyRequest)
        newest == Last(Versions)
    IN  /\ require_policy_active =>
              \/ newest \in applicable
              \/ definitions[newest].until = policyNow
        /\ (Versions # {} /\ newest \in applicable) => require_policy_active
        /\ (applicable # {} /\ ~require_policy_active) => newest \notin applicable
        /\ \A v \in Versions : require_policy_version_current(v) =>
              v \in ActiveVersions /\ \A w \in applicable : w <= v
        /\ applicable # {} => evaluate_conditional_policy(<<>>, <<>>, TRUE, {}) = "allow"

Keys == {"region", "level"}
Partial(S, T) == UNION {[D -> T] : D \in SUBSET S}

\* More information only narrows: another predicate can make a conditional policy
\* inapplicable but never applicable nor change what it decides, a request of a lower
\* classification never meets a policy a higher one does not, and an applicable policy decides what
\* evaluate_policy and require_policy_pass decide.
MoreInformationNarrows ==
    Versions # {} =>
    /\ \A conditions \in Partial(Keys, {{1}, {1, 2}}), predicates \in Partial(Keys, PredicateValues) :
          \A allow \in BOOLEAN, deny \in {{}, {"reason"}} :
              LET answer == evaluate_conditional_policy(conditions, predicates, allow, deny)
              IN  /\ answer # Null => (answer = "allow") <=> require_policy_pass(allow, deny)
                  /\ \A k \in Keys \ DOMAIN predicates, x \in PredicateValues :
                        evaluate_conditional_policy(conditions, (k :> x) @@ predicates, allow, deny) \in {answer, Null}
                  /\ \A k \in DOMAIN predicates : answer # Null =>
                        evaluate_conditional_policy(conditions, [j \in DOMAIN predicates \ {k} |-> predicates[j]], allow, deny) = answer
    /\ \A p, lo, hi \in DOMAIN ClassificationOrder : ClassificationOrder[lo] <= ClassificationOrder[hi] =>
          get_applicable_policies([AnyPolicy EXCEPT !.classification = p], [AnyRequest EXCEPT !.classification = lo])
          \subseteq get_applicable_policies([AnyPolicy EXCEPT !.classification = p], [AnyRequest EXCEPT !.classification = hi])

EvidenceRefs == {<<"plain", i>> : i \in 1..4} \cup {<<"grave", 1>>}

ExceptionRows ==
    [subject : {Null, "s"}, resource : {Null, "r"}, action : {Null}, expires_at : {Null} \cup PolicyTimes]

\* Evidence only raises the tier of a decision, and asking about more (a subject, a resource,
\* an action besides) only finds more exceptions to a policy, never fewer; a general exception
\* that has not expired is found whatever is asked.
RiskAndExceptionsMonotone ==
    Versions # {} =>
    /\ \A type \in {"low", "medium", "high"}, e \in SUBSET EvidenceRefs, x \in EvidenceRefs :
          /\ Tier[derive_risk_tier(type, e)] <= Tier[derive_risk_tier(type, e \cup {x})]
          /\ Tier[derive_risk_tier(type, e)] >= Tier[type]
    /\ \A row \in ExceptionRows, s \in {Null, "s", "t"}, r \in {Null, "r"} :
          LET asked == [subject |-> s, resource |-> r, action |-> Null]
              less == [asked EXCEPT !.resource = Null]
          IN  /\ verify_policy_not_overridden({row}, asked) => verify_policy_not_overridden({row}, less)
              /\ (row.subject = Null /\ row.resource = Null /\ row.expires_at = Null)
                    => ~verify_policy_not_overridden({row}, asked)
=============================================================================
