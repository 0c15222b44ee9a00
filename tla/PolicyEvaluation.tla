-------------------------- MODULE PolicyEvaluation --------------------------
(* From the policies on file to one decision: the resolver that picks and orders
   the policies of a request (canon utils/opa/resolver.py), the decoder that reads
   the rule engine's answers (utils/opa/decoder.py), the policy engine that
   evaluates them one after the other and aggregates (utils/opa/engine.py,
   types.py), and the orchestrator that prepares the input document
   (utils/opa/orchestrator.py).

   An answer of the rule engine is "error" (the query raised), "undefined", "true",
   "false", "mixed" (several booleans that differ) or "other"; a decision may also
   be an object.                                                               *)
EXTENDS Integers, Sequences, FiniteSets, SequencesExt, TLC

CONSTANTS
    NumPolicies, EntryChoices, \* the index: what the n-th policy may say
    Jurisdictions,             \* of the request, the most specific first
    DecisionAnswers, RuleAnswers, MaxEvaluated

Enforcements == {"hard_mandatory", "soft_mandatory", "advisory"}

VARIABLES
    index,     \* the policy index, in the order of addition
    evaluated  \* the results of the policies evaluated so far, with the answers read

resolutionVars == <<index>>
evaluationVars == <<evaluated>>

ResolutionInit == index = <<>>
EvaluationInit == evaluated = <<>>

AddPolicy(entry) == Len(index) < NumPolicies /\ index' = Append(index, entry)

ResolutionNext == \E entry \in EntryChoices : AddPolicy(entry)

-----------------------------------------------------------------------------
(* Resolution.  A policy's id is its place in the index.                        *)

applies_to_jurisdiction(e) == e.jurisdictions = {} \/ e.jurisdictions \cap ToSet(Jurisdictions) # {}

\* _compute_specificity, as far as jurisdictions go.
_compute_specificity(e) ==
    Max({0} \cup {Len(Jurisdictions) - i + 1 : i \in {j \in 1..Len(Jurisdictions) : Jurisdictions[j] \in e.jurisdictions}})

\* is_effective: both ends of the period are in it.
is_effective(e) == e.from <= 0 /\ 0 <= e.until

\* Stages 1 to 5: applicable, in force, and left on by the charter (which names the
\* policies it enables, or none for all, and those it disables).
Candidates(charterIds, disabled) ==
    {p \in 1..Len(index) :
        /\ applies_to_jurisdiction(index[p]) /\ is_effective(index[p])
        /\ charterIds = {} \/ p \in charterIds
        /\ p \notin disabled}

\* The sort is stable: what ties keeps the order of the index.
Precedes(p, q) ==
    LET a == index[p] b == index[q] IN
    \/ a.priority > b.priority
    \/ a.priority = b.priority /\ _compute_specificity(a) > _compute_specificity(b)
    \/ a.priority = b.priority /\ _compute_specificity(a) = _compute_specificity(b) /\ p < q

\* A policy excludes what comes after it, unless it is excluded itself.
RECURSIVE DropExcluded(_, _)
DropExcluded(order, excluded) ==
    IF order = <<>> THEN <<>>
    ELSE IF Head(order) \in excluded THEN DropExcluded(Tail(order), excluded)
    ELSE <<Head(order)>> \o DropExcluded(Tail(order), excluded \cup index[Head(order)].excludes)

Prerequisites(p, kept) == index[p].prerequisites \cap ToSet(kept)

RECURSIVE KahnPolicies(_, _, _)
KahnPolicies(kept, queue, done) ==
    IF queue = <<>> THEN done
    ELSE LET grown == Append(done, Head(queue))
             freed == SelectSeq(kept, LAMBDA p : /\ Head(queue) \in Prerequisites(p, kept)
                                                 /\ Prerequisites(p, kept) \subseteq ToSet(grown))
         IN  KahnPolicies(kept, Tail(queue) \o freed, grown)

\* _topological_sort: with a cycle the order of precedence stays.
SortByPrerequisites(kept) ==
    LET sorted == KahnPolicies(kept, SelectSeq(kept, LAMBDA p : Prerequisites(p, kept) = {}), <<>>)
    IN  IF Len(sorted) = Len(kept) THEN sorted ELSE kept

_resolve_precedence(candidates) == DropExcluded(SetToSortSeq(candidates, Precedes), {})

ResolvePolicies(charterIds, disabled) == SortByPrerequisites(_resolve_precedence(Candidates(charterIds, disabled)))

-----------------------------------------------------------------------------
(* Decoding and evaluation *)

\* decode_bool: undefined is False, anything that is not one boolean an error.
decode_bool(answer) ==
    CASE answer = "undefined" -> "false"
      [] answer \in {"true", "false"} -> answer
      [] OTHER -> "invalid"

\* decode_decision of an object: `allow`, or else `passed`, or else a contract error.
decode_decision(object) ==
    CASE object.allow # "absent" -> decode_bool(object.allow)
      [] object.allow = "absent" /\ object.passed # "absent" -> decode_bool(object.passed)
      [] OTHER -> "invalid"

\* decode_policy: a decision object is final, also when it breaks the contract;
\* otherwise the rule decides.  A query that raised leaves None, which is undefined.
decode_policy_FallsBack(decision, rule) ==
    IF decision.kind = "object" /\ decode_decision(decision) # "invalid"
    THEN decode_decision(decision) = "true"
    ELSE decode_bool(IF rule = "error" THEN "undefined" ELSE rule) = "true"

decode_policy(decision, rule) ==
    IF decision.kind = "object" THEN decode_decision(decision) = "true"
    ELSE decode_bool(IF rule = "error" THEN "undefined" ELSE rule) = "true"

\* evaluate_single and _evaluate_sync: if both queries came to nothing and one of
\* them raised, the evaluation failed, and a failed evaluation is a denial.
evaluate_single(decision, rule) ==
    LET nothing == decision.kind \in {"error", "undefined"} /\ rule \in {"error", "undefined"}
        raised == decision.kind = "error" \/ rule = "error"
    IN  IF nothing /\ raised THEN FALSE ELSE decode_policy(decision, rule)

EvaluatePolicy(enforcement, decision, rule) ==
    /\ Len(evaluated) < MaxEvaluated
    /\ evaluated' = Append(evaluated, [allowed |-> evaluate_single(decision, rule), enforcement |-> enforcement,
                                       decision |-> decision, rule |-> rule])

EvaluationNext ==
    \E enforcement \in Enforcements, decision \in DecisionAnswers, rule \in RuleAnswers :
        EvaluatePolicy(enforcement, decision, rule)

is_blocking(r) == ~r.allowed /\ r.enforcement \in {"hard_mandatory", "soft_mandatory"}

\* AggregatedResult.from_results: every policy is evaluated, also after a denial.
from_results(results) ==
    [allowed |-> \A i \in 1..Len(results) : ~is_blocking(results[i]),
     blocking |-> Cardinality({i \in 1..Len(results) : is_blocking(results[i])}),
     advisory |-> Cardinality({i \in 1..Len(results) : ~results[i].allowed /\ results[i].enforcement = "advisory"})]

-----------------------------------------------------------------------------
Charters2 == {<<{}, {}>>, <<{}, {1}>>, <<{1, 2}, {}>>}

RECURSIVE Needs(_, _)
Needs(from, kept) ==
    LET more == from \cup UNION {Prerequisites(p, kept) : p \in from}
    IN  IF more = from THEN from ELSE Needs(more, kept)

(* What the resolver hands on is complete and in order: a candidate is left out
   only if one that is kept, and that takes precedence over it, excludes it; and
   unless the kept prerequisites run in a circle, every policy comes after its
   own.                                                                        *)
ResolutionSound ==
    \A c \in Charters2 :
        LET candidates == Candidates(c[1], c[2])
            result == ResolvePolicies(c[1], c[2])
            position == [p \in ToSet(result) |-> CHOOSE i \in 1..Len(result) : result[i] = p]
            circular == \E p \in ToSet(result) : p \in Needs(Prerequisites(p, result), result)
        IN  /\ ToSet(result) \subseteq candidates /\ Len(result) = Cardinality(ToSet(result))
            /\ \A p \in candidates \ ToSet(result) :
                \E q \in ToSet(result) : Precedes(q, p) /\ p \in index[q].excludes
            /\ \A p, q \in ToSet(result) : q \in index[p].prerequisites /\ ~circular => position[q] < position[p]

Definite(r) ==
    CASE r.decision.kind = "object" /\ r.decision.allow # "absent" -> r.decision.allow = "true"
      [] r.decision.kind = "object" /\ r.decision.allow = "absent" -> r.decision.passed = "true"
      [] OTHER -> r.rule = "true"

(* Evaluation fails closed: a request is allowed only if every mandatory policy
   gave a definite yes - errors, undefined rules, contradictory or malformed
   answers of the engine never let a request through - and one blocking failure
   refuses it whatever was evaluated before or after.                          *)
FailsClosed ==
    LET total == from_results(evaluated) IN
    /\ total.allowed <=> \A i \in 1..Len(evaluated) :
                            Definite(evaluated[i]) \/ evaluated[i].enforcement = "advisory"
    /\ total.blocking + total.advisory = Cardinality({i \in 1..Len(evaluated) : ~Definite(evaluated[i])})

-----------------------------------------------------------------------------
(* The input document: the data sources of a policy are planned in two waves, base
   sources and derived ones, and a wave is run layer by layer, the sources of a
   layer in parallel.  An orchestrator keeps what it fetched, and answers the next
   request from that.  A value is the number of the request it was fetched for, 0
   is None.                                                                    *)

CONSTANTS Sources, SourcePlans, MaxRequests

VARIABLES
    specs,     \* the sources' type, whether required, and the sources they require
    request,   \* the request being served
    building,  \* "idle", "base", "derived", "built", "cyclic", "failed" or "deadlock"
    running,   \* the sources of the layer in flight
    completed, \* the sources of the wave that ran, with or without success
    failed,    \* those of the layer that raised
    doc,       \* the document: what each source put in it
    requestCache

dataVars == <<specs, request, building, running, completed, failed, doc, requestCache>>

DataInit ==
    /\ specs = <<>> /\ request = 0 /\ building = "idle" /\ running = {}
    /\ completed = {} /\ failed = {} /\ doc = <<>> /\ requestCache = <<>>

Requires(plan, s) == ToSet(plan[s].requires) \cap Sources

RECURSIVE Reached(_, _)
Reached(plan, from) ==
    LET more == from \cup UNION {Requires(plan, s) : s \in from}
    IN  IF more = from THEN from ELSE Reached(plan, more)

\* The depth-first search finds a cycle wherever a source needs itself.
_detect_cycle(plan) == \E s \in Sources : s \in Reached(plan, Requires(plan, s))

Wave(plan, kind) == {s \in Sources : (plan[s].type = "derived") = (kind = "derived")}

\* The degree counts a dependency as often as it is written, and a dependency
\* lowers it once: a source that names one twice is never placed.
InDegreeOf(plan, wave, s) == Len(SelectSeq(plan[s].requires, LAMBDA d : d \in wave))

RECURSIVE Placed(_, _, _)
Placed(plan, wave, done) ==
    LET more == done \cup {s \in wave : Cardinality(Requires(plan, s) \cap done) = InDegreeOf(plan, wave, s)}
    IN  IF more = done THEN done ELSE Placed(plan, wave, more)

PlannedWave(plan, kind) == Placed(plan, Wave(plan, kind), {})

\* build_input: a cycle anywhere is refused before anything is fetched.
build_input(plan) ==
    /\ building \in {"idle", "built", "failed"} /\ request < MaxRequests
    /\ request' = request + 1
    /\ specs' = plan
    /\ building' = IF _detect_cycle(plan) THEN "cyclic" ELSE "base"
    /\ doc' = [s \in Sources |-> -1] /\ completed' = {} /\ failed' = {}
    /\ UNCHANGED <<running, requestCache>>

Remaining == PlannedWave(specs, building) \ completed

Internal(s) == Requires(specs, s) \cap PlannedWave(specs, building)

\* _execute_wave: the sources whose dependencies in this wave have run.
Ready == {s \in Remaining : Internal(s) \subseteq completed}

StartLayer ==
    /\ building \in {"base", "derived"} /\ running = {} /\ Remaining # {}
    /\ failed \cap {s \in Sources : specs[s].required} = {}
    /\ IF Ready = {} THEN building' = "deadlock" /\ UNCHANGED running
       ELSE running' = Ready /\ UNCHANGED building
    /\ failed' = {}
    /\ UNCHANGED <<specs, request, completed, doc, requestCache>>

\* _execute_one: from the cache, or fetched - an error, a timeout, None or a value;
\* None from a required source is an error.
execute_one(s, value) ==
    /\ s \in running
    /\ IF s \in DOMAIN requestCache
       THEN doc' = [doc EXCEPT ![s] = requestCache[s]] /\ UNCHANGED <<failed, requestCache>>
       ELSE IF value < 0 \/ (value = 0 /\ specs[s].required)
       THEN failed' = failed \cup {s} /\ UNCHANGED <<doc, requestCache>>
       ELSE doc' = [doc EXCEPT ![s] = value] /\ requestCache' = (s :> value) @@ requestCache /\ UNCHANGED failed
    /\ running' = running \ {s} /\ completed' = completed \cup {s}
    /\ UNCHANGED <<specs, request, building>>

\* The layer is over: a required source that failed ends the request; after the
\* last layer of the base sources come the derived ones.
EndLayer ==
    /\ building \in {"base", "derived"} /\ running = {}
    /\ LET fatal == failed \cap {s \in Sources : specs[s].required} # {} IN
       /\ fatal \/ Remaining = {}
       /\ building' = IF fatal THEN "failed" ELSE IF building = "base" THEN "derived" ELSE "built"
    /\ failed' = {}
    /\ UNCHANGED <<specs, request, running, completed, doc, requestCache>>

DataNext ==
    \/ request < MaxRequests /\ \E plan \in (IF request = 0 THEN SourcePlans ELSE {specs}) : build_input(plan)
    \/ StartLayer \/ EndLayer
    \/ \E s \in running, value \in {-1, 0, request} : execute_one(s, value)

-----------------------------------------------------------------------------
RepeatsADependency(s) == Cardinality(ToSet(specs[s].requires)) < Len(specs[s].requires)

(* Sources that need, in their own wave, one that repeats a dependency.          *)
Unplaced == {s \in Sources : \E r \in {s} \cup Reached(specs, Requires(specs, s)) : RepeatsADependency(r)}

(* A document is handed on only with a value for every required source, save one
   whose plan repeats a dependency (or that needs such a one); and no plan without
   a cycle ever comes to a layer with nothing to run.                          *)
InputComplete ==
    /\ building # "deadlock"
    /\ building = "built" => \A s \in Sources \ Unplaced : specs[s].required => doc[s] > 0

(* A source is fetched only after those of its wave that it requires, and a derived
   source after all base sources, however the sources of a layer finish.       *)
SourcesInOrder ==
    \A s \in running :
        /\ Requires(specs, s) \cap PlannedWave(specs, building) \subseteq completed
        /\ building = "derived" => PlannedWave(specs, "base") \subseteq completed

(* A decision rests on all it should: the policies that apply, in order; a definite yes
   of each mandatory one; and a document with every required value, fetched in order. *)
DecisionsWellFounded == ResolutionSound /\ FailsClosed /\ InputComplete /\ SourcesInOrder
=============================================================================
