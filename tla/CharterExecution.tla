--------------------------- MODULE CharterExecution ---------------------------
(* A charter from its text to its execution: the semantic checks of the compiler
   (canon dsl/resolver.py, compiler.py) and the executor that runs the phases of a
   workflow as a graph of operations (canon hub/executor.py), as far as the flow
   engine lets it: a phase starts when the phases it names are done and a slot is
   free, and its statements run up to the next await without interruption.

   A phase is its number, and numbers sort as names do.  Its statements are its
   requires, in order, and then its actions.                                   *)
EXTENDS Integers, Sequences, FiniteSets, Functions

CONSTANTS
    NumPhases, ExecCharters, ExecConcurrency,
    KnownPackages, PackagePhrases, KnownFeatures, KnownPolicies,
    KnownTypes,     \* output types found in the declared schemas
    CallablePhrases, \* features whose package module really has the phrase
    DictPhrases     \* those whose callable answers with a dict

Phases == 1..NumPhases

\* A charter lists, for each phase, its requires and its actions.
IsCharter(c) ==
    \A p \in Phases :
        /\ c.requires[p] = [i \in 1..Len(c.requires[p]) |-> c.requires[p][i]] /\ Len(c.requires[p]) \in Nat
        /\ c.actions[p] = [i \in 1..Len(c.actions[p]) |-> c.actions[p][i]] /\ Len(c.actions[p]) \in Nat
        /\ \A i \in 1..Len(c.requires[p]) : c.requires[p][i].kind \in {"feature", "phase", "await", "builtin"}

ASSUME ExecAssumption == NumPhases \in Nat /\ \A c \in ExecCharters : IsCharter(c)

NoCharter == [requires |-> [p \in Phases |-> <<>>]]

VARIABLES
    charter,  \* the charter last compiled
    compiled, \* "none", "rejected" or "accepted"
    errors,   \* what the resolver objected to
    shared,   \* the results of the phases that ended: passed or not
    at,       \* the awaited statement of every running phase
    unmet     \* <<phase, require phrase>> for the phrases that reported "not satisfied"

execVars == <<charter, compiled, errors, shared, at, unmet>>

ExecInit ==
    /\ charter = NoCharter /\ compiled = "none" /\ errors = {}
    /\ shared = <<>> /\ at = <<>> /\ unmet = {}

-----------------------------------------------------------------------------
(* The compiler *)

PhaseRefs(c, p) == {i \in 1..Len(c.requires[p]) : c.requires[p][i].kind = "phase"}

_phase_dependencies(c, p) == {c.requires[p][i].name : i \in PhaseRefs(c, p)}

Dependents(c, d) == {p \in Phases : d \in _phase_dependencies(c, p)}

\* A phase counts every require that names a phase, also the same phase again.
InDegree(c) == [p \in Phases |-> Cardinality({i \in PhaseRefs(c, p) : c.requires[p][i].name \in Phases})]

\* sorted(): a set of phases in the order of their names.
InOrder(S) == CHOOSE s \in [1..Cardinality(S) -> S] : \A i, j \in 1..Cardinality(S) : i < j => s[i] < s[j]

\* Kahn's algorithm: one turn of the loop takes a phase from the queue.
KahnStep(c, k) ==
    LET node == Head(k.queue)
        left == [p \in Phases |-> IF p \in Dependents(c, node) THEN k.degree[p] - 1 ELSE k.degree[p]]
    IN  IF k.queue = <<>> THEN k
        ELSE [queue |-> Tail(k.queue) \o InOrder({p \in Dependents(c, node) : left[p] = 0}),
              order |-> Append(k.order, node), degree |-> left]

KahnStart(c) ==
    [queue |-> InOrder({p \in Phases : InDegree(c)[p] = 0}), order |-> <<>>, degree |-> InDegree(c)]

\* Where the loop is after n turns.
Kahn(c) ==
    LET after[n \in 0..NumPhases] == IF n = 0 THEN KahnStart(c) ELSE KahnStep(c, after[n - 1])
    IN  after

_topological_sort(c) == Kahn(c)[NumPhases].order

Allowed(c) == UNION {PackagePhrases[k] : k \in c.packages \cap KnownPackages}

\* _resolve_feature_call: a phrase of no declared package is reported as that only.
_resolve_feature_call(c, feature) ==
    IF Allowed(c) # {} /\ feature \notin Allowed(c) THEN {"undeclared_phrase"}
    ELSE IF feature \notin KnownFeatures THEN {"unknown_feature"} ELSE {}

_resolve_require(c, ref) ==
    CASE ref.kind = "feature" -> _resolve_feature_call(c, ref.name)
      [] ref.kind = "phase" -> IF ref.name \in Phases THEN {} ELSE {"unknown_phase"}
      [] ref.kind = "await" -> IF ref.name \in c.triggers THEN {} ELSE {"unknown_trigger"}
      [] ref.kind = "builtin" -> {}

\* _resolve_phase: requires, actions, outputs and the grants' lifetimes (0: none given).
_resolve_phase(c, p) ==
    (UNION {_resolve_require(c, c.requires[p][i]) : i \in 1..Len(c.requires[p])})
    \cup (UNION {_resolve_feature_call(c, c.actions[p][i]) : i \in 1..Len(c.actions[p])})
    \cup (IF c.outputs \subseteq KnownTypes THEN {} ELSE {"unknown_schema"})
    \cup (IF c.ttl = 0 \/ c.ttl \in 1..1440 THEN {} ELSE {"grant_ttl"})

_resolve_workflow(c) ==
    (UNION {_resolve_phase(c, p) : p \in Phases})
    \cup (IF Len(_topological_sort(c)) = NumPhases THEN {} ELSE {"cyclic"})

_collect_action_names(c) == UNION {Range(c.actions[p]) : p \in Phases}

\* Resolver.resolve.
resolve(c) ==
    (IF c.packages \subseteq KnownPackages THEN {} ELSE {"unknown_package"})
    \cup (IF c.policies \subseteq KnownPolicies THEN {} ELSE {"unknown_policy"})
    \cup _resolve_workflow(c)
    \cup (IF 0 <= c.waiting[1] /\ c.waiting[1] <= c.waiting[2] THEN {} ELSE {"waiting_period"})
    \cup (IF c.roleActions \subseteq _collect_action_names(c) THEN {} ELSE {"invalid_role"})

compile_charter(c) ==
    /\ charter' = c
    /\ errors' = resolve(c)
    /\ compiled' = IF errors' = {} THEN "accepted" ELSE "rejected"
    /\ UNCHANGED <<shared, at, unmet>>

-----------------------------------------------------------------------------
(* The executor *)

Statements(p) ==
    charter.requires[p] \o [i \in 1..Len(charter.actions[p]) |-> [kind |-> "action", name |-> charter.actions[p][i]]]

\* Does statement s call a phrase, and so await?  A require whose phrase is missing
\* is taken as met when the charter was compiled; an action fails without awaiting.
Awaits(s) == s.kind \in {"feature", "action"} /\ s.name \in CallablePhrases

\* _eval_require and _exec_action, where nothing is awaited.
Holds(s) ==
    CASE s.kind = "phase" -> s.name \in DOMAIN shared /\ shared[s.name]
      [] s.kind = "builtin" -> s.name = "all_phases_passed" => \A p \in DOMAIN shared : shared[p]
      [] s.kind = "action" -> FALSE
      [] OTHER -> TRUE

\* Where phase p stops when it runs on from statement i: at the first one that
\* awaits or fails.
Stops(p, i) == {j \in i..Len(Statements(p)) : Awaits(Statements(p)[j]) \/ ~Holds(Statements(p)[j])}

\* Runs phase p from statement i on: 0 is a failed gate, a number past the last
\* statement a passed phase, any other the statement now awaited.
Advance(p, i) ==
    LET first == CHOOSE j \in Stops(p, i) : \A k \in Stops(p, i) : j <= k
    IN  IF Stops(p, i) = {} THEN Len(Statements(p)) + 1
        ELSE IF Awaits(Statements(p)[first]) THEN first ELSE 0

\* The factory of a phase ends with its result in `shared`, whatever happened.
Settle(p, i) ==
    IF i \in 1..Len(Statements(p))
    THEN at' = [q \in DOMAIN at \cup {p} |-> IF q = p THEN i ELSE at[q]] /\ UNCHANGED shared
    ELSE /\ at' = [q \in DOMAIN at \ {p} |-> at[q]]
         /\ shared' = [q \in DOMAIN shared \cup {p} |-> IF q = p THEN i # 0 ELSE shared[q]]

Dependencies(p) == _phase_dependencies(charter, p)

BeginPhase_Any(p) ==
    /\ compiled = "accepted" /\ p \notin DOMAIN at \cup DOMAIN shared
    /\ Cardinality(DOMAIN at) < ExecConcurrency
    /\ Settle(p, Advance(p, 1))
    /\ UNCHANGED <<charter, compiled, errors, unmet>>

\* flow runs the operation of phase p once those it depends on are done.
BeginPhase(p) ==
    /\ compiled = "accepted" /\ p \notin DOMAIN at \cup DOMAIN shared
    /\ Dependencies(p) \subseteq DOMAIN shared
    /\ Cardinality(DOMAIN at) < ExecConcurrency
    /\ Settle(p, Advance(p, 1))
    /\ UNCHANGED <<charter, compiled, errors, unmet>>

\* The awaited phrase answers.  Only an answer that is a dict is looked at.
PhraseReturns(p, answer) ==
    /\ p \in DOMAIN at
    /\ LET s == Statements(p)[at[p]]
           gate == s.kind = "feature" /\ answer = "unsatisfied"
       IN  /\ Settle(p, IF answer = "raises" \/ (gate /\ s.name \in DictPhrases) THEN 0
                        ELSE Advance(p, at[p] + 1))
           /\ unmet' = IF gate THEN unmet \cup {<<p, s.name>>} ELSE unmet
    /\ UNCHANGED <<charter, compiled, errors>>

ExecNext ==
    \/ compiled = "none" /\ \E c \in ExecCharters : compile_charter(c)
    \/ \E p \in Phases : BeginPhase(p)
    \/ \E p \in Phases, answer \in {"satisfied", "unsatisfied", "raises"} : PhraseReturns(p, answer)

ExecSpec == ExecInit /\ [][ExecNext]_execVars

Executed == DOMAIN shared = Phases

-----------------------------------------------------------------------------
\* Phases each of which requires another of them, or itself.
Cyclic(c) == \E S \in (SUBSET Phases) \ {{}} : \A p \in S : _phase_dependencies(c, p) \cap S # {}

\* A phase names one phase in two of its requires.
Repeats(c) ==
    \E p \in Phases : \E i, j \in PhaseRefs(c, p) :
        i # j /\ c.requires[p][i].name = c.requires[p][j].name /\ c.requires[p][i].name \in Phases

(* The compiler reports no charter with a cycle among its phases as sound, and one
   without only if a phase names another twice; and the phase order of a charter
   it accepts names every phase after those it requires, which is what lets the
   executor build the graph in that order.                                     *)
CompileExact ==
    compiled # "none" /\ shared = <<>> /\ at = <<>> =>
        /\ "cyclic" \in errors <=> Cyclic(charter) \/ Repeats(charter)
        /\ compiled = "accepted" =>
            LET order == _topological_sort(charter) IN
            /\ Range(order) = Phases /\ Len(order) = NumPhases
            /\ \A i \in 1..NumPhases : Dependencies(order[i]) \subseteq {order[j] : j \in 1..(i - 1)}

(* A phase runs only when all phases it requires have ended, whatever ran in
   parallel, and no phase passes - or runs an action - unless they all passed:
   the failure of a phase reaches everything that requires it. A phase does not
   pass either once a phrase it requires answered, in a dict, that it is not
   satisfied.                                                                  *)
RequiredPhasesPassed ==
    /\ \A p \in DOMAIN at \cup DOMAIN shared : Dependencies(p) \subseteq DOMAIN shared
    /\ \A p \in DOMAIN shared : shared[p] => \A d \in Dependencies(p) : shared[d]
    /\ \A p \in DOMAIN at :
        Statements(p)[at[p]].kind = "action" => \A d \in Dependencies(p) : shared[d]
    /\ \A u \in unmet : u[2] \in DictPhrases => u[1] \in DOMAIN shared /\ ~shared[u[1]]

(* A workflow of an accepted charter runs to its end: every phase gets a result,
   also after failures, as the executor's factories answer for every error.    *)
WorkflowEnds == (compiled = "accepted") ~> Executed

(* A charter that compiles can be executed in its phase order, and executing it keeps to
   that order: a phase runs after those it requires and passes only if they did. *)
ExecutionFollowsCharter == CompileExact /\ RequiredPhasesPassed
=============================================================================
