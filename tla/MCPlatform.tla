------------------------------ MODULE MCPlatform ------------------------------
(* The platform's services for TLC: each behaviour runs one part, chosen in the
   initial state, while the other parts rest.                                   *)
EXTENDS EnginePool, Metering, Caches, MerkleBatch, CharterExecution, RuntimeChecks, PolicyEvaluation, SchemaMigration, TLC

CONSTANTS Parts, u1, u2, s1, s2

MCUserRole == [u \in {u1, u2} |-> IF u = u1 THEN "hr" ELSE "svp"]

MCLeafHashes == {<<"a">>, <<"b">>, <<"c">>}

\* Charters to compile: three phases with any dependencies, one phase with one more
\* require, and slips of every other kind in an otherwise sound charter.
PhaseRef(p) == [kind |-> "phase", name |-> p]
Written(deps) == [p \in 1..3 |-> SelectSeq([q \in 1..4 |-> PhaseRef(q)], LAMBDA r : r.name \in deps[p])]
Sound(requires) ==
    [requires |-> requires, actions |-> [p \in 1..3 |-> IF p = 1 THEN <<>> ELSE <<"act">>], triggers |-> {"t"},
     outputs |-> {}, ttl |-> 0, packages |-> {"k"}, policies |-> {}, waiting |-> <<0, 5>>, roleActions |-> {"act"}]
Shapes == {Sound(Written(deps)) : deps \in [1..3 -> SUBSET (1..3)]}
Extra == {PhaseRef(1), PhaseRef(4), [kind |-> "feature", name |-> "gate"], [kind |-> "feature", name |-> "dictgate"],
          [kind |-> "feature", name |-> "absent"], [kind |-> "feature", name |-> "foreign"],
          [kind |-> "builtin", name |-> "all_phases_passed"], [kind |-> "await", name |-> "t"], [kind |-> "await", name |-> "u"]}
Chain == Sound(Written(<<{}, {1}, {1}>>))
MCCharters ==
    Shapes
    \cup {[c EXCEPT !.requires[p] = Append(@, x)] :
            c \in {Sound(Written(deps)) : deps \in [1..3 -> SUBSET (1..2)]}, p \in {2, 3}, x \in Extra}
    \cup {[Chain EXCEPT !.ttl = t] : t \in {-1, 1, 1440, 1441}}
    \cup {[Chain EXCEPT !.waiting = w] : w \in {<<-1, 5>>, <<5, 4>>, <<5, 5>>}}
    \cup {[Chain EXCEPT !.actions[2] = <<a>>] : a \in {"act", "absent", "foreign", "nosuch"}}
    \cup {[Chain EXCEPT !.packages = k] : k \in {{}, {"k", "other"}}}
    \cup {[Chain EXCEPT !.policies = {"x"}], [Chain EXCEPT !.roleActions = {"sign"}], [Chain EXCEPT !.outputs = {"T"}]}
MCPackagePhrases == [k \in {"k"} |-> {"act", "gate", "dictgate", "absent", "nosuch"}]

\* Policies with at most one link to another, of two priorities and two scopes.
MCJurisdictions == <<"US-NYC", "US">>
Links == {<<{}, {}>>} \cup {<<{p}, {}>> : p \in 1..3} \cup {<<{}, {p}>> : p \in 1..3}
MCEntryChoices ==
    {[priority |-> n, jurisdictions |-> j, from |-> 0, until |-> 0, prerequisites |-> l[1], excludes |-> l[2]] :
        n \in {0, 1}, j \in {{}, {"US-NYC"}}, l \in Links}
    \cup {[priority |-> 1, jurisdictions |-> {"US-CA"}, from |-> 0, until |-> 0, prerequisites |-> {}, excludes |-> {1}],
          [priority |-> 1, jurisdictions |-> {}, from |-> -1, until |-> -1, prerequisites |-> {}, excludes |-> {1}]}

Answer(kind, allow, passed) == [kind |-> kind, allow |-> allow, passed |-> passed]
MCDecisionAnswers ==
    {Answer(k, "absent", "absent") : k \in {"error", "undefined", "true", "object"}}
    \cup {Answer("object", a, "true") : a \in {"absent", "true", "false", "undefined", "mixed"}}

\* Data sources: three with any dependencies, and some that repeat one.
SourceSpec(kinds, required, deps) ==
    [s \in 1..3 |-> [type |-> kinds[s], required |-> s \in required, requires |-> SetToSeq(deps[s])]]
MCSourcePlans ==
    LET plain == {SourceSpec(k, r, d) : k \in {<<"evidence", "evidence", "derived">>, <<"evidence", "derived", "derived">>},
                                        r \in {{1, 2, 3}, {3}}, d \in [1..3 -> SUBSET (1..3)]}
    IN  plain \cup {[p EXCEPT ![s].requires = <<1, 1>>] : p \in {SourceSpec(<<"evidence", "evidence", "derived">>, {1, 2, 3}, d) :
                                                                d \in [1..3 -> {{}, {2}}]}, s \in {2, 3}}

\* Schemas of two tables; the second refers to the first, and one object of it
\* varies at a time, with one schema in which the first refers to the second.
Object(t, k, n, d) == [table |-> t, kind |-> k, name |-> n, def |-> d]
Column(t, n, ty, null) == Object(t, "column", n, [type |-> ty, nullable |-> null, default |-> 0])
On(n, ref) == [columns |-> {n}, ref |-> ref]
Table(t) == {Object(t, "table", t, "table"), Column(t, "id", 1, FALSE)}
Variants(k) == {{}, {Object(2, k, k, On("id", 1))}, {Object(2, k, k, On("x", 1))}}
MCDesiredSchemas ==
    LET pair == Table(1) \cup Table(2) \cup {Column(2, "x", 1, TRUE)}
        full == pair \cup {Object(2, k, k, On("x", 1)) : k \in {"fk", "index", "check", "unique", "trigger"}}
    IN  {Table(1), pair, full, Table(1) \cup Table(2), pair \cup {Object(1, "fk", "fk", On("id", 2))},
         Table(1) \cup Table(2) \cup {Column(2, "x", 2, FALSE)}}
        \cup {pair \cup v : v \in UNION {Variants(k) : k \in {"fk", "index", "check", "trigger"}}}

VARIABLE part

mcVars == <<part, poolVars, meterVars, cacheVars, registryVars, sliVars, budgetVars, merkleVars, execVars, inboxVars, roleVars, situationVars, resolutionVars, evaluationVars, dataVars, migrationVars>>

\* All parts but the one that moves stay as they are.
Only(own) ==
    /\ UNCHANGED part
    /\ IF own = "pool" THEN TRUE ELSE UNCHANGED poolVars
    /\ IF own = "flush" THEN TRUE ELSE UNCHANGED flushVars
    /\ IF own = "quota" THEN TRUE ELSE UNCHANGED quotaVars
    /\ IF own = "cache" THEN TRUE ELSE UNCHANGED cacheVars
    /\ IF own = "registry" THEN TRUE ELSE UNCHANGED registryVars
    /\ IF own = "sli" THEN TRUE ELSE UNCHANGED sliVars
    /\ IF own = "budget" THEN TRUE ELSE UNCHANGED budgetVars
    /\ IF own = "merkle" THEN TRUE ELSE UNCHANGED merkleVars
    /\ IF own = "charter" THEN TRUE ELSE UNCHANGED execVars
    /\ IF own = "inbox" THEN TRUE ELSE UNCHANGED inboxVars
    /\ IF own = "roles" THEN TRUE ELSE UNCHANGED roleVars
    /\ IF own = "situations" THEN TRUE ELSE UNCHANGED situationVars
    /\ IF own = "resolution" THEN TRUE ELSE UNCHANGED resolutionVars
    /\ IF own = "evaluation" THEN TRUE ELSE UNCHANGED evaluationVars
    /\ IF own = "data" THEN TRUE ELSE UNCHANGED dataVars
    /\ IF own = "migration" THEN TRUE ELSE UNCHANGED migrationVars

PlatformInit == part \in Parts /\ PoolInit /\ MeterInit /\ QuotaInit /\ CacheInit /\ RegistryInit /\ SliInit /\ BudgetInit /\ MerkleInit /\ ExecInit /\ InboxInit /\ RoleInit /\ SituationInit /\ ResolutionInit /\ EvaluationInit /\ DataInit /\ MigrationInit

PlatformNext ==
    \/ part = "pool" /\ PoolNext /\ Only("pool")
    \/ part = "flush" /\ MeterNext /\ Only("flush")
    \/ part = "quota" /\ QuotaNext /\ Only("quota")
    \/ part = "cache" /\ CacheNext /\ Only("cache")
    \/ part = "registry" /\ RegistryNext /\ Only("registry")
    \/ part = "sli" /\ SliNext /\ Only("sli")
    \/ part = "budget" /\ BudgetNext /\ Only("budget")
    \/ part = "merkle" /\ MerkleNext /\ Only("merkle")
    \/ part = "charter" /\ ExecNext /\ Only("charter")
    \/ part = "inbox" /\ InboxNext /\ Only("inbox")
    \/ part = "roles" /\ RoleNext /\ Only("roles")
    \/ part = "situations" /\ SituationNext /\ Only("situations")
    \/ part = "resolution" /\ ResolutionNext /\ Only("resolution")
    \/ part = "evaluation" /\ EvaluationNext /\ Only("evaluation")
    \/ part = "data" /\ DataNext /\ Only("data")
    \/ part = "migration" /\ MigrationNext /\ Only("migration")

PlatformSpec ==
    /\ PlatformInit /\ [][PlatformNext]_mcVars
    /\ \A b \in Borrowers : WF_poolVars(part = "pool" /\ BorrowerStep(b))
    /\ WF_poolVars(part = "pool" /\ (Drain \/ PutBack))
    /\ WF_execVars(part = "charter" /\ \E p \in Phases : BeginPhase(p))
    /\ \A p \in Phases : WF_execVars(part = "charter" /\ \E a \in {"satisfied", "unsatisfied", "raises"} : PhraseReturns(p, a))

(* The figures the platform reports are what they stand for: percentiles, error budgets,
   inclusion proofs and the root of a batch.                                    *)
FiguresExact == PercentileExact /\ BudgetExact /\ ProofsExact /\ RootDeterminesBatch

(* Whoever borrows an engine gives it back, also while policies are added, and the
   workflow of an accepted charter runs to its end, also after failures.        *)
PlatformProgresses == CheckoutEnds /\ WorkflowEnds
=============================================================================
